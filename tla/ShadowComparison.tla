--------------------------- MODULE ShadowComparison ---------------------------
(***************************************************************************)
(* The comparison of the two fact sources behind the answers of the chat   *)
(* service in shadow mode (webhook/analytics_chat.py, fact_source.py): a   *)
(* request answered from the legacy view leaves a job for one background   *)
(* worker, which queries the dbt models, then the legacy view again, and   *)
(* reports whether the two compute the same. The facts change and the dbt  *)
(* models are rebuilt meanwhile, and the service may close.                *)
(***************************************************************************)
EXTENDS Integers, FiniteSets, Sequences

CONSTANTS
    Answerers,   \* request threads
    NoJob,
    Slots,       \* shadow_queue_size
    RowSets,     \* rows the query may return; the code compares their fingerprints
    NoRows,      \* None: the dbt models were not queried yet
    MaxChanges   \* changes of the facts that change what the query returns

(* The rows an answer was made from, and (history) how often they had changed. *)
Readings == [rows : RowSets, at : 0..MaxChanges]

(* A comparison on its way, with what the dbt models returned. *)
Job == [stage : {"queued", "dbt", "recheck"}, before : Readings,
        dbt : RowSets \cup {NoRows}]

ASSUME ComparisonAssumption ==
    /\ IsFiniteSet(Answerers)
    /\ Slots \in Nat \ {0}
    /\ MaxChanges \in Nat
    /\ NoJob \notin Job
    /\ NoRows \notin RowSets

VARIABLES
    snapshot,   \* configuration: shadow_snapshot_consistent
    faithful,   \* whether the dbt models compute what the legacy view does
    holds,      \* holds[a]: a has a slot and has not submitted its job
    seen,       \* seen[a]: the rows a's last answer was made from
    closing,    \* "no", "closed" (_closed is set), "shut" (executor shut down)
    free,       \* free slots of _shadow_slots
    jobs,       \* comparisons the executor has not started
    running,    \* the comparison it runs, or NoJob
    verdict,    \* last result reported by a comparison
    source,     \* what the query returns from the legacy view now
    built,      \* what it returned when the dbt models were last built
    changes,    \* history: how often source has changed
    moves       \* history: changes between the answer and the last verdict on it

comparisonVars == <<snapshot, faithful, holds, seen, closing, free, jobs, running,
                    verdict, source, built, changes, moves>>
configVars == <<snapshot, faithful>>
answerVars == <<holds, seen>>
sourceVars == <<source, built, changes>>

Verdicts == {"match", "transformation_mismatch", "inconclusive",
             "source_changed_during_comparison", "dbt_query_failed", "legacy_query_failed"}

ComparisonInit ==
    /\ snapshot \in BOOLEAN
    /\ faithful \in BOOLEAN
    /\ holds = [a \in Answerers |-> FALSE]
    /\ source \in RowSets
    /\ built = source
    /\ changes = 0
    /\ seen = [a \in Answerers |-> [rows |-> source, at |-> 0]]
    /\ closing = "no"
    /\ free = Slots
    /\ jobs = << >>
    /\ running = NoJob
    /\ verdict = "none"
    /\ moves = 0

(* _execute_compiled_analytics answers from the legacy view. *)
AnswerFromLegacy(a) ==
    /\ ~holds[a]
    /\ seen' = [seen EXCEPT ![a] = [rows |-> source, at |-> changes]]
    /\ UNCHANGED <<configVars, holds, closing, free, jobs, running, verdict, moves, sourceVars>>

(* _schedule_shadow_comparison takes a slot without waiting or gives up. *)
Schedule(a) ==
    /\ ~holds[a]
    /\ closing = "no"
    /\ free > 0
    /\ free' = free - 1
    /\ holds' = [holds EXCEPT ![a] = TRUE]
    /\ UNCHANGED <<configVars, seen, closing, jobs, running, verdict, moves, sourceVars>>

(* ... compiles the dbt statement and submits the job; when either fails the
   slot is given back. *)
SubmitSlip(a) ==
    /\ holds[a]
    /\ holds' = [holds EXCEPT ![a] = FALSE]
    /\ \/ /\ closing # "shut"
          /\ jobs' = Append(jobs, [stage |-> "queued", before |-> seen[a], dbt |-> NoRows])
       \/ UNCHANGED jobs
    /\ UNCHANGED <<configVars, seen, closing, free, running, verdict, moves, sourceVars>>

Submit(a) ==
    /\ holds[a]
    /\ holds' = [holds EXCEPT ![a] = FALSE]
    /\ \/ /\ closing # "shut"
          /\ jobs' = Append(jobs, [stage |-> "queued", before |-> seen[a], dbt |-> NoRows])
          /\ UNCHANGED free
       \/ /\ free' = free + 1
          /\ UNCHANGED jobs
    /\ UNCHANGED <<configVars, seen, closing, running, verdict, moves, sourceVars>>

StartComparison ==
    /\ running = NoJob
    /\ jobs # << >>
    /\ running' = [Head(jobs) EXCEPT !.stage = "dbt"]
    /\ jobs' = Tail(jobs)
    /\ UNCHANGED <<configVars, answerVars, closing, free, verdict, moves, sourceVars>>

(* The finally clause gives the slot back with whatever was found. *)
Report(result) ==
    /\ verdict' = result
    /\ moves' = changes - running.before.at
    /\ running' = NoJob
    /\ free' = free + 1

(* What the dbt models may return: what they were built from, or, when they compute
   something else, anything, the right rows too where the query does not touch the
   difference. With a common snapshot they are as recent as the legacy view. *)
DbtShows ==
    IF ~faithful THEN RowSets
    ELSE IF snapshot THEN {source} ELSE {built}

QueryDbt ==
    /\ running # NoJob
    /\ running.stage = "dbt"
    /\ \/ Report("dbt_query_failed")
       \/ /\ \E rows \in DbtShows :
                running' = [running EXCEPT !.stage = "recheck", !.dbt = rows]
          /\ UNCHANGED <<free, verdict, moves>>
    /\ UNCHANGED <<configVars, answerVars, closing, jobs, sourceVars>>

(* classify_shadow_comparison, given what the second legacy query returns. *)
ClassifyComparisonSlip(job, after) ==
    IF ~snapshot THEN "inconclusive"
    ELSE IF job.dbt = job.before.rows THEN "match" ELSE "transformation_mismatch"

ClassifyComparison(job, after) ==
    IF after # job.before.rows THEN "source_changed_during_comparison"
    ELSE IF ~snapshot THEN "inconclusive"
    ELSE IF job.dbt = job.before.rows THEN "match" ELSE "transformation_mismatch"

Recheck ==
    /\ running # NoJob
    /\ running.stage = "recheck"
    /\ \/ Report("legacy_query_failed")
       \/ Report(ClassifyComparison(running, source))
    /\ UNCHANGED <<configVars, answerVars, closing, jobs, sourceVars>>

(* An incident opens, moves on or closes; a result may return to what it was. *)
SourceChanges ==
    /\ changes < MaxChanges
    /\ changes' = changes + 1
    /\ source' \in RowSets \ {source}
    /\ UNCHANGED <<configVars, answerVars, closing, free, jobs, running, verdict, moves, built>>

DbtBuild ==
    /\ built # source
    /\ built' = source
    /\ UNCHANGED <<configVars, answerVars, closing, free, jobs, running, verdict, moves,
                   source, changes>>

(* close sets _closed, then shuts the executor down without waiting: what has
   not started is dropped, and its slots with it. *)
CloseService ==
    /\ closing = "no"
    /\ closing' = "closed"
    /\ UNCHANGED <<configVars, answerVars, free, jobs, running, verdict, moves, sourceVars>>

ShutExecutor ==
    /\ closing = "closed"
    /\ closing' = "shut"
    /\ jobs' = << >>
    /\ UNCHANGED <<configVars, answerVars, free, running, verdict, moves, sourceVars>>

ComparisonWorks == StartComparison \/ QueryDbt \/ Recheck

ComparisonNext ==
    \/ \E a \in Answerers : AnswerFromLegacy(a) \/ Schedule(a) \/ Submit(a)
    \/ ComparisonWorks
    \/ SourceChanges
    \/ DbtBuild
    \/ CloseService
    \/ ShutExecutor

ComparisonSpec == ComparisonInit /\ [][ComparisonNext]_comparisonVars

-----------------------------------------------------------------------------
(* Properties *)

ComparisonTypeOK ==
    /\ snapshot \in BOOLEAN
    /\ faithful \in BOOLEAN
    /\ holds \in [Answerers -> BOOLEAN]
    /\ seen \in [Answerers -> Readings]
    /\ closing \in {"no", "closed", "shut"}
    /\ free \in 0..Slots
    /\ jobs \in Seq(Job)
    /\ running \in Job \cup {NoJob}
    /\ verdict \in Verdicts \cup {"none"}
    /\ source \in RowSets
    /\ built \in RowSets
    /\ changes \in 0..MaxChanges
    /\ moves \in 0..MaxChanges

(* No slot is lost or given back twice until the executor is shut down: each is
   free or stands for one comparison on its way (analytics_chat.py:1037-1161). *)
SlotsConserved ==
    LET held == Len(jobs) + Cardinality({a \in Answerers : holds[a]})
                + (IF running = NoJob THEN 0 ELSE 1)
    IN  /\ free + held <= Slots
        /\ closing # "shut" => free + held = Slots

(* A comparison blames faithful dbt models only when the rows changed and changed
   back between the answer and the second legacy query: neither one change nor models
   that lag behind are taken for a mismatch (semantic/fact_source.py:104-127). *)
VerdictSound == verdict = "transformation_mismatch" /\ faithful => moves >= 2

=============================================================================
