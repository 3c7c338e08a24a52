---------------------------- MODULE AnalyticsChat ----------------------------
(***************************************************************************)
(* The chat service of webhook/analytics_chat.py: requests served by HTTP  *)
(* threads side by side (ask), the context each conversation keeps in      *)
(* memory or in Redis (storage/conversation.py), its deletion over HTTP    *)
(* (webhook/grafana.py), and how an answer is made of data and runbooks    *)
(* (rag/workflow.py).                                                      *)
(*                                                                         *)
(* A plan is reduced to its route, a result set to what classify_execution *)
(* tells apart, a context to the turn that produced it and whether it is   *)
(* about exactly one incident. One action is one call to the store; the    *)
(* work between two calls touches nothing shared and is one step. Requests *)
(* outside a conversation touch no state and are left out.                 *)
(***************************************************************************)
EXTENDS Integers, FiniteSets, Sequences

CONSTANTS
    Requests,         \* HTTP threads
    Conversations,    \* conversation identifiers
    Configs,          \* deployments to consider, a subset of AllConfigs
    None,
    MaxTurns,         \* requests made in all
    MaxEntries,       \* conversation_max_entries
    MaxStoreFaults    \* failing calls of the conversation store

AllConfigs ==
    [store : {"memory", "redis"},
     jev : {"off", "shadow", "enforce"},
     source : {"legacy", "dbt"},   \* shadow mode answers as legacy does
     rag : BOOLEAN]                \* runbook retrieval is configured

Contexts == [turn : 1..MaxTurns, single : BOOLEAN]

ASSUME ChatAssumption ==
    /\ None \notin Conversations \cup Contexts
    /\ Configs \subseteq AllConfigs
    /\ {MaxTurns, MaxEntries} \subseteq Nat \ {0}
    /\ MaxStoreFaults \in Nat

VARIABLES
    config,     \* the deployment
    stored,     \* stored[c]: context of conversation c, or None
    expired,    \* conversations whose stored context is past expires_at
    recent,     \* memory store: its keys, least recently used first
    req,        \* req[r]: the request thread r is serving
    turn,       \* requests begun so far
    faults,     \* failed store calls
    settled     \* history: settled[c], see ContextIsLastAnswer

chatVars == <<config, stored, expired, recent, req, turn, faults, settled>>
storeVars == <<stored, expired, recent>>

Verified == {"verified_results", "verified_empty"}
Unverified == {"cannot_verify", "degraded"}
Outcomes == Verified \cup Unverified \cup {"needs_clarification", "out_of_scope", "none"}

(* What a query returns, as far as an answer depends on it: no row, one
   incident, several, rows without the asked facts, more rows than the bound,
   and more than the bound with no match among those fetched. *)
Complete == {"empty", "single", "many"}
Overflowing == {"over", "hidden"}
RowClasses == Complete \cup {"incomplete"} \cup Overflowing


(* What a request ends with: its outcome, the queries it rests on, and whether
   their facts are those of one incident. *)
Results == [outcome : Outcomes, queries : SUBSET RowClasses, single : BOOLEAN]

RequestStates == {"idle", "read", "drop", "work", "clear", "remember", "finish"}

Nothing == [outcome |-> "none", queries |-> {}, single |-> FALSE]
Idle == [pc |-> "idle", conv |-> None, turn |-> 0, followup |-> FALSE, prior |-> None,
         result |-> Nothing, alone |-> FALSE]

Memory == config.store = "memory"

At(r, pc) == req[r].pc = pc
Go(r, pc) == req' = [req EXCEPT ![r].pc = pc]
Leave(r) == req' = [req EXCEPT ![r] = Idle]

InConversation(c) == {r \in Requests : req[r].conv = c}

ChatInit ==
    /\ config \in Configs
    /\ stored = [c \in Conversations |-> None]
    /\ expired = {}
    /\ recent = << >>
    /\ req = [r \in Requests |-> Idle]
    /\ turn = 0
    /\ faults = 0
    /\ settled = [c \in Conversations |-> 0]

-----------------------------------------------------------------------------
(* The conversation store *)

(* What is left of a list of keys, in its order, without some of them. *)
Without(seq, gone) ==
    LET left == {i \in DOMAIN seq : seq[i] \notin gone}
    IN  [n \in 1..Cardinality(left) |->
            seq[CHOOSE i \in left : Cardinality({j \in left : j < i}) = n - 1]]

(* delete of either store: forget the context of c. *)
Delete(c) ==
    /\ stored' = [stored EXCEPT ![c] = None]
    /\ expired' = expired \ {c}
    /\ recent' = Without(recent, {c})

(* The keys an insertion of c leaves in memory, oldest first, before and after
   the bound is applied. *)
QueueWith(c) == Append(Without(recent, expired \cup {c}), c)

KeptSlip(queue) == queue

Kept(queue) ==
    IF Len(queue) > MaxEntries
    THEN SubSeq(queue, Len(queue) - MaxEntries + 1, Len(queue)) ELSE queue

(* Conversations that lose their context to the insertion of c, the newest, in
   memory. *)
Evicted(c) ==
    IF Memory
    THEN {d \in Conversations \ {c} : \A i \in 1..Len(Kept(QueueWith(c))) : Kept(QueueWith(c))[i] # d}
    ELSE {}

(* setex of Redis, or the bounded insertion in memory. *)
Put(c, ctx) ==
    /\ stored' = [d \in Conversations |->
                     IF d \in Evicted(c) THEN None ELSE IF d = c THEN ctx ELSE stored[d]]
    /\ expired' = expired \ (Evicted(c) \cup {c})
    /\ recent' = IF Memory THEN Kept(QueueWith(c)) ELSE << >>

(* A call of Redis that raises; the wrappers turn it into ConversationStoreError. *)
StoreFault ==
    /\ ~Memory
    /\ faults < MaxStoreFaults
    /\ faults' = faults + 1

(* Redis may have done what it was asked when the call raises. *)
MayRaise == UNCHANGED faults \/ StoreFault

(* A request deletes the context of its conversation. *)
Forget(r) ==
    /\ Delete(req[r].conv)
    /\ settled' = [settled EXCEPT ![req[r].conv] = IF req[r].alone THEN 0 ELSE -1]

Expire(c) ==
    /\ stored[c] # None
    /\ c \notin expired
    /\ expired' = expired \cup {c}
    /\ settled' = [settled EXCEPT ![c] = 0]
    /\ UNCHANGED <<config, stored, recent, req, turn, faults>>

(* Redis drops a key when its own TTL, set together with expires_at, ends. *)
RedisDrops(c) ==
    /\ ~Memory
    /\ c \in expired
    /\ Delete(c)
    /\ UNCHANGED <<config, req, turn, faults, settled>>

(* DELETE /api/v1/chat?conversation_id=c: 200 when the delete went through. *)
DeleteEndpoint(c) ==
    /\ stored[c] # None
    /\ Delete(c)
    /\ req' = [r \in Requests |-> IF r \in InConversation(c)
                                  THEN [req[r] EXCEPT !.alone = FALSE] ELSE req[r]]
    /\ settled' = [settled EXCEPT ![c] = IF InConversation(c) = {} THEN 0 ELSE -1]
    /\ UNCHANGED <<config, turn, faults>>

-----------------------------------------------------------------------------
(* A request *)

(* ask: a question in conversation c; one that refers to an earlier incident
   needs a verified context. *)
Begin(r) ==
    /\ At(r, "idle")
    /\ turn < MaxTurns
    /\ turn' = turn + 1
    /\ \E c \in Conversations, followup \in BOOLEAN :
          req' = [q \in Requests |->
                    IF q = r THEN [Idle EXCEPT !.pc = "read", !.conv = c, !.turn = turn + 1,
                                               !.followup = followup,
                                               !.alone = (InConversation(c) = {})]
                    ELSE IF q \in InConversation(c) THEN [req[q] EXCEPT !.alone = FALSE]
                    ELSE req[q]]
    /\ UNCHANGED <<config, storeVars, faults, settled>>

(* _get_conversation in memory: one step under the lock. *)
ReadMemory(r) ==
    /\ At(r, "read") /\ Memory
    /\ LET c == req[r].conv
           prior == IF c \in expired THEN None ELSE stored[c]
           live == Without(recent, expired)
       IN  /\ recent' = IF prior = None THEN live ELSE Append(Without(live, {c}), c)
           /\ req' = [req EXCEPT ![r].pc = "work", ![r].prior = prior]
    /\ stored' = [d \in Conversations |-> IF d \in expired THEN None ELSE stored[d]]
    /\ expired' = {}
    /\ UNCHANGED <<config, turn, faults, settled>>

(* _get_conversation with Redis: an expired context is deleted by a second call. *)
ReadRedis(r) ==
    /\ At(r, "read") /\ ~Memory
    /\ LET c == req[r].conv IN
       req' = IF c \in expired THEN [req EXCEPT ![r].pc = "drop"]
              ELSE [req EXCEPT ![r].pc = "work", ![r].prior = stored[c]]
    /\ UNCHANGED <<config, storeVars, turn, faults, settled>>

DropExpired(r) ==
    /\ At(r, "drop")
    /\ Forget(r)
    /\ Go(r, "work")
    /\ UNCHANGED <<config, turn, faults>>

(* _conversation_store_failure: answered at once. *)
ReadFails(r) ==
    /\ \/ (At(r, "read") \/ At(r, "drop")) /\ UNCHANGED <<storeVars, settled>>
       \/ At(r, "drop") /\ Forget(r)
    /\ StoreFault
    /\ Leave(r)
    /\ UNCHANGED <<config, turn>>

(* An answer, on its way to the store: the data routes save first. *)
Answers(r, pc, results) ==
    /\ At(r, "work")
    /\ \E result \in results :
          req' = [req EXCEPT ![r].pc = pc, ![r].prior = None, ![r].followup = FALSE,
                             ![r].result = result]
    /\ UNCHANGED <<config, storeVars, turn, faults, settled>>

NoData(outcomes) == {[Nothing EXCEPT !.outcome = outcome] : outcome \in outcomes}

(* The relevance classifier. Its reply names one class, or it is refused: not
   JSON, a field too many, a class it may not name, probabilities that do not
   add up; no reply at all counts as one that is refused. *)
Classes == {"in_scope", "out_of_scope", "needs_clarification"}

RelevanceReplies == [class : Classes \cup {"other"}, well_formed : BOOLEAN]

Decision(reply) ==
    IF reply.well_formed /\ reply.class \in Classes THEN reply.class ELSE "error"

(* _relevance_result: what each decision other than in_scope is answered. *)
RelevanceOutcome(decision) ==
    CASE decision = "error" -> "cannot_verify"
      [] decision = "out_of_scope" -> "out_of_scope"
      [] decision = "needs_clarification" -> "needs_clarification"

(* _classify_relevance, called by ask: only enforce mode stops a question. *)
Gate(r) ==
    /\ config.jev = "enforce"
    /\ LET decisions == {Decision(reply) : reply \in RelevanceReplies} \ {"in_scope"}
       IN  Answers(r, "finish", NoData({RelevanceOutcome(d) : d \in decisions}))

(* The guard on questions that refer to an earlier incident. *)
HasContext(r) == req[r].followup => req[r].prior # None /\ req[r].prior.single

AskWhich(r) ==
    /\ ~HasContext(r)
    /\ Answers(r, "finish", NoData({"needs_clarification"}))

(* No plan, or a plan to ask back. *)
Unplanned(r) ==
    /\ HasContext(r)
    /\ Answers(r, "finish", NoData({"cannot_verify", "needs_clarification"}))

PlanClear(r) ==
    /\ HasContext(r)
    /\ Answers(r, "clear", NoData({"none"}))

(* classify_execution, on the rows of a query and on whether any query hit its
   bound. *)
ClassifyExecutionSlip(rows, truncated) ==
    IF rows \in {"empty", "hidden"} THEN "verified_empty"
    ELSE IF truncated THEN "cannot_verify"
    ELSE IF rows = "incomplete" THEN "cannot_verify"
    ELSE "verified_results"

ClassifyExecution(rows, truncated) ==
    IF truncated THEN "cannot_verify"
    ELSE IF rows \in {"empty", "hidden"} THEN "verified_empty"
    ELSE IF rows = "incomplete" THEN "cannot_verify"
    ELSE "verified_results"

(* _execute_compiled_analytics: one aggregate statement. *)
CompiledResults ==
    {[outcome |-> ClassifyExecution(rows, rows \in Overflowing), queries |-> {rows},
      single |-> rows = "single"] : rows \in RowClasses \ {"hidden"}}

(* The stored procedure serves what the compiler does not, a comparison of two
   periods, with a query for each; in dbt mode nothing does. *)
ComparisonResults ==
    IF config.source = "dbt" THEN {}
    ELSE {[outcome |-> ClassifyExecution(rows, Overflowing \cap {rows, previous} # {}),
           queries |-> {rows, previous}, single |-> rows = "single"] :
              rows, previous \in RowClasses}

(* _execute_analytics: a plan that does not compile is refused, a source that
   fails degrades the answer. *)
ExecutionResults == CompiledResults \cup ComparisonResults \cup NoData(Unverified)

(* _rag_failure_result: runbooks that cannot be reached leave the outcome of the
   data alone; without data the answer is degraded. *)
WithoutRunbooks(data) == IF data.outcome = "none" THEN [data EXCEPT !.outcome = "degraded"] ELSE data

(* Data, with runbooks or without (RunbookRagWorkflow.ask, _without_rag). *)
Execute(r) ==
    /\ HasContext(r)
    /\ Answers(r, "remember",
               ExecutionResults \cup {WithoutRunbooks(data) : data \in ExecutionResults})

(* Guidance alone: what the runbooks say verifies nothing; without a store, or
   without RAG, the answer is degraded. *)
GuidanceOutcomes ==
    (IF config.rag THEN {"cannot_verify"} ELSE {}) \cup {WithoutRunbooks(Nothing).outcome}

Guide(r) ==
    /\ HasContext(r)
    /\ Answers(r, "finish", NoData(GuidanceOutcomes))

(* clear_conversation for a clear_context plan; a store error ends the request
   with 503. *)
Clear(r) ==
    /\ At(r, "clear")
    /\ \/ Forget(r) /\ MayRaise
       \/ StoreFault /\ UNCHANGED <<storeVars, settled>>
    /\ Leave(r)
    /\ UNCHANGED <<config, turn>>

(* An exception the work does not expect: the request ends with 503 and
   nothing is kept of it (grafana.py:440-449). *)
AskRaises(r) ==
    /\ At(r, "work")
    /\ Leave(r)
    /\ UNCHANGED <<config, storeVars, turn, faults, settled>>

ContextOf(r) == [turn |-> req[r].turn, single |-> req[r].result.single]

(* _remember_conversation keeps verified outcomes only. The facts of the answer
   are not looked at again. *)
Remember(r) ==
    /\ At(r, "remember")
    /\ req' = [req EXCEPT ![r].pc = "finish",
                          ![r].result = [Nothing EXCEPT !.outcome = req[r].result.outcome]]
    /\ LET c == req[r].conv IN
       IF req[r].result.outcome \in Verified
       THEN \/ /\ Put(c, ContextOf(r))
               /\ settled' = [d \in Conversations |->
                    IF d = c THEN (IF req[r].alone THEN req[r].turn ELSE -1)
                    ELSE IF d \in Evicted(c) THEN 0 ELSE settled[d]]
               /\ MayRaise
            \/ /\ StoreFault
               /\ settled' = [settled EXCEPT ![c] = -1]
               /\ UNCHANGED storeVars
       ELSE UNCHANGED <<storeVars, faults, settled>>
    /\ UNCHANGED <<config, turn>>

(* _with_conversation: an unverified answer ends the context; that the store
   fails to delete it is only logged. *)
Ends(outcome) == outcome \in Unverified

FinishSlip(r) ==
    /\ At(r, "finish")
    /\ Leave(r)
    /\ LET c == req[r].conv
           sure == IF req[r].alone THEN 0 ELSE -1
       IN  /\ settled' = IF Ends(req[r].result.outcome) THEN [settled EXCEPT ![c] = sure] ELSE settled
           /\ IF req[r].result.outcome = "degraded" THEN Delete(c) ELSE UNCHANGED storeVars
    /\ UNCHANGED <<config, turn, faults>>

Finish(r) ==
    /\ At(r, "finish")
    /\ Leave(r)
    /\ LET c == req[r].conv IN
       IF Ends(req[r].result.outcome)
       THEN \/ Forget(r) /\ MayRaise
            \/ /\ StoreFault
               /\ settled' = [settled EXCEPT ![c] = -1]
               /\ UNCHANGED storeVars
       ELSE UNCHANGED <<storeVars, faults, settled>>
    /\ UNCHANGED <<config, turn>>

RequestStep(r) ==
    \/ Begin(r)
    \/ ReadMemory(r) \/ ReadRedis(r) \/ DropExpired(r) \/ ReadFails(r)
    \/ Gate(r) \/ AskWhich(r) \/ Unplanned(r) \/ PlanClear(r) \/ Execute(r) \/ Guide(r)
    \/ Clear(r) \/ AskRaises(r) \/ Remember(r) \/ Finish(r)

ChatNext ==
    \/ \E r \in Requests : RequestStep(r)
    \/ \E c \in Conversations : Expire(c) \/ RedisDrops(c) \/ DeleteEndpoint(c)

ChatSpec == ChatInit /\ [][ChatNext]_chatVars

-----------------------------------------------------------------------------
(* Properties *)

(* Types; in memory the store stays within its bound and its order lists what it
   holds (analytics_chat.py:1192-1273). *)
ChatTypeOK ==
    /\ config \in Configs
    /\ stored \in [Conversations -> Contexts \cup {None}]
    /\ expired \subseteq {c \in Conversations : stored[c] # None}
    /\ recent \in Seq(Conversations)
    /\ req \in [Requests -> [pc : RequestStates, conv : Conversations \cup {None},
                             turn : 0..MaxTurns, followup : BOOLEAN,
                             prior : Contexts \cup {None}, result : Results, alone : BOOLEAN]]
    /\ turn \in 0..MaxTurns
    /\ faults \in 0..MaxStoreFaults
    /\ settled \in [Conversations -> -1..MaxTurns]
    /\ Memory =>
         LET kept == {c \in Conversations : stored[c] # None} IN
         /\ Len(recent) = Cardinality(kept)
         /\ Len(recent) <= MaxEntries
         /\ {recent[i] : i \in 1..Len(recent)} = kept

(* Between requests a follow-up finds the context of the last answer: none
   after an unverified answer, a deletion, a clearing, its expiry or eviction,
   and otherwise that of the last verified answer, never an older one
   (analytics_chat.py:1163-1273, grafana.py:555-582). settled[c] is that turn,
   0 for none, and -1 when requests of c overlapped or a write failed: then the
   code promises nothing until the next answer. *)
ContextIsLastAnswer ==
    \A c \in Conversations :
        InConversation(c) = {} /\ settled[c] # -1
            => LET found == IF c \in expired THEN None ELSE stored[c] IN
               IF found = None THEN settled[c] = 0 ELSE found.turn = settled[c]

(* On its way to the context store an answer is verified only if every query it
   rests on came back whole, and says that nothing was found only if nothing
   was there (semantic/outcome.py:118-134, analytics_chat.py:812-849). *)
VerifiedMeansComplete ==
    \A r \in Requests :
        LET result == req[r].result IN
        At(r, "remember") =>
        /\ result.outcome \in Verified => result.queries \cap Overflowing = {}
        /\ result.outcome = "verified_empty" => "empty" \in result.queries

=============================================================================
