--------------------------- MODULE ShadowRetrieval ---------------------------
(***************************************************************************)
(* The comparison of two ways to search the runbooks (rag/shadow.py).      *)
(* Every retrieval is answered by the primary search; a sample of them     *)
(* leaves a job for one background worker, which searches in the other way *)
(* and reports how the runbooks rank. The queue of jobs is bounded, the    *)
(* stores keep the diagnostics of the last search of each thread           *)
(* (rag/qdrant_store.py), and the service may close.                       *)
(*                                                                         *)
(* A retrieval is told by its number, diagnostics by the retrieval they    *)
(* describe. An action is one access to the queue, the event or a store.   *)
(***************************************************************************)
EXTENDS Integers, Sequences

CONSTANTS
    Callers,        \* request threads
    QueueSize,      \* shadow_queue_size
    MaxRetrievals,  \* retrievals made in all
    Rankings        \* runbooks a search may find, strongest first

(* The shadow search of a retrieval: the diagnostics its primary search was
   given, and the runbooks that one found. *)
ShadowJob == [of : 1..MaxRetrievals, described : 0..MaxRetrievals, primary : Rankings]

Reasons == {"completed", "failed", "dropped"}

ASSUME ShadowAssumption ==
    /\ {QueueSize, MaxRetrievals} \subseteq Nat \ {0}
    /\ \A ranking \in Rankings : \A i, j \in DOMAIN ranking : ranking[i] = ranking[j] => i = j

VARIABLES
    caller,       \* caller[c]: what request thread c is doing, for which retrieval
    diagnosed,    \* diagnosed[c]: last_search_diagnostics the primary store keeps for c
    waiting,      \* jobs in the queue
    stopping,     \* the event close sets
    worker,       \* "loop", "get", "got", "run" or "ended"
    held,         \* jobs the worker has: one, or none
    shutdown,     \* close: "open", "joining", "closed"
    retrievals,   \* retrievals begun
    offered,      \* retrievals that were sampled
    events        \* telemetry about them

shadowVars == <<caller, diagnosed, waiting, stopping, worker, held, shutdown, retrievals,
                offered, events>>
callerVars == <<caller, diagnosed, retrievals>>
workerVars == <<worker, held>>
closeVars == <<stopping, shutdown>>

Quiet == [at |-> "idle", of |-> 0]

Elements(seq) == {seq[i] : i \in DOMAIN seq}

Rank(ranking, runbook) ==
    IF runbook \in Elements(ranking)
    THEN CHOOSE i \in DOMAIN ranking : ranking[i] = runbook ELSE 0

(* _rank_changes: the runbooks of either search whose ranks differ. *)
RankChanges(primary, shadow) ==
    {runbook \in Elements(primary) \cup Elements(shadow) :
        Rank(primary, runbook) # Rank(shadow, runbook)}

ShadowInit ==
    /\ caller = [c \in Callers |-> Quiet]
    /\ diagnosed = [c \in Callers |-> 0]
    /\ waiting = << >>
    /\ stopping = FALSE
    /\ worker = "loop"
    /\ held = {}
    /\ shutdown = "open"
    /\ retrievals = 0
    /\ offered = {}
    /\ events = {}

-----------------------------------------------------------------------------
(* A request thread *)

(* retrieve: the primary search puts its diagnostics where only its own thread
   finds them. *)
PrimarySearchSlip(c) ==
    /\ caller[c].at = "idle"
    /\ retrievals < MaxRetrievals
    /\ retrievals' = retrievals + 1
    /\ caller' = [caller EXCEPT ![c] = [at |-> "search", of |-> retrievals + 1]]
    /\ diagnosed' = [t \in Callers |-> retrievals + 1]
    /\ UNCHANGED <<waiting, workerVars, closeVars, offered, events>>

PrimarySearch(c) ==
    /\ caller[c].at = "idle"
    /\ retrievals < MaxRetrievals
    /\ retrievals' = retrievals + 1
    /\ caller' = [caller EXCEPT ![c] = [at |-> "search", of |-> retrievals + 1]]
    /\ diagnosed' = [diagnosed EXCEPT ![c] = retrievals + 1]
    /\ UNCHANGED <<waiting, workerVars, closeVars, offered, events>>

(* The primary search is over: it raised, or the retrieval is not sampled, or
   the service is closing, and otherwise a job is made of it. *)
SearchReturns(c) ==
    /\ caller[c].at = "search"
    /\ \/ caller' = [caller EXCEPT ![c] = Quiet]
       \/ /\ ~stopping
          /\ caller' = [caller EXCEPT ![c].at = "offer"]
    /\ UNCHANGED <<diagnosed, retrievals, waiting, workerVars, closeVars, offered, events>>

(* put_nowait, or an event that says the queue was full. *)
Offer(c) ==
    /\ caller[c].at = "offer"
    /\ \E ranking \in Rankings :
          LET job == [of |-> caller[c].of, described |-> diagnosed[c], primary |-> ranking] IN
          IF Len(waiting) < QueueSize
          THEN waiting' = Append(waiting, job) /\ UNCHANGED events
          ELSE /\ events' = events \cup {[job |-> job, reason |-> "dropped", changes |-> {}]}
               /\ UNCHANGED waiting
    /\ offered' = offered \cup {caller[c].of}
    /\ caller' = [caller EXCEPT ![c] = Quiet]
    /\ UNCHANGED <<diagnosed, retrievals, workerVars, closeVars>>

-----------------------------------------------------------------------------
(* The worker *)

LoopChecks ==
    /\ worker = "loop"
    /\ worker' = IF stopping THEN "ended" ELSE "get"
    /\ UNCHANGED <<callerVars, waiting, held, closeVars, offered, events>>

(* queue.get with a timeout of 0.1 s. *)
TakeJob ==
    /\ worker = "get"
    /\ waiting # << >>
    /\ held' = {Head(waiting)}
    /\ waiting' = Tail(waiting)
    /\ worker' = "got"
    /\ UNCHANGED <<callerVars, closeVars, offered, events>>

FindsNone ==
    /\ worker = "get"
    /\ waiting = << >>
    /\ worker' = "loop"
    /\ UNCHANGED <<callerVars, waiting, held, closeVars, offered, events>>

(* A job taken while the service closes is let go. *)
StartJob ==
    /\ worker = "got"
    /\ IF stopping THEN worker' = "loop" /\ held' = {}
       ELSE worker' = "run" /\ UNCHANGED held
    /\ UNCHANGED <<callerVars, waiting, closeVars, offered, events>>

(* _run_job: the search of the other kind, and one event whether or not it
   raised; an event sink that raises is ignored. *)
RunJob ==
    /\ worker = "run"
    /\ worker' = "loop"
    /\ held' = {}
    /\ \E job \in held :
       \/ \E ranking \in Rankings :
             events' = events \cup {[job |-> job, reason |-> "completed",
                                     changes |-> RankChanges(job.primary, ranking)]}
       \/ events' = events \cup {[job |-> job, reason |-> "failed", changes |-> {}]}
    /\ UNCHANGED <<callerVars, waiting, closeVars, offered>>

(* close: set the event, then wait for the worker for a bounded time. *)
BeginClose ==
    /\ shutdown = "open"
    /\ shutdown' = "joining"
    /\ stopping' = TRUE
    /\ UNCHANGED <<callerVars, waiting, workerVars, offered, events>>

EndClose ==
    /\ shutdown = "joining"
    /\ shutdown' = "closed"
    /\ UNCHANGED <<callerVars, waiting, workerVars, stopping, offered, events>>

ShadowNext ==
    \/ \E c \in Callers : PrimarySearch(c) \/ SearchReturns(c) \/ Offer(c)
    \/ LoopChecks \/ TakeJob \/ FindsNone \/ StartJob \/ RunJob
    \/ BeginClose \/ EndClose

ShadowSpec == ShadowInit /\ [][ShadowNext]_shadowVars

-----------------------------------------------------------------------------
(* Properties *)

ShadowTypeOK ==
    /\ caller \in [Callers -> [at : {"idle", "search", "offer"}, of : 0..MaxRetrievals]]
    /\ diagnosed \in [Callers -> 0..MaxRetrievals]
    /\ waiting \in Seq(ShadowJob)
    /\ Len(waiting) <= QueueSize
    /\ stopping \in BOOLEAN
    /\ worker \in {"loop", "get", "got", "run", "ended"}
    /\ held \subseteq ShadowJob
    /\ shutdown \in {"open", "joining", "closed"}
    /\ retrievals \in 0..MaxRetrievals
    /\ offered \subseteq 1..MaxRetrievals
    /\ \A e \in events : e.job \in ShadowJob /\ e.reason \in Reasons

(* However the request threads, the worker and close interleave, an event is
   about the search of one retrieval: the diagnostics it shows are those of that
   retrieval, it is the only one about it, and until the service closes every
   retrieval that was sampled has its event, waits for it or is at work
   (rag/shadow.py:90-177, qdrant_store.py:38-47). *)
ComparedOnce ==
    LET Reported(n) == {e \in events : e.job.of = n}
        Pending(n) == {i \in DOMAIN waiting : waiting[i].of = n}
        AtWork(n) == {job \in held : job.of = n}
    IN  /\ \A e \in events : e.job.described = e.job.of
        /\ \A e, f \in events : e.job.of = f.job.of => e = f
        /\ \A n \in offered : ~stopping => Reported(n) # {} \/ Pending(n) # {} \/ AtWork(n) # {}
        /\ \A n \in offered : Reported(n) # {} => Pending(n) = {} /\ AtWork(n) = {}

=============================================================================
