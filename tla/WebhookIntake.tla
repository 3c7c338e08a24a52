---------------------------- MODULE WebhookIntake ----------------------------
(***************************************************************************)
(* The webhook intake of webhook/grafana.py: HTTP threads that submit      *)
(* alerts, the deduplicator, the bounded queue, the workers that call the  *)
(* state machine, the follow-up timers and the closing of the service.     *)
(*                                                                         *)
(* An action is one step under a lock, or one call of the queue.  What     *)
(* process_connector does is HealingIncident; here it returns nothing,     *)
(* the name to follow up, or raises.  A definition marked Slip is a        *)
(* plausible bug of the definition after it, used by no behaviour.         *)
(***************************************************************************)
EXTENDS Naturals, Sequences, FiniteSets

CONSTANTS
  Names,          \* connector names
  Episodes,       \* values of an alert's fingerprint and startsAt
  Statuses,       \* the statuses Grafana sends: firing confirms a failure
  Workers,        \* the worker threads
  Requests,       \* the HTTP threads busy at the same time
  Callbacks,      \* the timer threads busy at the same time
  QueueSize,      \* GRAFANA_WEBHOOK_QUEUE_SIZE
  MaxDeliveries   \* bound on the alerts Grafana sends, re-sent ones included

ASSUME IntakeAssumption ==
  /\ QueueSize \in Nat \ {0}
  /\ MaxDeliveries \in Nat
  /\ Statuses \subseteq {"firing", "resolved"}
  /\ IsFiniteSet(Workers) /\ Workers # {}

-----------------------------------------------------------------------------
(* Events.  The dedupe key of an alert is the alert without its flag.      *)

Alerts ==
  {[name |-> n, status |-> s, episode |-> e, confirmed |-> s = "firing"] :
     n \in Names, s \in Statuses, e \in Episodes}
Followup(n, flag) ==
  [name |-> n, status |-> "followup", episode |-> "internal", confirmed |-> flag]
Followups == {Followup(n, flag) : n \in Names, flag \in BOOLEAN}
Events == Alerts \union Followups
Sentinel == [status |-> "shutdown"]
Nothing == [status |-> "none"]

Untracked == [state |-> "none", confirmed |-> FALSE]
Free == [pc |-> "free", alert |-> Nothing]
Loop == [pc |-> "loop", event |-> Nothing]
Waiting == [pc |-> "get", event |-> Nothing]
Exited == [pc |-> "exit", event |-> Nothing]
Unused == [pc |-> "unused", event |-> Nothing]

VARIABLES
  claims,    \* the dedupe keys claimed
  sent,      \* the deliveries so far
  http,      \* per HTTP thread, its step in submit and the alert in hand
  queue,     \* the bounded queue
  worker,    \* per worker, its step, and its event or the follow-up to schedule
  timer,     \* per name, the tracked timer: none, armed, or fired but not cleared
  callback,  \* per timer thread, its step and the event it will enqueue
  closing,   \* the step of close() and the sentinels it has left to put
  puts,      \* history: events queued under the claim in force, per alert
  owed       \* history: the follow-up the state machine asked for, per name

vars == <<claims, sent, http, queue, worker, timer, callback, closing, puts, owed>>

HttpStates == {Free} \union [pc : {"put", "release"}, alert : Alerts]
WorkerStates ==
  {Loop, Waiting, Exited}
    \union [pc : {"clear", "process"}, event : Events]
    \union [pc : {"schedule"}, event : Followups]
TimerStates == [state : {"none", "armed", "fired"}, confirmed : BOOLEAN]
CallbackStates == {Unused} \union [pc : {"clear", "check", "put"}, event : Followups]
ClosingStates ==
  [pc : {"running", "cancel", "shutdown", "sentinels", "joining"},
   left : 0 .. Cardinality(Workers)]

TypeOK ==
  /\ claims \subseteq Alerts
  /\ sent \in 0 .. MaxDeliveries
  /\ http \in [Requests -> HttpStates]
  /\ queue \in Seq(Events \union {Sentinel})
  /\ Len(queue) <= QueueSize
  /\ worker \in [Workers -> WorkerStates]
  /\ timer \in [Names -> TimerStates]
  /\ callback \in [Callbacks -> CallbackStates]
  /\ closing \in ClosingStates
  /\ puts \in [Alerts -> Nat]
  /\ owed \in [Names -> {"no", "check", "confirmed"}]

Init ==
  /\ claims = {}
  /\ sent = 0
  /\ http = [h \in Requests |-> Free]
  /\ queue = <<>>
  /\ worker = [w \in Workers |-> Loop]
  /\ timer = [n \in Names |-> Untracked]
  /\ callback = [c \in Callbacks |-> Unused]
  /\ closing = [pc |-> "running", left |-> Cardinality(Workers)]
  /\ puts = [a \in Alerts |-> 0]
  /\ owed = [n \in Names |-> "no"]

Stopping == closing.pc # "running"
(* The queue takes one event too many.                                     *)
FullSlip == Len(queue) > QueueSize

Full == Len(queue) >= QueueSize

(* The dedupe TTL is longer than one call of submit: a claim does not      *)
(* expire while the thread that made it is between claim and put_nowait.   *)
InHand == {http[h].alert : h \in {g \in Requests : http[g] # Free}}

-----------------------------------------------------------------------------
(* Submission, in an HTTP thread.                                          *)

(* submit: the deduplicator purges what has expired, then claims the key.  *)
(* Nothing of close stops a request thread: it may claim at any time.      *)
Claim(h) ==
  /\ http[h] = Free
  /\ sent < MaxDeliveries
  /\ sent' = sent + 1
  /\ \E a \in Alerts, expired \in SUBSET (claims \ InHand) :
       LET standing == claims \ expired IN
       /\ claims' = standing \union {a}
       /\ http' = IF a \in standing THEN http
                  ELSE [http EXCEPT ![h] = [pc |-> "put", alert |-> a]]
       /\ puts' = [b \in Alerts |-> IF b \in expired THEN 0 ELSE puts[b]]
  /\ UNCHANGED <<queue, worker, timer, callback, closing, owed>>

(* submit: put_nowait; a full queue gives the claim back.                  *)
PutAlert(h) ==
  /\ http[h].pc = "put"
  /\ LET a == http[h].alert IN
     IF Full
       THEN /\ http' = [http EXCEPT ![h].pc = "release"]
            /\ UNCHANGED <<queue, puts>>
       ELSE /\ queue' = Append(queue, a)
            /\ http' = [http EXCEPT ![h] = Free]
            /\ puts' = [puts EXCEPT ![a] = @ + 1]
  /\ UNCHANGED <<claims, sent, worker, timer, callback, closing, owed>>

(* The claim is kept when the queue is full.                               *)
ReleaseSlip(h) ==
  /\ http[h].pc = "release"
  /\ http' = [http EXCEPT ![h] = Free]
  /\ UNCHANGED <<claims, sent, queue, worker, timer, callback, closing, puts, owed>>

Release(h) ==
  /\ http[h].pc = "release"
  /\ http' = [http EXCEPT ![h] = Free]
  /\ claims' = claims \ {http[h].alert}
  /\ puts' = [puts EXCEPT ![http[h].alert] = 0]
  /\ UNCHANGED <<sent, queue, worker, timer, callback, closing, owed>>

-----------------------------------------------------------------------------
(* Follow-up timers.                                                       *)

(* Scheduling does not look at stopping.                                   *)
ArmSlip(n, confirmed) ==
  timer' = IF timer[n].state # "none" THEN timer
           ELSE [timer EXCEPT ![n] = [state |-> "armed", confirmed |-> confirmed]]

(* _schedule_followup: under the lock, unless one is tracked or we stop.   *)
Arm(n, confirmed) ==
  timer' = IF timer[n].state # "none" \/ Stopping THEN timer
           ELSE [timer EXCEPT ![n] = [state |-> "armed", confirmed |-> confirmed]]

(* _clear_followup: the tracked timer is removed and cancelled, whichever  *)
(* it is.  Cancelling a timer that has fired does nothing, so removing and *)
(* cancelling are one step.                                                *)
Untrack(n) == timer' = [timer EXCEPT ![n] = Untracked]

(* A timer's interval is over: its thread starts _enqueue_followup.        *)
Fire(n, c) ==
  /\ timer[n].state = "armed"
  /\ callback[c] = Unused
  /\ timer' = [timer EXCEPT ![n].state = "fired"]
  /\ callback' = [callback EXCEPT ![c] =
       [pc |-> "clear", event |-> Followup(n, timer[n].confirmed)]]
  /\ UNCHANGED <<claims, sent, http, queue, worker, closing, puts, owed>>

ClearFired(c) ==
  /\ callback[c].pc = "clear"
  /\ Untrack(callback[c].event.name)
  /\ callback' = [callback EXCEPT ![c].pc = "check"]
  /\ UNCHANGED <<claims, sent, http, queue, worker, closing, puts, owed>>

CheckStopping(c) ==
  /\ callback[c].pc = "check"
  /\ callback' = IF Stopping THEN [callback EXCEPT ![c] = Unused]
                 ELSE [callback EXCEPT ![c].pc = "put"]
  /\ UNCHANGED <<claims, sent, http, queue, worker, timer, closing, puts, owed>>

(* put_nowait; a full queue drops the follow-up.                           *)
PutFollowup(c) ==
  /\ callback[c].pc = "put"
  /\ callback' = [callback EXCEPT ![c] = Unused]
  /\ IF Full
       THEN /\ owed' = [owed EXCEPT ![callback[c].event.name] = "no"]
            /\ UNCHANGED queue
       ELSE /\ queue' = Append(queue, callback[c].event)
            /\ UNCHANGED owed
  /\ UNCHANGED <<claims, sent, http, worker, timer, closing, puts>>

(* schedule_recovery_followup, called by the reconciliation thread.        *)
Reconcile(n) ==
  /\ Arm(n, FALSE)
  /\ UNCHANGED <<claims, sent, http, queue, worker, callback, closing, puts, owed>>

-----------------------------------------------------------------------------
(* _run_worker.                                                            *)

(* Only a sentinel ends a worker.                                          *)
LoopTopSlip(w) ==
  /\ worker[w].pc = "loop"
  /\ worker' = [worker EXCEPT ![w] = Waiting]
  /\ UNCHANGED <<claims, sent, http, queue, timer, callback, closing, puts, owed>>

LoopTop(w) ==
  /\ worker[w].pc = "loop"
  /\ worker' = [worker EXCEPT ![w] = IF Stopping THEN Exited ELSE Waiting]
  /\ UNCHANGED <<claims, sent, http, queue, timer, callback, closing, puts, owed>>

(* The get times out after a second: back to the test of stopping.         *)
GetTimeout(w) ==
  /\ worker[w].pc = "get"
  /\ queue = <<>>
  /\ worker' = [worker EXCEPT ![w] = Loop]
  /\ UNCHANGED <<claims, sent, http, queue, timer, callback, closing, puts, owed>>

Get(w) ==
  /\ worker[w].pc = "get"
  /\ queue # <<>>
  /\ queue' = Tail(queue)
  /\ worker' = [worker EXCEPT ![w] =
       IF Head(queue) = Sentinel THEN Exited
       ELSE [pc |-> "clear", event |-> Head(queue)]]
  /\ UNCHANGED <<claims, sent, http, timer, callback, closing, puts, owed>>

ClearTaken(w) ==
  /\ worker[w].pc = "clear"
  /\ Untrack(worker[w].event.name)
  /\ worker' = [worker EXCEPT ![w].pc = "process"]
  /\ UNCHANGED <<claims, sent, http, queue, callback, closing, puts, owed>>

(* An exception of process_connector ends the worker.                      *)
ProcessSlip(w) ==
  /\ worker[w].pc = "process"
  /\ worker' = [worker EXCEPT ![w] = Exited]
  /\ UNCHANGED <<claims, sent, http, queue, timer, callback, closing, puts, owed>>

(* process_connector returns a name, which a recreate may have changed, or *)
(* nothing, or raises; an exception is logged and the worker goes on.      *)
Process(w) ==
  /\ worker[w].pc = "process"
  /\ LET done == [owed EXCEPT ![worker[w].event.name] = "no"] IN
     \/ /\ worker' = [worker EXCEPT ![w] = Loop]
        /\ owed' = done
     \/ \E n \in Names :
          /\ worker' = [worker EXCEPT ![w] =
               [pc |-> "schedule", event |-> Followup(n, worker[w].event.confirmed)]]
          /\ owed' = [done EXCEPT ![n] =
               IF worker[w].event.confirmed \/ done[n] = "confirmed"
                 THEN "confirmed" ELSE "check"]
  /\ UNCHANGED <<claims, sent, http, queue, timer, callback, closing, puts>>

(* The worker clears the follow-up after processing, not before.           *)
ScheduleSlip(w) ==
  /\ worker[w].pc = "schedule"
  /\ Untrack(worker[w].event.name)
  /\ worker' = [worker EXCEPT ![w] = Loop]
  /\ UNCHANGED <<claims, sent, http, queue, callback, closing, puts, owed>>

Schedule(w) ==
  /\ worker[w].pc = "schedule"
  /\ Arm(worker[w].event.name, worker[w].event.confirmed)
  /\ worker' = [worker EXCEPT ![w] = Loop]
  /\ UNCHANGED <<claims, sent, http, queue, callback, closing, puts, owed>>

-----------------------------------------------------------------------------
(* close.                                                                  *)

Stop ==
  /\ closing.pc = "running"
  /\ closing' = [closing EXCEPT !.pc = "cancel"]
  /\ UNCHANGED <<claims, sent, http, queue, worker, timer, callback, puts, owed>>

CancelTimers ==
  /\ closing.pc = "cancel"
  /\ timer' = [n \in Names |-> Untracked]
  /\ closing' = [closing EXCEPT !.pc = "shutdown"]
  /\ UNCHANGED <<claims, sent, http, queue, worker, callback, puts, owed>>

(* Requests already in a thread go on, and may still be submitted: their   *)
(* threads are daemons.                                                    *)
ShutdownServer ==
  /\ closing.pc = "shutdown"
  /\ closing' = [closing EXCEPT !.pc = "sentinels"]
  /\ UNCHANGED <<claims, sent, http, queue, worker, timer, callback, puts, owed>>

(* One sentinel per worker, until the queue is full.                       *)
PutSentinel ==
  /\ closing.pc = "sentinels"
  /\ IF closing.left = 0 \/ Full
       THEN /\ closing' = [closing EXCEPT !.pc = "joining"]
            /\ UNCHANGED queue
       ELSE /\ closing' = [closing EXCEPT !.left = @ - 1]
            /\ queue' = Append(queue, Sentinel)
  /\ UNCHANGED <<claims, sent, http, worker, timer, callback, puts, owed>>

-----------------------------------------------------------------------------
Submission(h) == PutAlert(h) \/ Release(h)
WorkerStep(w) ==
  LoopTop(w) \/ GetTimeout(w) \/ Get(w) \/ ClearTaken(w) \/ Process(w) \/ Schedule(w)
CallbackStep(c) == ClearFired(c) \/ CheckStopping(c) \/ PutFollowup(c)
Close == CancelTimers \/ ShutdownServer \/ PutSentinel

Next ==
  \/ \E h \in Requests : Claim(h) \/ PutAlert(h) \/ Release(h)
  \/ \E n \in Names, c \in Callbacks : Fire(n, c)
  \/ \E c \in Callbacks : CallbackStep(c)
  \/ \E n \in Names : Reconcile(n)
  \/ \E w \in Workers : WorkerStep(w)
  \/ Stop
  \/ Close

Spec == Init /\ [][Next]_vars

(* Every thread that can run goes on; nothing makes Grafana deliver, the   *)
(* process stop, or the reconciliation find an incident.                   *)
Fairness ==
  /\ \A h \in Requests : WF_vars(Submission(h))
  /\ \A w \in Workers : WF_vars(WorkerStep(w))
  /\ \A c \in Callbacks : WF_vars(CallbackStep(c))
  /\ WF_vars(Close)

FairSpec == Spec /\ Fairness

-----------------------------------------------------------------------------
(* Properties.                                                             *)

(* submit, 225-238: a redelivery is refused as a duplicate only when its   *)
(* alert is being submitted or was queued exactly once under that claim; a *)
(* refused put must leave no claim behind and two threads that submit the  *)
(* same alert must not both queue it.                                      *)
Submitting(a) == {h \in Requests : http[h].alert = a}

OneEventPerClaim ==
  \A a \in claims :
    \/ puts[a] = 1 /\ Submitting(a) = {}
    \/ puts[a] = 0 /\ \E h \in Requests : Submitting(a) = {h}

(* _schedule_followup and _enqueue_followup, 320-368: the follow-up that   *)
(* the state machine asked for is on its way, as a tracked timer, in its   *)
(* callback, in the queue or in a worker, until it is processed, dropped   *)
(* by a full queue, or the service stops.  Timers, workers and callbacks   *)
(* remove each other's entries, so this is what they must not lose.        *)
OnItsWay(n) ==
  \/ timer[n].state # "none"
  \/ \E c \in Callbacks : callback[c] # Unused /\ callback[c].event.name = n
  \/ \E i \in DOMAIN queue : queue[i] # Sentinel /\ queue[i].name = n
  \/ \E w \in Workers :
       worker[w].pc \in {"clear", "process", "schedule"} /\ worker[w].event.name = n

FollowupNotForgotten ==
  Stopping \/ \A n \in Names : owed[n] # "no" => OnItsWay(n)

(* _schedule_followup, 327, and close, 194-199: once close has cancelled   *)
(* the timers no thread can arm another one, although workers, callbacks   *)
(* and the reconciliation go on.                                           *)
NoTimerAfterCancel ==
  closing.pc \in {"shutdown", "sentinels", "joining"} =>
    \A n \in Names : timer[n].state = "none"

(* _run_worker, 282-318: an alert that a thread has claimed is processed   *)
(* although other alerts raise, unless the queue refuses it or the service *)
(* stops.                                                                  *)
AlertAnswered ==
  \A a \in Alerts :
    (\E h \in Requests : http[h] = [pc |-> "put", alert |-> a]) ~>
      \/ \E h \in Requests : http[h] = [pc |-> "release", alert |-> a]
      \/ \E w \in Workers : worker[w].pc = "process" /\ worker[w].event = a
      \/ Stopping

(* close, 202-210, and _run_worker, 282: every worker stops, also those    *)
(* for which the full queue had no room for a sentinel.                    *)
WorkersStop == Stopping ~> \A w \in Workers : worker[w] = Exited

(* _run_worker, 304-308: a follow-up asked for by a confirmed alert is     *)
(* itself confirmed, as test_firing_webhook_followup_preserves_confirmed_failure *)
(* expects of the callback's event.                                        *)
ConfirmationOnItsWay(n) ==
  \/ timer[n].state # "none" /\ timer[n].confirmed
  \/ \E c \in Callbacks :
       callback[c] # Unused /\ callback[c].event.name = n /\ callback[c].event.confirmed
  \/ \E i \in DOMAIN queue :
       queue[i] # Sentinel /\ queue[i].name = n /\ queue[i].confirmed
  \/ \E w \in Workers :
       /\ worker[w].pc \in {"clear", "process", "schedule"}
       /\ worker[w].event.name = n /\ worker[w].event.confirmed

ConfirmationKept ==
  Stopping \/ \A n \in Names : owed[n] = "confirmed" => ConfirmationOnItsWay(n)
=============================================================================
