-------------------------- MODULE SharedStateProofs --------------------------
(***************************************************************************)
(* Proofs about the two parts whose whole state the threads of one process *)
(* share: WebhookIntake, the queue and the ledger of the webhook, for any  *)
(* number of connectors, alerts, workers, HTTP threads and timer threads,  *)
(* and any size of the queue; StatusCircuit, the circuit of the Kafka      *)
(* Connect client, for any number of threads, outages and exceptions.      *)
(***************************************************************************)
EXTENDS WebhookIntake, StatusCircuit, FiniteSetTheorems, TLAPS

-----------------------------------------------------------------------------
(* The events and the states of the threads.                               *)

LEMMA Sizes ==
  /\ QueueSize \in Nat /\ QueueSize > 0
  /\ MaxDeliveries \in Nat
  /\ Cardinality(Workers) \in Nat
  BY IntakeAssumption, FS_CardinalityType DEF IntakeAssumption

LEMMA EventTypes ==
  /\ \A a \in Alerts : a.name \in Names /\ a.status \in {"firing", "resolved"}
                       /\ a.confirmed \in BOOLEAN /\ a # Nothing
  /\ \A e \in Followups : e.name \in Names /\ e.status = "followup"
                          /\ e.confirmed \in BOOLEAN
  /\ \A n \in Names, flag \in BOOLEAN :
       /\ Followup(n, flag) \in Followups
       /\ Followup(n, flag).name = n
  <1>1. \A a \in Alerts : a.name \in Names /\ a.status \in {"firing", "resolved"}
                          /\ a.confirmed \in BOOLEAN
    <2>1. TAKE a \in Alerts
    <2>2. PICK n \in Names, s \in Statuses, e \in Episodes :
            a = [name |-> n, status |-> s, episode |-> e, confirmed |-> s = "firing"]
      BY DEF Alerts
    <2>3. (s = "firing") \in BOOLEAN
      OBVIOUS
    <2>4. a.confirmed = (s = "firing")
      BY <2>2, Zenon
    <2>5. a.name = n /\ a.status = s
      BY <2>2, Zenon
    <2>6. s \in {"firing", "resolved"}
      BY IntakeAssumption DEF IntakeAssumption
    <2>7. QED BY <2>3, <2>4, <2>5, <2>6, Zenon
  <1>2. Nothing.status = "none"
    BY DEF Nothing
  <1>3. \A n \in Names, flag \in BOOLEAN :
          /\ Followup(n, flag) \in Followups
          /\ Followup(n, flag).name = n
    BY DEF Followup, Followups
  <1>4. \A e \in Followups : e.name \in Names /\ e.status = "followup"
                             /\ e.confirmed \in BOOLEAN
    BY DEF Followup, Followups
  <1>5. QED BY <1>1, <1>2, <1>3, <1>4

LEMMA EventNames ==
  /\ \A e \in Events : e.name \in Names /\ e.confirmed \in BOOLEAN /\ e # Sentinel
  /\ Alerts \subseteq Events /\ Followups \subseteq Events
  <1>1. Sentinel.status = "shutdown"
    BY DEF Sentinel
  <1>2. QED BY <1>1, EventTypes DEF Events

\* What a thread at a given step holds.
LEMMA WorkerSteps ==
  ASSUME NEW s \in WorkerStates
  PROVE  /\ s.pc \in {"clear", "process"} => s.event \in Events
         /\ s.pc = "clear" => [s EXCEPT !.pc = "process"] \in WorkerStates
         /\ s.pc = "schedule" => s.event \in Followups
         /\ s.pc \in {"loop", "get", "exit", "clear", "process", "schedule"}
  BY DEF WorkerStates, Loop, Waiting, Exited

LEMMA CallbackSteps ==
  ASSUME NEW s \in CallbackStates, s.pc # "unused"
  PROVE  /\ s.event \in Followups
         /\ s # Unused
         /\ \A pc \in {"clear", "check", "put"} : [s EXCEPT !.pc = pc] \in CallbackStates
  BY DEF CallbackStates, Unused

LEMMA HttpSteps ==
  ASSUME NEW s \in HttpStates
  PROVE  /\ s.pc \in {"put", "release"} =>
              s.alert \in Alerts /\ [s EXCEPT !.pc = "release"] \in HttpStates
         /\ s = Free => s.alert = Nothing
         /\ s # Free => s.alert \in Alerts
         /\ s.pc \in {"put", "release"} => s # Free
  BY DEF HttpStates, Free

LEMMA Rests ==
  /\ Free \in HttpStates
  /\ Unused \in CallbackStates
  /\ Untracked \in TimerStates
  /\ {Loop, Waiting, Exited} \subseteq WorkerStates
  BY DEF HttpStates, CallbackStates, Untracked, TimerStates, WorkerStates

-----------------------------------------------------------------------------
(* Type correctness.                                                       *)

LEMMA UntrackType ==
  ASSUME TypeOK, NEW n \in Names, Untrack(n)
  PROVE  timer' \in [Names -> TimerStates]
  BY Rests DEF TypeOK, Untrack

LEMMA ArmType ==
  ASSUME TypeOK, NEW n \in Names, NEW flag \in BOOLEAN, Arm(n, flag)
  PROVE  timer' \in [Names -> TimerStates]
  <1>1. [state |-> "armed", confirmed |-> flag] \in TimerStates
    BY DEF TimerStates
  <1>2. QED BY <1>1 DEF TypeOK, Arm

LEMMA AppendType ==
  ASSUME TypeOK, ~Full, NEW e \in Events \union {Sentinel}, queue' = Append(queue, e)
  PROVE  queue' \in Seq(Events \union {Sentinel}) /\ Len(queue') <= QueueSize
  BY Sizes DEF TypeOK, Full

LEMMA TypeInit == Init => TypeOK
  <1> SUFFICES ASSUME Init PROVE TypeOK
    OBVIOUS
  <1>1. closing \in ClosingStates
    BY Sizes DEF Init, ClosingStates
  <1>2. queue \in Seq(Events \union {Sentinel}) /\ Len(queue) <= QueueSize
    BY Sizes DEF Init
  <1>3. QED BY <1>1, <1>2, Sizes, Rests DEF Init, TypeOK

LEMMA SubmissionType ==
  ASSUME TypeOK, NEW h \in Requests, Claim(h) \/ PutAlert(h) \/ Release(h)
  PROVE  TypeOK'
  <1>1. CASE Claim(h)
    <2>1. PICK a \in Alerts, expired \in SUBSET (claims \ InHand) :
            LET standing == claims \ expired IN
            /\ claims' = standing \union {a}
            /\ http' = IF a \in standing THEN http
                       ELSE [http EXCEPT ![h] = [pc |-> "put", alert |-> a]]
            /\ puts' = [b \in Alerts |-> IF b \in expired THEN 0 ELSE puts[b]]
      BY <1>1 DEF Claim
    <2>2. [pc |-> "put", alert |-> a] \in HttpStates
      BY DEF HttpStates
    <2>3. claims' \subseteq Alerts /\ http' \in [Requests -> HttpStates]
          /\ puts' \in [Alerts -> Nat]
      BY <2>1, <2>2 DEF TypeOK
    <2>4. sent' \in 0 .. MaxDeliveries
      BY <1>1, Sizes DEF Claim, TypeOK
    <2>5. QED BY <1>1, <2>3, <2>4 DEF Claim, TypeOK
  <1>2. CASE PutAlert(h)
    <2>1. http[h] \in HttpStates /\ http[h].alert \in Alerts
      BY <1>2, HttpSteps DEF TypeOK, PutAlert
    <2>2. CASE Full
      <3>1. http' \in [Requests -> HttpStates]
        BY <1>2, <2>1, <2>2, HttpSteps DEF PutAlert, TypeOK
      <3>2. QED BY <1>2, <2>2, <3>1 DEF PutAlert, TypeOK
    <2>3. CASE ~Full
      <3>0. http' \in [Requests -> HttpStates]
        BY <1>2, <2>3, Rests DEF PutAlert, TypeOK
      <3>1. puts' \in [Alerts -> Nat]
        <4>1. puts \in [Alerts -> Nat] /\ puts' = [puts EXCEPT ![http[h].alert] = @ + 1]
          BY <1>2, <2>3 DEF PutAlert, TypeOK
        <4>2. QED BY <2>1, <4>1
      <3>2. queue' \in Seq(Events \union {Sentinel}) /\ Len(queue') <= QueueSize
        BY <1>2, <2>1, <2>3, AppendType, EventNames DEF PutAlert
      <3>3. QED BY <1>2, <2>3, <3>0, <3>1, <3>2 DEF PutAlert, TypeOK
    <2>4. QED BY <2>2, <2>3
  <1>3. CASE Release(h)
    <2>1. http' \in [Requests -> HttpStates] /\ puts' \in [Alerts -> Nat]
      BY <1>3, Rests DEF Release, TypeOK
    <2>2. QED BY <1>3, <2>1 DEF Release, TypeOK
  <1>4. QED BY <1>1, <1>2, <1>3

LEMMA TimerType ==
  ASSUME TypeOK, NEW n \in Names, NEW c \in Callbacks, Fire(n, c)
  PROVE  TypeOK'
  <1>1. timer[n].confirmed \in BOOLEAN
    BY DEF TypeOK, TimerStates
  <1>2. [pc |-> "clear", event |-> Followup(n, timer[n].confirmed)] \in CallbackStates
    BY <1>1, EventTypes DEF CallbackStates
  <1>3. callback' \in [Callbacks -> CallbackStates]
    BY <1>2 DEF Fire, TypeOK
  <1>4. timer' \in [Names -> TimerStates]
    BY DEF Fire, TypeOK, TimerStates
  <1>5. QED BY <1>3, <1>4 DEF Fire, TypeOK

LEMMA CallbackType ==
  ASSUME TypeOK, NEW c \in Callbacks, CallbackStep(c)
  PROVE  TypeOK'
  <1> USE DEF TypeOK
  <1>1. callback[c] \in CallbackStates /\ callback[c].pc # "unused"
    BY DEF CallbackStep, ClearFired, CheckStopping, PutFollowup
  <1>2. callback[c].event \in Followups /\ callback[c].event.name \in Names
    BY <1>1, CallbackSteps, EventTypes
  <1>3. CASE ClearFired(c)
    BY <1>1, <1>2, <1>3, CallbackSteps, UntrackType DEF ClearFired
  <1>4. CASE CheckStopping(c)
    BY <1>1, <1>4, CallbackSteps, Rests DEF CheckStopping
  <1>5. CASE PutFollowup(c) /\ Full
    BY <1>2, <1>5, Rests DEF PutFollowup
  <1>6. CASE PutFollowup(c) /\ ~Full
    <2>1. queue' \in Seq(Events \union {Sentinel}) /\ Len(queue') <= QueueSize
      BY <1>2, <1>6, AppendType, EventNames DEF PutFollowup
    <2>2. QED BY <1>6, <2>1, Rests DEF PutFollowup
  <1>7. QED BY <1>3, <1>4, <1>5, <1>6 DEF CallbackStep

LEMMA WorkerType ==
  ASSUME TypeOK, NEW w \in Workers, WorkerStep(w)
  PROVE  TypeOK'
  <1> USE DEF TypeOK
  <1>0. worker[w] \in WorkerStates
    OBVIOUS
  <1>1. CASE LoopTop(w)
    BY <1>1, Rests DEF LoopTop
  <1>2. CASE GetTimeout(w)
    BY <1>2, Rests DEF GetTimeout
  <1>3. CASE Get(w)
    <2>1. Head(queue) \in Events \union {Sentinel}
          /\ queue' \in Seq(Events \union {Sentinel}) /\ Len(queue') <= QueueSize
      BY <1>3, Sizes DEF Get
    <2>2. Head(queue) # Sentinel =>
            [pc |-> "clear", event |-> Head(queue)] \in WorkerStates
      BY <2>1 DEF WorkerStates
    <2>3. worker' \in [Workers -> WorkerStates]
      BY <1>3, <2>2, Rests DEF Get
    <2>4. QED BY <1>3, <2>1, <2>3 DEF Get
  <1>4. CASE ClearTaken(w)
    <2>1. worker[w].event.name \in Names
      BY <1>0, <1>4, WorkerSteps, EventNames DEF ClearTaken
    <2>2. QED BY <1>0, <1>4, <2>1, WorkerSteps, UntrackType DEF ClearTaken
  <1>5. CASE Process(w)
    <2>1. worker[w].event.name \in Names /\ worker[w].event.confirmed \in BOOLEAN
      BY <1>0, <1>5, WorkerSteps, EventNames DEF Process
    <2>2. \A n \in Names :
            [pc |-> "schedule", event |-> Followup(n, worker[w].event.confirmed)]
              \in WorkerStates
      BY <2>1, EventTypes DEF WorkerStates
    <2>3. worker' \in [Workers -> WorkerStates]
          /\ owed' \in [Names -> {"no", "check", "confirmed"}]
      BY ZenonT(40), <1>5, <2>1, <2>2, Rests DEF Process
    <2>4. QED BY <1>5, <2>3 DEF Process
  <1>6. CASE Schedule(w)
    <2>1. worker[w].event.name \in Names /\ worker[w].event.confirmed \in BOOLEAN
      BY <1>0, <1>6, WorkerSteps, EventTypes DEF Schedule
    <2>2. timer' \in [Names -> TimerStates]
      BY <1>6, <2>1, ArmType DEF Schedule
    <2>3. QED BY <1>6, <2>2, Rests DEF Schedule
  <1>7. QED BY <1>1, <1>2, <1>3, <1>4, <1>5, <1>6 DEF WorkerStep

LEMMA CloseType ==
  ASSUME TypeOK, Stop \/ Close
  PROVE  TypeOK'
  <1> USE DEF TypeOK
  <1>1. CASE Stop
    BY <1>1 DEF Stop, ClosingStates
  <1>2. CASE CancelTimers
    BY <1>2, Rests DEF CancelTimers, ClosingStates
  <1>3. CASE ShutdownServer
    BY <1>3 DEF ShutdownServer, ClosingStates
  <1>4. CASE PutSentinel
    <2>1. closing' \in ClosingStates
      BY <1>4, Sizes DEF PutSentinel, ClosingStates
    <2>2. queue' \in Seq(Events \union {Sentinel}) /\ Len(queue') <= QueueSize
      BY <1>4, AppendType DEF PutSentinel
    <2>3. QED BY <1>4, <2>1, <2>2 DEF PutSentinel
  <1>5. QED BY <1>1, <1>2, <1>3, <1>4 DEF Close

LEMMA TypeStep == TypeOK /\ [Next]_vars => TypeOK'
  <1> SUFFICES ASSUME TypeOK, [Next]_vars PROVE TypeOK'
    OBVIOUS
  <1>1. ASSUME NEW n \in Names, Reconcile(n) PROVE TypeOK'
    BY <1>1, ArmType DEF Reconcile, TypeOK
  <1>2. CASE UNCHANGED vars
    BY <1>2 DEF vars, TypeOK
  <1>3. QED
    BY <1>1, <1>2, SubmissionType, TimerType, CallbackType, WorkerType, CloseType DEF Next

\* Every thread, timer and event is well formed and the queue never exceeds
\* its size, whatever the interleaving.
THEOREM IntakeTypeCorrect == Spec => []TypeOK
  <1>1. QED BY TypeInit, TypeStep, PTL DEF Spec

-----------------------------------------------------------------------------
(* The timers after close.                                                 *)

\* Once close has cancelled the timers none is ever tracked again.
LEMMA CancelStep == TypeOK /\ NoTimerAfterCancel /\ [Next]_vars => NoTimerAfterCancel'
  <1> SUFFICES ASSUME TypeOK, NoTimerAfterCancel, [Next]_vars PROVE NoTimerAfterCancel'
    OBVIOUS
  <1> USE DEF NoTimerAfterCancel
  <1>1. ASSUME NEW n \in Names, Untrack(n), closing' = closing PROVE NoTimerAfterCancel'
    BY <1>1 DEF Untrack, Untracked, TypeOK
  <1>2. ASSUME NEW n, NEW flag, Arm(n, flag), closing' = closing PROVE NoTimerAfterCancel'
    BY <1>2 DEF Arm, Stopping
  <1>3. ASSUME UNCHANGED <<timer, closing>> PROVE NoTimerAfterCancel'
    BY <1>3
  <1>4. ASSUME NEW h \in Requests, Claim(h) \/ PutAlert(h) \/ Release(h)
        PROVE  NoTimerAfterCancel'
    BY <1>3, <1>4 DEF Claim, PutAlert, Release
  <1>5. ASSUME NEW n \in Names, NEW c \in Callbacks, Fire(n, c) PROVE NoTimerAfterCancel'
    BY <1>5 DEF Fire
  <1>6. ASSUME NEW c \in Callbacks, CallbackStep(c) PROVE NoTimerAfterCancel'
    <2>1. CASE ClearFired(c)
      <3>1. callback[c] \in CallbackStates /\ callback[c].pc # "unused"
        BY <2>1 DEF ClearFired, TypeOK
      <3>2. callback[c].event.name \in Names
        BY <3>1, CallbackSteps, EventTypes
      <3>3. QED BY <1>1, <2>1, <3>2 DEF ClearFired
    <2>2. CASE CheckStopping(c) \/ PutFollowup(c)
      BY <1>3, <2>2 DEF CheckStopping, PutFollowup
    <2>3. QED BY <1>6, <2>1, <2>2 DEF CallbackStep
  <1>7. ASSUME NEW n \in Names, Reconcile(n) PROVE NoTimerAfterCancel'
    BY <1>2, <1>7 DEF Reconcile
  <1>8. ASSUME NEW w \in Workers, WorkerStep(w) PROVE NoTimerAfterCancel'
    <2>1. CASE ClearTaken(w)
      <3>1. worker[w].event.name \in Names
        BY <2>1, WorkerSteps, EventNames DEF ClearTaken, TypeOK
      <3>2. QED BY <1>1, <2>1, <3>1 DEF ClearTaken
    <2>2. CASE Schedule(w)
      BY <1>2, <2>2 DEF Schedule
    <2>3. CASE LoopTop(w) \/ GetTimeout(w) \/ Get(w) \/ Process(w)
      BY <1>3, <2>3 DEF LoopTop, GetTimeout, Get, Process
    <2>4. QED BY <1>8, <2>1, <2>2, <2>3 DEF WorkerStep
  <1>9. CASE Stop
    BY <1>9 DEF Stop, TypeOK, ClosingStates
  <1>10. CASE Close
    BY <1>10 DEF Close, CancelTimers, ShutdownServer, PutSentinel, TypeOK, ClosingStates,
                 Untracked
  <1>11. CASE UNCHANGED vars
    BY <1>3, <1>11 DEF vars
  <1>12. QED
    BY <1>4, <1>5, <1>6, <1>7, <1>8, <1>9, <1>10, <1>11 DEF Next

\* After close has cancelled the follow-up timers no worker, callback or
\* reconciliation leaves an armed timer behind.
THEOREM TimersStayCancelled == Spec => []NoTimerAfterCancel
  <1>1. Init => NoTimerAfterCancel
    BY DEF Init, NoTimerAfterCancel
  <1>2. QED BY <1>1, CancelStep, TypeInit, TypeStep, PTL DEF Spec

-----------------------------------------------------------------------------
(* Claims.  ClaimInv says who holds a claim: while its alert is in the     *)
(* hand of a thread nothing is queued under it, otherwise one event is.    *)

HeldOnce ==
  \A g, h \in Requests : http[g] # Free /\ http[g].alert = http[h].alert => g = h
HeldIsClaimed ==
  \A h \in Requests :
    http[h] # Free => http[h].alert \in claims /\ puts[http[h].alert] = 0
ReleasedIsQueued ==
  \A a \in claims : (\A h \in Requests : http[h].alert # a) => puts[a] = 1
UnclaimedIsNotCounted == \A a \in Alerts \ claims : puts[a] = 0
ClaimInv == HeldOnce /\ HeldIsClaimed /\ ReleasedIsQueued /\ UnclaimedIsNotCounted

LEMMA ClaimInvMeaning == TypeOK /\ ClaimInv => OneEventPerClaim
  <1> SUFFICES ASSUME TypeOK, ClaimInv, NEW a \in claims
               PROVE  \/ puts[a] = 1 /\ Submitting(a) = {}
                      \/ puts[a] = 0 /\ \E h \in Requests : Submitting(a) = {h}
    BY DEF OneEventPerClaim
  <1>1. a \in Alerts /\ a # Nothing
    BY EventTypes DEF TypeOK
  <1>2. CASE \A h \in Requests : http[h].alert # a
    BY <1>2 DEF ClaimInv, ReleasedIsQueued, Submitting
  <1>3. ASSUME NEW h \in Requests, http[h].alert = a
        PROVE  puts[a] = 0 /\ Submitting(a) = {h}
    <2>1. http[h] # Free
      BY <1>1, <1>3 DEF Free
    <2>2. QED
      BY <1>3, <2>1 DEF ClaimInv, HeldOnce, HeldIsClaimed, Submitting
  <1>4. QED BY <1>2, <1>3

\* The steps that touch neither the claims nor the HTTP threads.
LEMMA ClaimInvFrame ==
  ClaimInv /\ UNCHANGED <<claims, http, puts>> => ClaimInv'
  BY DEF ClaimInv, HeldOnce, HeldIsClaimed, ReleasedIsQueued, UnclaimedIsNotCounted

LEMMA ClaimKeeps ==
  ASSUME TypeOK, ClaimInv, NEW h \in Requests, Claim(h)
  PROVE  ClaimInv'
  <1>1. PICK a \in Alerts, expired \in SUBSET (claims \ InHand) :
          /\ claims' = (claims \ expired) \union {a}
          /\ http' = IF a \in claims \ expired THEN http
                     ELSE [http EXCEPT ![h] = [pc |-> "put", alert |-> a]]
          /\ puts' = [b \in Alerts |-> IF b \in expired THEN 0 ELSE puts[b]]
    BY DEF Claim
  <1>2. http[h] = Free /\ Free.alert = Nothing /\ Nothing \notin Alerts
    BY EventTypes DEF Claim, Free
  <1>3. \A g \in Requests : http[g] # Free =>
          http[g].alert \in claims \ expired /\ http[g].alert \in Alerts
    <2>1. TAKE g \in Requests
    <2>2. HAVE http[g] # Free
    <2>3. http[g].alert \in InHand
      BY <2>2 DEF InHand
    <2>4. http[g].alert \in claims
      BY <2>2 DEF ClaimInv, HeldIsClaimed
    <2>5. QED BY <2>3, <2>4 DEF TypeOK
  <1>4. expired \subseteq Alerts /\ claims \subseteq Alerts
    BY DEF TypeOK
  <1>5. \A g \in Requests : http[g] = Free => http[g].alert = Nothing
    BY <1>2
  <1>6. CASE a \in claims \ expired
    <2>1. http' = http /\ claims' = claims \ expired
      BY <1>1, <1>6
    <2>2. HeldOnce' /\ HeldIsClaimed'
      BY <1>1, <1>3, <2>1 DEF ClaimInv, HeldOnce, HeldIsClaimed
    <2>3. ReleasedIsQueued' /\ UnclaimedIsNotCounted'
      BY <1>1, <1>4, <2>1 DEF ClaimInv, ReleasedIsQueued, UnclaimedIsNotCounted
    <2>4. QED BY <2>2, <2>3 DEF ClaimInv
  <1>7. CASE a \notin claims \ expired
    <2>1. DEFINE held == [pc |-> "put", alert |-> a]
    <2>2. http' = [http EXCEPT ![h] = held] /\ held.alert = a /\ held # Free
      BY <1>1, <1>7, Zenon DEF Free
    <2>3. \A g \in Requests : http'[g] = IF g = h THEN held ELSE http[g]
      BY <2>2 DEF TypeOK
    <2> HIDE DEF held
    <2>4. \A g \in Requests : g # h => http[g].alert # a
      BY <1>2, <1>3, <1>5, <1>7
    <2>5. HeldOnce'
      BY <2>2, <2>3, <2>4 DEF ClaimInv, HeldOnce
    <2>6. puts'[a] = 0
      BY <1>1, <1>7 DEF ClaimInv, UnclaimedIsNotCounted
    <2>7. HeldIsClaimed'
      BY <1>1, <1>3, <2>2, <2>3, <2>6 DEF ClaimInv, HeldIsClaimed
    <2>8. ReleasedIsQueued'
      <3> SUFFICES ASSUME NEW b \in claims', \A g \in Requests : http'[g].alert # b
                   PROVE  puts'[b] = 1
        BY DEF ReleasedIsQueued
      <3>1. b # a /\ b \in claims \ expired
        BY <1>1, <2>2, <2>3
      <3>2. \A g \in Requests : http[g].alert # b
        BY <1>2, <1>4, <2>3, <3>1
      <3>3. QED BY <1>1, <1>4, <3>1, <3>2 DEF ClaimInv, ReleasedIsQueued
    <2>9. UnclaimedIsNotCounted'
      BY <1>1 DEF ClaimInv, UnclaimedIsNotCounted
    <2>10. QED BY <2>5, <2>7, <2>8, <2>9 DEF ClaimInv
  <1>8. QED BY <1>6, <1>7

LEMMA PutAlertKeeps ==
  ASSUME TypeOK, ClaimInv, NEW h \in Requests, PutAlert(h)
  PROVE  ClaimInv'
  <1> DEFINE a == http[h].alert
  <1>1. http[h] # Free /\ a \in Alerts /\ a \in claims /\ puts[a] = 0
    BY HttpSteps DEF PutAlert, TypeOK, ClaimInv, HeldIsClaimed
  <1>2. Free.alert = Nothing /\ Nothing \notin Alerts /\ Free.pc = "free"
    BY EventTypes DEF Free
  <1>3. CASE Full
    <2>1. http' = [http EXCEPT ![h].pc = "release"] /\ UNCHANGED <<claims, puts>>
      BY <1>3 DEF PutAlert
    <2>2. \A g \in Requests : http'[g].alert = http[g].alert /\ (http'[g] = Free => http[g] = Free)
      BY <1>1, <1>2, <2>1 DEF TypeOK, HttpStates
    <2>3. \A g \in Requests : http'[g] # Free => http[g] # Free
      BY <1>1, <2>1 DEF TypeOK
    <2>4. QED
      BY <2>1, <2>2, <2>3
      DEF ClaimInv, HeldOnce, HeldIsClaimed, ReleasedIsQueued, UnclaimedIsNotCounted
  <1>4. CASE ~Full
    <2>1. http' = [http EXCEPT ![h] = Free] /\ puts' = [puts EXCEPT ![a] = @ + 1]
          /\ claims' = claims
      BY <1>4 DEF PutAlert
    <2>2. \A g \in Requests : http'[g] = IF g = h THEN Free ELSE http[g]
      BY <2>1 DEF TypeOK
    <2>3. \A b \in Alerts : puts'[b] = IF b = a THEN 1 ELSE puts[b]
      BY <1>1, <2>1 DEF TypeOK
    <2>4. \A g \in Requests : g # h => http[g].alert # a
      BY <1>1 DEF ClaimInv, HeldOnce
    <2> HIDE DEF a
    <2>5. HeldOnce'
      <3> SUFFICES ASSUME NEW f \in Requests, NEW g \in Requests, http'[f] # Free,
                          http'[f].alert = http'[g].alert
                   PROVE  f = g
        BY DEF HeldOnce
      <3>1. f # h /\ http[f] # Free /\ http[f].alert \in Alerts
        BY <2>2, HttpSteps DEF TypeOK
      <3>2. g # h
        BY <1>2, <2>2, <3>1
      <3>3. QED BY <2>2, <3>1, <3>2 DEF ClaimInv, HeldOnce
    <2>6. HeldIsClaimed'
      BY <2>1, <2>2, <2>3, <2>4, HttpSteps DEF ClaimInv, HeldIsClaimed, TypeOK
    <2>7. ReleasedIsQueued'
      <3> SUFFICES ASSUME NEW b \in claims, \A g \in Requests : http'[g].alert # b
                   PROVE  puts'[b] = 1
        BY <2>1 DEF ReleasedIsQueued
      <3>1. CASE b = a
        BY <1>1, <2>3, <3>1
      <3>2. CASE b # a
        <4>1. \A g \in Requests : http[g].alert # b
          BY <2>2, <3>2 DEF a
        <4>2. QED BY <2>3, <3>2, <4>1 DEF ClaimInv, ReleasedIsQueued, TypeOK
      <3>3. QED BY <3>1, <3>2
    <2>8. UnclaimedIsNotCounted'
      BY <1>1, <2>1, <2>3 DEF ClaimInv, UnclaimedIsNotCounted
    <2>9. QED BY <2>5, <2>6, <2>7, <2>8 DEF ClaimInv
  <1>5. QED BY <1>3, <1>4

LEMMA ReleaseKeeps ==
  ASSUME TypeOK, ClaimInv, NEW h \in Requests, Release(h)
  PROVE  ClaimInv'
  <1> DEFINE a == http[h].alert
  <1>1. http[h] # Free /\ a \in Alerts /\ a \in claims /\ puts[a] = 0
    BY HttpSteps DEF Release, TypeOK, ClaimInv, HeldIsClaimed
  <1>2. Free.alert = Nothing /\ Nothing \notin Alerts
    BY EventTypes DEF Free
  <1>3. http' = [http EXCEPT ![h] = Free] /\ claims' = claims \ {a}
        /\ puts' = [puts EXCEPT ![a] = 0]
    BY DEF Release
  <1>4. \A g \in Requests : http'[g] = IF g = h THEN Free ELSE http[g]
    BY <1>3 DEF TypeOK
  <1>5. \A b \in Alerts : puts'[b] = puts[b]
    BY <1>1, <1>3 DEF TypeOK
  <1>6. \A g \in Requests : g # h => http[g].alert # a
    BY <1>1 DEF ClaimInv, HeldOnce
  <1>7. puts'[a] = 0
    BY <1>1, <1>5
  <1>8. \A b \in claims : b # a => \A g \in Requests : http'[g].alert # b => http[g].alert # b
    BY <1>4
  <1> HIDE DEF a
  <1>9. HeldOnce'
    <2> SUFFICES ASSUME NEW f \in Requests, NEW g \in Requests, http'[f] # Free,
                        http'[f].alert = http'[g].alert
                 PROVE  f = g
      BY DEF HeldOnce
    <2>1. f # h /\ http[f] # Free /\ http[f].alert \in Alerts
      BY <1>4, HttpSteps DEF TypeOK
    <2>2. g # h
      BY <1>2, <1>4, <2>1
    <2>3. QED BY <1>4, <2>1, <2>2 DEF ClaimInv, HeldOnce
  <1>10. HeldIsClaimed'
    BY <1>3, <1>4, <1>5, <1>6, HttpSteps DEF ClaimInv, HeldIsClaimed, TypeOK
  <1>11. ReleasedIsQueued'
    <2> SUFFICES ASSUME NEW b \in claims \ {a}, \A g \in Requests : http'[g].alert # b
                 PROVE  puts'[b] = 1
      BY <1>3 DEF ReleasedIsQueued
    <2>1. \A g \in Requests : http[g].alert # b
      BY <1>4 DEF a
    <2>2. QED BY <1>5, <2>1 DEF ClaimInv, ReleasedIsQueued, TypeOK
  <1>12. UnclaimedIsNotCounted'
    BY <1>3, <1>5, <1>7 DEF ClaimInv, UnclaimedIsNotCounted
  <1>13. QED BY <1>9, <1>10, <1>11, <1>12 DEF ClaimInv

LEMMA ClaimInvStep == TypeOK /\ ClaimInv /\ [Next]_vars => ClaimInv'
  <1> SUFFICES ASSUME TypeOK, ClaimInv, [Next]_vars PROVE ClaimInv'
    OBVIOUS
  <1>1. ASSUME NEW h \in Requests, Claim(h) \/ PutAlert(h) \/ Release(h) PROVE ClaimInv'
    BY <1>1, ClaimKeeps, PutAlertKeeps, ReleaseKeeps
  <1>2. ASSUME NEW n \in Names, NEW c \in Callbacks, Fire(n, c) PROVE ClaimInv'
    BY <1>2, ClaimInvFrame DEF Fire
  <1>3. ASSUME NEW c \in Callbacks, CallbackStep(c) PROVE ClaimInv'
    BY <1>3, ClaimInvFrame DEF CallbackStep, ClearFired, CheckStopping, PutFollowup
  <1>4. ASSUME NEW n \in Names, Reconcile(n) PROVE ClaimInv'
    BY <1>4, ClaimInvFrame DEF Reconcile
  <1>5. ASSUME NEW w \in Workers, WorkerStep(w) PROVE ClaimInv'
    BY <1>5, ClaimInvFrame
    DEF WorkerStep, LoopTop, GetTimeout, Get, ClearTaken, Process, Schedule
  <1>6. CASE Stop \/ Close
    BY <1>6, ClaimInvFrame DEF Stop, Close, CancelTimers, ShutdownServer, PutSentinel
  <1>7. CASE UNCHANGED vars
    BY <1>7, ClaimInvFrame DEF vars
  <1>8. QED BY <1>1, <1>2, <1>3, <1>4, <1>5, <1>6, <1>7 DEF Next

\* With any number of HTTP threads a claim in force stands for one event:
\* one in the hand of a thread, or one queued, never none and never two.
THEOREM ClaimsStandForOneEvent == Spec => []OneEventPerClaim
  <1>1. Init => ClaimInv
    BY DEF Init, ClaimInv, HeldOnce, HeldIsClaimed, ReleasedIsQueued, UnclaimedIsNotCounted
  <1>2. QED BY <1>1, ClaimInvStep, ClaimInvMeaning, TypeInit, TypeStep, PTL DEF Spec

-----------------------------------------------------------------------------
(* Follow-ups.  FollowupNotForgotten is inductive: each step hands a       *)
(* follow-up from one of its four places to the next.                      *)

TimerHas(n) == timer[n].state # "none"
CallbackHas(n) == \E c \in Callbacks : callback[c] # Unused /\ callback[c].event.name = n
QueueHas(n) == \E i \in DOMAIN queue : queue[i] # Sentinel /\ queue[i].name = n
WorkerHas(n) ==
  \E w \in Workers :
    worker[w].pc \in {"clear", "process", "schedule"} /\ worker[w].event.name = n

LEMMA Places ==
  ASSUME NEW n
  PROVE  /\ OnItsWay(n) <=> TimerHas(n) \/ CallbackHas(n) \/ QueueHas(n) \/ WorkerHas(n)
         /\ OnItsWay(n)' <=> TimerHas(n)' \/ CallbackHas(n)' \/ QueueHas(n)' \/ WorkerHas(n)'
  BY DEF OnItsWay, TimerHas, CallbackHas, QueueHas, WorkerHas

LEMMA AppendHas ==
  ASSUME TypeOK, NEW e, queue' = Append(queue, e), NEW n
  PROVE  /\ QueueHas(n) => QueueHas(n)'
         /\ e # Sentinel /\ e.name = n => QueueHas(n)'
  <1>1. queue \in Seq(Events \union {Sentinel})
    BY DEF TypeOK
  <1>2. /\ DOMAIN queue' = 1 .. Len(queue) + 1 /\ DOMAIN queue = 1 .. Len(queue)
        /\ Len(queue) \in Nat
        /\ \A i \in 1 .. Len(queue) : queue'[i] = queue[i]
        /\ queue'[Len(queue) + 1] = e
    BY <1>1
  <1>3. DOMAIN queue \subseteq DOMAIN queue' /\ Len(queue) + 1 \in DOMAIN queue'
    BY <1>2
  <1>4. QED BY <1>2, <1>3 DEF QueueHas

LEMMA TailHas ==
  ASSUME TypeOK, queue # <<>>, queue' = Tail(queue), NEW n, QueueHas(n)
  PROVE  QueueHas(n)' \/ (Head(queue) # Sentinel /\ Head(queue).name = n)
  <1>1. PICK i \in DOMAIN queue : queue[i] # Sentinel /\ queue[i].name = n
    BY DEF QueueHas
  <1>2. queue \in Seq(Events \union {Sentinel})
    BY DEF TypeOK
  <1>3. CASE i = 1
    BY <1>1, <1>2, <1>3
  <1>4. CASE i # 1
    <2>1. i - 1 \in DOMAIN queue' /\ queue'[i - 1] = queue[i]
      BY <1>2, <1>4
    <2>2. QED BY <1>1, <2>1 DEF QueueHas
  <1>5. QED BY <1>3, <1>4

\* The steps that leave the four places and the debts alone.
LEMMA FollowupFrame ==
  FollowupNotForgotten /\ UNCHANGED <<timer, callback, queue, worker, closing, owed>>
    => FollowupNotForgotten'
  BY DEF FollowupNotForgotten, OnItsWay, Stopping

LEMMA SubmissionKeepsFollowups ==
  ASSUME TypeOK, FollowupNotForgotten, NEW h \in Requests,
         Claim(h) \/ PutAlert(h) \/ Release(h)
  PROVE  FollowupNotForgotten'
  <1>1. CASE Claim(h) \/ Release(h) \/ (PutAlert(h) /\ Full)
    BY <1>1, FollowupFrame DEF Claim, Release, PutAlert
  <1>2. CASE PutAlert(h) /\ ~Full
    <2> SUFFICES ASSUME ~Stopping, NEW n \in Names, OnItsWay(n) PROVE OnItsWay(n)'
      BY <1>2 DEF FollowupNotForgotten, PutAlert, Stopping
    <2>1. queue' = Append(queue, http[h].alert) /\ UNCHANGED <<timer, callback, worker>>
      BY <1>2 DEF PutAlert
    <2>2. QED
      BY <2>1, AppendHas, Places DEF TimerHas, CallbackHas, WorkerHas
  <1>3. QED BY <1>1, <1>2

LEMMA CallbackKeepsFollowups ==
  ASSUME TypeOK, FollowupNotForgotten, NEW c \in Callbacks, CallbackStep(c)
  PROVE  FollowupNotForgotten'
  <1> SUFFICES ASSUME ~Stopping, NEW n \in Names, owed'[n] # "no" PROVE OnItsWay(n)'
    BY DEF FollowupNotForgotten, Stopping, CallbackStep, ClearFired, CheckStopping, PutFollowup
  <1> DEFINE m == callback[c].event.name
  <1>1. callback[c] \in CallbackStates /\ callback[c].pc # "unused"
        /\ callback \in [Callbacks -> CallbackStates]
    BY DEF TypeOK, CallbackStep, ClearFired, CheckStopping, PutFollowup
  <1>2. callback[c].event \in Followups /\ m \in Names /\ callback[c] # Unused
    BY <1>1, CallbackSteps, EventTypes
  <1>3. owed[n] # "no" => OnItsWay(n)
    BY DEF FollowupNotForgotten
  <1>4. ASSUME NEW pc \in {"check", "put"}, callback' = [callback EXCEPT ![c].pc = pc]
        PROVE  (n = m \/ CallbackHas(n)) => CallbackHas(n)'
    <2>1. callback'[c].event = callback[c].event /\ callback'[c].pc = pc
      BY <1>1, <1>2, <1>4 DEF CallbackStates, Unused
    <2>2. callback'[c] # Unused
      BY <2>1 DEF Unused
    <2>3. \A d \in Callbacks : d # c => callback'[d] = callback[d]
      BY <1>1, <1>4
    <2>4. QED BY <2>1, <2>2, <2>3 DEF CallbackHas
  <1>5. CASE ClearFired(c)
    <2>1. callback' = [callback EXCEPT ![c].pc = "check"] /\ Untrack(m)
          /\ UNCHANGED <<queue, worker, owed>>
      BY <1>5 DEF ClearFired
    <2>2. CASE n = m
      BY <1>4, <2>1, <2>2, Places
    <2>3. CASE n # m
      <3>1. timer'[n] = timer[n]
        BY <2>1, <2>3 DEF Untrack, TypeOK
      <3>2. QED
        BY <1>3, <1>4, <2>1, <3>1, Places DEF TimerHas, QueueHas, WorkerHas
    <2>4. QED BY <2>2, <2>3
  <1>6. CASE CheckStopping(c)
    <2>1. callback' = [callback EXCEPT ![c].pc = "put"] /\ UNCHANGED <<timer, queue, worker, owed>>
      BY <1>6 DEF CheckStopping
    <2>2. QED BY <1>3, <1>4, <2>1, Places DEF TimerHas, QueueHas, WorkerHas
  <1>7. CASE PutFollowup(c)
    <2>1. callback' = [callback EXCEPT ![c] = Unused] /\ UNCHANGED <<timer, worker>>
      BY <1>7 DEF PutFollowup
    <2>2. \A d \in Callbacks : d # c => callback'[d] = callback[d]
      BY <1>1, <2>1
    <2>3. n # m => (CallbackHas(n) => CallbackHas(n)')
      BY <2>2 DEF CallbackHas
    <2>4. CASE Full
      <3>1. owed' = [owed EXCEPT ![m] = "no"] /\ queue' = queue
        BY <1>7, <2>4 DEF PutFollowup
      <3>2. n # m /\ owed[n] # "no"
        BY <1>2, <3>1 DEF TypeOK
      <3>3. QED BY <1>3, <2>1, <2>3, <3>1, <3>2, Places DEF TimerHas, QueueHas, WorkerHas
    <2>5. CASE ~Full
      <3>1. owed' = owed /\ queue' = Append(queue, callback[c].event)
        BY <1>7, <2>5 DEF PutFollowup
      <3>2. CASE n = m
        <4>1. callback[c].event # Sentinel
          BY <1>2, EventNames
        <4>2. QED BY <3>1, <3>2, <4>1, AppendHas, Places
      <3>3. CASE n # m
        BY <1>3, <2>1, <2>3, <3>1, <3>3, AppendHas, Places DEF TimerHas, WorkerHas
      <3>4. QED BY <3>2, <3>3
    <2>6. QED BY <2>4, <2>5
  <1>8. QED BY <1>5, <1>6, <1>7 DEF CallbackStep

LEMMA WorkerKeepsFollowups ==
  ASSUME TypeOK, FollowupNotForgotten, NEW w \in Workers, WorkerStep(w)
  PROVE  FollowupNotForgotten'
  <1> SUFFICES ASSUME ~Stopping, NEW n \in Names, owed'[n] # "no" PROVE OnItsWay(n)'
    BY DEF FollowupNotForgotten, Stopping, WorkerStep, LoopTop, GetTimeout, Get, ClearTaken,
           Process, Schedule
  <1> DEFINE m == worker[w].event.name
  <1>1. worker[w] \in WorkerStates /\ worker \in [Workers -> WorkerStates]
    BY DEF TypeOK
  <1>2. owed[n] # "no" => OnItsWay(n)
    BY DEF FollowupNotForgotten
  <1>3. ASSUME NEW s, worker' = [worker EXCEPT ![w] = s],
               worker[w].pc \in {"clear", "process", "schedule"} => n # m
        PROVE  WorkerHas(n) => WorkerHas(n)'
    BY <1>1, <1>3 DEF WorkerHas
  <1>4. ASSUME NEW s, worker' = [worker EXCEPT ![w] = s],
               s.pc \in {"clear", "process", "schedule"}, s.event.name = n
        PROVE  OnItsWay(n)'
    BY <1>1, <1>4, Places DEF WorkerHas
  <1>5. CASE LoopTop(w) \/ GetTimeout(w)
    <2>1. PICK s : worker' = [worker EXCEPT ![w] = s]
      BY <1>5 DEF LoopTop, GetTimeout
    <2>2. worker[w].pc \in {"loop", "get"} /\ UNCHANGED <<timer, callback, queue, owed>>
      BY <1>5 DEF LoopTop, GetTimeout
    <2>3. QED
      BY <1>2, <1>3, <2>1, <2>2, Places DEF TimerHas, CallbackHas, QueueHas
  <1>6. CASE Get(w)
    <2> DEFINE s == IF Head(queue) = Sentinel THEN Exited
                    ELSE [pc |-> "clear", event |-> Head(queue)]
    <2>1. /\ worker[w].pc = "get" /\ queue # <<>> /\ queue' = Tail(queue)
          /\ worker' = [worker EXCEPT ![w] = s]
          /\ UNCHANGED <<timer, callback, owed>>
      BY <1>6 DEF Get
    <2>2. CASE Head(queue) # Sentinel /\ Head(queue).name = n
      <3>1. s.pc = "clear" /\ s.event.name = n
        BY <2>2
      <3>2. QED BY <1>4, <2>1, <3>1
    <2>3. CASE ~(Head(queue) # Sentinel /\ Head(queue).name = n)
      <3>1. QueueHas(n) => QueueHas(n)'
        BY <2>1, <2>3, TailHas
      <3>2. WorkerHas(n) => WorkerHas(n)'
        BY <1>3, <2>1
      <3>3. QED BY <1>2, <2>1, <3>1, <3>2, Places DEF TimerHas, CallbackHas
    <2>4. QED BY <2>2, <2>3
  <1>7. CASE ClearTaken(w)
    <2> DEFINE s == [worker[w] EXCEPT !.pc = "process"]
    <2>1. /\ worker[w].pc = "clear" /\ Untrack(m) /\ UNCHANGED <<callback, queue, owed>>
          /\ worker' = [worker EXCEPT ![w] = s]
      BY <1>1, <1>7 DEF ClearTaken
    <2>2. s.pc = "process" /\ s.event = worker[w].event
      BY <1>1, <2>1 DEF WorkerStates, Loop, Waiting, Exited
    <2>3. CASE n = m
      BY <1>4, <2>1, <2>2, <2>3
    <2>4. CASE n # m
      <3>1. timer'[n] = timer[n]
        BY <2>1, <2>4 DEF Untrack, TypeOK
      <3>2. WorkerHas(n) => WorkerHas(n)'
        BY <1>3, <2>1, <2>4
      <3>3. QED
        BY <1>2, <2>1, <3>1, <3>2, Places DEF TimerHas, CallbackHas, QueueHas
    <2>5. QED BY <2>3, <2>4
  <1>8. CASE Process(w)
    <2>1. worker[w].pc = "process" /\ UNCHANGED <<timer, callback, queue>>
      BY <1>8 DEF Process
    <2>2. m \in Names
      BY <1>1, <2>1, WorkerSteps, EventNames
    <2> DEFINE done == [owed EXCEPT ![m] = "no"]
    <2>3. done[n] # "no" => n # m /\ OnItsWay(n)
      BY <1>2, <2>2 DEF TypeOK
    <2>4. ASSUME NEW s, worker' = [worker EXCEPT ![w] = s], done[n] # "no" PROVE OnItsWay(n)'
      <3>1. n # m /\ OnItsWay(n)
        BY <2>3, <2>4
      <3>2. WorkerHas(n) => WorkerHas(n)'
        BY <1>3, <2>4, <3>1
      <3>3. QED BY <2>1, <3>1, <3>2, Places DEF TimerHas, CallbackHas, QueueHas
    <2>5. CASE worker' = [worker EXCEPT ![w] = Loop] /\ owed' = done
      BY <2>4, <2>5
    <2>6. ASSUME NEW k \in Names, NEW d,
                 worker' = [worker EXCEPT ![w] =
                   [pc |-> "schedule", event |-> Followup(k, worker[w].event.confirmed)]],
                 owed' = [done EXCEPT ![k] = d]
          PROVE  OnItsWay(n)'
      <3>1. CASE n = k
        BY <1>4, <2>6, <3>1 DEF Followup
      <3>2. CASE n # k
        <4>1. owed'[n] = done[n]
          BY <2>6, <3>2 DEF TypeOK
        <4>2. QED BY <2>4, <2>6, <4>1
      <3>3. QED BY <3>1, <3>2
    <2>7. QED
      BY <1>8, <2>5, <2>6 DEF Process
  <1>9. CASE Schedule(w)
    <2>1. /\ worker[w].pc = "schedule" /\ Arm(m, worker[w].event.confirmed)
          /\ worker' = [worker EXCEPT ![w] = Loop] /\ UNCHANGED <<callback, queue, owed>>
      BY <1>9 DEF Schedule
    <2>2. m \in Names
      BY <1>1, <2>1, WorkerSteps, EventTypes
    <2>3. (n = m \/ TimerHas(n)) => TimerHas(n)'
      <3>1. CASE timer[m].state # "none"
        BY <2>1, <3>1 DEF Arm, TimerHas
      <3>2. CASE timer[m].state = "none"
        <4>1. timer' = [timer EXCEPT ![m] =
                [state |-> "armed", confirmed |-> worker[w].event.confirmed]]
          BY <2>1, <3>2 DEF Arm
        <4>2. QED BY <2>2, <4>1 DEF TimerHas, TypeOK
      <3>3. QED BY <3>1, <3>2
    <2>4. n # m => (WorkerHas(n) => WorkerHas(n)')
      BY <1>3, <2>1
    <2>5. CASE n = m
      BY <2>3, <2>5, Places
    <2>6. CASE n # m
      <3>1. OnItsWay(n)
        BY <1>2, <2>1
      <3>2. QED
        BY <2>1, <2>3, <2>4, <2>6, <3>1, Places DEF CallbackHas, QueueHas
    <2>7. QED BY <2>5, <2>6
  <1>10. QED BY <1>5, <1>6, <1>7, <1>8, <1>9 DEF WorkerStep

LEMMA FireKeepsFollowups ==
  ASSUME TypeOK, FollowupNotForgotten, NEW k \in Names, NEW c \in Callbacks, Fire(k, c)
  PROVE  FollowupNotForgotten'
  <1> SUFFICES ASSUME ~Stopping, NEW n \in Names, OnItsWay(n) PROVE OnItsWay(n)'
    BY DEF FollowupNotForgotten, Fire, Stopping
  <1>1. callback[c] = Unused /\ UNCHANGED <<queue, worker>>
        /\ timer' = [timer EXCEPT ![k].state = "fired"]
    BY DEF Fire
  <1>2. TimerHas(n) => TimerHas(n)'
    BY <1>1 DEF TimerHas, TypeOK, TimerStates
  <1>3. CallbackHas(n) => CallbackHas(n)'
    BY <1>1 DEF CallbackHas, Fire, TypeOK
  <1>4. QED BY <1>1, <1>2, <1>3, Places DEF QueueHas, WorkerHas

LEMMA FollowupStep == TypeOK /\ FollowupNotForgotten /\ [Next]_vars => FollowupNotForgotten'
  <1> SUFFICES ASSUME TypeOK, FollowupNotForgotten, [Next]_vars PROVE FollowupNotForgotten'
    OBVIOUS
  <1>1. ASSUME NEW k \in Names, Reconcile(k) PROVE FollowupNotForgotten'
    <2> SUFFICES ASSUME ~Stopping, NEW n \in Names, OnItsWay(n) PROVE OnItsWay(n)'
      BY <1>1 DEF FollowupNotForgotten, Reconcile, Stopping
    <2>1. TimerHas(n) => TimerHas(n)'
      BY <1>1 DEF Reconcile, Arm, TimerHas, TypeOK
    <2>2. QED BY <1>1, <2>1, Places DEF Reconcile, CallbackHas, QueueHas, WorkerHas
  <1>2. CASE Stop \/ Close
    BY <1>2
    DEF FollowupNotForgotten, Stop, Close, CancelTimers, ShutdownServer, PutSentinel,
        Stopping, TypeOK, ClosingStates
  <1>3. CASE UNCHANGED vars
    BY <1>3, FollowupFrame DEF vars
  <1>4. QED
    BY <1>1, <1>2, <1>3, SubmissionKeepsFollowups, CallbackKeepsFollowups,
       WorkerKeepsFollowups, FireKeepsFollowups DEF Next

\* With any number of connectors, workers and timer threads, a follow-up the
\* state machine asked for is processed or on its way until a full queue
\* drops it or the service stops.
THEOREM FollowupsNotForgotten == Spec => []FollowupNotForgotten
  <1>1. Init => FollowupNotForgotten
    BY DEF Init, FollowupNotForgotten
  <1>2. QED BY <1>1, FollowupStep, TypeInit, TypeStep, PTL DEF Spec

-----------------------------------------------------------------------------
(* The circuit of the status client *)

\* The threads' steps, as one list of disjuncts to split a step on.
LEMMA CircuitSteps ==
  ASSUME CircuitNext
  PROVE  \/ \E t \in Clients : Admit(t)
         \/ \E t \in Clients : Reach(t)
         \/ \E t \in Clients : ClosesCircuit(t) \/ ClosesAgain(t)
         \/ \E t \in Clients : OpensCircuit(t)
         \/ \E t \in Clients : Raises(t)
         \/ CooldownPasses
         \/ GoesDown
         \/ ComesBack
  BY DEF CircuitNext

LEMMA CircuitTypeStep ==
  ASSUME CircuitTypeOK, [CircuitNext]_circuitVars
  PROVE  CircuitTypeOK'
<1> USE DEF CircuitTypeOK, CircuitStates, ClientStates
<1>1. CASE UNCHANGED circuitVars
  BY <1>1 DEF circuitVars
<1>2. ASSUME NEW t \in Clients, Admit(t) PROVE CircuitTypeOK'
  BY <1>2 DEF Admit
<1>3. ASSUME NEW t \in Clients, Reach(t) PROVE CircuitTypeOK'
  BY <1>3 DEF Reach
<1>4. ASSUME NEW t \in Clients, ClosesCircuit(t) \/ ClosesAgain(t) PROVE CircuitTypeOK'
  <2>1. PICK next \in ClientStates : client' = [client EXCEPT ![t] = next]
    BY <1>4 DEF ClosesCircuit, ClosesAgain
  <2>2. client' \in [Clients -> ClientStates]
    BY <2>1
  <2>3. Closes
    BY <1>4 DEF ClosesCircuit, ClosesAgain
  <2> QED BY <2>2, <2>3 DEF Closes
<1>5. ASSUME NEW t \in Clients, OpensCircuit(t) PROVE CircuitTypeOK'
  BY <1>5 DEF OpensCircuit
<1>6. ASSUME NEW t \in Clients, Raises(t) PROVE CircuitTypeOK'
  BY <1>6, CircuitAssumption DEF Raises
<1>7. CASE CooldownPasses
  BY <1>7 DEF CooldownPasses
<1>8. CASE GoesDown
  <2>1. outages' \in 0..MaxOutages
    BY <1>8, CircuitAssumption DEF GoesDown
  <2>2. reachable' \in BOOLEAN
    BY <1>8 DEF GoesDown
  <2> QED BY <1>8, <2>1, <2>2 DEF GoesDown
<1>9. CASE ComesBack
  BY <1>9 DEF ComesBack
<1> QED
  BY <1>1, <1>2, <1>3, <1>4, <1>5, <1>6, <1>7, <1>8, <1>9, CircuitSteps

(* Every thread, the breaker and its history stay well formed
   (connect/client.py:112-139). *)
THEOREM CircuitTypeCorrect == CircuitSpec => []CircuitTypeOK
<1>1. CircuitInit => CircuitTypeOK
  <2> SUFFICES ASSUME CircuitInit PROVE CircuitTypeOK
    OBVIOUS
  <2>1. halfOpen \in BOOLEAN /\ reachable \in BOOLEAN
    BY DEF CircuitInit
  <2>2. outages \in 0..MaxOutages /\ raised \in 0..MaxRaises /\ probes \in Nat
    BY CircuitAssumption DEF CircuitInit
  <2>3. openUntil \in CircuitStates /\ client \in [Clients -> ClientStates]
    BY DEF CircuitInit, CircuitStates, ClientStates
  <2> QED BY <2>1, <2>2, <2>3 DEF CircuitTypeOK
<1>2. CircuitTypeOK /\ [CircuitNext]_circuitVars => CircuitTypeOK'
  BY CircuitTypeStep
<1> QED
  BY <1>1, <1>2, PTL DEF CircuitSpec

(* The flag is set by an admission and cleared by any outcome, so it and the
   count of admissions since the opening say the same thing. *)
ProbeInv ==
    /\ openUntil = "none" => ~halfOpen
    /\ probes = IF halfOpen THEN 1 ELSE 0

LEMMA ProbeStep ==
  ASSUME CircuitTypeOK, ProbeInv, [CircuitNext]_circuitVars
  PROVE  ProbeInv'
<1> USE DEF ProbeInv, CircuitTypeOK, CircuitStates
<1>1. CASE UNCHANGED circuitVars
  BY <1>1 DEF circuitVars
<1>2. ASSUME NEW t \in Clients, Admit(t) PROVE ProbeInv'
  <2>1. CASE openUntil = "none"
    <3>1. ~halfOpen /\ halfOpen' = FALSE /\ probes' = probes
      BY <1>2, <2>1 DEF Admit
    <3> QED BY <3>1
  <2>2. CASE openUntil # "none"
    <3>1. ~halfOpen /\ halfOpen' = TRUE /\ probes' = probes + 1 /\ openUntil' # "none"
      BY <1>2, <2>2 DEF Admit
    <3> QED BY <3>1
  <2> QED BY <2>1, <2>2
<1>3. ASSUME NEW t \in Clients, Reach(t) PROVE ProbeInv'
  BY <1>3 DEF Reach
<1>4. ASSUME NEW t \in Clients, ClosesCircuit(t) \/ ClosesAgain(t) PROVE ProbeInv'
  BY <1>4 DEF ClosesCircuit, ClosesAgain, Closes
<1>5. ASSUME NEW t \in Clients, OpensCircuit(t) PROVE ProbeInv'
  BY <1>5 DEF OpensCircuit
<1>6. ASSUME NEW t \in Clients, Raises(t) PROVE ProbeInv'
  BY <1>6 DEF Raises
<1>7. CASE CooldownPasses
  BY <1>7 DEF CooldownPasses
<1>8. CASE GoesDown
  BY <1>8 DEF GoesDown
<1>9. CASE ComesBack
  BY <1>9 DEF ComesBack
<1> QED
  BY <1>1, <1>2, <1>3, <1>4, <1>5, <1>6, <1>7, <1>8, <1>9, CircuitSteps

(* For any number of threads, at most one request is admitted after an opening
   of the circuit before an outcome closes or opens it again
   (connect/client.py:116-129). It does not bound the requests in flight: those
   admitted before the opening are not counted. *)
THEOREM ProbesBounded == CircuitSpec => []OneProbePerOpening
<1>1. CircuitInit => ProbeInv
  BY DEF CircuitInit, ProbeInv
<1>2. CircuitTypeOK /\ ProbeInv /\ [CircuitNext]_circuitVars => ProbeInv'
  BY ProbeStep
<1>3. ProbeInv => OneProbePerOpening
  BY DEF ProbeInv, OneProbePerOpening
<1> QED
  BY <1>1, <1>2, <1>3, CircuitTypeCorrect, PTL DEF CircuitSpec

LEMMA ProbeInFlightStep ==
  ASSUME CircuitTypeOK, ProbeInFlight, [CircuitNext]_circuitVars
  PROVE  ProbeInFlight'
<1> USE DEF ProbeInFlight, CircuitTypeOK, ClientStates, InFlight
<1>1. CASE UNCHANGED circuitVars
  BY <1>1 DEF circuitVars
<1>2. ASSUME NEW t \in Clients, Admit(t) PROVE ProbeInFlight'
  <2>1. client'[t] = "sent"
    BY <1>2 DEF Admit
  <2> QED BY <2>1
<1>3. ASSUME NEW t \in Clients, Reach(t) PROVE ProbeInFlight'
  <2>1. client'[t] \in {"answered", "unreachable"}
    BY <1>3 DEF Reach
  <2> QED BY <2>1
<1>4. ASSUME NEW t \in Clients, ClosesCircuit(t) \/ ClosesAgain(t) PROVE ProbeInFlight'
  BY <1>4 DEF ClosesCircuit, ClosesAgain, Closes
<1>5. ASSUME NEW t \in Clients, OpensCircuit(t) PROVE ProbeInFlight'
  BY <1>5 DEF OpensCircuit
<1>6. ASSUME NEW t \in Clients, Raises(t) PROVE ProbeInFlight'
  <2>1. raised' # 0
    BY <1>6 DEF Raises
  <2> QED BY <2>1
<1>7. CASE CooldownPasses
  BY <1>7 DEF CooldownPasses
<1>8. CASE GoesDown
  BY <1>8 DEF GoesDown
<1>9. CASE ComesBack
  BY <1>9 DEF ComesBack
<1> QED
  BY <1>1, <1>2, <1>3, <1>4, <1>5, <1>6, <1>7, <1>8, <1>9, CircuitSteps

(* The half-open flag never outlives its probe, so the circuit cannot refuse
   forever (connect/client.py:124-139). *)
THEOREM ProbesEnd == CircuitSpec => []ProbeInFlight
<1>1. CircuitInit => ProbeInFlight
  BY DEF CircuitInit, ProbeInFlight
<1>2. CircuitTypeOK /\ ProbeInFlight /\ [CircuitNext]_circuitVars => ProbeInFlight'
  BY ProbeInFlightStep
<1> QED
  BY <1>1, <1>2, CircuitTypeCorrect, PTL DEF CircuitSpec
=============================================================================
