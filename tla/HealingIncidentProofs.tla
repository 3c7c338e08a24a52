----------------------- MODULE HealingIncidentProofs -----------------------
(***************************************************************************)
(* Theorems about HealingIncident, for any number of threads, any bounds   *)
(* on faults, crashes and alerts, and any policy.                          *)
(***************************************************************************)
EXTENDS HealingIncident, TLAPS

-----------------------------------------------------------------------------
(* Type correctness.  A thread that has loaded a config knows the name of  *)
(* the replacement it is about to create: the model's bound on versions.   *)

NamingPcs == (WithOffsetPcs \ {"configWith"}) \cup (WithoutOffsetPcs \ {"configWithout"})
NamedLocals == {l \in Locals : l.pc \in NamingPcs => Replacement(l.job) \in Versions}
Budgets ==
  [crash : 0..MaxCrashes, db : 0..MaxDbFaults, connect : 0..MaxConnectFaults,
   stop : 0..MaxOperatorStops, alerts : 0..MaxAlerts]

TypeInv ==
  /\ row \in Rows
  /\ kc \in [Versions -> ConnectorStates] /\ offsets \in [Versions -> Origins]
  /\ local \in [Workers -> NamedLocals]
  /\ since \in [on : BOOLEAN, at : Nat, stable : BOOLEAN] /\ uncertain \in BOOLEAN
  /\ issued \in [Rungs -> 0..CountCap] /\ cooling \in BOOLEAN
  /\ budget \in Budgets

LEMMA TypeInvImpliesTypeOK == TypeInv => TypeOK
  BY DEF TypeInv, TypeOK, NamedLocals, Budgets

LEMMA Caps ==
  /\ CountCap \in Nat /\ CountCap > 2
  /\ MaxVersion \in Nat
  /\ FailureConfirmChecks \in Nat /\ FailureConfirmChecks >= 1
  /\ TaskRestartMax \in Nat /\ TaskRestartMax >= 1
  BY IncidentAssumption, PolicyAssumption DEF IncidentAssumption, PolicyAssumption

LEMMA BumpType ==
  ASSUME NEW n \in 0..CountCap
  PROVE  Bump(n) \in 0..CountCap /\ Bump(n) >= n /\ Bump(n) > 0
  BY Caps DEF Bump

LEMMA CountedType ==
  ASSUME NEW c \in [CountedEvents -> 0..CountCap], NEW e
  PROVE  Counted(c, e) \in [CountedEvents -> 0..CountCap]
  BY BumpType DEF Counted

LEMMA LoggedType ==
  ASSUME NEW r \in Rows, NEW e \in EventTypes, NEW d \in Details
  PROVE  Logged(r, e, d) \in Rows
  <1>1. Counted(r.count, e) \in [CountedEvents -> 0..CountCap]
    BY CountedType DEF Rows
  <1> DEFINE b == e \in WaitEvents
             c == Counted(r.count, e)
  <1>2. b \in BOOLEAN
    OBVIOUS
  <1>3. Logged(r, e, d) = r
        \/ Logged(r, e, d) = [r EXCEPT !.latest = e, !.details = d, !.wait = b, !.count = c]
    BY DEF Logged
  <1> HIDE DEF b, c
  <1>4. [r EXCEPT !.latest = e, !.details = d, !.wait = b, !.count = c] \in Rows
    BY <1>1, <1>2 DEF Rows, c
  <1>5. QED BY <1>3, <1>4

LEMMA PcKinds ==
  /\ DispatchPcs = RestartPcs \cup WithOffsetPcs \cup RetryPcs \cup WithoutOffsetPcs
                     \cup {"levelLimit", "escalate", "close", "dropOld"}
  /\ HoldingPcs = DispatchPcs \cup GuardedPcs \cup {"error"}
  /\ Pcs = HoldingPcs \cup {"idle", "enqueue", "acquire", "refresh", "defer"}
  BY DEF DispatchPcs, HoldingPcs, Pcs

\* Every program counter a step may name is one.
LEMMA PcsIncludeAll ==
  /\ DispatchPcs \subseteq HoldingPcs /\ GuardedPcs \subseteq HoldingPcs
  /\ HoldingPcs \subseteq Pcs /\ AuditPcs \subseteq DispatchPcs
  /\ {"idle", "enqueue", "acquire", "refresh", "defer", "error"} \subseteq Pcs
  /\ NamingPcs \subseteq DispatchPcs
  BY PcKinds DEF AuditPcs, RestartPcs, WithOffsetPcs, RetryPcs, WithoutOffsetPcs, NamingPcs

LEMMA NoRowType == NoRow \in Rows /\ NoDetails \in Details
  <1>1. NoName \in Names /\ 0 \in Versions
    BY Caps DEF NoName, Names, Versions
  <1>2. NoDetails \in Details
    BY <1>1 DEF NoDetails, Details
  <1>3. NoCounts \in [CountedEvents -> 0..CountCap]
    BY Caps DEF NoCounts
  <1>4. QED BY <1>1, <1>2, <1>3 DEF NoRow, Rows, Statuses

LEMMA IdleType == Idle \in NamedLocals /\ Idle.pc = "idle" /\ Idle.job = NoRow
  <1>1. "idle" \in Pcs /\ "idle" \notin NamingPcs
    BY PcKinds DEF NamingPcs, WithOffsetPcs, WithoutOffsetPcs
  <1>2. "NONE" \in CheckResults
    BY DEF CheckResults
  <1>3. QED BY <1>1, <1>2, NoRowType DEF Idle, Locals, NamedLocals

LEMMA GotoType ==
  ASSUME NEW l \in Locals, NEW pc \in Pcs, pc \in NamingPcs => Replacement(l.job) \in Versions
  PROVE  [l EXCEPT !.pc = pc] \in NamedLocals
  BY DEF Locals, NamedLocals

LEMMA BecomeType ==
  ASSUME local \in [Workers -> NamedLocals], NEW w \in Workers, NEW l \in NamedLocals,
         Become(w, l)
  PROVE  local' \in [Workers -> NamedLocals]
  BY DEF Become

LEMMA RaiseType ==
  ASSUME TypeInv, NEW w \in Workers, Raise(w)
  PROVE  uncertain' \in BOOLEAN /\ local' \in [Workers -> NamedLocals]
  <1>1. local[w] \in Locals
    BY DEF TypeInv, NamedLocals
  <1>2. "quarantine" \in Pcs \ NamingPcs /\ "error" \in Pcs \ NamingPcs
    BY PcKinds DEF GuardedPcs, NamingPcs, WithOffsetPcs, WithoutOffsetPcs
  <1>3. CASE local[w].pc \in DispatchPcs
    <2>1. uncertain' = TRUE /\ Become(w, [local[w] EXCEPT !.pc = "quarantine"])
      BY <1>3 DEF Raise, DoubtfulStep, Goto
    <2>2. QED BY <1>1, <1>2, <2>1, GotoType, BecomeType DEF TypeInv
  <1>4. CASE local[w].pc \notin DispatchPcs
    <2>1. uncertain' = uncertain
            /\ (Become(w, [local[w] EXCEPT !.pc = "error"]) \/ Become(w, Idle))
      BY <1>4 DEF Raise, Goto
    <2>2. QED BY <1>1, <1>2, <2>1, GotoType, BecomeType, IdleType DEF TypeInv
  <1>5. QED BY <1>3, <1>4

LEMMA DbFaultType ==
  ASSUME TypeInv, NEW w \in Workers, NEW r \in Rows, DbFault(w, r)
  PROVE  /\ row' \in Rows /\ local' \in [Workers -> NamedLocals]
         /\ uncertain' \in BOOLEAN /\ budget' \in Budgets
  <1>1. budget' \in Budgets
    BY IncidentAssumption DEF DbFault, TypeInv, Budgets, IncidentAssumption
  <1>2. QED BY <1>1, RaiseType DEF DbFault, TypeInv

LEMMA WriteType ==
  ASSUME TypeInv, NEW w \in Workers, NEW r \in Rows, NEW l \in NamedLocals, Write(w, r, l)
  PROVE  /\ row' \in Rows /\ local' \in [Workers -> NamedLocals]
         /\ uncertain' \in BOOLEAN /\ budget' \in Budgets
  <1>1. CASE DbFault(w, r)
    BY <1>1, DbFaultType
  <1>2. CASE Wrote(w, r, l) /\ UNCHANGED uncertain
    BY <1>2, BecomeType DEF Wrote, TypeInv
  <1>3. QED BY <1>1, <1>2 DEF Write

LEMMA ConnectFaultType ==
  ASSUME TypeInv, ConnectFault
  PROVE  budget' \in Budgets
  BY IncidentAssumption DEF ConnectFault, TypeInv, Budgets, IncidentAssumption

LEMMA LeaveType ==
  ASSUME NEW l \in Locals, NEW b
  PROVE  Leave(l, b) \in NamedLocals
  <1>1. "refresh" \in Pcs \ NamingPcs
    BY PcKinds DEF NamingPcs, WithOffsetPcs, WithoutOffsetPcs
  <1>2. QED BY <1>1, GotoType, IdleType DEF Leave

LEMMA FirstStepType ==
  ASSUME NEW l, NEW action
  PROVE  FirstStep(l, action) \in Pcs \ NamingPcs
  BY PcKinds DEF FirstStep, NamingPcs, RestartPcs, WithOffsetPcs, RetryPcs, WithoutOffsetPcs

\* Every step that ends in a write of the row leaves Kafka Connect alone.
LEMMA TypeAfterWrite ==
  ASSUME TypeInv, NEW w \in Workers, NEW r \in Rows, NEW l \in NamedLocals,
         Write(w, r, l), UNCHANGED <<cluster, since, history>>
  PROVE  TypeInv'
  BY WriteType DEF TypeInv, cluster, history

LEMMA ReadType ==
  ASSUME NEW r \in Rows
  PROVE  Read(r) \in Rows /\ Closed(r, "ESCALATED") \in Rows /\ Closed(r, "COMPLETED") \in Rows
  BY DEF Rows, Read, Closed, Statuses

\* What a thread holds when it has taken a job.
LEMMA TakeType ==
  ASSUME NEW l \in Locals, NEW job \in Rows, NEW b \in BOOLEAN, NEW pc \in Pcs \ NamingPcs
  PROVE  /\ [l EXCEPT !.pc = pc, !.job = job] \in NamedLocals
         /\ [l EXCEPT !.pc = pc, !.job = job, !.alert = b] \in NamedLocals
         /\ [l EXCEPT !.pc = pc, !.alert = b] \in NamedLocals
  BY DEF Locals, NamedLocals

LEMMA ArriveType ==
  ASSUME TypeInv, NEW w \in Workers, Arrive(w)
  PROVE  TypeInv'
  <1> USE DEF TypeInv
  <1>1. local[w] \in Locals /\ local[w].job \in Rows /\ row \in Rows
    BY DEF Locals, NamedLocals
  <1>2. {"enqueue", "acquire", "start", "finish", "check", "quarantine"} \subseteq Pcs \ NamingPcs
    BY PcKinds DEF NamingPcs, WithOffsetPcs, WithoutOffsetPcs, GuardedPcs
  <1>3. ASSUME Taken(w) PROVE budget' \in Budgets
    BY <1>3, IncidentAssumption DEF Taken, Budgets, IncidentAssumption
  <1>4. CASE Notice(w)
    <2>1. budget' \in Budgets
      BY <1>3, <1>4 DEF Notice
    <2>2. local' \in [Workers -> NamedLocals]
      BY <1>1, <1>2, <1>4, TakeType, BecomeType DEF Notice
    <2>3. QED BY <1>4, <2>1, <2>2 DEF Notice, cluster, history
  <1>5. CASE Enqueue(w)
    <2>1. PICK lvl \in QueueLevels :
            LET r == IF row.status = "NONE"
                     THEN [row EXCEPT !.status = "PENDING", !.level = lvl] ELSE row
                job == [Read(r) EXCEPT !.level = 1, !.latest = "NONE", !.details = NoDetails,
                                       !.count = NoCounts, !.wait = FALSE]
            IN  Write(w, r, IF w \in Webhooks /\ IsOpen(r)
                            THEN [local[w] EXCEPT !.pc = "acquire", !.job = job] ELSE Idle)
      BY <1>5 DEF Enqueue
    <2> DEFINE r == IF row.status = "NONE"
                    THEN [row EXCEPT !.status = "PENDING", !.level = lvl] ELSE row
               job == [Read(r) EXCEPT !.level = 1, !.latest = "NONE", !.details = NoDetails,
                                      !.count = NoCounts, !.wait = FALSE]
    <2>2. r \in Rows
      BY IncidentAssumption DEF Rows, Statuses, OpenStatuses, IncidentAssumption
    <2>3. NoCounts \in [CountedEvents -> 0..CountCap]
      BY Caps DEF NoCounts
    <2>4. job \in Rows
      BY <2>2, <2>3, NoRowType DEF Rows, Read
    <2>5. [local[w] EXCEPT !.pc = "acquire", !.job = job] \in NamedLocals
      BY <1>1, <1>2, <2>4, TakeType
    <2> DEFINE next == IF w \in Webhooks /\ IsOpen(r)
                       THEN [local[w] EXCEPT !.pc = "acquire", !.job = job] ELSE Idle
    <2>6. next \in NamedLocals
      BY <2>5, IdleType
    <2>7. Write(w, r, next)
      BY <2>1
    <2> HIDE DEF r, next
    <2>8. QED BY <1>5, <2>2, <2>6, <2>7, TypeAfterWrite DEF Enqueue
  <1>6. CASE ListDue(w)
    <2>1. local' \in [Workers -> NamedLocals]
      BY <1>1, <1>2, <1>6, TakeType, ReadType, BecomeType DEF ListDue
    <2>2. QED BY <1>6, <2>1 DEF ListDue, cluster, history
  <1>7. CASE Alerted(w)
    <2>1. budget' \in Budgets
      BY <1>3, <1>7 DEF Alerted
    <2>2. local' \in [Workers -> NamedLocals]
      BY <1>1, <1>2, <1>7, TakeType, ReadType, BecomeType DEF Alerted
    <2>3. QED BY <1>7, <2>1, <2>2 DEF Alerted, cluster, history
  <1>8. CASE TryLock(w)
    <2>1. local' \in [Workers -> NamedLocals]
      BY <1>1, <1>2, <1>8, GotoType, IdleType, BecomeType DEF TryLock, Goto
    <2>2. QED BY <1>8, <2>1 DEF TryLock, cluster, history
  <1>9. CASE Start(w)
    <2>1. [row EXCEPT !.status = "PROCESSING"] \in Rows
      BY DEF Rows, Statuses, OpenStatuses
    <2> DEFINE l == local[w]
               next == IF uncertain THEN [l EXCEPT !.pc = "quarantine"]
                       ELSE IF l.job.latest \in TerminalEvents THEN [l EXCEPT !.pc = "finish"]
                       ELSE IF l.job.wait THEN Leave(l, FailedCount(l.job) > 0)
                       ELSE [l EXCEPT !.pc = "check"]
    <2>2. next \in NamedLocals
      BY <1>1, <1>2, GotoType, LeaveType
    <2>3. Write(w, [row EXCEPT !.status = "PROCESSING"], next)
      BY <1>9 DEF Start
    <2> HIDE DEF next
    <2>4. QED BY <1>9, <2>1, <2>2, <2>3, TypeAfterWrite DEF Start
  <1>10. CASE Finish(w)
    BY <1>1, <1>10, ReadType, IdleType, TypeAfterWrite DEF Finish
  <1>11. QED
    BY <1>4, <1>5, <1>6, <1>7, <1>8, <1>9, <1>10 DEF Arrive

\* What a job copied with one more event looks like.
LEMMA WithEventType ==
  ASSUME NEW l \in Locals, NEW e
  PROVE  WithEvent(l, e) \in Locals
  <1>1. Counted(l.job.count, e) \in [CountedEvents -> 0..CountCap]
    BY CountedType DEF Locals, Rows
  <1> DEFINE c == Counted(l.job.count, e)
             job == [l.job EXCEPT !.count = c]
  <1> HIDE DEF c
  <1>2. job \in Rows
    BY <1>1 DEF Locals, Rows, c
  <1> HIDE DEF job
  <1>3. [l EXCEPT !.job = job] \in Locals
    BY <1>2 DEF Locals
  <1>4. QED BY <1>3 DEF WithEvent, job, c

LEMMA ActionCountType ==
  ASSUME NEW r \in Rows
  PROVE  ActionCount(r) \in Nat
  <1>1. r.count \in [CountedEvents -> 0..CountCap]
    BY DEF Rows
  <1>2. {"TASK_RESTART", "CONNECTOR_RESTART", "CONNECTOR_RECREATE_WITH_OFFSET",
         "CONNECTOR_RECREATE_WITH_OFFSET_FAILED", "CONNECTOR_RECREATE_WITHOUT_OFFSET",
         "CONNECTOR_RECREATE_WITHOUT_OFFSET_FAILED"} \subseteq CountedEvents
    BY DEF CountedEvents, WaitAfterRestartEvents, WaitAfterRecreateEvents, WithoutOffsetEvents
  <1>3. QED
    BY <1>1, <1>2, Caps DEF ActionCount, TaskRestartCount, ConnectorRestartCount,
       WithOffsetCount, WithoutOffsetCount

LEMMA AssessType ==
  ASSUME TypeInv, NEW w \in Workers, Assess(w)
  PROVE  TypeInv'
  <1> USE DEF TypeInv
  <1> DEFINE l == local[w]
  <1>1. l \in Locals /\ l.job \in Rows
    BY DEF Locals, NamedLocals
  <1>2. {"finish", "observe", "confirm", "closeRecovered", "supersede"} \subseteq Pcs \ NamingPcs
    BY PcKinds DEF NamingPcs, WithOffsetPcs, WithoutOffsetPcs, GuardedPcs
  <1>3. NotHealthy \in [on : BOOLEAN, at : Nat, stable : BOOLEAN]
    BY DEF NotHealthy
  <1>4. CheckResults = {"NONE", "STOPPED", "HEALTHY", "TASKS", "CONNECTOR", "NOT_CREATED"}
    BY DEF CheckResults
  <1>5. ASSUME NEW res \in CheckResults, NEW pc \in Pcs \ NamingPcs
        PROVE  /\ [l EXCEPT !.res = res] \in Locals
               /\ [l EXCEPT !.res = res, !.pc = pc] \in NamedLocals
    BY <1>1 DEF Locals, NamedLocals
  <1>6. CASE CheckUnreachable(w)
    BY <1>1, <1>3, <1>6, LeaveType, BecomeType, ConnectFaultType
    DEF CheckUnreachable, cluster, history
  <1>7. CASE CheckNotCreated(w)
    <2> DEFINE seen == [l EXCEPT !.res = "NOT_CREATED"]
               step == FirstStep(l, DecideMissingReplacement(l.job))
    <2>1. seen \in Locals /\ Leave(seen, FailedCount(l.job) > 0) \in NamedLocals
      BY <1>1, <1>4, LeaveType DEF Locals
    <2>2. step \in Pcs \ NamingPcs
      BY FirstStepType
    <2>3. [seen EXCEPT !.pc = step] \in NamedLocals
      BY <2>1, <2>2, GotoType
    <2> HIDE DEF seen, step
    <2>4. \/ Become(w, [seen EXCEPT !.pc = step]) /\ UNCHANGED since
          \/ Become(w, Leave(seen, FailedCount(l.job) > 0)) /\ since' = NotHealthy
      BY <1>7 DEF CheckNotCreated, seen, step
    <2>5. QED
      BY <1>3, <1>7, <2>1, <2>3, <2>4, BecomeType DEF CheckNotCreated, cluster, history
  <1>8. CASE CheckAdminStopped(w)
    BY <1>8, IdleType, BecomeType DEF CheckAdminStopped, cluster, history
  <1>9. CASE CheckHealthy(w)
    <2> DEFINE pc == IF ActionCount(l.job) = 0 THEN "closeRecovered" ELSE "supersede"
               recovered == [l EXCEPT !.res = "HEALTHY", !.pc = pc]
    <2>1. recovered \in NamedLocals
      BY <1>2, <1>4, <1>5
    <2>2. [on |-> TRUE, at |-> ActionCount(row), stable |-> FALSE]
            \in [on : BOOLEAN, at : Nat, stable : BOOLEAN]
      BY ActionCountType
    <2> DEFINE started == [on |-> TRUE, at |-> ActionCount(row), stable |-> FALSE]
    <2> HIDE DEF recovered, started
    <2>3. \/ since' \in {since, started} /\ Become(w, Leave(l, FailedCount(l.job) > 0))
          \/ Become(w, recovered) /\ UNCHANGED since
      BY <1>9 DEF CheckHealthy, recovered, started
    <2>4. QED
      BY <1>1, <1>9, <2>1, <2>2, <2>3, LeaveType, BecomeType
      DEF CheckHealthy, cluster, history, started
  <1>10. CASE CheckUnhealthy(w)
    <2> DEFINE res == CASE kc[l.job.name] = "TASK_FAILED" -> "TASKS"
                        [] kc[l.job.name] = "FAILED" -> "CONNECTOR"
                        [] OTHER -> "STOPPED"
               alert == l.alert /\ res # "STOPPED"
               pc == IF DecideUnhealthy(l.job, res = "TASKS") = "STOP"
                     THEN "finish" ELSE "observe"
    <2>1. res \in CheckResults /\ alert \in BOOLEAN /\ pc \in Pcs \ NamingPcs
      BY <1>2, <1>4
    <2> HIDE DEF res, alert, pc
    <2>2. [l EXCEPT !.res = res, !.alert = alert, !.pc = pc] \in NamedLocals
      BY <1>1, <2>1 DEF Locals, NamedLocals
    <2>3. Become(w, [l EXCEPT !.res = res, !.alert = alert, !.pc = pc])
      BY <1>10 DEF CheckUnhealthy, res, alert, pc
    <2>4. QED
      BY <1>3, <1>10, <2>2, <2>3, BecomeType DEF CheckUnhealthy, cluster, history
  <1>11. ASSUME NEW m \in Locals
         PROVE  Decided(m) \in NamedLocals
    BY FirstStepType, GotoType DEF Decided
  <1>12. {"HEALTH_FAILURE_OBSERVED", "HEALTH_FAILED_CONFIRMED"} \subseteq EventTypes
    BY DEF EventTypes
  <1>13. CASE Observe(w)
    <2> DEFINE seen == WithEvent(l, "HEALTH_FAILURE_OBSERVED")
               next == IF NeedsConfirmation(seen.job, seen.alert)
                       THEN [seen EXCEPT !.pc = "confirm"] ELSE Decided(seen)
               r == Logged(row, "HEALTH_FAILURE_OBSERVED", NoDetails)
    <2>1. seen \in Locals
      BY <1>1, WithEventType
    <2>2. next \in NamedLocals
      BY <1>2, <1>11, <2>1, GotoType
    <2>3. r \in Rows
      BY <1>12, LoggedType, NoRowType
    <2>4. Write(w, r, next) /\ UNCHANGED <<cluster, since, history>>
      BY <1>13 DEF Observe
    <2> HIDE DEF seen, next, r
    <2>5. QED BY <2>2, <2>3, <2>4, TypeAfterWrite
  <1>14. CASE Confirm(w)
    <2> DEFINE next == Decided(WithEvent(l, "HEALTH_FAILED_CONFIRMED"))
               r == Logged(row, "HEALTH_FAILED_CONFIRMED", NoDetails)
    <2>1. next \in NamedLocals /\ r \in Rows
      BY <1>1, <1>11, <1>12, WithEventType, LoggedType, NoRowType
    <2>2. Write(w, r, next) /\ UNCHANGED <<cluster, since, history>>
      BY <1>14 DEF Confirm
    <2> HIDE DEF next, r
    <2>3. QED BY <2>1, <2>2, TypeAfterWrite
  <1>15. QED
    BY <1>6, <1>7, <1>8, <1>9, <1>10, <1>13, <1>14 DEF Assess

\* No step belongs to two executors.
LEMMA PcFamilies ==
  /\ \A pc \in RestartPcs : pc \notin WithOffsetPcs \cup RetryPcs \cup WithoutOffsetPcs
  /\ \A pc \in WithOffsetPcs : pc \notin RestartPcs \cup RetryPcs \cup WithoutOffsetPcs
  /\ \A pc \in RetryPcs : pc \notin RestartPcs \cup WithOffsetPcs \cup WithoutOffsetPcs
  /\ \A pc \in WithoutOffsetPcs : pc \notin RestartPcs \cup WithOffsetPcs \cup RetryPcs
  BY DEF RestartPcs, WithOffsetPcs, RetryPcs, WithoutOffsetPcs

\* What each logging step writes and where it may go on.
LEMMA AuditTable ==
  ASSUME NEW pc \in AuditPcs
  PROVE  /\ AuditOf(pc).event \in EventTypes
         /\ AuditOf(pc).next \subseteq Pcs
         /\ \A next \in AuditOf(pc).next : next \in NamingPcs => pc \in NamingPcs
  <1>1. CASE pc \in RestartPcs
    <2>1. AuditOf(pc) = RestartAudit(pc)
      BY <1>1, PcFamilies DEF AuditOf
    <2>2. "refresh" \in Pcs \ NamingPcs
      BY PcKinds DEF NamingPcs, WithOffsetPcs, WithoutOffsetPcs
    <2>3. QED BY <2>1, <2>2 DEF RestartAudit, EventTypes, WaitAfterRestartEvents
  <1>2. CASE pc \in WithOffsetPcs
    <2>1. AuditOf(pc) = WithOffsetAudit(pc)
      BY <1>2, PcFamilies DEF AuditOf
    <2>2. pc \in NamingPcs
      BY <1>2 DEF AuditPcs, NamingPcs
    <2>3. QED
      BY <1>2, <2>1, <2>2, PcKinds
      DEF WithOffsetAudit, WithOffsetPcs, EventTypes, WaitAfterRecreateEvents,
          WithOffsetFailureEvents, WithOffsetRetryEvents
  <1>3. CASE pc \in RetryPcs
    <2>1. AuditOf(pc) = RetryAudit(pc)
      BY <1>3, PcFamilies DEF AuditOf
    <2>2. QED
      BY <1>3, <2>1, PcKinds
      DEF RetryAudit, RetryPcs, EventTypes, WaitAfterRecreateEvents, WithOffsetFailureEvents,
          WithOffsetRetryEvents, NamingPcs, WithOffsetPcs, WithoutOffsetPcs
  <1>4. CASE pc \in WithoutOffsetPcs
    <2>1. AuditOf(pc) = WithoutOffsetAudit(pc)
      BY <1>4, PcFamilies DEF AuditOf
    <2>2. pc \in NamingPcs
      BY <1>4 DEF AuditPcs, NamingPcs
    <2>3. QED
      BY <1>4, <2>1, <2>2, PcKinds
      DEF WithoutOffsetAudit, WithoutOffsetPcs, EventTypes, WithoutOffsetEvents
  <1>5. CASE pc \in {"levelLimit", "escalate"}
    <2>1. AuditOf(pc) = EscalationAudit(pc)
      BY <1>5 DEF AuditOf, WithOffsetPcs, RestartPcs, RetryPcs, WithoutOffsetPcs
    <2>2. QED
      BY <1>5, <2>1, PcKinds
      DEF EscalationAudit, EventTypes, TerminalEvents, NamingPcs, WithOffsetPcs, WithoutOffsetPcs
  <1>6. QED
    BY <1>1, <1>2, <1>3, <1>4, <1>5
    DEF AuditPcs, RestartPcs, WithOffsetPcs, RetryPcs, WithoutOffsetPcs

LEMMA AuditDetailsType ==
  ASSUME NEW l \in NamedLocals, l.pc \in AuditPcs
  PROVE  AuditDetails(l) \in Details
  <1>1. l.job \in Rows /\ l.job.name \in Names /\ l.job.details \in Details
    BY DEF NamedLocals, Locals, Rows, Names
  <1>2. OriginalName(l.job) \in Names
    BY <1>1 DEF OriginalName, Details
  <1>3. NoName \in Names
    BY DEF Names
  <1>4. CASE l.pc \in NamingPcs
    <2>1. Replacement(l.job) \in Names
      BY <1>4 DEF NamedLocals, Names
    <2>2. [old |-> l.job.name, original |-> OriginalName(l.job), new |-> Replacement(l.job)]
            \in Details
      BY <1>1, <1>2, <2>1 DEF Details
    <2>3. l.pc \notin RetryPcs
      BY <1>4 DEF NamingPcs, RetryPcs, WithOffsetPcs, WithoutOffsetPcs
    <2> DEFINE recreated == [old |-> l.job.name, original |-> OriginalName(l.job),
                             new |-> Replacement(l.job)]
    <2>4. \/ AuditDetails(l) = [recreated EXCEPT !.old = NoName, !.new = NoName]
          \/ AuditDetails(l) = [recreated EXCEPT !.new = NoName]
          \/ AuditDetails(l) = NoDetails
          \/ AuditDetails(l) = recreated
      BY <2>3 DEF AuditDetails
    <2> HIDE DEF recreated
    <2>5. recreated \in Details
      BY <2>2 DEF recreated
    <2>6. QED BY <1>3, <2>4, <2>5, NoRowType DEF Details
  <1>5. CASE l.pc \in RetryPcs
    <2>1. AuditDetails(l) =
            [old |-> l.job.details.old, original |-> OriginalName(l.job), new |-> l.job.name]
      BY <1>5 DEF AuditDetails, RetryPcs, RestartPcs
    <2>2. QED BY <1>1, <1>2, <2>1 DEF Details
  <1>6. CASE l.pc \in RestartPcs \cup {"levelLimit", "escalate"}
    <2>1. AuditDetails(l) = NoDetails
      BY <1>6 DEF AuditDetails, RestartPcs, RetryPcs
    <2>2. QED BY <2>1, NoRowType
  <1>7. QED
    BY <1>4, <1>5, <1>6
    DEF AuditPcs, NamingPcs, RestartPcs, RetryPcs, WithOffsetPcs, WithoutOffsetPcs

LEMMA RecordType ==
  ASSUME TypeInv, NEW w \in Workers, Record(w)
  PROVE  TypeInv'
  <1> USE DEF TypeInv
  <1> DEFINE l == local[w]
  <1>1. l \in NamedLocals /\ l \in Locals /\ row \in Rows
    BY DEF NamedLocals
  <1>2. CASE Audit(w)
    <2>1. PICK pc \in AuditOf(l.pc).next :
            Write(w, Logged(row, AuditOf(l.pc).event, AuditDetails(l)), [l EXCEPT !.pc = pc])
      BY <1>2 DEF Audit
    <2>2. l.pc \in AuditPcs /\ UNCHANGED <<cluster, since, history>>
      BY <1>2 DEF Audit
    <2>3. Logged(row, AuditOf(l.pc).event, AuditDetails(l)) \in Rows
      BY <1>1, <2>2, AuditTable, AuditDetailsType, LoggedType
    <2>4. [l EXCEPT !.pc = pc] \in NamedLocals
      <3>1. pc \in Pcs /\ (pc \in NamingPcs => l.pc \in NamingPcs)
        BY <2>1, <2>2, AuditTable
      <3>2. QED BY <1>1, <3>1, GotoType DEF NamedLocals
    <2>5. QED BY <2>1, <2>2, <2>3, <2>4, TypeAfterWrite
  <1>3. CASE Rename(w)
    <2> DEFINE next == CASE l.pc = "renameTimeout" -> "logTimeout"
                         [] l.pc = "renamePatch" -> "logPatch"
                         [] l.pc = "renameResume" -> "logResume"
                         [] OTHER -> "dropOld"
    <2>1. next \in Pcs /\ l.pc \in NamingPcs
      BY <1>3, PcKinds DEF Rename, NamingPcs, WithOffsetPcs, WithoutOffsetPcs
    <2>2. Renamed(row, l.job) \in Rows
      BY <1>1, <2>1 DEF Renamed, NamedLocals, Rows
    <2>3. [l EXCEPT !.pc = next] \in NamedLocals
      BY <1>1, <2>1, GotoType DEF NamedLocals
    <2>4. Write(w, Renamed(row, l.job), [l EXCEPT !.pc = next])
            /\ UNCHANGED <<cluster, since, history>>
      BY <1>3 DEF Rename
    <2> HIDE DEF next
    <2>5. QED BY <2>2, <2>3, <2>4, TypeAfterWrite
  <1>4. CASE Close(w)
    <2>1. "refresh" \in Pcs \ NamingPcs
      BY PcKinds DEF NamingPcs, WithOffsetPcs, WithoutOffsetPcs
    <2>2. [l EXCEPT !.pc = "refresh"] \in NamedLocals
      BY <1>1, <2>1, GotoType
    <2>3. QED BY <1>1, <1>4, <2>2, ReadType, TypeAfterWrite DEF Close
  <1>5. QED BY <1>2, <1>3, <1>4 DEF Record

LEMMA CountType ==
  ASSUME TypeInv, NEW rung \in Rungs, Count(rung)
  PROVE  issued' \in [Rungs -> 0..CountCap]
  BY BumpType DEF Count, TypeInv

\* A step to a pc that needs no loaded config, or between two that do.
LEMMA StepPcType ==
  ASSUME TypeInv, NEW w \in Workers, NEW pc \in Pcs, Goto(w, pc),
         pc \in NamingPcs =>
           \/ local[w].pc \in NamingPcs
           \/ Replacement(local[w].job) \in Versions
  PROVE  local' \in [Workers -> NamedLocals]
  <1>1. local[w] \in Locals /\ local[w] \in NamedLocals
    BY DEF TypeInv, NamedLocals
  <1>2. [local[w] EXCEPT !.pc = pc] \in NamedLocals
    BY <1>1, GotoType DEF NamedLocals
  <1>3. QED BY <1>2, BecomeType DEF Goto, TypeInv

LEMMA ActPcs ==
  /\ {"logTaskRestart", "logConnectorRestart", "capture", "retry", "stopForFresh", "logCaptured",
      "logNothingCaptured", "create", "retryPatch", "createFresh", "logWithFailed",
      "logRetryStopFailed", "logWithoutFailed", "retryCreate", "retryStop", "patch", "resume",
      "renameTimeout", "logRetryTimeout", "retryResume", "renamePatch", "logRetryPatch",
      "logWith", "logRetried", "renameResume", "logRetryResume", "logWithout", "refresh"}
       \subseteq Pcs
  /\ {"logTaskRestart", "logConnectorRestart", "retry", "retryPatch", "retryCreate", "retryStop",
      "retryResume", "logRetryStopFailed", "logRetryTimeout", "logRetryPatch", "logRetried",
      "logRetryResume", "refresh", "retry"} \cap NamingPcs = {}
  /\ {"capture", "stopOld", "create", "patch", "resume", "stopForFresh", "createFresh"}
       \subseteq NamingPcs
  BY PcKinds DEF RestartPcs, WithOffsetPcs, RetryPcs, WithoutOffsetPcs, NamingPcs

LEMMA ActType ==
  ASSUME TypeInv, NEW w \in Workers, Act(w)
  PROVE  TypeInv'
  <1> USE DEF TypeInv
  <1> DEFINE l == local[w]
  <1>1. l \in Locals /\ l.job \in Rows /\ l.job.name \in Versions
    BY DEF NamedLocals, Locals, Rows
  <1>2. Rungs = {"TASKS", "CONNECTOR", "WITH_OFFSET", "RETRY", "WITHOUT_OFFSET"}
    BY DEF Rungs
  <1>3. {"RUNNING", "STOPPED", "ABSENT"} \subseteq ConnectorStates
          /\ {"none", "restored", "new"} \subseteq Origins
    BY DEF ConnectorStates, Live, Origins
  <1>4. CASE Restart(w)
    <2>1. kc' \in [Versions -> ConnectorStates]
      BY <1>1, <1>3, <1>4 DEF Restart
    <2>2. issued' \in [Rungs -> 0..CountCap]
      BY <1>2, <1>4, CountType DEF Restart
    <2>3. local' \in [Workers -> NamedLocals] /\ uncertain' \in BOOLEAN /\ budget' \in Budgets
      BY <1>4, ActPcs, StepPcType, RaiseType, ConnectFaultType DEF Restart, Answered
    <2>4. QED BY <1>4, <2>1, <2>2, <2>3 DEF Restart
  <1>5. CASE LoadConfig(w)
    <2>1. local' \in [Workers -> NamedLocals] /\ uncertain' \in BOOLEAN /\ budget' \in Budgets
      BY <1>5, ActPcs, StepPcType, RaiseType, ConnectFaultType DEF LoadConfig, Answered
    <2>2. QED BY <1>5, <2>1 DEF LoadConfig, cluster, history
  <1>6. CASE Capture(w)
    <2>1. local' \in [Workers -> NamedLocals] /\ uncertain' \in BOOLEAN /\ budget' \in Budgets
      BY <1>6, ActPcs, StepPcType, RaiseType, ConnectFaultType DEF Capture, Answered
    <2>2. QED BY <1>6, <2>1 DEF Capture, cluster, history
  <1>7. CASE StopConnector(w)
    <2>1. kc' \in [Versions -> ConnectorStates]
      BY <1>1, <1>3, <1>7 DEF StopConnector
    <2>2. issued' \in [Rungs -> 0..CountCap]
      BY <1>2, <1>7, CountType DEF StopConnector
    <2>3. local' \in [Workers -> NamedLocals] /\ uncertain' \in BOOLEAN /\ budget' \in Budgets
      BY <1>7, ActPcs, StepPcType, ConnectFaultType DEF StopConnector, Answered, FailedTo
    <2>4. QED BY <1>7, <2>1, <2>2, <2>3 DEF StopConnector
  <1>8. CASE RetryProbe(w)
    <2>1. local' \in [Workers -> NamedLocals] /\ uncertain' \in BOOLEAN /\ budget' \in Budgets
      BY <1>8, ActPcs, StepPcType, ConnectFaultType DEF RetryProbe, Answered, FailedTo
    <2>2. QED BY <1>8, <2>1 DEF RetryProbe, cluster, history
  <1>9. CASE CreateStopped(w)
    <2> DEFINE retry == l.pc = "retryCreate"
               v == IF retry THEN l.job.name ELSE Replacement(l.job)
    <2>1. v \in Versions
      BY <1>1, <1>9, ActPcs DEF CreateStopped, NamedLocals
    <2>2. kc' \in [Versions -> ConnectorStates] /\ offsets' \in [Versions -> Origins]
      BY <1>3, <1>9, <2>1 DEF CreateStopped, Created, cluster
    <2>3. issued' \in [Rungs -> 0..CountCap]
      BY <1>2, <1>9, CountType DEF CreateStopped
    <2>4. local' \in [Workers -> NamedLocals] /\ uncertain' \in BOOLEAN /\ budget' \in Budgets
      BY <1>9, ActPcs, StepPcType, RaiseType, ConnectFaultType
      DEF CreateStopped, Answered, FailedTo, AfterCreate
    <2>5. QED BY <1>9, <2>2, <2>3, <2>4 DEF CreateStopped
  <1>10. CASE PatchOffsets(w)
    <2>1. offsets' \in [Versions -> Origins]
      BY <1>3, <1>10 DEF PatchOffsets
    <2>2. local' \in [Workers -> NamedLocals] /\ uncertain' \in BOOLEAN /\ budget' \in Budgets
      BY <1>10, ActPcs, StepPcType, ConnectFaultType DEF PatchOffsets, Answered, FailedTo
    <2>3. QED BY <1>10, <2>1, <2>2 DEF PatchOffsets, history
  <1>11. CASE ResumeConnector(w)
    <2>1. kc' \in [Versions -> ConnectorStates]
      BY <1>3, <1>11 DEF ResumeConnector
    <2>2. local' \in [Workers -> NamedLocals] /\ uncertain' \in BOOLEAN /\ budget' \in Budgets
      BY <1>11, ActPcs, StepPcType, ConnectFaultType DEF ResumeConnector, Answered, FailedTo
    <2>3. QED BY <1>11, <2>1, <2>2 DEF ResumeConnector
  <1>12. CASE CreateFresh(w)
    <2>1. kc' \in [Versions -> ConnectorStates] /\ offsets' \in [Versions -> Origins]
      BY <1>3, <1>12 DEF CreateFresh, Created, cluster
    <2>2. local' \in [Workers -> NamedLocals] /\ uncertain' \in BOOLEAN /\ budget' \in Budgets
      BY <1>12, ActPcs, StepPcType, ConnectFaultType DEF CreateFresh, Answered, FailedTo
    <2>3. QED BY <1>12, <2>1, <2>2 DEF CreateFresh, cluster
  <1>13. CASE DropOld(w)
    <2>1. kc' \in [Versions -> ConnectorStates] /\ budget' \in Budgets
      BY <1>3, <1>13, ConnectFaultType DEF DropOld, Deletes
    <2>2. local' \in [Workers -> NamedLocals]
      BY <1>13, ActPcs, StepPcType DEF DropOld
    <2>3. QED BY <1>13, <2>1, <2>2 DEF DropOld, history
  <1>14. QED
    BY <1>4, <1>5, <1>6, <1>7, <1>8, <1>9, <1>10, <1>11, <1>12, <1>13 DEF Act

LEMMA SettleType ==
  ASSUME TypeInv, NEW w \in Workers, Settle(w)
  PROVE  TypeInv'
  <1> USE DEF TypeInv
  <1> DEFINE l == local[w]
  <1>1. l \in Locals /\ l.job \in Rows /\ l.job.name \in Versions /\ l.job.details \in Details
    BY DEF NamedLocals, Locals, Rows
  <1>2. {"logRecovered", "closeRecovered", "quarantineClose", "refresh", "defer"}
          \subseteq Pcs \ NamingPcs
    BY PcKinds DEF GuardedPcs, NamingPcs, WithOffsetPcs, WithoutOffsetPcs
  <1>3. {"HEALING_RECOVERED", "HEALING_ESCALATED", "STATE_MACHINE_ERROR"} \subseteq EventTypes
    BY DEF EventTypes, TerminalEvents
  <1>4. CASE DeleteSuperseded(w)
    <2>1. kc' \in [Versions -> ConnectorStates] /\ budget' \in Budgets
      BY <1>4, ConnectFaultType DEF DeleteSuperseded, Deletes, ConnectorStates
    <2>2. local' \in [Workers -> NamedLocals]
      BY <1>2, <1>4, StepPcType DEF DeleteSuperseded
    <2>3. QED BY <1>4, <2>1, <2>2 DEF DeleteSuperseded, history
  <1>5. CASE LogRecovered(w)
    <2> DEFINE names == [old |-> l.job.details.old, original |-> OriginalName(l.job),
                         new |-> NoName]
    <2>1. OriginalName(l.job) \in Names /\ NoName \in Names
      BY <1>1 DEF OriginalName, Details, Names
    <2>2. names \in Details
      BY <1>1, <2>1 DEF Details
    <2>3. Logged(row, "HEALING_RECOVERED", names) \in Rows
      BY <1>3, <2>2, LoggedType
    <2>4. [l EXCEPT !.pc = "closeRecovered"] \in NamedLocals
      BY <1>1, <1>2, GotoType
    <2>5. QED BY <1>5, <2>3, <2>4, TypeAfterWrite DEF LogRecovered
  <1>6. CASE CloseRecovered(w)
    <2>1. Closed(row, "COMPLETED") \in Rows
      BY ReadType
    <2>2. CASE DbFault(w, Closed(row, "COMPLETED")) /\ UNCHANGED since
      BY <1>6, <2>1, <2>2, DbFaultType DEF CloseRecovered, cluster, history
    <2>3. CASE /\ Wrote(w, Closed(row, "COMPLETED"), Leave(l, FailedCount(l.job) > 0))
               /\ UNCHANGED uncertain /\ since' = NotHealthy
      BY <1>1, <1>6, <2>1, <2>3, LeaveType, BecomeType
      DEF CloseRecovered, Wrote, NotHealthy, cluster, history
    <2>4. QED BY <1>6, <2>2, <2>3 DEF CloseRecovered
  <1>7. CASE Quarantine(w)
    <2>1. Logged(row, "HEALING_ESCALATED", NoDetails) \in Rows
      BY <1>3, LoggedType, NoRowType
    <2>2. [l EXCEPT !.pc = "quarantineClose"] \in NamedLocals
      BY <1>1, <1>2, GotoType
    <2>3. QED BY <1>7, <2>1, <2>2, TypeAfterWrite DEF Quarantine
  <1>8. CASE QuarantineClose(w)
    <2>1. Closed(row, "ESCALATED") \in Rows
      BY ReadType
    <2>2. CASE DbFault(w, Closed(row, "ESCALATED"))
      BY <1>8, <2>1, <2>2, DbFaultType DEF QuarantineClose, cluster, history
    <2>3. CASE Wrote(w, Closed(row, "ESCALATED"), Leave(l, l.res # "NONE")) /\ uncertain' = FALSE
      BY <1>1, <1>8, <2>1, <2>3, LeaveType, BecomeType DEF QuarantineClose, Wrote, cluster, history
    <2>4. QED BY <1>8, <2>2, <2>3 DEF QuarantineClose
  <1>9. CASE LogError(w)
    <2>1. Logged(row, "STATE_MACHINE_ERROR", NoDetails) \in Rows
      BY <1>3, LoggedType, NoRowType
    <2>2. QED BY <1>9, <2>1, IdleType, TypeAfterWrite DEF LogError
  <1>10. CASE Refresh(w)
    <2>1. [l EXCEPT !.pc = "defer", !.job = Read(row)] \in NamedLocals
      BY <1>1, <1>2, ReadType, TakeType
    <2>2. local' \in [Workers -> NamedLocals]
      BY <1>10, <2>1, IdleType, BecomeType DEF Refresh
    <2>3. QED BY <1>10, <2>2 DEF Refresh, cluster, history
  <1>11. CASE Defer(w)
    <2>1. [row EXCEPT !.status = "WAITING", !.deferred = l.job.wait] \in Rows
      BY <1>1 DEF Rows, Statuses, OpenStatuses
    <2>2. QED BY <1>11, <2>1, IdleType, TypeAfterWrite DEF Defer
  <1>12. QED
    BY <1>4, <1>5, <1>6, <1>7, <1>8, <1>9, <1>10, <1>11 DEF Settle

LEMMA NoLongerWaitingType ==
  ASSUME NEW l \in NamedLocals
  PROVE  NoLongerWaiting(l) \in NamedLocals
  <1> DEFINE job == [l.job EXCEPT !.wait = FALSE]
  <1>1. job \in Rows /\ job.details = l.job.details /\ job.name = l.job.name
    BY DEF NamedLocals, Locals, Rows
  <1>2. Replacement(job) = Replacement(l.job)
    BY <1>1 DEF Replacement
  <1> HIDE DEF job
  <1>3. [l EXCEPT !.job = job] \in NamedLocals
    BY <1>1, <1>2 DEF NamedLocals, Locals
  <1>4. QED BY <1>3 DEF NoLongerWaiting, job

LEMMA EnvironmentType ==
  ASSUME TypeInv, Environment
  PROVE  TypeInv'
  <1> USE DEF TypeInv
  <1>1. Failures \subseteq ConnectorStates /\ {"RUNNING", "STOPPED"} \subseteq ConnectorStates
    BY IncidentAssumption DEF IncidentAssumption, ConnectorStates, Live
  <1>2. ASSUME NEW v \in Versions, ConnectorFails(v) PROVE TypeInv'
    BY <1>1, <1>2 DEF ConnectorFails, history
  <1>3. ASSUME NEW v \in Versions, ConnectorRecovers(v) PROVE TypeInv'
    BY <1>1, <1>3 DEF ConnectorRecovers, history
  <1>10. CASE FirstCreated
    BY <1>1, <1>10 DEF FirstCreated, Origins, history
  <1>4. ASSUME NEW v \in Versions, OperatorStops(v) PROVE TypeInv'
    <2>1. budget' \in Budgets
      BY <1>4, IncidentAssumption DEF OperatorStops, Budgets, IncidentAssumption
    <2>2. QED BY <1>1, <1>4, <2>1 DEF OperatorStops, history
  <1>5. CASE Elapse
    <2>1. row' \in Rows
      BY <1>5 DEF Elapse, Rows
    <2>2. local' \in [Workers -> NamedLocals]
      BY <1>5, NoLongerWaitingType DEF Elapse
    <2>3. QED BY <1>5, <2>1, <2>2 DEF Elapse, cluster
  <1>6. ASSUME NEW w \in Workers, ElapseStale(w) PROVE TypeInv'
    <2>1. local' \in [Workers -> NamedLocals]
      BY <1>6, NoLongerWaitingType, BecomeType DEF ElapseStale
    <2>2. QED BY <1>6, <2>1 DEF ElapseStale, cluster, history
  <1>7. CASE Stabilize
    BY <1>7 DEF Stabilize, cluster, history
  <1>8. CASE Crash
    <2>1. budget' \in Budgets
      BY <1>8, IncidentAssumption DEF Crash, Budgets, IncidentAssumption
    <2>2. QED BY <1>8, <2>1, IdleType DEF Crash, NotHealthy, cluster, history
  <1>9. QED
    BY <1>2, <1>3, <1>4, <1>5, <1>6, <1>7, <1>8, <1>10 DEF Environment

LEMMA TypeInvInit == Init => TypeInv
  <1> SUFFICES ASSUME Init PROVE TypeInv
    OBVIOUS
  <1>1. kc \in [Versions -> ConnectorStates] /\ offsets \in [Versions -> Origins]
    BY DEF Init, ConnectorStates, Live, Origins
  <1>2. local \in [Workers -> NamedLocals]
    BY IdleType DEF Init
  <1>3. issued \in [Rungs -> 0..CountCap]
    BY Caps DEF Init
  <1>4. budget \in Budgets
    BY IncidentAssumption DEF Init, Budgets, IncidentAssumption
  <1>5. QED
    BY <1>1, <1>2, <1>3, <1>4, NoRowType DEF Init, TypeInv, NotHealthy

LEMMA TypeInvStep == TypeInv /\ [Next]_vars => TypeInv'
  <1> SUFFICES ASSUME TypeInv, [Next]_vars PROVE TypeInv'
    OBVIOUS
  <1>1. ASSUME NEW w \in Workers, Step(w) PROVE TypeInv'
    BY <1>1, ArriveType, AssessType, RecordType, ActType, SettleType DEF Step
  <1>2. CASE UNCHANGED vars
    BY <1>2 DEF TypeInv, vars
  <1>3. QED BY <1>1, <1>2, EnvironmentType DEF Next

\* In every reachable state the row, the cluster, the threads and the
\* histories have their types, whatever the interleaving and the faults.
THEOREM TypeCorrect == Spec => []TypeOK
  <1>1. QED BY TypeInvInit, TypeInvStep, TypeInvImpliesTypeOK, PTL DEF Spec

\* The stronger invariant the other theorems start from.
LEMMA AlwaysTyped == Spec => []TypeInv
  <1>1. QED BY TypeInvInit, TypeInvStep, PTL DEF Spec

-----------------------------------------------------------------------------
(* What the audit log vouches for.  All of it rests on one inductive       *)
(* invariant: whatever a thread has read, and wherever it is in its        *)
(* executor, is still backed by the row as it is now, because the log only *)
(* grows and the mode never changes.                                       *)

RecreatePcs == WithOffsetPcs \cup RetryPcs \cup WithoutOffsetPcs
ActionPcs == RestartPcs \cup RecreatePcs
ActionEvents == ManagedStoppedEvents \cup WithoutOffsetEvents
ClosingPcs == {"finish", "close", "quarantineClose"}

HasVerdict(r) == \E e \in TerminalEvents : r.count[e] > 0

\* The row as later steps may find it.
Grown(r, later) ==
  /\ HasVerdict(r) => HasVerdict(later)
  /\ FailureConfirmed(r) => FailureConfirmed(later)
  /\ r.level = 4 => later.level = 4

\* The row r vouches for the job.
Backed(r, job) ==
  /\ job.latest \in TerminalEvents => HasVerdict(r)
  /\ FailureConfirmed(job) \/ job.latest \in ActionEvents => FailureConfirmed(r)
  /\ job.level = 4 => r.level = 4

\* The row r vouches for what the thread is about to do.
Entitled(r, l) ==
  /\ Backed(r, l.job)
  /\ l.pc \in ClosingPcs => HasVerdict(r)
  /\ l.pc \in ActionPcs => FailureConfirmed(r)
  /\ l.pc \in RecreatePcs => l.job.level = 4

Consistent(r) ==
  /\ r.status = "ESCALATED" \/ r.latest \in TerminalEvents => HasVerdict(r)
  /\ r.latest \in ActionEvents => FailureConfirmed(r)
  /\ r.status = "NONE" => r.level = 2

\* What was requested of Kafka Connect was allowed.
Justified(r, spent) ==
  /\ (\E rung \in Rungs : spent[rung] > 0) => FailureConfirmed(r)
  /\ (\E rung \in Recreates : spent[rung] > 0) => r.level = 4

LedgerInv ==
  /\ Consistent(row)
  /\ \A w \in Workers : Entitled(row, local[w])
  /\ Justified(row, issued)

-----------------------------------------------------------------------------
(* The pieces                                                              *)

LEMMA EventsCounted ==
  /\ TerminalEvents \subseteq CountedEvents /\ "HEALTH_FAILED_CONFIRMED" \in CountedEvents
  /\ TerminalEvents \cap ActionEvents = {}
  /\ "HEALTH_FAILED_CONFIRMED" \notin TerminalEvents \cup ActionEvents
  /\ "NONE" \notin TerminalEvents \cup ActionEvents
  BY DEF TerminalEvents, CountedEvents, ActionEvents, ManagedStoppedEvents, WithoutOffsetEvents,
     WithOffsetFailureEvents, WithOffsetRetryEvents

LEMMA GrownEntitled ==
  ASSUME NEW r, NEW later, NEW l, Grown(r, later), Entitled(r, l)
  PROVE  Entitled(later, l)
  BY DEF Grown, Entitled, Backed

LEMMA GrownSelf ==
  ASSUME NEW r
  PROVE  Grown(r, r)
  BY DEF Grown

\* Logging an event: the log grows and stays consistent.
LEMMA LoggedGrows ==
  ASSUME NEW r \in Rows, NEW e \in EventTypes, NEW d, Consistent(r),
         e \in ActionEvents => FailureConfirmed(r)
  PROVE  /\ Consistent(Logged(r, e, d)) /\ Grown(r, Logged(r, e, d))
         /\ e \in TerminalEvents => HasVerdict(Logged(r, e, d))
         /\ e = "HEALTH_FAILED_CONFIRMED" => FailureConfirmed(Logged(r, e, d))
  <1> DEFINE c == Counted(r.count, e)
             n == Logged(r, e, d)
             b == e \in WaitEvents
  <1>1. r.count \in [CountedEvents -> 0..CountCap]
    BY DEF Rows
  <1>2. c \in [CountedEvents -> 0..CountCap]
    BY <1>1, CountedType
  <1>3. /\ \A x \in CountedEvents : r.count[x] > 0 => c[x] > 0
        /\ e \in CountedEvents => c[e] > 0
    BY <1>1, BumpType DEF Counted
  <1>4. \/ n = r /\ e = "HEALTH_FAILED_CONFIRMED" /\ r.count[e] > 0
        \/ n = [r EXCEPT !.latest = e, !.details = d, !.wait = b, !.count = c]
    BY DEF Logged
  <1> HIDE DEF c, n, b
  <1>5. CASE n = r /\ e = "HEALTH_FAILED_CONFIRMED" /\ r.count[e] > 0
    BY <1>5, EventsCounted, GrownSelf DEF FailureConfirmed, n
  <1>6. CASE n = [r EXCEPT !.latest = e, !.details = d, !.wait = b, !.count = c]
    <2>1. /\ n.latest = e /\ n.count = c /\ n.status = r.status /\ n.level = r.level
      BY <1>6 DEF Rows
    <2>2. HasVerdict(r) => HasVerdict(n)
      BY <1>3, <2>1, EventsCounted DEF HasVerdict
    <2>3. FailureConfirmed(r) => FailureConfirmed(n)
      BY <1>3, <2>1, EventsCounted DEF FailureConfirmed
    <2>4. e \in TerminalEvents => HasVerdict(n)
      BY <1>3, <2>1, EventsCounted DEF HasVerdict
    <2>5. e = "HEALTH_FAILED_CONFIRMED" => FailureConfirmed(n)
      BY <1>3, <2>1, EventsCounted DEF FailureConfirmed
    <2>6. Grown(r, n)
      BY <2>1, <2>2, <2>3 DEF Grown
    <2>7. Consistent(n)
      BY <2>1, <2>2, <2>3, <2>4 DEF Consistent
    <2>8. QED BY <2>4, <2>5, <2>6, <2>7 DEF n
  <1>7. QED BY <1>4, <1>5, <1>6

\* A job just read is backed by the row it was read from.
LEMMA ReadBacked ==
  ASSUME NEW r \in Rows, Consistent(r)
  PROVE  Backed(r, Read(r))
  <1>1. Read(r).latest = r.latest /\ Read(r).count = r.count /\ Read(r).level = r.level
    BY DEF Read, Rows
  <1>2. QED BY <1>1 DEF Consistent, Backed, FailureConfirmed

LEMMA IdleEntitled ==
  ASSUME NEW r
  PROVE  Entitled(r, Idle)
  <1>1. NoRow.latest = "NONE" /\ NoRow.level = 2 /\ ~FailureConfirmed(NoRow)
    BY EventsCounted DEF NoRow, FailureConfirmed, NoCounts
  <1>2. "idle" \notin ClosingPcs \cup ActionPcs
    BY DEF ClosingPcs, ActionPcs, RecreatePcs, RestartPcs, WithOffsetPcs, RetryPcs,
       WithoutOffsetPcs
  <1>3. QED BY <1>1, <1>2, IdleType, EventsCounted DEF Entitled, Backed, RecreatePcs, ActionPcs

\* A step to a pc that closes nothing and acts on nothing the thread was not
\* already acting on.
LEMMA GotoEntitled ==
  ASSUME NEW r, NEW l \in Locals, NEW pc, Entitled(r, l), pc \notin ClosingPcs,
         pc \in ActionPcs => l.pc \in ActionPcs,
         pc \in RecreatePcs => l.pc \in RecreatePcs
  PROVE  Entitled(r, [l EXCEPT !.pc = pc])
  <1>1. [l EXCEPT !.pc = pc].pc = pc /\ [l EXCEPT !.pc = pc].job = l.job
    BY DEF Locals
  <1>2. QED BY <1>1 DEF Entitled

\* Pcs outside every executor that close nothing.
NeutralPcs ==
  {"idle", "enqueue", "acquire", "start", "check", "observe", "confirm", "supersede",
   "logRecovered", "closeRecovered", "quarantine", "error", "refresh", "defer", "dropOld",
   "levelLimit", "escalate"}

LEMMA NeutralPcsAreNeutral ==
  \A pc \in NeutralPcs : pc \notin ClosingPcs /\ pc \notin ActionPcs /\ pc \notin RecreatePcs
  BY DEF NeutralPcs, ClosingPcs, ActionPcs, RecreatePcs, RestartPcs, WithOffsetPcs, RetryPcs,
     WithoutOffsetPcs

LEMMA LeaveEntitled ==
  ASSUME NEW r, NEW l \in Locals, NEW b, Entitled(r, l)
  PROVE  Entitled(r, Leave(l, b))
  BY IdleEntitled, GotoEntitled, NeutralPcsAreNeutral DEF Leave, NeutralPcs

\* A thread that moves while the others stand still.
LEMMA OneMoves ==
  ASSUME TypeInv, LedgerInv, NEW w \in Workers, NEW l, Become(w, l),
         Grown(row, row'), Consistent(row'), Entitled(row', l)
  PROVE  Consistent(row') /\ \A u \in Workers : Entitled(row', local'[u])
  <1>1. local' = [local EXCEPT ![w] = l] /\ local \in [Workers -> NamedLocals]
    BY DEF Become, TypeInv
  <1>2. ASSUME NEW u \in Workers PROVE Entitled(row', local'[u])
    <2>1. CASE u = w
      BY <1>1, <2>1
    <2>2. CASE u # w
      <3>1. local'[u] = local[u] /\ Entitled(row, local[u])
        BY <1>1, <2>2 DEF LedgerInv
      <3>2. QED BY <3>1, GrownEntitled
    <2>3. QED BY <2>1, <2>2
  <1>3. QED BY <1>2

LEMMA RaiseMoves ==
  ASSUME TypeInv, LedgerInv, NEW w \in Workers, Raise(w), Grown(row, row'), Consistent(row')
  PROVE  Consistent(row') /\ \A u \in Workers : Entitled(row', local'[u])
  <1>1. local[w] \in Locals /\ Entitled(row', local[w])
    BY GrownEntitled DEF TypeInv, NamedLocals, LedgerInv
  <1>2. \/ Become(w, [local[w] EXCEPT !.pc = "quarantine"])
        \/ Become(w, [local[w] EXCEPT !.pc = "error"])
        \/ Become(w, Idle)
    BY DEF Raise, DoubtfulStep, Goto
  <1>3. Entitled(row', [local[w] EXCEPT !.pc = "quarantine"])
          /\ Entitled(row', [local[w] EXCEPT !.pc = "error"])
    BY <1>1, GotoEntitled, NeutralPcsAreNeutral DEF NeutralPcs
  <1>4. QED BY <1>2, <1>3, IdleEntitled, OneMoves

LEMMA JustifiedKept ==
  ASSUME NEW r, NEW later, NEW spent, Grown(r, later), Justified(r, spent)
  PROVE  Justified(later, spent)
  BY DEF Grown, Justified

\* Every write of a consistent row that vouches for the thread's next step.
LEMMA WriteKeeps ==
  ASSUME TypeInv, LedgerInv, NEW w \in Workers, NEW r, NEW l, Write(w, r, l),
         Grown(row, r), Consistent(r), Entitled(r, l), UNCHANGED history
  PROVE  LedgerInv'
  <1>1. row' \in {row, r} /\ ((Become(w, l) /\ row' = r) \/ Raise(w))
    BY DEF Write, Wrote, DbFault
  <1>2. Grown(row, row') /\ Consistent(row')
    BY <1>1, GrownSelf DEF LedgerInv
  <1>3. Consistent(row') /\ \A u \in Workers : Entitled(row', local'[u])
    BY <1>1, <1>2, OneMoves, RaiseMoves
  <1>4. Justified(row', issued')
    BY <1>2, JustifiedKept DEF LedgerInv, history
  <1>5. QED BY <1>3, <1>4 DEF LedgerInv

\* Every step that leaves the row and the requests alone.
LEMMA MoveKeeps ==
  ASSUME TypeInv, LedgerInv, NEW w \in Workers, NEW l, Become(w, l) \/ Raise(w),
         UNCHANGED <<row, issued>>, Entitled(row, l)
  PROVE  LedgerInv'
  <1>1. row' = row /\ issued' = issued /\ Grown(row, row') /\ Consistent(row')
    BY GrownSelf DEF LedgerInv
  <1>2. \A u \in Workers : Entitled(row', local'[u])
    BY <1>1, OneMoves, RaiseMoves
  <1>3. QED BY <1>1, <1>2 DEF LedgerInv

LEMMA ClosedGrows ==
  ASSUME NEW r \in Rows, Consistent(r), NEW status \in {"COMPLETED", "ESCALATED"},
         status = "ESCALATED" => HasVerdict(r)
  PROVE  Grown(r, Closed(r, status)) /\ Consistent(Closed(r, status))
  <1>1. /\ Closed(r, status).status = status /\ Closed(r, status).latest = r.latest
        /\ Closed(r, status).count = r.count /\ Closed(r, status).level = r.level
    BY DEF Closed, Rows
  <1>2. QED BY <1>1 DEF Grown, Consistent, HasVerdict, FailureConfirmed

\* A new status of an open row.
LEMMA StatusGrows ==
  ASSUME NEW r \in Rows, Consistent(r), NEW later \in Rows,
         later.count = r.count, later.latest = r.latest, later.level = r.level,
         later.status \notin {"NONE", "ESCALATED"}
  PROVE  Grown(r, later) /\ Consistent(later)
  BY DEF Grown, Consistent, HasVerdict, FailureConfirmed

LEMMA HeldFacts ==
  ASSUME TypeInv, LedgerInv, NEW w \in Workers
  PROVE  /\ local[w] \in Locals /\ local[w].job \in Rows /\ row \in Rows
         /\ Entitled(row, local[w]) /\ Backed(row, local[w].job) /\ Consistent(row)
  BY DEF TypeInv, NamedLocals, Locals, LedgerInv, Entitled

\* Taking a job that the row vouches for, on the way to the lock.
LEMMA TakeEntitled ==
  ASSUME NEW r, NEW l, Backed(r, l.job), l.pc \in NeutralPcs
  PROVE  Entitled(r, l)
  BY NeutralPcsAreNeutral DEF Entitled

LEMMA ArriveKeeps ==
  ASSUME TypeInv, LedgerInv, NEW w \in Workers, Arrive(w)
  PROVE  LedgerInv'
  <1> DEFINE l == local[w]
  <1>1. /\ l \in Locals /\ l.job \in Rows /\ row \in Rows
        /\ Entitled(row, l) /\ Backed(row, l.job) /\ Consistent(row)
    BY HeldFacts
  <1>2. CASE Notice(w)
    <2>1. PICK alert \in BOOLEAN : Become(w, [l EXCEPT !.pc = "enqueue", !.alert = alert])
      BY <1>2 DEF Notice
    <2> DEFINE m == [l EXCEPT !.pc = "enqueue", !.alert = alert]
    <2>2. m.pc = "enqueue" /\ m.job = l.job
      BY <1>1 DEF Locals
    <2>3. Entitled(row, m)
      BY <1>1, <2>2, TakeEntitled DEF NeutralPcs
    <2>4. QED BY <1>2, <2>1, <2>3, MoveKeeps DEF Notice, history
  <1>3. CASE Enqueue(w)
    <2>1. PICK lvl \in QueueLevels :
            LET r == IF row.status = "NONE"
                     THEN [row EXCEPT !.status = "PENDING", !.level = lvl] ELSE row
                job == [Read(r) EXCEPT !.level = 1, !.latest = "NONE", !.details = NoDetails,
                                       !.count = NoCounts, !.wait = FALSE]
            IN  Write(w, r, IF w \in Webhooks /\ IsOpen(r)
                            THEN [local[w] EXCEPT !.pc = "acquire", !.job = job] ELSE Idle)
      BY <1>3 DEF Enqueue
    <2> DEFINE r == IF row.status = "NONE"
                    THEN [row EXCEPT !.status = "PENDING", !.level = lvl] ELSE row
               job == [Read(r) EXCEPT !.level = 1, !.latest = "NONE", !.details = NoDetails,
                                      !.count = NoCounts, !.wait = FALSE]
               next == IF w \in Webhooks /\ IsOpen(r)
                       THEN [local[w] EXCEPT !.pc = "acquire", !.job = job] ELSE Idle
    <2>2. r \in Rows
      BY <1>1, IncidentAssumption DEF Rows, Statuses, OpenStatuses, IncidentAssumption
    <2>3. /\ r.count = row.count /\ r.latest = row.latest
          /\ r = row \/ (row.status = "NONE" /\ r.status = "PENDING")
      BY <1>1 DEF Rows
    <2>4. Grown(row, r) /\ Consistent(r)
      BY <1>1, <2>3, GrownSelf DEF Consistent, Grown, HasVerdict, FailureConfirmed
    <2>5. job.latest = "NONE" /\ job.count = NoCounts /\ job.level = 1
      BY <2>2 DEF Rows, Read
    <2>6. Backed(r, job)
      BY <2>5, EventsCounted DEF Backed, FailureConfirmed, NoCounts
    <2> HIDE DEF job
    <2>7. Entitled(r, [l EXCEPT !.pc = "acquire", !.job = job])
      <3>1. [l EXCEPT !.pc = "acquire", !.job = job].pc = "acquire"
              /\ [l EXCEPT !.pc = "acquire", !.job = job].job = job
        BY <1>1 DEF Locals
      <3> DEFINE m == [l EXCEPT !.pc = "acquire", !.job = job]
      <3> HIDE DEF m
      <3>2. m.pc \in NeutralPcs /\ Backed(r, m.job)
        BY <2>6, <3>1 DEF NeutralPcs, m
      <3>3. QED BY <3>2, TakeEntitled DEF m
    <2>8. Entitled(r, next)
      BY <2>7, IdleEntitled
    <2>9. Write(w, r, next)
      BY <2>1 DEF job
    <2> HIDE DEF r, next
    <2>10. QED BY <1>3, <2>4, <2>8, <2>9, WriteKeeps DEF Enqueue
  <1>4. ASSUME NEW m, m.pc = "acquire", m.job = Read(row)
        PROVE  Entitled(row, m)
    BY <1>1, <1>4, ReadBacked, TakeEntitled DEF NeutralPcs
  <1>5. CASE ListDue(w)
    <2> DEFINE m == [l EXCEPT !.pc = "acquire", !.job = Read(row)]
    <2>1. m.pc = "acquire" /\ m.job = Read(row)
      BY <1>1 DEF Locals
    <2>2. Entitled(row, m)
      BY <1>4, <2>1
    <2>3. QED BY <1>5, <2>2, MoveKeeps DEF ListDue, history
  <1>6. CASE Alerted(w)
    <2>1. PICK alert \in BOOLEAN :
            Become(w, [l EXCEPT !.pc = "acquire", !.job = Read(row), !.alert = alert])
      BY <1>6 DEF Alerted
    <2> DEFINE m == [l EXCEPT !.pc = "acquire", !.job = Read(row), !.alert = alert]
    <2>2. m.pc = "acquire" /\ m.job = Read(row)
      BY <1>1 DEF Locals
    <2>3. Entitled(row, m)
      BY <1>4, <2>2
    <2>4. QED BY <1>6, <2>1, <2>3, MoveKeeps DEF Alerted, history
  <1>7. CASE TryLock(w)
    <2>1. Entitled(row, [l EXCEPT !.pc = "start"])
      BY <1>1, GotoEntitled, NeutralPcsAreNeutral DEF NeutralPcs
    <2>2. Become(w, Idle) \/ Become(w, [l EXCEPT !.pc = "start"])
      BY <1>7 DEF TryLock, Goto
    <2>3. QED BY <1>7, <2>1, <2>2, IdleEntitled, MoveKeeps DEF TryLock, history
  <1>8. CASE Start(w)
    <2> DEFINE r == [row EXCEPT !.status = "PROCESSING"]
               next == IF uncertain THEN [l EXCEPT !.pc = "quarantine"]
                       ELSE IF l.job.latest \in TerminalEvents THEN [l EXCEPT !.pc = "finish"]
                       ELSE IF l.job.wait THEN Leave(l, FailedCount(l.job) > 0)
                       ELSE [l EXCEPT !.pc = "check"]
    <2>1. Grown(row, r) /\ Consistent(r)
      <3>1. r \in Rows /\ r.count = row.count /\ r.latest = row.latest /\ r.level = row.level
              /\ r.status = "PROCESSING"
        BY <1>1 DEF Rows, Statuses, OpenStatuses
      <3>2. QED BY <1>1, <3>1, StatusGrows
    <2>2. Entitled(r, l)
      BY <1>1, <2>1, GrownEntitled
    <2>3. Entitled(r, [l EXCEPT !.pc = "quarantine"]) /\ Entitled(r, [l EXCEPT !.pc = "check"])
      BY <1>1, <2>2, GotoEntitled, NeutralPcsAreNeutral DEF NeutralPcs
    <2>4. l.job.latest \in TerminalEvents => Entitled(r, [l EXCEPT !.pc = "finish"])
      <3>1. [l EXCEPT !.pc = "finish"].pc = "finish" /\ [l EXCEPT !.pc = "finish"].job = l.job
        BY <1>1 DEF Locals
      <3>2. "finish" \notin ActionPcs \cup RecreatePcs
        BY DEF ActionPcs, RecreatePcs, RestartPcs, WithOffsetPcs, RetryPcs, WithoutOffsetPcs
      <3>3. QED BY <2>2, <3>1, <3>2 DEF Entitled, Backed
    <2>5. Entitled(r, Leave(l, FailedCount(l.job) > 0))
      BY <1>1, <2>2, LeaveEntitled
    <2>6. Entitled(r, next)
      BY <2>3, <2>4, <2>5
    <2>7. Write(w, r, next) /\ UNCHANGED history
      BY <1>8 DEF Start
    <2> HIDE DEF r, next
    <2>8. QED BY <2>1, <2>6, <2>7, WriteKeeps
  <1>9. CASE Finish(w)
    <2>1. HasVerdict(row)
      BY <1>1, <1>9 DEF Finish, Entitled, ClosingPcs
    <2>2. Grown(row, Closed(row, "ESCALATED")) /\ Consistent(Closed(row, "ESCALATED"))
      BY <1>1, <2>1, ClosedGrows
    <2>3. QED BY <1>9, <2>2, IdleEntitled, WriteKeeps DEF Finish
  <1>10. QED
    BY <1>2, <1>3, <1>5, <1>6, <1>7, <1>8, <1>9 DEF Arrive

\* The decision asks for an action only when the failure is confirmed, and
\* for a recreate only above the level of a restart.
LEMMA FirstStepEntitled ==
  ASSUME NEW r, NEW l \in Locals, Backed(r, l.job), NEW action,
         action \in {"RESTART_TASKS", "RESTART_CONNECTOR", "RECREATE_WITH_OFFSET",
                    "RETRY_RECREATE_WITH_OFFSET", "RECREATE_WITHOUT_OFFSET"}
           => FailureConfirmed(r)
  PROVE  Entitled(r, [l EXCEPT !.pc = FirstStep(l, action)])
  <1> DEFINE pc == FirstStep(l, action)
             m == [l EXCEPT !.pc = pc]
  <1>1. m.pc = pc /\ m.job = l.job /\ l.job.level \in {1, 2, 4}
    BY DEF Locals, Rows
  <1>2. \/ pc \in NeutralPcs
        \/ pc \in RestartPcs /\ action \in {"RESTART_TASKS", "RESTART_CONNECTOR"}
        \/ /\ pc \in {"configWith", "configRetry", "configWithout"} /\ l.job.level = 4
           /\ action \in {"RECREATE_WITH_OFFSET", "RETRY_RECREATE_WITH_OFFSET",
                         "RECREATE_WITHOUT_OFFSET"}
    BY <1>1 DEF FirstStep, RequiredLevel, NeutralPcs, RestartPcs
  <1> HIDE DEF m, pc
  <1>3. CASE pc \in NeutralPcs
    BY <1>1, <1>3, NeutralPcsAreNeutral DEF Entitled, m, pc
  <1>4. CASE pc \in RestartPcs /\ action \in {"RESTART_TASKS", "RESTART_CONNECTOR"}
    <2>1. pc \notin ClosingPcs /\ pc \notin RecreatePcs
      BY <1>4, PcFamilies DEF RestartPcs, ClosingPcs, RecreatePcs
    <2>2. QED BY <1>1, <1>4, <2>1 DEF Entitled, m, pc
  <1>5. CASE /\ pc \in {"configWith", "configRetry", "configWithout"} /\ l.job.level = 4
             /\ action \in {"RECREATE_WITH_OFFSET", "RETRY_RECREATE_WITH_OFFSET",
                           "RECREATE_WITHOUT_OFFSET"}
    <2>1. pc \notin ClosingPcs
      BY <1>5 DEF ClosingPcs
    <2>2. QED BY <1>1, <1>5, <2>1 DEF Entitled, m, pc
  <1>6. QED BY <1>2, <1>3, <1>4, <1>5

LEMMA DecisionJustified ==
  ASSUME NEW r, NEW job, NEW failedTask, Backed(r, job),
         FailureConfirmed(job) \/ FailedCount(job) < FailureConfirmChecks,
         DecideUnhealthy(job, failedTask) \in
           {"RESTART_TASKS", "RESTART_CONNECTOR", "RECREATE_WITH_OFFSET",
            "RETRY_RECREATE_WITH_OFFSET", "RECREATE_WITHOUT_OFFSET"}
  PROVE  FailureConfirmed(r)
  BY DEF DecideUnhealthy, Backed, ActionEvents

LEMMA DecidedEntitled ==
  ASSUME NEW r, NEW l \in Locals, Backed(r, l.job),
         FailureConfirmed(l.job) \/ FailedCount(l.job) < FailureConfirmChecks
  PROVE  Entitled(r, Decided(l))
  BY DecisionJustified, FirstStepEntitled DEF Decided

\* The job with one more event in memory, after the event was logged.
LEMMA WithEventBacked ==
  ASSUME NEW r, NEW l \in Locals, NEW e \in CountedEvents, Backed(r, l.job),
         e = "HEALTH_FAILED_CONFIRMED" => FailureConfirmed(r)
  PROVE  Backed(r, WithEvent(l, e).job)
  <1> DEFINE c == Counted(l.job.count, e)
             job == [l.job EXCEPT !.count = c]
             m == [l EXCEPT !.job = job]
  <1>1. l.job.count \in [CountedEvents -> 0..CountCap] /\ l.job \in Rows
    BY DEF Locals, Rows
  <1>2. c \in [CountedEvents -> 0..CountCap]
    BY <1>1, CountedType
  <1>3. e # "HEALTH_FAILED_CONFIRMED"
          => c["HEALTH_FAILED_CONFIRMED"] = l.job.count["HEALTH_FAILED_CONFIRMED"]
    BY <1>1, EventsCounted DEF Counted
  <1> HIDE DEF c
  <1>4. job.count = c /\ job.latest = l.job.latest /\ job.level = l.job.level
    BY <1>1 DEF Rows
  <1>5. Backed(r, job)
    BY <1>3, <1>4 DEF Backed, FailureConfirmed
  <1> HIDE DEF job
  <1>6. m.job = job
    BY DEF Locals
  <1>7. QED BY <1>5, <1>6 DEF WithEvent, job, c

LEMMA AssessKeeps ==
  ASSUME TypeInv, LedgerInv, NEW w \in Workers, Assess(w)
  PROVE  LedgerInv'
  <1> DEFINE l == local[w]
  <1>1. /\ l \in Locals /\ l.job \in Rows /\ row \in Rows
        /\ Entitled(row, l) /\ Backed(row, l.job) /\ Consistent(row)
    BY HeldFacts
  <1>2. Entitled(row, Leave(l, FailedCount(l.job) > 0))
    BY <1>1, LeaveEntitled
  <1>3. ASSUME NEW res, NEW alert, NEW pc \in NeutralPcs
        PROVE  /\ Entitled(row, [l EXCEPT !.res = res, !.pc = pc])
               /\ Entitled(row, [l EXCEPT !.res = res, !.alert = alert, !.pc = pc])
    <2> DEFINE m == [l EXCEPT !.res = res, !.pc = pc]
               n == [l EXCEPT !.res = res, !.alert = alert, !.pc = pc]
    <2>1. m.pc = pc /\ m.job = l.job /\ n.pc = pc /\ n.job = l.job
      BY <1>1 DEF Locals
    <2> HIDE DEF m, n
    <2>2. Entitled(row, m) /\ Entitled(row, n)
      BY <1>1, <2>1, TakeEntitled
    <2>3. QED BY <2>2 DEF m, n
  <1>4. CASE CheckUnreachable(w)
    BY <1>2, <1>4, MoveKeeps DEF CheckUnreachable, history
  <1>5. CASE CheckNotCreated(w)
    <2> DEFINE seen == [l EXCEPT !.res = "NOT_CREATED"]
               action == DecideMissingReplacement(l.job)
    <2>1. seen \in Locals /\ seen.job = l.job /\ seen.pc = l.pc
      BY <1>1 DEF Locals, CheckResults
    <2>2. FirstStep(l, action) = FirstStep(seen, action)
      BY <2>1 DEF FirstStep
    <2> HIDE DEF seen, action
    <2>3. CASE l.job.latest \in WithOffsetRetryEvents
      <3>1. FailureConfirmed(row)
        BY <1>1, <2>3 DEF Backed, ActionEvents, ManagedStoppedEvents
      <3>2. Entitled(row, [seen EXCEPT !.pc = FirstStep(seen, action)])
        BY <1>1, <2>1, <3>1, FirstStepEntitled
      <3>3. Become(w, [seen EXCEPT !.pc = FirstStep(seen, action)])
        BY <1>5, <2>2, <2>3 DEF CheckNotCreated, seen, action
      <3>4. QED BY <1>5, <3>2, <3>3, MoveKeeps DEF CheckNotCreated, history
    <2>4. CASE l.job.latest \notin WithOffsetRetryEvents
      <3>1. Entitled(row, seen)
        BY <1>1, <2>1 DEF Entitled
      <3>2. Entitled(row, Leave(seen, FailedCount(l.job) > 0))
        BY <2>1, <3>1, LeaveEntitled
      <3>3. Become(w, Leave(seen, FailedCount(l.job) > 0))
        BY <1>5, <2>4 DEF CheckNotCreated, seen
      <3>4. QED BY <1>5, <3>2, <3>3, MoveKeeps DEF CheckNotCreated, history
    <2>5. QED BY <2>3, <2>4
  <1>6. CASE CheckAdminStopped(w)
    BY <1>6, IdleEntitled, MoveKeeps DEF CheckAdminStopped, history
  <1>7. CASE CheckHealthy(w)
    <2> DEFINE pc == IF ActionCount(l.job) = 0 THEN "closeRecovered" ELSE "supersede"
    <2>1. pc \in NeutralPcs
      BY DEF NeutralPcs
    <2>2. \/ Become(w, Leave(l, FailedCount(l.job) > 0))
          \/ Become(w, [l EXCEPT !.res = "HEALTHY", !.pc = pc])
      BY <1>7 DEF CheckHealthy
    <2> HIDE DEF pc
    <2>3. Entitled(row, [l EXCEPT !.res = "HEALTHY", !.pc = pc])
      BY <1>3, <2>1
    <2>4. UNCHANGED <<row, issued>>
      BY <1>7 DEF CheckHealthy, history
    <2>5. QED BY <1>2, <2>2, <2>3, <2>4, MoveKeeps
  <1>8. CASE CheckUnhealthy(w)
    <2> DEFINE res == CASE kc[l.job.name] = "TASK_FAILED" -> "TASKS"
                        [] kc[l.job.name] = "FAILED" -> "CONNECTOR"
                        [] OTHER -> "STOPPED"
               alert == l.alert /\ res # "STOPPED"
               stop == DecideUnhealthy(l.job, res = "TASKS") = "STOP"
               pc == IF stop THEN "finish" ELSE "observe"
               m == [l EXCEPT !.res = res, !.alert = alert, !.pc = pc]
    <2>1. stop => l.job.latest \in TerminalEvents
      BY DEF DecideUnhealthy, RecreateFollowUp, WithoutOffsetOrEscalate
    <2>2. Become(w, m) /\ UNCHANGED <<row, issued>>
      BY <1>8 DEF CheckUnhealthy, history
    <2> HIDE DEF res, alert, stop
    <2>3. m.pc = pc /\ m.job = l.job
      BY <1>1 DEF Locals
    <2>4. CASE stop
      <3>1. "finish" \notin ActionPcs /\ "finish" \notin RecreatePcs
        BY DEF ActionPcs, RecreatePcs, RestartPcs, WithOffsetPcs, RetryPcs, WithoutOffsetPcs
      <3>2. m.pc = "finish" /\ HasVerdict(row)
        BY <1>1, <2>1, <2>3, <2>4 DEF Backed
      <3> HIDE DEF m
      <3>3. Entitled(row, m)
        BY <1>1, <2>3, <3>1, <3>2 DEF Entitled
      <3>4. QED BY <2>2, <3>3, MoveKeeps
    <2>5. CASE ~stop
      <3>1. m.pc = "observe"
        BY <2>3, <2>5
      <3> HIDE DEF m
      <3>2. Entitled(row, m)
        BY <1>1, <2>3, <3>1, TakeEntitled DEF NeutralPcs
      <3>3. QED BY <2>2, <3>2, MoveKeeps
    <2>6. QED BY <2>4, <2>5
  <1>9. {"HEALTH_FAILURE_OBSERVED", "HEALTH_FAILED_CONFIRMED"} \subseteq EventTypes \ ActionEvents
          /\ {"HEALTH_FAILURE_OBSERVED", "HEALTH_FAILED_CONFIRMED"} \subseteq CountedEvents
    BY DEF EventTypes, CountedEvents, ActionEvents, ManagedStoppedEvents, WithoutOffsetEvents,
       WithOffsetFailureEvents, WithOffsetRetryEvents
  <1>10. CASE Observe(w)
    <2> DEFINE seen == WithEvent(l, "HEALTH_FAILURE_OBSERVED")
               confirms == NeedsConfirmation(seen.job, seen.alert)
               next == IF confirms THEN [seen EXCEPT !.pc = "confirm"] ELSE Decided(seen)
               r == Logged(row, "HEALTH_FAILURE_OBSERVED", NoDetails)
    <2>1. Write(w, r, next) /\ UNCHANGED history
      BY <1>10 DEF Observe
    <2>2. Grown(row, r) /\ Consistent(r)
      BY <1>1, <1>9, LoggedGrows
    <2>3. Backed(r, l.job)
      BY <1>1, <2>2 DEF Grown, Backed
    <2>4. seen \in Locals /\ Backed(r, seen.job)
      BY <1>1, <1>9, <2>3, WithEventType, WithEventBacked
    <2>5. FailedCount(seen.job) \in Nat
      BY <1>9, <2>4 DEF Locals, Rows, FailedCount
    <2>6. ~confirms => FailureConfirmed(seen.job) \/ FailedCount(seen.job) < FailureConfirmChecks
      BY <2>5, Caps DEF NeedsConfirmation
    <2> HIDE DEF seen, r, confirms
    <2>7. Entitled(r, [seen EXCEPT !.pc = "confirm"])
      <3>1. [seen EXCEPT !.pc = "confirm"].pc = "confirm"
              /\ [seen EXCEPT !.pc = "confirm"].job = seen.job
        BY <2>4 DEF Locals
      <3>2. QED BY <2>4, <3>1, TakeEntitled DEF NeutralPcs
    <2>8. ~confirms => Entitled(r, Decided(seen))
      BY <2>4, <2>6, DecidedEntitled
    <2>9. Entitled(r, next)
      BY <2>7, <2>8
    <2>10. QED BY <2>1, <2>2, <2>9, WriteKeeps
  <1>11. CASE Confirm(w)
    <2> DEFINE m == WithEvent(l, "HEALTH_FAILED_CONFIRMED")
               r == Logged(row, "HEALTH_FAILED_CONFIRMED", NoDetails)
    <2>1. Write(w, r, Decided(m)) /\ UNCHANGED history
      BY <1>11 DEF Confirm
    <2>2. Grown(row, r) /\ Consistent(r) /\ FailureConfirmed(r)
      BY <1>1, <1>9, LoggedGrows
    <2>3. Backed(r, l.job)
      BY <1>1, <2>2 DEF Grown, Backed
    <2>4. m \in Locals /\ Backed(r, m.job)
      BY <1>1, <1>9, <2>2, <2>3, WithEventType, WithEventBacked
    <2>5. FailureConfirmed(m.job)
      <3> DEFINE c == Counted(l.job.count, "HEALTH_FAILED_CONFIRMED")
                 job == [l.job EXCEPT !.count = c]
      <3>1. c["HEALTH_FAILED_CONFIRMED"] > 0
        BY <1>1, <1>9, BumpType DEF Counted, Rows
      <3> HIDE DEF c
      <3>2. job.count = c
        BY <1>1 DEF Rows
      <3> HIDE DEF job
      <3>3. [l EXCEPT !.job = job].job = job
        BY <1>1 DEF Locals
      <3>4. QED BY <3>1, <3>2, <3>3 DEF FailureConfirmed, WithEvent, job, c
    <2> HIDE DEF m, r
    <2>6. Entitled(r, Decided(m))
      BY <2>4, <2>5, DecidedEntitled
    <2>7. QED BY <2>1, <2>2, <2>6, WriteKeeps
  <1>12. QED
    BY <1>4, <1>5, <1>6, <1>7, <1>8, <1>10, <1>11 DEF Assess

\* Each executor stays within its own steps until it closes with a verdict.
LEMMA AuditOrder ==
  ASSUME NEW pc \in AuditPcs, NEW next \in AuditOf(pc).next
  PROVE  /\ AuditOf(pc).event \in ActionEvents => pc \in ActionPcs
         /\ next \in ActionPcs => pc \in ActionPcs
         /\ next \in RecreatePcs => pc \in RecreatePcs
         /\ next \in ClosingPcs => AuditOf(pc).event \in TerminalEvents
  <1>1. CASE pc \in RestartPcs
    <2>1. AuditOf(pc) = RestartAudit(pc)
      BY <1>1, PcFamilies DEF AuditOf
    <2>2. next = "refresh"
      BY <2>1 DEF RestartAudit
    <2>3. QED BY <1>1, <2>2, NeutralPcsAreNeutral DEF NeutralPcs, ActionPcs
  <1>2. CASE pc \in WithOffsetPcs
    <2>1. AuditOf(pc) = WithOffsetAudit(pc)
      BY <1>2, PcFamilies DEF AuditOf
    <2>2. next \notin ClosingPcs
      BY <2>1 DEF WithOffsetAudit, ClosingPcs
    <2>3. QED BY <1>2, <2>2 DEF ActionPcs, RecreatePcs
  <1>3. CASE pc \in RetryPcs
    <2>1. AuditOf(pc) = RetryAudit(pc)
      BY <1>3, PcFamilies DEF AuditOf
    <2>2. next \notin ClosingPcs
      BY <2>1 DEF RetryAudit, ClosingPcs
    <2>3. QED BY <1>3, <2>2 DEF ActionPcs, RecreatePcs
  <1>4. CASE pc \in WithoutOffsetPcs
    <2>1. AuditOf(pc) = WithoutOffsetAudit(pc)
      BY <1>4, PcFamilies DEF AuditOf
    <2>2. next \notin ClosingPcs
      BY <2>1 DEF WithoutOffsetAudit, ClosingPcs
    <2>3. QED BY <1>4, <2>2 DEF ActionPcs, RecreatePcs
  <1>5. CASE pc \in {"levelLimit", "escalate"}
    <2>1. AuditOf(pc) = EscalationAudit(pc)
      BY <1>5 DEF AuditOf, WithOffsetPcs, RestartPcs, RetryPcs, WithoutOffsetPcs
    <2>2. AuditOf(pc).event \in TerminalEvents /\ next = "close"
      BY <2>1 DEF EscalationAudit, TerminalEvents
    <2>3. "close" \notin ActionPcs /\ "close" \notin RecreatePcs
      BY DEF ActionPcs, RecreatePcs, RestartPcs, WithOffsetPcs, RetryPcs, WithoutOffsetPcs
    <2>4. QED BY <2>2, <2>3, EventsCounted
  <1>6. QED
    BY <1>1, <1>2, <1>3, <1>4, <1>5
    DEF AuditPcs, RestartPcs, WithOffsetPcs, RetryPcs, WithoutOffsetPcs

LEMMA RecordKeeps ==
  ASSUME TypeInv, LedgerInv, NEW w \in Workers, Record(w)
  PROVE  LedgerInv'
  <1> DEFINE l == local[w]
  <1>1. /\ l \in Locals /\ l.job \in Rows /\ row \in Rows
        /\ Entitled(row, l) /\ Backed(row, l.job) /\ Consistent(row)
    BY HeldFacts
  <1>2. CASE Audit(w)
    <2> DEFINE e == AuditOf(l.pc).event
               r == Logged(row, e, AuditDetails(l))
    <2>1. PICK pc \in AuditOf(l.pc).next : Write(w, r, [l EXCEPT !.pc = pc])
      BY <1>2 DEF Audit
    <2>2. l.pc \in AuditPcs /\ UNCHANGED history
      BY <1>2 DEF Audit
    <2>3. /\ e \in EventTypes
          /\ e \in ActionEvents => l.pc \in ActionPcs
          /\ pc \in ActionPcs => l.pc \in ActionPcs
          /\ pc \in RecreatePcs => l.pc \in RecreatePcs
          /\ pc \in ClosingPcs => e \in TerminalEvents
      BY <2>1, <2>2, AuditTable, AuditOrder
    <2> HIDE DEF e
    <2>4. Grown(row, r) /\ Consistent(r) /\ (e \in TerminalEvents => HasVerdict(r))
      BY <1>1, <2>3, LoggedGrows DEF Entitled
    <2> HIDE DEF r
    <2>5. Entitled(r, l)
      BY <1>1, <2>4, GrownEntitled
    <2>6. Entitled(r, [l EXCEPT !.pc = pc])
      <3>1. [l EXCEPT !.pc = pc].pc = pc /\ [l EXCEPT !.pc = pc].job = l.job
        BY <1>1 DEF Locals
      <3>2. QED BY <2>3, <2>4, <2>5, <3>1 DEF Entitled
    <2>7. QED BY <2>1, <2>2, <2>4, <2>6, WriteKeeps
  <1>3. CASE Rename(w)
    <2> DEFINE next == CASE l.pc = "renameTimeout" -> "logTimeout"
                         [] l.pc = "renamePatch" -> "logPatch"
                         [] l.pc = "renameResume" -> "logResume"
                         [] OTHER -> "dropOld"
               r == Renamed(row, l.job)
    <2>1. r.count = row.count /\ r.latest = row.latest /\ r.level = row.level
            /\ r.status = row.status
      BY <1>1 DEF Renamed, Rows
    <2>2. Grown(row, r) /\ Consistent(r)
      BY <1>1, <2>1 DEF Grown, Consistent, HasVerdict, FailureConfirmed
    <2>3. Write(w, r, [l EXCEPT !.pc = next]) /\ UNCHANGED history
      BY <1>3 DEF Rename
    <2>4. \/ next \in WithOffsetPcs /\ l.pc \in WithOffsetPcs
          \/ next \in NeutralPcs
      BY DEF WithOffsetPcs, NeutralPcs
    <2>5. next \notin ClosingPcs
      BY DEF ClosingPcs
    <2> HIDE DEF next, r
    <2>6. Entitled(r, l)
      BY <1>1, <2>2, GrownEntitled
    <2>7. Entitled(r, [l EXCEPT !.pc = next])
      BY <1>1, <2>4, <2>5, <2>6, GotoEntitled, NeutralPcsAreNeutral DEF ActionPcs, RecreatePcs
    <2>8. QED BY <2>2, <2>3, <2>7, WriteKeeps
  <1>4. CASE Close(w)
    <2> DEFINE r == Closed(row, "ESCALATED")
    <2>1. HasVerdict(row)
      BY <1>1, <1>4 DEF Close, Entitled, ClosingPcs
    <2>2. Grown(row, r) /\ Consistent(r)
      BY <1>1, <2>1, ClosedGrows
    <2>3. Entitled(r, l)
      BY <1>1, <2>2, GrownEntitled
    <2>4. Entitled(r, [l EXCEPT !.pc = "refresh"])
      BY <1>1, <2>3, GotoEntitled, NeutralPcsAreNeutral DEF NeutralPcs
    <2>5. QED BY <1>4, <2>2, <2>4, WriteKeeps DEF Close
  <1>5. QED BY <1>2, <1>3, <1>4 DEF Record

\* A request leaves the row alone and moves the thread within its executor.
LEMMA ActMoves ==
  ASSUME TypeInv, NEW w \in Workers, Act(w)
  PROVE  /\ row' = row
         /\ \/ Raise(w)
            \/ \E pc \in RestartPcs : Goto(w, pc) /\ local[w].pc \in RestartPcs
            \/ \E pc \in RecreatePcs : Goto(w, pc) /\ local[w].pc \in RecreatePcs
            \/ \E pc \in NeutralPcs : Goto(w, pc)
  <1> USE DEF RecreatePcs
  <1>1. CASE Restart(w)
    BY <1>1 DEF Restart, Answered, RestartPcs
  <1>2. CASE LoadConfig(w)
    BY <1>2 DEF LoadConfig, Answered, WithOffsetPcs, RetryPcs, WithoutOffsetPcs
  <1>3. CASE Capture(w)
    BY <1>3 DEF Capture, Answered, WithOffsetPcs
  <1>4. CASE StopConnector(w)
    BY <1>4 DEF StopConnector, Answered, FailedTo, WithOffsetPcs, RetryPcs, WithoutOffsetPcs
  <1>5. CASE RetryProbe(w)
    BY <1>5 DEF RetryProbe, Answered, FailedTo, RetryPcs
  <1>6. CASE CreateStopped(w)
    BY <1>6 DEF CreateStopped, Answered, FailedTo, AfterCreate, WithOffsetPcs, RetryPcs
  <1>7. CASE PatchOffsets(w)
    BY <1>7 DEF PatchOffsets, Answered, FailedTo, WithOffsetPcs, RetryPcs
  <1>8. CASE ResumeConnector(w)
    BY <1>8 DEF ResumeConnector, Answered, FailedTo, WithOffsetPcs, RetryPcs
  <1>9. CASE CreateFresh(w)
    BY <1>9 DEF CreateFresh, Answered, FailedTo, WithoutOffsetPcs
  <1>10. CASE DropOld(w)
    BY <1>10 DEF DropOld, NeutralPcs
  <1>11. QED
    BY <1>1, <1>2, <1>3, <1>4, <1>5, <1>6, <1>7, <1>8, <1>9, <1>10 DEF Act

\* What a request adds to the history.
LEMMA ActCounts ==
  ASSUME TypeInv, NEW w \in Workers, Act(w)
  PROVE  \/ issued' = issued
         \/ /\ local[w].pc \in RestartPcs
            /\ \E rung \in {"TASKS", "CONNECTOR"} : Count(rung)
         \/ /\ local[w].pc \in RecreatePcs
            /\ \E rung \in Recreates : Count(rung)
  <1> USE DEF RecreatePcs
  <1>1. CASE Restart(w)
    BY <1>1 DEF Restart, RestartPcs
  <1>2. CASE StopConnector(w)
    BY <1>2 DEF StopConnector, Recreates, WithOffsetPcs, RetryPcs, WithoutOffsetPcs
  <1>3. CASE CreateStopped(w)
    BY <1>3 DEF CreateStopped, Recreates, RetryPcs
  <1>4. CASE \/ LoadConfig(w) \/ Capture(w) \/ RetryProbe(w) \/ PatchOffsets(w)
             \/ ResumeConnector(w) \/ CreateFresh(w) \/ DropOld(w)
    BY <1>4 DEF LoadConfig, Capture, RetryProbe, PatchOffsets, ResumeConnector, CreateFresh,
       DropOld, history
  <1>5. QED BY <1>1, <1>2, <1>3, <1>4 DEF Act

LEMMA ActKeeps ==
  ASSUME TypeInv, LedgerInv, NEW w \in Workers, Act(w)
  PROVE  LedgerInv'
  <1> DEFINE l == local[w]
  <1>1. /\ l \in Locals /\ Entitled(row, l) /\ Consistent(row)
    BY HeldFacts
  <1>2. row' = row /\ Grown(row, row') /\ Consistent(row')
    BY <1>1, ActMoves, GrownSelf
  <1>3. ASSUME NEW pc, Goto(w, pc), pc \notin ClosingPcs,
               pc \in ActionPcs => l.pc \in ActionPcs,
               pc \in RecreatePcs => l.pc \in RecreatePcs
        PROVE  \A u \in Workers : Entitled(row', local'[u])
    <2>1. Entitled(row', [l EXCEPT !.pc = pc])
      BY <1>1, <1>2, <1>3, GotoEntitled
    <2>2. QED BY <1>2, <1>3, <2>1, OneMoves DEF Goto
  <1>4. \A u \in Workers : Entitled(row', local'[u])
    <2>1. CASE Raise(w)
      BY <1>2, <2>1, RaiseMoves
    <2>2. ASSUME NEW pc \in RestartPcs, Goto(w, pc), l.pc \in RestartPcs
          PROVE  \A u \in Workers : Entitled(row', local'[u])
      <3>1. pc \notin ClosingPcs /\ pc \notin RecreatePcs
        BY <2>2, PcFamilies DEF RestartPcs, ClosingPcs, RecreatePcs
      <3>2. QED BY <1>3, <2>2, <3>1 DEF ActionPcs
    <2>3. ASSUME NEW pc \in RecreatePcs, Goto(w, pc), l.pc \in RecreatePcs
          PROVE  \A u \in Workers : Entitled(row', local'[u])
      <3>1. pc \notin ClosingPcs
        BY <2>3 DEF RecreatePcs, WithOffsetPcs, RetryPcs, WithoutOffsetPcs, ClosingPcs
      <3>2. QED BY <1>3, <2>3, <3>1 DEF ActionPcs
    <2>4. ASSUME NEW pc \in NeutralPcs, Goto(w, pc)
          PROVE  \A u \in Workers : Entitled(row', local'[u])
      BY <1>3, <2>4, NeutralPcsAreNeutral
    <2>5. QED BY <2>1, <2>2, <2>3, <2>4, ActMoves
  <1>5. Justified(row', issued')
    <2>1. CASE issued' = issued
      BY <1>2, <2>1 DEF LedgerInv
    <2>2. ASSUME l.pc \in RestartPcs, NEW rung \in {"TASKS", "CONNECTOR"}, Count(rung)
          PROVE  Justified(row', issued')
      <3>1. FailureConfirmed(row)
        BY <1>1, <2>2 DEF Entitled, ActionPcs
      <3>2. \A q \in Recreates : issued'[q] = issued[q]
        BY <2>2 DEF Count, Recreates, TypeInv, Rungs
      <3>3. QED BY <1>2, <3>1, <3>2 DEF LedgerInv, Justified
    <2>3. ASSUME l.pc \in RecreatePcs, NEW rung \in Recreates, Count(rung)
          PROVE  Justified(row', issued')
      BY <1>1, <1>2, <2>3 DEF Entitled, Backed, ActionPcs, Justified
    <2>4. QED BY <2>1, <2>2, <2>3, ActCounts
  <1>6. QED BY <1>2, <1>4, <1>5 DEF LedgerInv

LEMMA SettleKeeps ==
  ASSUME TypeInv, LedgerInv, NEW w \in Workers, Settle(w)
  PROVE  LedgerInv'
  <1> DEFINE l == local[w]
  <1>1. /\ l \in Locals /\ l.job \in Rows /\ row \in Rows
        /\ Entitled(row, l) /\ Backed(row, l.job) /\ Consistent(row)
    BY HeldFacts
  <1>2. ASSUME NEW r, Grown(row, r), NEW pc \in NeutralPcs
        PROVE  Entitled(r, [l EXCEPT !.pc = pc])
    BY <1>1, <1>2, GrownEntitled, GotoEntitled, NeutralPcsAreNeutral
  <1>3. {"HEALING_RECOVERED", "HEALING_ESCALATED", "STATE_MACHINE_ERROR"} \subseteq EventTypes
          /\ "HEALING_ESCALATED" \in TerminalEvents
          /\ {"HEALING_RECOVERED", "HEALING_ESCALATED", "STATE_MACHINE_ERROR"}
               \cap ActionEvents = {}
    BY DEF EventTypes, TerminalEvents, ActionEvents, ManagedStoppedEvents, WithoutOffsetEvents,
       WithOffsetFailureEvents, WithOffsetRetryEvents
  <1>4. CASE DeleteSuperseded(w)
    <2>1. Entitled(row, [l EXCEPT !.pc = "logRecovered"])
      BY <1>2, GrownSelf DEF NeutralPcs
    <2>2. QED BY <1>4, <2>1, MoveKeeps DEF DeleteSuperseded, Goto, history
  <1>5. CASE LogRecovered(w)
    <2> DEFINE names == [old |-> l.job.details.old, original |-> OriginalName(l.job),
                         new |-> NoName]
               r == Logged(row, "HEALING_RECOVERED", names)
    <2>1. Grown(row, r) /\ Consistent(r)
      BY <1>1, <1>3, LoggedGrows
    <2>2. Entitled(r, [l EXCEPT !.pc = "closeRecovered"])
      BY <1>2, <2>1 DEF NeutralPcs
    <2>3. Write(w, r, [l EXCEPT !.pc = "closeRecovered"]) /\ UNCHANGED history
      BY <1>5 DEF LogRecovered
    <2> HIDE DEF r
    <2>4. QED BY <2>1, <2>2, <2>3, WriteKeeps
  <1>6. CASE CloseRecovered(w)
    <2> DEFINE r == Closed(row, "COMPLETED")
    <2>1. Grown(row, r) /\ Consistent(r)
      BY <1>1, ClosedGrows
    <2>2. Entitled(r, Leave(l, FailedCount(l.job) > 0))
      BY <1>1, <2>1, GrownEntitled, LeaveEntitled
    <2>3. Write(w, r, Leave(l, FailedCount(l.job) > 0)) /\ UNCHANGED history
      BY <1>6 DEF CloseRecovered, Write
    <2> HIDE DEF r
    <2>4. QED BY <2>1, <2>2, <2>3, WriteKeeps
  <1>7. CASE Quarantine(w)
    <2> DEFINE r == Logged(row, "HEALING_ESCALATED", NoDetails)
               m == [l EXCEPT !.pc = "quarantineClose"]
    <2>1. Grown(row, r) /\ Consistent(r) /\ HasVerdict(r)
      BY <1>1, <1>3, LoggedGrows
    <2>2. m.pc = "quarantineClose" /\ m.job = l.job
      BY <1>1 DEF Locals
    <2>3. "quarantineClose" \notin ActionPcs /\ "quarantineClose" \notin RecreatePcs
      BY DEF ActionPcs, RecreatePcs, RestartPcs, WithOffsetPcs, RetryPcs, WithoutOffsetPcs
    <2>4. Entitled(r, l)
      BY <1>1, <2>1, GrownEntitled
    <2>5. Write(w, r, m) /\ UNCHANGED history
      BY <1>7 DEF Quarantine
    <2> HIDE DEF r, m
    <2>6. Entitled(r, m)
      BY <2>1, <2>2, <2>3, <2>4 DEF Entitled
    <2>7. QED BY <2>1, <2>5, <2>6, WriteKeeps
  <1>8. CASE QuarantineClose(w)
    <2> DEFINE r == Closed(row, "ESCALATED")
               next == Leave(l, l.res # "NONE")
    <2>1. HasVerdict(row)
      BY <1>1, <1>8 DEF QuarantineClose, Entitled, ClosingPcs
    <2>2. Grown(row, r) /\ Consistent(r)
      BY <1>1, <2>1, ClosedGrows
    <2>3. Entitled(r, next)
      BY <1>1, <2>2, GrownEntitled, LeaveEntitled
    <2>4. (Wrote(w, r, next) \/ DbFault(w, r)) /\ UNCHANGED history
      BY <1>8 DEF QuarantineClose
    <2> HIDE DEF r, next
    <2>5. row' \in {row, r} /\ ((Become(w, next) /\ row' = r) \/ Raise(w))
      BY <2>4 DEF Wrote, DbFault
    <2>6. Grown(row, row') /\ Consistent(row')
      BY <1>1, <2>2, <2>5, GrownSelf
    <2>7. \A u \in Workers : Entitled(row', local'[u])
      BY <2>3, <2>5, <2>6, OneMoves, RaiseMoves
    <2>8. Justified(row', issued')
      BY <2>4, <2>6, JustifiedKept DEF LedgerInv, history
    <2>9. QED BY <2>6, <2>7, <2>8 DEF LedgerInv
  <1>9. CASE LogError(w)
    <2>1. /\ Grown(row, Logged(row, "STATE_MACHINE_ERROR", NoDetails))
          /\ Consistent(Logged(row, "STATE_MACHINE_ERROR", NoDetails))
      BY <1>1, <1>3, LoggedGrows
    <2>2. QED BY <1>9, <2>1, IdleEntitled, WriteKeeps DEF LogError
  <1>10. CASE Refresh(w)
    <2> DEFINE m == [l EXCEPT !.pc = "defer", !.job = Read(row)]
    <2>1. m.pc = "defer" /\ m.job = Read(row)
      BY <1>1 DEF Locals
    <2>2. Become(w, m) \/ Become(w, Idle)
      BY <1>10 DEF Refresh
    <2> HIDE DEF m
    <2>3. Entitled(row, m)
      BY <1>1, <2>1, ReadBacked, TakeEntitled DEF NeutralPcs
    <2>4. QED BY <1>10, <2>2, <2>3, IdleEntitled, MoveKeeps DEF Refresh, history
  <1>11. CASE Defer(w)
    <2> DEFINE r == [row EXCEPT !.status = "WAITING", !.deferred = l.job.wait]
    <2>1. /\ r \in Rows /\ r.count = row.count /\ r.latest = row.latest
          /\ r.level = row.level /\ r.status = "WAITING"
      BY <1>1 DEF Rows, Statuses, OpenStatuses
    <2>2. Grown(row, r) /\ Consistent(r)
      BY <1>1, <2>1, StatusGrows
    <2>3. Write(w, r, Idle) /\ UNCHANGED history
      BY <1>11 DEF Defer
    <2>4. QED BY <2>2, <2>3, IdleEntitled, WriteKeeps
  <1>12. QED
    BY <1>4, <1>5, <1>6, <1>7, <1>8, <1>9, <1>10, <1>11 DEF Settle

LEMMA NoLongerWaitingEntitled ==
  ASSUME NEW r, NEW l \in Locals, Entitled(r, l)
  PROVE  Entitled(r, NoLongerWaiting(l))
  <1> DEFINE job == [l.job EXCEPT !.wait = FALSE]
             m == [l EXCEPT !.job = job]
  <1>1. job.latest = l.job.latest /\ job.count = l.job.count /\ job.level = l.job.level
    BY DEF Locals, Rows
  <1> HIDE DEF job
  <1>2. m.pc = l.pc /\ m.job = job
    BY DEF Locals
  <1> HIDE DEF m
  <1>3. Entitled(r, m)
    BY <1>1, <1>2 DEF Entitled, Backed, FailureConfirmed
  <1>4. QED BY <1>3 DEF NoLongerWaiting, m, job

LEMMA EnvironmentKeeps ==
  ASSUME TypeInv, LedgerInv, Environment
  PROVE  LedgerInv'
  <1>1. ASSUME NEW v \in Versions, ConnectorFails(v) \/ ConnectorRecovers(v) \/ OperatorStops(v)
        PROVE  LedgerInv'
    BY <1>1 DEF ConnectorFails, ConnectorRecovers, OperatorStops, LedgerInv, history
  <1>7. CASE FirstCreated
    BY <1>7 DEF FirstCreated, LedgerInv, history
  <1>2. CASE Elapse
    <2>1. /\ row'.count = row.count /\ row'.latest = row.latest
          /\ row'.level = row.level /\ row'.status = row.status
      BY <1>2 DEF Elapse, TypeInv, Rows
    <2>2. Grown(row, row') /\ Consistent(row')
      BY <2>1 DEF LedgerInv, Grown, Consistent, HasVerdict, FailureConfirmed
    <2>3. ASSUME NEW u \in Workers PROVE Entitled(row', local'[u])
      <3>1. local'[u] = NoLongerWaiting(local[u])
        BY <1>2 DEF Elapse
      <3>2. local[u] \in Locals /\ Entitled(row', local[u])
        BY <2>2, HeldFacts, GrownEntitled
      <3>3. QED BY <3>1, <3>2, NoLongerWaitingEntitled
    <2>4. Justified(row', issued')
      BY <1>2, <2>2, JustifiedKept DEF LedgerInv, Elapse
    <2>5. QED BY <2>2, <2>3, <2>4 DEF LedgerInv
  <1>3. ASSUME NEW w \in Workers, ElapseStale(w) PROVE LedgerInv'
    <2>1. Entitled(row, NoLongerWaiting(local[w]))
      BY HeldFacts, NoLongerWaitingEntitled
    <2>2. QED BY <1>3, <2>1, MoveKeeps DEF ElapseStale, history
  <1>4. CASE Stabilize
    BY <1>4 DEF Stabilize, LedgerInv, history
  <1>5. CASE Crash
    BY <1>5, IdleEntitled DEF Crash, LedgerInv, history
  <1>6. QED BY <1>1, <1>2, <1>3, <1>4, <1>5, <1>7 DEF Environment

-----------------------------------------------------------------------------
(* The theorems                                                            *)

LEMMA LedgerInit == Init => LedgerInv
  <1> SUFFICES ASSUME Init PROVE LedgerInv
    OBVIOUS
  <1>1. Consistent(row)
    <2>1. row.latest = "NONE" /\ row.status = "NONE" /\ row.level = 2
      BY DEF Init, NoRow
    <2>2. QED BY <2>1, EventsCounted DEF Consistent
  <1>2. \A w \in Workers : Entitled(row, local[w])
    BY IdleEntitled DEF Init
  <1>3. Justified(row, issued)
    BY DEF Init, Justified, Recreates, Rungs
  <1>4. QED BY <1>1, <1>2, <1>3 DEF LedgerInv

LEMMA LedgerStep == TypeInv /\ LedgerInv /\ [Next]_vars => LedgerInv'
  <1> SUFFICES ASSUME TypeInv, LedgerInv, [Next]_vars PROVE LedgerInv'
    OBVIOUS
  <1>1. ASSUME NEW w \in Workers, Step(w) PROVE LedgerInv'
    BY <1>1, ArriveKeeps, AssessKeeps, RecordKeeps, ActKeeps, SettleKeeps DEF Step
  <1>2. CASE UNCHANGED vars
    BY <1>2 DEF LedgerInv, vars
  <1>3. QED BY <1>1, <1>2, EnvironmentKeeps DEF Next

LEMMA AlwaysLedger == Spec => []LedgerInv
  <1>1. QED BY LedgerInit, LedgerStep, AlwaysTyped, TypeInvInit, TypeInvStep, PTL DEF Spec

\* Whatever the threads read, and whatever crashed or failed in between,
\* Kafka Connect is touched only after HEALTH_FAILED_CONFIRMED is in the log.
THEOREM ActionsConfirmed == Spec => []ActsOnConfirmed
  <1>1. LedgerInv => ActsOnConfirmed
    BY DEF LedgerInv, Justified, ActsOnConfirmed, FailureConfirmed
  <1>2. QED BY <1>1, AlwaysLedger, PTL

\* Every ESCALATED row has the terminal event that says why in its log.
THEOREM EscalationsAudited == Spec => []EscalationAudited
  <1>1. LedgerInv => EscalationAudited
    BY DEF LedgerInv, Consistent, EscalationAudited, Verdict, HasVerdict
  <1>2. QED BY <1>1, AlwaysLedger, PTL

\* No thread ever recreates a connector of a RESTART_ONLY incident.
THEOREM RestartOnlyRespected == Spec => []RestartOnlyNotRecreated
  <1>1. TypeInv /\ LedgerInv => RestartOnlyNotRecreated
    BY Caps DEF TypeInv, LedgerInv, Justified, RestartOnlyNotRecreated, Recreates, Rungs
  <1>2. QED BY <1>1, AlwaysLedger, AlwaysTyped, PTL

-----------------------------------------------------------------------------
(* Threads that work on jobs read long ago, again with any number of       *)
(* threads, crashes and faults: the base connector is kept, and without    *)
(* alerts a failure is confirmed by counted observations.  Both rest on    *)
(* what stays true of a job while the row it was read from moves on: the   *)
(* row leaves version 0 and never returns, and the observations in its log *)
(* only become more.                                                       *)

\* Whoever names version 0 at all knows it as the incident's first connector.
FirstKnown(job) ==
  job.name = 0 \/ job.details.old = 0 => OriginalName(job) = 0

Sound(r) ==
  /\ FirstKnown(r)
  /\ Webhooks = {} /\ FailureConfirmed(r) => FailedCount(r) >= FailureConfirmChecks

\* What the row r still says of the thread l.
Vouched(r, l) ==
  /\ FirstKnown(l.job)
  /\ l.job.name # 0 => r.name # 0
  /\ Webhooks = {} =>
       /\ l.alert = FALSE
       /\ FailedCount(l.job) <= FailedCount(r)
       /\ l.pc = "confirm" => FailedCount(l.job) >= FailureConfirmChecks

\* The row as later steps may find it.
Later(r, later) ==
  /\ r.name # 0 => later.name # 0
  /\ FailedCount(r) <= FailedCount(later)

ReadsInv == Sound(row) /\ \A w \in Workers : Vouched(row, local[w])

-----------------------------------------------------------------------------
(* Rows                                                                    *)

LEMMA Observations ==
  /\ {"HEALTH_FAILURE_OBSERVED", "HEALTH_FAILED_CONFIRMED"} \subseteq CountedEvents
  /\ \A r \in Rows : FailedCount(r) \in Nat /\ FailedCount(r) <= CountCap
  BY Caps DEF CountedEvents, Rows, FailedCount

LEMMA Original ==
  ASSUME NEW r \in Rows
  PROVE  OriginalName(r) \in Names /\ OriginalName(r) # NoName /\ NoName # 0
  BY Caps DEF Rows, Details, Names, Versions, NoName, OriginalName

LEMMA LaterVouched ==
  ASSUME NEW r \in Rows, NEW later \in Rows, NEW l \in Locals, Later(r, later), Vouched(r, l)
  PROVE  Vouched(later, l)
  <1>1. FailedCount(l.job) \in Nat /\ FailedCount(r) \in Nat /\ FailedCount(later) \in Nat
    BY Observations DEF Locals
  <1>2. QED BY <1>1 DEF Later, Vouched

LEMMA LaterSelf ==
  ASSUME NEW r \in Rows
  PROVE  Later(r, r)
  BY Observations DEF Later

\* Names and counts as they were.
LEMMA SameLater ==
  ASSUME NEW r \in Rows, Sound(r), NEW later \in Rows,
         later.name = r.name, later.details = r.details, later.count = r.count
  PROVE  Later(r, later) /\ Sound(later)
  BY Observations DEF Later, Sound, FirstKnown, OriginalName, FailedCount, FailureConfirmed

\* An event whose names come from a job the row vouches for.
NamesFrom(job) ==
  {d \in Details :
     \/ d = NoDetails
     \/ d.original = OriginalName(job) /\ d.old \in {NoName, job.name, job.details.old}}

LEMMA LoggedLater ==
  ASSUME NEW r \in Rows, NEW e \in EventTypes, NEW l \in Locals, Sound(r), Vouched(r, l),
         NEW d \in NamesFrom(l.job),
         e = "HEALTH_FAILED_CONFIRMED" /\ Webhooks = {} => FailedCount(r) >= FailureConfirmChecks
  PROVE  LET later == Logged(r, e, d) IN
         /\ later \in Rows /\ Later(r, later) /\ Sound(later)
         /\ e = "HEALTH_FAILURE_OBSERVED" => FailedCount(later) = Bump(FailedCount(r))
  <1> DEFINE later == Logged(r, e, d)
             c == Counted(r.count, e)
             b == e \in WaitEvents
  <1>1. later \in Rows
    BY LoggedType DEF NamesFrom
  <1>2. CASE later = r /\ e = "HEALTH_FAILED_CONFIRMED"
    BY <1>1, <1>2, LaterSelf DEF later
  <1>3. CASE later = [r EXCEPT !.latest = e, !.details = d, !.wait = b, !.count = c]
    <2>1. r.count \in [CountedEvents -> 0..CountCap] /\ l.job \in Rows /\ d \in Details
      BY DEF Rows, Locals, NamesFrom
    <2>2. /\ c["HEALTH_FAILURE_OBSERVED"] =
               IF e = "HEALTH_FAILURE_OBSERVED" THEN Bump(r.count["HEALTH_FAILURE_OBSERVED"])
               ELSE r.count["HEALTH_FAILURE_OBSERVED"]
          /\ e # "HEALTH_FAILED_CONFIRMED"
               => c["HEALTH_FAILED_CONFIRMED"] = r.count["HEALTH_FAILED_CONFIRMED"]
      BY <2>1, Observations DEF Counted
    <2> HIDE DEF c, b
    <2>3. later.name = r.name /\ later.details = d /\ later.count = c
      BY <1>3 DEF Rows
    <2>4. FailedCount(r) = r.count["HEALTH_FAILURE_OBSERVED"]
            /\ FailedCount(later) = c["HEALTH_FAILURE_OBSERVED"]
            /\ FailureConfirmed(r) = (r.count["HEALTH_FAILED_CONFIRMED"] > 0)
            /\ FailureConfirmed(later) = (c["HEALTH_FAILED_CONFIRMED"] > 0)
      BY <2>3 DEF FailedCount, FailureConfirmed
    <2>5. FailedCount(r) \in 0..CountCap
      BY <2>1, <2>4, Observations
    <2>6. FailedCount(r) <= FailedCount(later)
      BY <2>2, <2>4, <2>5, BumpType, Caps
    <2>7. Later(r, later)
      BY <2>3, <2>6 DEF Later
    <2>8. Webhooks = {} /\ FailureConfirmed(later) => FailedCount(later) >= FailureConfirmChecks
      <3>1. Webhooks = {} /\ FailureConfirmed(later) => FailedCount(r) >= FailureConfirmChecks
        BY <2>2, <2>4 DEF Sound
      <3>2. FailedCount(later) \in Nat /\ FailedCount(r) \in Nat /\ FailureConfirmChecks \in Nat
        BY <1>1, Observations, Caps
      <3>3. QED BY <2>6, <3>1, <3>2
    <2>9. FirstKnown(later)
      <3>1. OriginalName(l.job) # NoName /\ NoName # 0
        BY <2>1, Original
      <3>2. CASE d = NoDetails
        BY <2>3, <3>1, <3>2 DEF FirstKnown, OriginalName, NoDetails
      <3>3. CASE /\ d.original = OriginalName(l.job)
                 /\ d.old \in {NoName, l.job.name, l.job.details.old}
        <4>1. OriginalName(later) = OriginalName(l.job)
          BY <2>3, <3>1, <3>3 DEF OriginalName
        <4>2. later.name = 0 => l.job.name = 0
          BY <2>3 DEF Vouched
        <4>3. later.details.old = 0 => l.job.name = 0 \/ l.job.details.old = 0
          BY <2>3, <3>1, <3>3
        <4>4. QED BY <4>1, <4>2, <4>3 DEF FirstKnown, Vouched
      <3>4. QED BY <3>2, <3>3 DEF NamesFrom
    <2>10. QED BY <1>1, <2>2, <2>4, <2>7, <2>8, <2>9 DEF Sound, later
  <1>4. QED BY <1>2, <1>3 DEF Logged

-----------------------------------------------------------------------------
(* Threads                                                                 *)

\* A thread that keeps its job, whatever it does next short of confirming.
LEMMA SameVouched ==
  ASSUME NEW r, NEW l, NEW m, Vouched(r, l), m.job = l.job, m.pc # "confirm",
         m.alert = l.alert \/ m.alert = FALSE
  PROVE  Vouched(r, m)
  BY DEF Vouched

LEMMA GotoVouched ==
  ASSUME NEW r, NEW l \in Locals, NEW pc, Vouched(r, l), pc # "confirm"
  PROVE  Vouched(r, [l EXCEPT !.pc = pc])
  <1>1. /\ [l EXCEPT !.pc = pc].pc = pc /\ [l EXCEPT !.pc = pc].job = l.job
        /\ [l EXCEPT !.pc = pc].alert = l.alert
    BY DEF Locals
  <1>2. QED BY <1>1, SameVouched

LEMMA IdleVouched ==
  ASSUME NEW r \in Rows
  PROVE  Vouched(r, Idle)
  <1>1. FailedCount(NoRow) = 0 /\ FailedCount(r) \in Nat
    BY Observations DEF NoRow, NoCounts, FailedCount
  <1>2. FirstKnown(NoRow)
    BY Caps DEF FirstKnown, NoRow, NoDetails, OriginalName, NoName
  <1>3. /\ Idle.pc = "idle" /\ Idle.job = NoRow /\ Idle.alert = FALSE /\ NoRow.name = 0
    BY DEF Idle, NoRow
  <1>4. QED BY <1>1, <1>2, <1>3 DEF Vouched

LEMMA LeaveVouched ==
  ASSUME NEW r \in Rows, NEW l \in Locals, NEW b, Vouched(r, l)
  PROVE  Vouched(r, Leave(l, b))
  BY IdleVouched, GotoVouched DEF Leave

\* A thread that has just read the row.
LEMMA ReadVouched ==
  ASSUME NEW r \in Rows, Sound(r), NEW l, l.job = Read(r), l.pc # "confirm",
         Webhooks = {} => l.alert = FALSE
  PROVE  Vouched(r, l)
  <1>1. Read(r).name = r.name /\ Read(r).details = r.details /\ Read(r).count = r.count
    BY DEF Read, Rows
  <1>2. FailedCount(Read(r)) = FailedCount(r) /\ FirstKnown(Read(r)) /\ FailedCount(r) \in Nat
    BY <1>1, Observations DEF Sound, FirstKnown, OriginalName, FailedCount
  <1>3. QED BY <1>1, <1>2 DEF Vouched

LEMMA Held ==
  ASSUME TypeInv, ReadsInv, NEW w \in Workers
  PROVE  /\ local[w] \in Locals /\ local[w].job \in Rows /\ row \in Rows
         /\ Vouched(row, local[w]) /\ Sound(row)
  BY DEF TypeInv, NamedLocals, Locals, ReadsInv

\* A thread that moves while the others stand still.
LEMMA ReadsOneMoves ==
  ASSUME TypeInv, ReadsInv, row' \in Rows, NEW w \in Workers, NEW l, Become(w, l),
         Later(row, row'), Sound(row'), Vouched(row', l)
  PROVE  ReadsInv'
  <1>1. local' = [local EXCEPT ![w] = l] /\ local \in [Workers -> NamedLocals] /\ row \in Rows
    BY DEF Become, TypeInv
  <1>2. ASSUME NEW u \in Workers PROVE Vouched(row', local'[u])
    <2>1. CASE u = w
      BY <1>1, <2>1
    <2>2. CASE u # w
      <3>1. local'[u] = local[u] /\ local[u] \in Locals /\ Vouched(row, local[u])
        BY <1>1, <2>2, Held
      <3>2. QED BY <1>1, <3>1, LaterVouched
    <2>3. QED BY <2>1, <2>2
  <1>3. QED BY <1>2 DEF ReadsInv

LEMMA ReadsRaiseMoves ==
  ASSUME TypeInv, ReadsInv, row' \in Rows, NEW w \in Workers, Raise(w),
         Later(row, row'), Sound(row')
  PROVE  ReadsInv'
  <1>1. local[w] \in Locals /\ Vouched(row', local[w])
    BY Held, LaterVouched
  <1>2. \/ Become(w, [local[w] EXCEPT !.pc = "quarantine"])
        \/ Become(w, [local[w] EXCEPT !.pc = "error"])
        \/ Become(w, Idle)
    BY DEF Raise, DoubtfulStep, Goto
  <1>3. Vouched(row', [local[w] EXCEPT !.pc = "quarantine"])
          /\ Vouched(row', [local[w] EXCEPT !.pc = "error"]) /\ Vouched(row', Idle)
    BY <1>1, GotoVouched, IdleVouched
  <1>4. QED BY <1>2, <1>3, ReadsOneMoves

\* Every write of a sound row that vouches for the thread's next step.
LEMMA ReadsWriteKeeps ==
  ASSUME TypeInv, ReadsInv, NEW w \in Workers, NEW r \in Rows, NEW l,
         Wrote(w, r, l) \/ DbFault(w, r), Later(row, r), Sound(r), Vouched(r, l)
  PROVE  ReadsInv'
  <1>1. row' \in {row, r} /\ ((Become(w, l) /\ row' = r) \/ Raise(w))
    BY DEF Wrote, DbFault
  <1>2. row' \in Rows /\ Later(row, row') /\ Sound(row')
    BY <1>1, Held, LaterSelf
  <1>3. QED BY <1>1, <1>2, ReadsOneMoves, ReadsRaiseMoves

\* Every step that leaves the row alone.
LEMMA ReadsMoveKeeps ==
  ASSUME TypeInv, ReadsInv, NEW w \in Workers, NEW l, Become(w, l) \/ Raise(w),
         row' = row, Vouched(row, l)
  PROVE  ReadsInv'
  <1>1. row' \in Rows /\ Later(row, row') /\ Sound(row')
    BY Held, LaterSelf
  <1>2. QED BY <1>1, ReadsOneMoves, ReadsRaiseMoves

\* The row is closed; its names and its log are not touched.
LEMMA ClosedKeeps ==
  ASSUME TypeInv, ReadsInv, NEW w \in Workers, NEW status \in {"COMPLETED", "ESCALATED"}, NEW l,
         Wrote(w, Closed(row, status), l) \/ DbFault(w, Closed(row, status)), Vouched(row, l),
         l \in Locals
  PROVE  ReadsInv'
  <1> DEFINE r == Closed(row, status)
  <1>1. r \in Rows /\ r.name = row.name /\ r.details = row.details /\ r.count = row.count
    BY Held DEF Closed, Rows, Statuses
  <1> HIDE DEF r
  <1>2. Later(row, r) /\ Sound(r) /\ Vouched(r, l)
    BY <1>1, Held, SameLater, LaterVouched
  <1>3. QED BY <1>1, <1>2, ReadsWriteKeeps DEF r

-----------------------------------------------------------------------------
(* The steps of a thread                                                   *)

LEMMA ReadsArriveKeeps ==
  ASSUME TypeInv, ReadsInv, NEW w \in Workers, Arrive(w)
  PROVE  ReadsInv'
  <1> DEFINE l == local[w]
  <1>1. /\ l \in Locals /\ l.job \in Rows /\ row \in Rows /\ Vouched(row, l) /\ Sound(row)
    BY Held
  <1>2. CASE Notice(w)
    <2>1. PICK alert \in BOOLEAN :
            /\ alert => w \in Webhooks
            /\ Become(w, [l EXCEPT !.pc = "enqueue", !.alert = alert])
      BY <1>2 DEF Notice
    <2> DEFINE m == [l EXCEPT !.pc = "enqueue", !.alert = alert]
    <2>2. m.pc = "enqueue" /\ m.job = l.job /\ m.alert = alert
      BY <1>1 DEF Locals
    <2>3. Webhooks = {} => alert = FALSE
      BY <2>1
    <2> HIDE DEF m
    <2>4. Vouched(row, m)
      BY <1>1, <2>2, <2>3 DEF Vouched
    <2>5. QED BY <1>2, <2>1, <2>4, ReadsMoveKeeps DEF Notice, m
  <1>3. CASE Enqueue(w)
    <2>1. PICK lvl \in QueueLevels :
            LET r == IF row.status = "NONE"
                     THEN [row EXCEPT !.status = "PENDING", !.level = lvl] ELSE row
                job == [Read(r) EXCEPT !.level = 1, !.latest = "NONE", !.details = NoDetails,
                                       !.count = NoCounts, !.wait = FALSE]
            IN  Write(w, r, IF w \in Webhooks /\ IsOpen(r)
                            THEN [local[w] EXCEPT !.pc = "acquire", !.job = job] ELSE Idle)
      BY <1>3 DEF Enqueue
    <2> DEFINE r == IF row.status = "NONE"
                    THEN [row EXCEPT !.status = "PENDING", !.level = lvl] ELSE row
               job == [Read(r) EXCEPT !.level = 1, !.latest = "NONE", !.details = NoDetails,
                                      !.count = NoCounts, !.wait = FALSE]
               m == [l EXCEPT !.pc = "acquire", !.job = job]
               next == IF w \in Webhooks /\ IsOpen(r) THEN m ELSE Idle
    <2>2. r \in Rows /\ r.name = row.name /\ r.details = row.details /\ r.count = row.count
      BY <1>1, IncidentAssumption DEF Rows, Statuses, OpenStatuses, IncidentAssumption
    <2>3. Later(row, r) /\ Sound(r)
      BY <1>1, <2>2, SameLater
    <2>4. job.name = r.name /\ job.details = NoDetails /\ job.count = NoCounts
      BY <2>2 DEF Rows, Read
    <2>5. m.pc = "acquire" /\ m.job = job /\ m.alert = l.alert
      BY <1>1 DEF Locals
    <2>6. Write(w, r, next)
      BY <2>1
    <2> HIDE DEF job, r, m
    <2>7. FirstKnown(job) /\ FailedCount(job) = 0 /\ FailedCount(r) \in Nat
      <3>1. FailedCount(job) = 0
        BY <2>4, Observations DEF NoCounts, FailedCount
      <3>2. FirstKnown(job)
        BY <2>4, Caps DEF FirstKnown, NoDetails, OriginalName, NoName
      <3>3. QED BY <2>2, <3>1, <3>2, Observations
    <2>8. Vouched(r, m)
      BY <1>1, <2>4, <2>5, <2>7 DEF Vouched
    <2>9. Vouched(r, next)
      BY <2>2, <2>8, IdleVouched
    <2> HIDE DEF next
    <2>10. QED BY <2>2, <2>3, <2>6, <2>9, ReadsWriteKeeps DEF Write
  <1>4. CASE ListDue(w)
    <2> DEFINE m == [l EXCEPT !.pc = "acquire", !.job = Read(row)]
    <2>1. m.pc = "acquire" /\ m.job = Read(row) /\ m.alert = l.alert
      BY <1>1 DEF Locals
    <2>2. Become(w, m) /\ row' = row
      BY <1>4 DEF ListDue
    <2> HIDE DEF m
    <2>3. Vouched(row, m)
      BY <1>1, <2>1, ReadVouched DEF Vouched
    <2>4. QED BY <2>2, <2>3, ReadsMoveKeeps
  <1>5. CASE Alerted(w)
    <2>1. PICK alert \in BOOLEAN :
            Become(w, [l EXCEPT !.pc = "acquire", !.job = Read(row), !.alert = alert])
      BY <1>5 DEF Alerted
    <2> DEFINE m == [l EXCEPT !.pc = "acquire", !.job = Read(row), !.alert = alert]
    <2>2. m.pc = "acquire" /\ m.job = Read(row) /\ row' = row /\ Webhooks # {}
      BY <1>1, <1>5 DEF Locals, Alerted
    <2> HIDE DEF m
    <2>3. Vouched(row, m)
      BY <1>1, <2>2, ReadVouched
    <2>4. QED BY <2>1, <2>2, <2>3, ReadsMoveKeeps DEF m
  <1>6. CASE TryLock(w)
    <2>1. Vouched(row, [l EXCEPT !.pc = "start"]) /\ Vouched(row, Idle)
      BY <1>1, GotoVouched, IdleVouched
    <2>2. (Become(w, Idle) \/ Become(w, [l EXCEPT !.pc = "start"])) /\ row' = row
      BY <1>6 DEF TryLock, Goto
    <2>3. QED BY <2>1, <2>2, ReadsMoveKeeps
  <1>7. CASE Start(w)
    <2> DEFINE r == [row EXCEPT !.status = "PROCESSING"]
               next == IF uncertain THEN [l EXCEPT !.pc = "quarantine"]
                       ELSE IF l.job.latest \in TerminalEvents THEN [l EXCEPT !.pc = "finish"]
                       ELSE IF l.job.wait THEN Leave(l, FailedCount(l.job) > 0)
                       ELSE [l EXCEPT !.pc = "check"]
    <2>1. r \in Rows /\ r.name = row.name /\ r.details = row.details /\ r.count = row.count
      BY <1>1 DEF Rows, Statuses, OpenStatuses
    <2>2. Write(w, r, next)
      BY <1>7 DEF Start
    <2> HIDE DEF r
    <2>3. Later(row, r) /\ Sound(r) /\ Vouched(r, l)
      BY <1>1, <2>1, SameLater, LaterVouched
    <2>4. Vouched(r, next)
      BY <1>1, <2>1, <2>3, GotoVouched, LeaveVouched
    <2> HIDE DEF next
    <2>5. QED BY <2>1, <2>2, <2>3, <2>4, ReadsWriteKeeps DEF Write
  <1>8. CASE Finish(w)
    BY <1>1, <1>8, ClosedKeeps, IdleVouched, IdleType DEF Finish, Write, NamedLocals
  <1>9. QED
    BY <1>2, <1>3, <1>4, <1>5, <1>6, <1>7, <1>8 DEF Arrive

\* The job copied in memory after the observation was logged.
LEMMA WithEventVouched ==
  ASSUME NEW r \in Rows, NEW later \in Rows, NEW l \in Locals, Vouched(r, l), Later(r, later),
         NEW e \in {"HEALTH_FAILURE_OBSERVED", "HEALTH_FAILED_CONFIRMED"},
         e = "HEALTH_FAILURE_OBSERVED" => FailedCount(later) = Bump(FailedCount(r))
  PROVE  LET m == WithEvent(l, e) IN
         /\ m \in Locals /\ FirstKnown(m.job)
         /\ m.job.name # 0 => later.name # 0
         /\ Webhooks = {} => m.alert = FALSE /\ FailedCount(m.job) <= FailedCount(later)
  <1> DEFINE c == Counted(l.job.count, e)
             job == [l.job EXCEPT !.count = c]
             m == [l EXCEPT !.job = job]
  <1>1. l.job.count \in [CountedEvents -> 0..CountCap] /\ l.job \in Rows
    BY DEF Locals, Rows
  <1>2. c["HEALTH_FAILURE_OBSERVED"] =
             IF e = "HEALTH_FAILURE_OBSERVED" THEN Bump(l.job.count["HEALTH_FAILURE_OBSERVED"])
             ELSE l.job.count["HEALTH_FAILURE_OBSERVED"]
    BY <1>1, Observations DEF Counted
  <1>3. m \in Locals
    BY WithEventType DEF WithEvent
  <1> HIDE DEF c
  <1>4. job.name = l.job.name /\ job.details = l.job.details /\ job.count = c
    BY <1>1 DEF Rows
  <1> HIDE DEF job
  <1>5. m.job = job /\ m.alert = l.alert
    BY DEF Locals
  <1>6. FirstKnown(job) /\ (job.name # 0 => later.name # 0)
    BY <1>4 DEF Vouched, Later, FirstKnown, OriginalName
  <1>7. ASSUME Webhooks = {} PROVE FailedCount(job) <= FailedCount(later)
    <2>1. /\ FailedCount(l.job) <= FailedCount(r) /\ FailedCount(r) <= FailedCount(later)
          /\ FailedCount(l.job) = l.job.count["HEALTH_FAILURE_OBSERVED"]
          /\ FailedCount(job) = c["HEALTH_FAILURE_OBSERVED"]
      BY <1>4, <1>7 DEF Vouched, Later, FailedCount
    <2>2. /\ FailedCount(l.job) \in Nat /\ FailedCount(r) \in Nat /\ FailedCount(later) \in Nat
          /\ FailedCount(r) <= CountCap
      BY <1>1, Observations
    <2>3. QED BY <1>2, <2>1, <2>2, Caps DEF Bump
  <1>8. QED BY <1>3, <1>5, <1>6, <1>7 DEF WithEvent, m, job, c, Vouched

\* The second decision asks for no confirmation.
LEMMA DecidedVouched ==
  ASSUME NEW r, NEW l \in Locals, FirstKnown(l.job), l.job.name # 0 => r.name # 0,
         Webhooks = {} => l.alert = FALSE /\ FailedCount(l.job) <= FailedCount(r)
  PROVE  Vouched(r, Decided(l))
  <1> DEFINE pc == FirstStep(l, DecideUnhealthy(l.job, l.res = "TASKS"))
             m == [l EXCEPT !.pc = pc]
  <1>1. pc # "confirm"
    BY DEF FirstStep
  <1> HIDE DEF pc
  <1>2. m.pc = pc /\ m.job = l.job /\ m.alert = l.alert
    BY DEF Locals
  <1> HIDE DEF m
  <1>3. Vouched(r, m)
    BY <1>1, <1>2 DEF Vouched
  <1>4. QED BY <1>3 DEF Decided, m, pc

LEMMA ReadsAssessKeeps ==
  ASSUME TypeInv, ReadsInv, NEW w \in Workers, Assess(w)
  PROVE  ReadsInv'
  <1> DEFINE l == local[w]
  <1>1. /\ l \in Locals /\ l.job \in Rows /\ row \in Rows /\ Vouched(row, l) /\ Sound(row)
    BY Held
  <1>2. Vouched(row, Leave(l, FailedCount(l.job) > 0)) /\ Vouched(row, Idle)
    BY <1>1, LeaveVouched, IdleVouched
  <1>3. CASE CheckUnreachable(w)
    BY <1>2, <1>3, ReadsMoveKeeps DEF CheckUnreachable
  <1>4. CASE CheckNotCreated(w)
    <2> DEFINE seen == [l EXCEPT !.res = "NOT_CREATED"]
               pc == FirstStep(l, DecideMissingReplacement(l.job))
    <2>1. seen \in Locals /\ seen.job = l.job /\ seen.pc = l.pc /\ seen.alert = l.alert
      BY <1>1 DEF Locals, CheckResults
    <2>2. pc # "confirm"
      BY DEF FirstStep
    <2>3. /\ row' = row
          /\ \/ Become(w, [seen EXCEPT !.pc = pc])
             \/ Become(w, Leave(seen, FailedCount(l.job) > 0))
      BY <1>4 DEF CheckNotCreated
    <2> HIDE DEF seen, pc
    <2>4. Vouched(row, seen)
      BY <1>1, <2>1 DEF Vouched
    <2>5. Vouched(row, [seen EXCEPT !.pc = pc])
            /\ Vouched(row, Leave(seen, FailedCount(l.job) > 0))
      BY <1>1, <2>1, <2>2, <2>4, GotoVouched, LeaveVouched
    <2>6. QED BY <2>3, <2>5, ReadsMoveKeeps
  <1>5. CASE CheckAdminStopped(w)
    BY <1>2, <1>5, ReadsMoveKeeps DEF CheckAdminStopped
  <1>6. CASE CheckHealthy(w)
    <2> DEFINE pc == IF ActionCount(l.job) = 0 THEN "closeRecovered" ELSE "supersede"
               m == [l EXCEPT !.res = "HEALTHY", !.pc = pc]
    <2>1. /\ row' = row
          /\ Become(w, Leave(l, FailedCount(l.job) > 0)) \/ Become(w, m)
      BY <1>6 DEF CheckHealthy
    <2>2. pc # "confirm"
      OBVIOUS
    <2> HIDE DEF pc
    <2>3. m.pc = pc /\ m.job = l.job /\ m.alert = l.alert
      BY <1>1 DEF Locals
    <2> HIDE DEF m
    <2>4. Vouched(row, m)
      BY <1>1, <2>2, <2>3, SameVouched
    <2>5. QED BY <1>2, <2>1, <2>4, ReadsMoveKeeps
  <1>7. CASE CheckUnhealthy(w)
    <2> DEFINE res == CASE kc[l.job.name] = "TASK_FAILED" -> "TASKS"
                        [] kc[l.job.name] = "FAILED" -> "CONNECTOR"
                        [] OTHER -> "STOPPED"
               alert == l.alert /\ res # "STOPPED"
               stop == DecideUnhealthy(l.job, res = "TASKS") = "STOP"
               pc == IF stop THEN "finish" ELSE "observe"
               m == [l EXCEPT !.res = res, !.alert = alert, !.pc = pc]
    <2>1. Become(w, m) /\ row' = row
      BY <1>7 DEF CheckUnhealthy
    <2>2. pc # "confirm" /\ (l.alert = FALSE => alert = FALSE)
      BY Zenon
    <2> HIDE DEF res, alert, pc
    <2>3. m.pc = pc /\ m.job = l.job /\ m.alert = alert
      BY <1>1 DEF Locals
    <2> HIDE DEF m
    <2>4. Vouched(row, m)
      BY <1>1, <2>2, <2>3 DEF Vouched
    <2>5. QED BY <2>1, <2>4, ReadsMoveKeeps
  <1>8. NoDetails \in NamesFrom(l.job)
          /\ {"HEALTH_FAILURE_OBSERVED", "HEALTH_FAILED_CONFIRMED"} \subseteq EventTypes
    BY NoRowType DEF NamesFrom, EventTypes
  <1>9. CASE Observe(w)
    <2> DEFINE seen == WithEvent(l, "HEALTH_FAILURE_OBSERVED")
               r == Logged(row, "HEALTH_FAILURE_OBSERVED", NoDetails)
               m == [seen EXCEPT !.pc = "confirm"]
               next == IF NeedsConfirmation(seen.job, seen.alert) THEN m ELSE Decided(seen)
    <2>1. Write(w, r, next)
      BY <1>9 DEF Observe
    <2>2. r \in Rows /\ Later(row, r) /\ Sound(r) /\ FailedCount(r) = Bump(FailedCount(row))
      BY <1>1, <1>8, LoggedLater
    <2> HIDE DEF r
    <2>3. /\ seen \in Locals /\ FirstKnown(seen.job)
          /\ seen.job.name # 0 => r.name # 0
          /\ Webhooks = {} => seen.alert = FALSE /\ FailedCount(seen.job) <= FailedCount(r)
      BY <1>1, <2>2, WithEventVouched
    <2> HIDE DEF seen
    <2>4. ASSUME NeedsConfirmation(seen.job, seen.alert) PROVE Vouched(r, m)
      <3>1. Webhooks = {} => FailedCount(seen.job) >= FailureConfirmChecks
        BY <2>3, <2>4 DEF NeedsConfirmation
      <3>2. m.pc = "confirm" /\ m.job = seen.job /\ m.alert = seen.alert
        BY <2>3 DEF Locals
      <3> HIDE DEF m
      <3>3. QED BY <2>3, <3>1, <3>2 DEF Vouched
    <2>5. Vouched(r, next)
      BY <2>3, <2>4, DecidedVouched
    <2> HIDE DEF next
    <2>6. QED BY <2>1, <2>2, <2>5, ReadsWriteKeeps DEF Write
  <1>10. CASE Confirm(w)
    <2> DEFINE m == WithEvent(l, "HEALTH_FAILED_CONFIRMED")
               r == Logged(row, "HEALTH_FAILED_CONFIRMED", NoDetails)
    <2>1. Write(w, r, Decided(m)) /\ l.pc = "confirm"
      BY <1>10 DEF Confirm
    <2>2. Webhooks = {} => FailedCount(row) >= FailureConfirmChecks
      <3>1. /\ FailedCount(l.job) \in Nat /\ FailedCount(row) \in Nat
            /\ FailureConfirmChecks \in Nat
        BY <1>1, Observations, Caps
      <3>2. QED BY <1>1, <2>1, <3>1 DEF Vouched
    <2>3. r \in Rows /\ Later(row, r) /\ Sound(r)
      BY <1>1, <1>8, <2>2, LoggedLater
    <2> HIDE DEF r
    <2>4. /\ m \in Locals /\ FirstKnown(m.job)
          /\ m.job.name # 0 => r.name # 0
          /\ Webhooks = {} => m.alert = FALSE /\ FailedCount(m.job) <= FailedCount(r)
      BY <1>1, <2>3, WithEventVouched
    <2> HIDE DEF m
    <2>5. Vouched(r, Decided(m))
      BY <2>4, DecidedVouched
    <2>6. QED BY <2>1, <2>3, <2>5, ReadsWriteKeeps DEF Write
  <1>11. QED
    BY <1>3, <1>4, <1>5, <1>6, <1>7, <1>9, <1>10 DEF Assess

LEMMA AuditQuiet ==
  ASSUME NEW pc \in AuditPcs, NEW next \in AuditOf(pc).next
  PROVE  AuditOf(pc).event # "HEALTH_FAILED_CONFIRMED" /\ next # "confirm"
  BY DEF AuditOf, RestartAudit, WithOffsetAudit, RetryAudit, WithoutOffsetAudit, EscalationAudit

LEMMA AuditNames ==
  ASSUME NEW l \in NamedLocals, l.pc \in AuditPcs
  PROVE  AuditDetails(l) \in NamesFrom(l.job)
  <1> DEFINE d == AuditDetails(l)
             recreated == [old |-> l.job.name, original |-> OriginalName(l.job),
                           new |-> Replacement(l.job)]
             retried == [old |-> l.job.details.old, original |-> OriginalName(l.job),
                         new |-> l.job.name]
  <1>1. \/ d = NoDetails \/ d = retried \/ d = recreated
        \/ d = [recreated EXCEPT !.old = NoName, !.new = NoName]
        \/ d = [recreated EXCEPT !.new = NoName]
    BY DEF AuditDetails
  <1>2. d \in Details
    BY AuditDetailsType
  <1> HIDE DEF d
  <1>3. \/ d = NoDetails
        \/ d.original = OriginalName(l.job) /\ d.old \in {NoName, l.job.name, l.job.details.old}
    <2>1. /\ recreated.original = OriginalName(l.job) /\ recreated.old = l.job.name
          /\ retried.original = OriginalName(l.job) /\ retried.old = l.job.details.old
      OBVIOUS
    <2>2. ASSUME d = [recreated EXCEPT !.old = NoName, !.new = NoName]
                   \/ d = [recreated EXCEPT !.new = NoName]
          PROVE  d.original = OriginalName(l.job) /\ d.old \in {NoName, l.job.name}
      BY <2>2
    <2> HIDE DEF recreated, retried
    <2>3. QED BY <1>1, <2>1, <2>2
  <1>4. QED BY <1>2, <1>3 DEF NamesFrom, d

LEMMA ReadsRecordKeeps ==
  ASSUME TypeInv, ReadsInv, NEW w \in Workers, Record(w)
  PROVE  ReadsInv'
  <1> DEFINE l == local[w]
  <1>1. /\ l \in Locals /\ l.job \in Rows /\ row \in Rows /\ Vouched(row, l) /\ Sound(row)
        /\ l \in NamedLocals
    BY Held DEF TypeInv
  <1>2. CASE Audit(w)
    <2> DEFINE e == AuditOf(l.pc).event
               d == AuditDetails(l)
               r == Logged(row, e, d)
    <2>1. PICK pc \in AuditOf(l.pc).next : Write(w, r, [l EXCEPT !.pc = pc])
      BY <1>2 DEF Audit
    <2>2. l.pc \in AuditPcs
      BY <1>2 DEF Audit
    <2>3. /\ e \in EventTypes /\ e # "HEALTH_FAILED_CONFIRMED" /\ pc # "confirm"
          /\ d \in NamesFrom(l.job)
      BY <1>1, <2>1, <2>2, AuditTable, AuditQuiet, AuditNames
    <2> HIDE DEF e, d
    <2>4. r \in Rows /\ Later(row, r) /\ Sound(r)
      BY <1>1, <2>3, LoggedLater
    <2> HIDE DEF r
    <2>5. Vouched(r, [l EXCEPT !.pc = pc])
      BY <1>1, <2>3, <2>4, LaterVouched, GotoVouched
    <2>6. QED BY <2>1, <2>4, <2>5, ReadsWriteKeeps DEF Write
  <1>3. CASE Rename(w)
    <2> DEFINE next == CASE l.pc = "renameTimeout" -> "logTimeout"
                         [] l.pc = "renamePatch" -> "logPatch"
                         [] l.pc = "renameResume" -> "logResume"
                         [] OTHER -> "dropOld"
               v == Replacement(l.job)
               r == [row EXCEPT !.name = v]
    <2>1. Write(w, r, [l EXCEPT !.pc = next])
      BY <1>3 DEF Rename, Renamed
    <2>2. l.pc \in NamingPcs
      BY <1>3 DEF Rename, NamingPcs, WithOffsetPcs, WithoutOffsetPcs
    <2>3. v \in Versions /\ v # 0
      <3>1. v \in Versions
        BY <1>1, <2>2 DEF NamedLocals
      <3>2. v # 0
        BY <1>1, Caps DEF Replacement, Rows, Details, Names, Versions, NoName
      <3>3. QED BY <3>1, <3>2
    <2>4. next # "confirm"
      OBVIOUS
    <2> HIDE DEF v, next
    <2>5. r \in Rows /\ r.name = v /\ r.details = row.details /\ r.count = row.count
      BY <1>1, <2>3 DEF Rows
    <2> HIDE DEF r
    <2>6. Later(row, r) /\ FailedCount(r) = FailedCount(row)
            /\ FailureConfirmed(r) = FailureConfirmed(row)
      BY <1>1, <2>3, <2>5, Observations DEF Later, FailedCount, FailureConfirmed
    <2>7. FirstKnown(r)
      <3>1. ASSUME r.details.old = 0 PROVE OriginalName(r) = 0
        <4>1. OriginalName(row) = 0 /\ row.details.old # NoName
          BY <1>1, <2>5, <3>1, Original DEF Sound, FirstKnown
        <4>2. QED BY <2>5, <4>1 DEF OriginalName
      <3>2. QED BY <2>3, <2>5, <3>1 DEF FirstKnown
    <2>8. Sound(r)
      BY <1>1, <2>6, <2>7 DEF Sound
    <2>9. Vouched(r, [l EXCEPT !.pc = next])
      BY <1>1, <2>4, <2>5, <2>6, LaterVouched, GotoVouched
    <2>10. QED BY <2>1, <2>5, <2>6, <2>8, <2>9, ReadsWriteKeeps DEF Write
  <1>4. CASE Close(w)
    <2>1. [l EXCEPT !.pc = "refresh"] \in Locals /\ Vouched(row, [l EXCEPT !.pc = "refresh"])
      BY <1>1, GotoVouched, PcsIncludeAll DEF Locals
    <2>2. QED BY <1>4, <2>1, ClosedKeeps DEF Close, Write
  <1>5. QED BY <1>2, <1>3, <1>4 DEF Record

LEMMA ReadsActMoves ==
  ASSUME TypeInv, NEW w \in Workers, Act(w)
  PROVE  row' = row /\ (Raise(w) \/ \E pc : Goto(w, pc) /\ pc # "confirm")
  <1>1. CASE Restart(w)
    BY <1>1 DEF Restart, Answered
  <1>2. CASE LoadConfig(w)
    BY <1>2 DEF LoadConfig, Answered
  <1>3. CASE Capture(w)
    BY <1>3 DEF Capture, Answered
  <1>4. CASE StopConnector(w)
    BY <1>4 DEF StopConnector, Answered, FailedTo
  <1>5. CASE RetryProbe(w)
    BY <1>5 DEF RetryProbe, Answered, FailedTo
  <1>6. CASE CreateStopped(w)
    BY <1>6 DEF CreateStopped, Answered, FailedTo, AfterCreate
  <1>7. CASE PatchOffsets(w)
    BY <1>7 DEF PatchOffsets, Answered, FailedTo
  <1>8. CASE ResumeConnector(w)
    BY <1>8 DEF ResumeConnector, Answered, FailedTo
  <1>9. CASE CreateFresh(w)
    BY <1>9 DEF CreateFresh, Answered, FailedTo
  <1>10. CASE DropOld(w)
    BY <1>10 DEF DropOld
  <1>11. QED
    BY <1>1, <1>2, <1>3, <1>4, <1>5, <1>6, <1>7, <1>8, <1>9, <1>10 DEF Act

LEMMA ReadsActKeeps ==
  ASSUME TypeInv, ReadsInv, NEW w \in Workers, Act(w)
  PROVE  ReadsInv'
  <1>1. CASE Raise(w)
    BY <1>1, Held, ReadsActMoves, ReadsMoveKeeps
  <1>2. ASSUME NEW pc, Goto(w, pc), pc # "confirm" PROVE ReadsInv'
    <2>1. Vouched(row, [local[w] EXCEPT !.pc = pc])
      BY <1>2, Held, GotoVouched
    <2>2. QED BY <1>2, <2>1, ReadsActMoves, ReadsMoveKeeps DEF Goto
  <1>3. QED BY <1>1, <1>2, ReadsActMoves

LEMMA ReadsSettleKeeps ==
  ASSUME TypeInv, ReadsInv, NEW w \in Workers, Settle(w)
  PROVE  ReadsInv'
  <1> DEFINE l == local[w]
  <1>1. /\ l \in Locals /\ l.job \in Rows /\ row \in Rows /\ Vouched(row, l) /\ Sound(row)
        /\ NoDetails \in NamesFrom(l.job) /\ Vouched(row, Idle) /\ Idle \in Locals
    BY Held, IdleVouched, IdleType, NoRowType DEF NamesFrom, NamedLocals
  <1>2. ASSUME NEW e \in {"HEALING_RECOVERED", "HEALING_ESCALATED", "STATE_MACHINE_ERROR"},
               NEW d \in NamesFrom(l.job), NEW m,
               m = Idle \/ \E pc : m = [l EXCEPT !.pc = pc] /\ pc # "confirm",
               Write(w, Logged(row, e, d), m)
        PROVE  ReadsInv'
    <2> DEFINE r == Logged(row, e, d)
    <2>1. e \in EventTypes /\ e # "HEALTH_FAILED_CONFIRMED"
      BY DEF EventTypes, TerminalEvents
    <2>2. r \in Rows /\ Later(row, r) /\ Sound(r)
      BY <1>1, <2>1, LoggedLater
    <2>3. Write(w, r, m)
      BY <1>2
    <2> HIDE DEF r
    <2>4. Vouched(r, m)
      BY <1>1, <1>2, <2>2, LaterVouched, GotoVouched, IdleVouched
    <2>5. QED BY <2>2, <2>3, <2>4, ReadsWriteKeeps DEF Write
  <1>3. \A b : Leave(l, b) \in Locals /\ Vouched(row, Leave(l, b))
    BY <1>1, LeaveVouched, LeaveType DEF NamedLocals
  <1>4. CASE DeleteSuperseded(w)
    <2>1. Vouched(row, [l EXCEPT !.pc = "logRecovered"])
      BY <1>1, GotoVouched
    <2>2. QED BY <1>4, <2>1, ReadsMoveKeeps DEF DeleteSuperseded, Goto
  <1>5. CASE LogRecovered(w)
    <2> DEFINE d == [old |-> l.job.details.old, original |-> OriginalName(l.job),
                     new |-> NoName]
    <2>1. d \in NamesFrom(l.job)
      <3>1. OriginalName(l.job) \in Names /\ NoName \in Names /\ l.job.details.old \in Names
        BY <1>1, Original DEF Rows, Details, Names
      <3>2. QED BY <3>1 DEF NamesFrom, Details
    <2>2. Write(w, Logged(row, "HEALING_RECOVERED", d), [l EXCEPT !.pc = "closeRecovered"])
      BY <1>5 DEF LogRecovered
    <2> HIDE DEF d
    <2>3. QED BY <1>2, <2>1, <2>2
  <1>6. CASE CloseRecovered(w)
    BY <1>3, <1>6, ClosedKeeps DEF CloseRecovered
  <1>7. CASE Quarantine(w)
    BY <1>1, <1>2, <1>7 DEF Quarantine
  <1>8. CASE QuarantineClose(w)
    BY <1>3, <1>8, ClosedKeeps DEF QuarantineClose
  <1>9. CASE LogError(w)
    BY <1>1, <1>2, <1>9 DEF LogError
  <1>10. CASE Refresh(w)
    <2> DEFINE m == [l EXCEPT !.pc = "defer", !.job = Read(row)]
    <2>1. m.pc = "defer" /\ m.job = Read(row) /\ m.alert = l.alert
      BY <1>1 DEF Locals
    <2>2. (Become(w, m) \/ Become(w, Idle)) /\ row' = row
      BY <1>10 DEF Refresh
    <2> HIDE DEF m
    <2>3. Vouched(row, m)
      BY <1>1, <2>1, ReadVouched DEF Vouched
    <2>4. QED BY <1>1, <2>2, <2>3, ReadsMoveKeeps
  <1>11. CASE Defer(w)
    <2> DEFINE r == [row EXCEPT !.status = "WAITING", !.deferred = l.job.wait]
    <2>1. r \in Rows /\ r.name = row.name /\ r.details = row.details /\ r.count = row.count
      BY <1>1 DEF Rows, Statuses, OpenStatuses
    <2>2. Write(w, r, Idle)
      BY <1>11 DEF Defer
    <2> HIDE DEF r
    <2>3. Later(row, r) /\ Sound(r) /\ Vouched(r, Idle)
      BY <1>1, <2>1, SameLater, IdleVouched
    <2>4. QED BY <2>1, <2>2, <2>3, ReadsWriteKeeps DEF Write
  <1>12. QED
    BY <1>4, <1>5, <1>6, <1>7, <1>8, <1>9, <1>10, <1>11 DEF Settle

LEMMA NoLongerWaitingVouched ==
  ASSUME NEW r, NEW l \in Locals, Vouched(r, l)
  PROVE  Vouched(r, NoLongerWaiting(l))
  <1> DEFINE job == [l.job EXCEPT !.wait = FALSE]
             m == [l EXCEPT !.job = job]
  <1>1. job.name = l.job.name /\ job.details = l.job.details /\ job.count = l.job.count
    BY DEF Locals, Rows
  <1> HIDE DEF job
  <1>2. m.pc = l.pc /\ m.job = job /\ m.alert = l.alert
    BY DEF Locals
  <1> HIDE DEF m
  <1>3. Vouched(r, m)
    BY <1>1, <1>2 DEF Vouched, FirstKnown, OriginalName, FailedCount
  <1>4. QED BY <1>3 DEF NoLongerWaiting, m, job

LEMMA ReadsEnvironmentKeeps ==
  ASSUME TypeInv, ReadsInv, Environment
  PROVE  ReadsInv'
  <1>1. ASSUME NEW v \in Versions, ConnectorFails(v) \/ ConnectorRecovers(v) \/ OperatorStops(v)
        PROVE  ReadsInv'
    BY <1>1 DEF ConnectorFails, ConnectorRecovers, OperatorStops, ReadsInv
  <1>7. CASE FirstCreated
    BY <1>7 DEF FirstCreated, ReadsInv
  <1>2. CASE Elapse
    <2>1. /\ row \in Rows /\ row' \in Rows
          /\ row'.name = row.name /\ row'.details = row.details /\ row'.count = row.count
      BY <1>2 DEF Elapse, TypeInv, Rows
    <2>2. Later(row, row') /\ Sound(row')
      BY <2>1, SameLater DEF ReadsInv
    <2>3. ASSUME NEW u \in Workers PROVE Vouched(row', local'[u])
      <3>1. local'[u] = NoLongerWaiting(local[u])
        BY <1>2 DEF Elapse
      <3>2. local[u] \in Locals /\ Vouched(row', local[u])
        BY <2>1, <2>2, Held, LaterVouched
      <3>3. QED BY <3>1, <3>2, NoLongerWaitingVouched
    <2>4. QED BY <2>2, <2>3 DEF ReadsInv
  <1>3. ASSUME NEW w \in Workers, ElapseStale(w) PROVE ReadsInv'
    <2>1. Vouched(row, NoLongerWaiting(local[w]))
      BY Held, NoLongerWaitingVouched
    <2>2. QED BY <1>3, <2>1, ReadsMoveKeeps DEF ElapseStale
  <1>4. CASE Stabilize
    BY <1>4 DEF Stabilize, ReadsInv
  <1>5. CASE Crash
    <2>1. row' = row /\ \A u \in Workers : local'[u] = Idle
      BY <1>5 DEF Crash
    <2>2. Vouched(row, Idle)
      BY IdleVouched DEF TypeInv
    <2>3. QED BY <2>1, <2>2 DEF ReadsInv
  <1>6. QED BY <1>1, <1>2, <1>3, <1>4, <1>5, <1>7 DEF Environment

-----------------------------------------------------------------------------
(* The base connector                                                      *)

\* Whatever is protected, only the names asked for are deleted.
LEMMA DeletesOnly ==
  ASSUME TypeInv, NEW v \in Versions, NEW names, Deletes(names), v \notin names
  PROVE  kc'[v] = kc[v]
  <1>1. PICK gone \in SUBSET names :
          kc' = [u \in Versions |-> IF u \in gone THEN "ABSENT" ELSE kc[u]]
    BY DEF Deletes
  <1>2. QED BY <1>1

\* No step of an executor but a deletion makes a connector absent.
LEMMA ActSpares ==
  ASSUME TypeInv, NEW w \in Workers, NEW v \in Versions, Act(w), ~DropOld(w),
         kc[v] # "ABSENT"
  PROVE  kc'[v] # "ABSENT"
  <1>1. kc \in [Versions -> ConnectorStates]
    BY DEF TypeInv
  <1>2. CASE Restart(w)
    <2>1. kc' = kc \/ \E u : kc' = [kc EXCEPT ![u] = "RUNNING"]
      BY <1>2 DEF Restart
    <2>2. QED BY <1>1, <2>1
  <1>3. CASE StopConnector(w)
    <2>1. kc' = kc \/ \E u : kc' = [kc EXCEPT ![u] = "STOPPED"]
      BY <1>3 DEF StopConnector
    <2>2. QED BY <1>1, <2>1
  <1>4. CASE CreateStopped(w)
    <2>1. kc' = kc \/ \E u : kc' = [kc EXCEPT ![u] = "STOPPED"]
      BY <1>4 DEF CreateStopped, Created, cluster
    <2>2. QED BY <1>1, <2>1
  <1>5. CASE ResumeConnector(w)
    <2>1. kc' = kc \/ \E u : kc' = [kc EXCEPT ![u] = "RUNNING"]
      BY <1>5 DEF ResumeConnector
    <2>2. QED BY <1>1, <2>1
  <1>6. CASE CreateFresh(w)
    <2>1. kc' = kc \/ \E u : kc' = [kc EXCEPT ![u] = "RUNNING"]
      BY <1>6 DEF CreateFresh, Created, cluster
    <2>2. QED BY <1>1, <2>1
  <1>7. CASE LoadConfig(w) \/ Capture(w) \/ RetryProbe(w) \/ PatchOffsets(w)
    BY <1>7 DEF LoadConfig, Capture, RetryProbe, PatchOffsets, cluster
  <1>8. QED BY <1>2, <1>3, <1>4, <1>5, <1>6, <1>7 DEF Act

\* A connector comes and goes by itself, but it is not deleted.
LEMMA EnvironmentSpares ==
  ASSUME TypeInv, NEW v \in Versions, Environment, kc[v] # "ABSENT"
  PROVE  kc'[v] # "ABSENT"
  <1>1. kc \in [Versions -> ConnectorStates]
    BY DEF TypeInv
  <1>2. ASSUME NEW u \in Versions, ConnectorFails(u) PROVE kc'[v] # "ABSENT"
    <2>1. PICK s \in Failures : kc' = [kc EXCEPT ![u] = s]
      BY <1>2 DEF ConnectorFails
    <2>2. s # "ABSENT"
      BY IncidentAssumption DEF IncidentAssumption
    <2>3. QED BY <1>1, <2>1, <2>2
  <1>3. ASSUME NEW u \in Versions, ConnectorRecovers(u) \/ OperatorStops(u)
        PROVE  kc'[v] # "ABSENT"
    BY <1>1, <1>3 DEF ConnectorRecovers, OperatorStops
  <1>4. CASE Elapse \/ (\E w \in Workers : ElapseStale(w)) \/ Stabilize \/ Crash
    BY <1>4 DEF Elapse, ElapseStale, Stabilize, Crash, cluster
  <1>6. CASE FirstCreated
    BY <1>1, <1>6 DEF FirstCreated
  <1>5. QED BY <1>2, <1>3, <1>4, <1>6 DEF Environment

\* Only a request or the deletion of superseded connectors touches the cluster.
LEMMA ClusterTouched ==
  ASSUME NEW w \in Workers, Step(w), ~Act(w), ~DeleteSuperseded(w)
  PROVE  UNCHANGED cluster
  <1>1. CASE Arrive(w)
    BY <1>1 DEF Arrive, Notice, Enqueue, ListDue, Alerted, TryLock, Start, Finish
  <1>2. CASE Assess(w)
    BY <1>2 DEF Assess, CheckUnreachable, CheckNotCreated, CheckAdminStopped, CheckHealthy,
       CheckUnhealthy, Observe, Confirm
  <1>3. CASE Record(w)
    BY <1>3 DEF Record, Audit, Rename, Close
  <1>4. CASE Settle(w)
    BY <1>4 DEF Settle, LogRecovered, CloseRecovered, Quarantine, QuarantineClose, LogError,
       Refresh, Defer
  <1>5. QED BY <1>1, <1>2, <1>3, <1>4 DEF Step

LEMMA DropOldSpares ==
  ASSUME TypeInv, ReadsInv, NEW w \in Workers, DropOld(w), KeepBase
  PROVE  kc'[0] = kc[0]
  <1> DEFINE job == local[w].job
             names == IF IsVersioned(job.name) THEN {job.name} \ Kept(job) ELSE {}
  <1>1. Deletes(names)
    BY DEF DropOld
  <1>2. 0 \notin names
    <2>1. job.name = 0 => OriginalName(job) = 0
      BY Held DEF Vouched, FirstKnown
    <2> HIDE DEF job
    <2>2. QED BY <2>1 DEF Kept
  <1> HIDE DEF names
  <1>3. 0 \in Versions
    BY Caps DEF Versions
  <1>4. QED BY <1>1, <1>2, <1>3, DeletesOnly

LEMMA DeleteSupersededSpares ==
  ASSUME TypeInv, ReadsInv, NEW w \in Workers, DeleteSuperseded(w), KeepBase
  PROVE  kc'[0] = kc[0]
  <1> DEFINE job == local[w].job
             names == Superseded(job) \ Kept(job)
  <1>1. Deletes(names)
    BY DEF DeleteSuperseded
  <1>2. 0 \notin names
    <2>1. job.details.old = 0 => OriginalName(job) = 0
      BY Held DEF Vouched, FirstKnown
    <2> HIDE DEF job
    <2>2. QED BY <2>1 DEF Kept, Superseded, SupersededWithCurrent
  <1> HIDE DEF names
  <1>3. 0 \in Versions
    BY Caps DEF Versions
  <1>4. QED BY <1>1, <1>2, <1>3, DeletesOnly

LEMMA BaseStep ==
  ASSUME TypeInv, ReadsInv, KeepBase, kc[0] # "ABSENT", [Next]_vars
  PROVE  kc'[0] # "ABSENT"
  <1>1. 0 \in Versions
    BY Caps DEF Versions
  <1>2. ASSUME NEW w \in Workers, Step(w) PROVE kc'[0] # "ABSENT"
    BY <1>1, <1>2, ClusterTouched, ActSpares, DropOldSpares, DeleteSupersededSpares DEF cluster
  <1>3. CASE Environment
    BY <1>1, <1>3, EnvironmentSpares
  <1>4. CASE UNCHANGED vars
    BY <1>4 DEF vars
  <1>5. QED BY <1>2, <1>3, <1>4 DEF Next

-----------------------------------------------------------------------------
(* The theorems                                                            *)

LEMMA ReadsInit == Init => ReadsInv
  <1> SUFFICES ASSUME Init PROVE ReadsInv
    OBVIOUS
  <1>1. row = NoRow /\ NoRow \in Rows /\ \A w \in Workers : local[w] = Idle
    BY NoRowType DEF Init
  <1>2. Vouched(NoRow, Idle)
    BY <1>1, IdleVouched
  <1>3. Sound(NoRow)
    <2>1. FirstKnown(NoRow)
      BY <1>2, IdleType DEF Vouched
    <2>2. ~FailureConfirmed(NoRow)
      BY Observations DEF NoRow, NoCounts, FailureConfirmed
    <2>3. QED BY <2>1, <2>2 DEF Sound
  <1>5. QED BY <1>1, <1>2, <1>3 DEF ReadsInv

LEMMA ReadsStep == TypeInv /\ ReadsInv /\ [Next]_vars => ReadsInv'
  <1> SUFFICES ASSUME TypeInv, ReadsInv, [Next]_vars PROVE ReadsInv'
    OBVIOUS
  <1>1. ASSUME NEW w \in Workers, Step(w) PROVE ReadsInv'
    BY <1>1, ReadsArriveKeeps, ReadsAssessKeeps, ReadsRecordKeeps, ReadsActKeeps,
       ReadsSettleKeeps DEF Step
  <1>2. ASSUME UNCHANGED vars PROVE ReadsInv'
    BY <1>2 DEF ReadsInv, vars
  <1>3. QED BY <1>1, <1>2, ReadsEnvironmentKeeps DEF Next

LEMMA AlwaysReads == Spec => [](TypeInv /\ ReadsInv)
  <1>1. QED BY ReadsInit, ReadsStep, AlwaysTyped, TypeInvInit, TypeInvStep, PTL DEF Spec

\* Whatever names the threads have read and the log still carries, with
\* RECREATE_KEEP_BASE_CONNECTOR neither _delete_failed_versioned_connector nor
\* _delete_superseded_connector_if_needed ever reaches the base connector.
THEOREM BaseConnectorKept == Spec => BaseKept
  <1>1. TypeInv /\ ReadsInv /\ [Next]_vars
          => [KeepBase /\ kc[0] # "ABSENT" => kc'[0] # "ABSENT"]_vars
    BY BaseStep
  <1>2. QED BY <1>1, AlwaysReads, PTL DEF Spec, BaseKept

\* Where no alert confirms a failure, HEALTH_FAILED_CONFIRMED stands in the log
\* only next to FAILURE_CONFIRM_CHECKS observations, however old the jobs are
\* that the polling threads count them in.
THEOREM ConfirmedByObservations ==
  ASSUME Webhooks = {}
  PROVE  Spec => []Debounced
  <1>1. ReadsInv => Debounced
    BY DEF ReadsInv, Sound, Debounced, FailureConfirmed, FailedCount
  <1>2. QED BY <1>1, AlwaysReads, PTL
=============================================================================
