----------------------- MODULE HealingIncidentLadder -----------------------
(***************************************************************************)
(* What one thread makes of the recovery ladder of HealingIncident: the    *)
(* order and the number of its requests, the one connector that is alive,  *)
(* the verdict, the wait between two requests, and that all of it together *)
(* implements RecoveryLadder.                                              *)
(***************************************************************************)
EXTENDS HealingIncidentSolo

-----------------------------------------------------------------------------
(* The ladder is climbed in order, whatever the log still says.            *)

\* Between stop_connector of the old connector and the recreate's own event,
StoppedPcs ==
  {"create", "renameTimeout", "logTimeout", "patch", "renamePatch", "logPatch", "resume",
   "renameResume", "logResume", "logWithFailed", "logWith"}
\* and between the retry's first request and its event.
RetriedPcs ==
  {"logRetryStopFailed", "logRetryTimeout", "retryPatch", "logRetryPatch", "retryResume",
   "logRetryResume", "logRetried"}
OrderedRow(r) ==
  /\ ConnectorRestartCount(r) > 0 \/ r.latest \in ManagedStoppedEvents => issued["CONNECTOR"] > 0
  /\ TimeoutCount(r) > 0 \/ r.latest \in WithOffsetRetryEvents => issued["WITH_OFFSET"] > 0
OrderedThread(l) ==
  /\ l.pc \in {"observe", "confirm"} =>
       /\ l.job.latest \in ManagedStoppedEvents => issued["CONNECTOR"] > 0
       /\ l.job.latest \in WithOffsetRetryEvents => issued["WITH_OFFSET"] > 0
  /\ l.pc \in {"logConnectorRestart"} \cup WithOffsetPcs \cup WithoutOffsetPcs =>
       issued["CONNECTOR"] > 0
  /\ l.pc \in StoppedPcs \cup RetryPcs => issued["WITH_OFFSET"] > 0
OrderInv ==
  /\ OrderedRow(row) /\ \A w \in Workers : OrderedThread(local[w])
  /\ issued["WITH_OFFSET"] > 0 \/ issued["WITHOUT_OFFSET"] > 0 => issued["CONNECTOR"] > 0
  /\ issued["RETRY"] > 0 => issued["WITH_OFFSET"] > 0

LEMMA RestOrdered ==
  ASSUME NEW l, l.pc \in RestPcs
  PROVE  OrderedThread(l)
  BY DEF RestPcs, PlainPcs, OrderedThread, StoppedPcs, WithOffsetPcs, WithoutOffsetPcs, RetryPcs

LEMMA IssuedCounts ==
  ASSUME TypeInv
  PROVE  \A r \in Rungs : issued[r] \in 0..CountCap /\ issued[r] \in Nat
  BY Caps DEF TypeInv

LEMMA RungNames ==
  {"TASKS", "CONNECTOR", "WITH_OFFSET", "RETRY", "WITHOUT_OFFSET"} \subseteq Rungs
  BY DEF Rungs

LEMMA SpentGrows ==
  ASSUME TypeInv, NEW pc, Spent(pc)
  PROVE  \A r \in Rungs : issued'[r] >= issued[r] /\ (Requests(pc, r) => issued'[r] > 0)
  BY IssuedCounts, BumpType DEF Spent

\* A log that counts no action but keeps or forgets the latest one.
LEMMA QuietCounts ==
  ASSUME TypeInv, QuietRow
  PROVE  /\ \A e \in CountedEvents : e \notin QuietEvents => row'.count[e] = row.count[e]
         /\ row'.latest = row.latest \/ row'.latest \in QuietEvents
  <1>1. CASE SameLog(row, row')
    BY <1>1 DEF SameLog
  <1>2. CASE \E e \in QuietEvents : EventRow(row, row', e)
    <2>1. PICK e \in QuietEvents : EventRow(row, row', e)
      BY <1>2
    <2>2. row.count \in [CountedEvents -> 0..CountCap]
      BY HeldTypes, PolicyCounts, TypeInv DEF TypeInv, Rows
    <2>3. QED BY <2>1, <2>2, CountedFields DEF EventRow
  <1>3. QED BY <1>1, <1>2 DEF QuietRow

\* The events that count actions, or that tell how a recreate ended.
LadderEvents ==
  WaitAfterRestartEvents \cup WaitAfterRecreateEvents \cup WithOffsetRetryEvents
    \cup WithoutOffsetEvents \cup {"CONNECTOR_RECREATE_WITH_OFFSET_FAILED"}
LEMMA LadderEventsCounted ==
  /\ LadderEvents \subseteq CountedEvents /\ LadderEvents \cap QuietEvents = {}
  /\ ManagedStoppedEvents \cap QuietEvents = {} /\ WithOffsetRetryEvents \cap QuietEvents = {}
  /\ WithOffsetRetryEvents \subseteq ManagedStoppedEvents
  /\ WithoutOffsetEvents \cap QuietEvents = {}
  BY DEF LadderEvents, CountedEvents, QuietEvents, ManagedStoppedEvents, WithOffsetFailureEvents,
         WithOffsetRetryEvents, WaitAfterRestartEvents, WaitAfterRecreateEvents,
         WithoutOffsetEvents
\* The counts of the policy, of two logs that agree on the actions.
SameActions(r, n) == \A e \in LadderEvents : n.count[e] = r.count[e]
LEMMA SameActionCounts ==
  ASSUME NEW r, NEW n, SameActions(r, n)
  PROVE  /\ TaskRestartCount(n) = TaskRestartCount(r)
         /\ ConnectorRestartCount(n) = ConnectorRestartCount(r)
         /\ WithOffsetCount(n) = WithOffsetCount(r) /\ TimeoutCount(n) = TimeoutCount(r)
         /\ WithoutOffsetCount(n) = WithoutOffsetCount(r)
  BY DEF SameActions, LadderEvents, TaskRestartCount, ConnectorRestartCount, WithOffsetCount,
         TimeoutCount, WithoutOffsetCount, WaitAfterRestartEvents, WaitAfterRecreateEvents,
         WithOffsetRetryEvents, WithoutOffsetEvents
LEMMA QuietActions ==
  ASSUME TypeInv, QuietRow
  PROVE  SameActions(row, row')
  BY QuietCounts, LadderEventsCounted DEF SameActions

LEMMA QuietOrdered ==
  ASSUME TypeInv, QuietRow, issued' = issued, OrderedRow(row)
  PROVE  OrderedRow(row)'
  <1>1. /\ ConnectorRestartCount(row') = ConnectorRestartCount(row)
        /\ TimeoutCount(row') = TimeoutCount(row)
    BY QuietActions, SameActionCounts
  <1>2. row'.latest = row.latest
          \/ row'.latest \notin ManagedStoppedEvents \cup WithOffsetRetryEvents
    BY QuietCounts, LadderEventsCounted
  <1>3. QED BY <1>1, <1>2 DEF OrderedRow

\* A health event is quiet, in the row and in the job.
LEMMA DecidingQuiet ==
  ASSUME TypeInv, NEW w \in Workers, Deciding(w)
  PROVE  /\ QuietRow /\ issued' = issued /\ SameActions(local[w].job, local'[w].job)
         /\ local'[w].job.latest = local[w].job.latest
         /\ local'[w].job.name = local[w].job.name
         /\ local'[w].job.details = local[w].job.details /\ local'[w].res = local[w].res
         /\ kc' = kc /\ row'.latest \in QuietEvents /\ row'.name = row.name
         /\ row'.status = row.status
  <1> DEFINE e == IF local[w].pc = "observe"
                  THEN "HEALTH_FAILURE_OBSERVED" ELSE "HEALTH_FAILED_CONFIRMED"
  <1>1. EventRow(row, row', e) /\ HealthLogged(w, e) /\ Quiet /\ e \in QuietEvents
    BY DEF Deciding, QuietEvents
  <1>2. local[w].job.count \in [CountedEvents -> 0..CountCap]
    BY HeldTypes, PolicyCounts
  <1> HIDE DEF e
  <1>3. SameActions(local[w].job, local'[w].job)
    BY <1>1, <1>2, CountedFields, LadderEventsCounted DEF SameActions, HealthLogged
  <1>4. QED
    BY <1>1, <1>3 DEF QuietRow, EventRow, HealthLogged, Quiet, history, cluster

LEMMA RoamingOrder ==
  ASSUME TypeInv, OneThread, OrderInv, NEW w \in Workers, Roaming(w)
  PROVE  OrderInv'
  <1>1. issued' = issued /\ local'[w].pc \in RestPcs /\ QuietRow
    BY DEF Roaming
  <1>2. OrderedThread(local[w])'
    BY <1>1, RestOrdered
    DEF RestPcs, PlainPcs, OrderedThread, StoppedPcs, WithOffsetPcs, WithoutOffsetPcs, RetryPcs
  <1>3. QED BY <1>1, <1>2, QuietOrdered DEF OrderInv, OneThread

LEMMA NoticedOrder ==
  ASSUME TypeInv, OneThread, ControlInv, OrderInv, NEW w \in Workers, Noticed(w) \/ Missed(w)
  PROVE  OrderInv'
  <1>1. /\ issued' = issued /\ row' = row /\ local[w].pc = "check"
        /\ local'[w].job = local[w].job
        /\ \/ local'[w].pc = "observe"
           \/ local'[w].pc = "configRetry" /\ local[w].job.latest \in WithOffsetRetryEvents
    BY DEF Noticed, Missed, Quiet, Carried, history
  <1>2. local[w].job.latest = row.latest
    BY <1>1 DEF ControlInv, Fits, InSync, FreshPcs
  <1>3. OrderedThread(local[w])'
    BY <1>1, <1>2
    DEF OrderInv, OrderedRow, OrderedThread, StoppedPcs, WithOffsetPcs, WithoutOffsetPcs,
        RetryPcs
  <1>4. QED BY <1>1, <1>3 DEF OrderInv, OneThread, OrderedRow

\* A job that is still to be decided on, or whose step was just decided.
LEMMA InSyncNext ==
  ASSUME ControlInv', NEW w \in Workers,
         local'[w].pc \notin SpentPcs \cup NewNamePcs \cup NewCountPcs
  PROVE  /\ local'[w].job.count = row'.count /\ local'[w].job.name = row'.name
         /\ Numbered(local'[w].job)
  BY DEF ControlInv, Fits, InSync

LEMMA InSyncNow ==
  ASSUME ControlInv, NEW w \in Workers,
         local[w].pc \notin SpentPcs \cup NewNamePcs \cup NewCountPcs
  PROVE  /\ local[w].job.count = row.count /\ local[w].job.name = row.name
         /\ Numbered(local[w].job)
  BY DEF ControlInv, Fits, InSync

LEMMA DecidingOrder ==
  ASSUME TypeInv, TypeInv', OneThread, ControlInv', EarnedInv', OrderInv, NEW w \in Workers,
         Deciding(w)
  PROVE  OrderInv'
  <1> DEFINE l == local[w]
             m == local'[w]
  <1>1. /\ QuietRow /\ issued' = issued /\ m.job.latest = l.job.latest
        /\ l.pc \in {"observe", "confirm"}
    BY DecidingQuiet DEF Deciding
  <1>2. OrderedRow(row)' /\ Earned(m)
    BY <1>1, QuietOrdered DEF OrderInv, EarnedInv
  <1>3. OrderedThread(l)
    BY DEF OrderInv
  <1>4. \/ m.pc = "confirm"
        \/ m.pc \in {"refresh", "levelLimit", "escalate", "restartTasks", "restartConnector"}
        \/ m.pc = "configWith" /\ ConnectorRestartCount(m.job) > 0
        \/ m.pc = "configRetry" /\ m.job.latest \in WithOffsetRetryEvents
        \/ /\ m.pc = "configWithout"
           /\ ConnectorRestartCount(m.job) > 0 \/ m.job.latest \in ManagedStoppedEvents
    BY <1>2, FirstStepPcs
    DEF Deciding, DecidedPc, Earned, WithOffsetPcs, WithoutOffsetPcs, RetryPcs
  <1>5. m.pc \in {"configWith", "configWithout"} /\ ConnectorRestartCount(m.job) > 0 =>
          issued["CONNECTOR"] > 0
    BY <1>1, <1>2, InSyncNext
    DEF OrderedRow, ConnectorRestartCount, SpentPcs, NewNamePcs, NewCountPcs, FreePcs, DoubtPcs
  <1>6. m.pc = "configRetry" => issued["WITH_OFFSET"] > 0
    BY <1>1, <1>3, <1>4 DEF OrderedThread
  <1>7. m.pc = "configWithout" => issued["CONNECTOR"] > 0
    BY <1>1, <1>3, <1>4, <1>5 DEF OrderedThread
  <1>8. OrderedThread(local[w])'
    BY <1>1, <1>3, <1>4, <1>5, <1>6, <1>7
    DEF OrderedThread, StoppedPcs, WithOffsetPcs, WithoutOffsetPcs, RetryPcs
  <1>9. QED BY <1>1, <1>2, <1>8 DEF OrderInv, OneThread

\* What an executor's event adds to the counts, and to the latest event.
EventCounts(r, n, e) ==
  /\ \A x \in CountedEvents : x # e => n.count[x] = r.count[x]
  /\ e \in CountedEvents => n.count[e] = Bump(r.count[e])
  /\ n.latest = e
LEMMA EventRowCounts ==
  ASSUME NEW r \in Rows, NEW n, NEW e, EventRow(r, n, e)
  PROVE  EventCounts(r, n, e)
  <1>1. r.count \in [CountedEvents -> 0..CountCap]
    BY PolicyCounts
  <1>2. QED BY <1>1, CountedFields DEF EventRow, EventCounts

LEMMA CountedNames ==
  {"TASK_RESTART", "CONNECTOR_RESTART", "CONNECTOR_RECREATE_WITH_OFFSET",
   "CONNECTOR_RECREATE_WITHOUT_OFFSET", "CONNECTOR_RECREATE_WITH_OFFSET_TIMEOUT",
   "CONNECTOR_RECREATE_WITH_OFFSET_FAILED", "CONNECTOR_RECREATE_WITHOUT_OFFSET_FAILED",
   "HEALING_RECOVERED", "HEALTH_FAILURE_OBSERVED", "HEALTH_FAILED_CONFIRMED"}
     \subseteq CountedEvents
  BY DEF CountedEvents, WaitAfterRestartEvents, WaitAfterRecreateEvents, WithOffsetRetryEvents,
         WithoutOffsetEvents

LEMMA LoggingOrdered ==
  ASSUME TypeInv, OrderInv, NEW w \in Workers, NEW e, NEW next,
         AuditLine(local[w].pc, e, next), EventRow(row, row', e), issued' = issued
  PROVE  OrderedRow(row)'
  <1> DEFINE l == local[w]
  <1>1. OrderedThread(l) /\ OrderedRow(row) /\ EventCounts(row, row', e)
    BY HeldTypes, EventRowCounts DEF OrderInv
  <1>2. ConnectorRestartCount(row') = ConnectorRestartCount(row) \/ e = "CONNECTOR_RESTART"
    BY <1>1, CountedNames DEF EventCounts, ConnectorRestartCount
  <1>3. TimeoutCount(row') = TimeoutCount(row) \/ e \in WithOffsetRetryEvents
    BY <1>1, CountedNames DEF EventCounts, TimeoutCount, WithOffsetRetryEvents
  <1>4. e = "CONNECTOR_RESTART" => issued["CONNECTOR"] > 0
    BY <1>1 DEF AuditLine, OrderedThread
  <1>5. e \in WithOffsetRetryEvents => issued["WITH_OFFSET"] > 0
    BY <1>1 DEF AuditLine, OrderedThread, WithOffsetRetryEvents, StoppedPcs, RetryPcs
  <1>6. e \in ManagedStoppedEvents => l.pc \in WithOffsetPcs \cup RetryPcs
    BY DEF AuditLine, ManagedStoppedEvents, WithOffsetFailureEvents, WithOffsetRetryEvents,
           WithOffsetPcs, RetryPcs
  <1>7. e \in ManagedStoppedEvents => issued["CONNECTOR"] > 0
    BY <1>1, <1>6 DEF OrderInv, OrderedThread
  <1>8. row'.latest = e
    BY <1>1 DEF EventCounts
  <1>9. QED BY <1>1, <1>2, <1>3, <1>4, <1>5, <1>7, <1>8 DEF OrderedRow

\* Within an executor, and out of it.
LEMMA ExecutorOrdered ==
  ASSUME NEW w \in Workers, NEW next, Went(w, next), OrderedThread(local[w]),
         \/ ActLine(local[w].pc, next) \/ RenameLine(local[w].pc, next)
         \/ \E e : AuditLine(local[w].pc, e, next),
         \A r \in Rungs : issued'[r] \in Nat /\ issued[r] \in Nat /\ issued'[r] >= issued[r],
         local[w].pc = "restartConnector" => issued'["CONNECTOR"] > 0,
         local[w].pc = "stopOld" => issued'["WITH_OFFSET"] > 0
  PROVE  OrderedThread(local[w])'
  <1> DEFINE pc == local[w].pc
             grown == issued'["CONNECTOR"] > 0
             stopped == issued'["WITH_OFFSET"] > 0
  <1>1. (issued["CONNECTOR"] > 0 => grown) /\ (issued["WITH_OFFSET"] > 0 => stopped)
    BY RungNames
  <1>2. pc \in {"logConnectorRestart"} \cup WithOffsetPcs \cup WithoutOffsetPcs => grown
    BY <1>1 DEF OrderedThread
  <1>3. pc \in StoppedPcs \cup RetryPcs => stopped
    BY <1>1 DEF OrderedThread
  <1> HIDE DEF grown, stopped
  <1>4. \/ next \in {"refresh", "escalate", "close", "dropOld", "logTaskRestart"}
        \/ pc = "restartConnector" /\ next = "logConnectorRestart"
        \/ pc \in WithOffsetPcs /\ next \in WithOffsetPcs
        \/ pc \in WithoutOffsetPcs /\ next \in WithoutOffsetPcs
        \/ pc \in RetryPcs /\ next \in RetryPcs
    BY SameFamily
  <1>5. next \in StoppedPcs => pc \in StoppedPcs \cup {"stopOld"}
    BY DEF ActLine, RenameLine, AuditLine, StoppedPcs
  <1>6. next \in {"logConnectorRestart"} \cup WithOffsetPcs \cup WithoutOffsetPcs => grown
    <2>1. pc = "restartConnector" => grown
      BY DEF grown
    <2>2. QED
      BY <1>2, <1>4, <2>1 DEF WithOffsetPcs, WithoutOffsetPcs, RetryPcs
  <1>7. next \in StoppedPcs \cup RetryPcs => stopped
    <2>1. pc = "stopOld" => stopped
      BY DEF stopped
    <2>2. QED
      BY <1>3, <1>4, <1>5, <2>1 DEF WithOffsetPcs, WithoutOffsetPcs, RetryPcs
  <1>8. next \notin {"observe", "confirm"}
    BY <1>4 DEF WithOffsetPcs, WithoutOffsetPcs, RetryPcs
  <1>9. local'[w].pc = next
    BY DEF Went
  <1>10. QED BY <1>6, <1>7, <1>8, <1>9 DEF OrderedThread, grown, stopped

LEMMA RaisedOrdered ==
  ASSUME NEW w \in Workers, Raised(w)
  PROVE  OrderedThread(local[w])'
  <1>1. local'[w].pc \in RestPcs
    BY RestfulPcs
  <1>2. QED
    BY <1>1
    DEF RestPcs, PlainPcs, OrderedThread, StoppedPcs, WithOffsetPcs, WithoutOffsetPcs, RetryPcs

LEMMA LoggingOrder ==
  ASSUME TypeInv, OneThread, OrderInv, NEW w \in Workers, Logging(w)
  PROVE  OrderInv'
  <1> DEFINE l == local[w]
  <1>1. PICK e \in EventTypes, next \in Pcs :
          /\ AuditLine(l.pc, e, next) /\ l.pc \in AuditPcs /\ Quiet
          /\ \/ EventRow(row, row', e) /\ Went(w, next)
             \/ (row' = row \/ EventRow(row, row', e)) /\ Raised(w)
    BY DEF Logging
  <1>2. issued' = issued /\ (row' = row \/ EventRow(row, row', e))
    BY <1>1 DEF Quiet, history
  <1>3. OrderedRow(row)'
    BY <1>1, <1>2, LoggingOrdered DEF OrderInv, OrderedRow
  <1>4. OrderedThread(l)
    BY DEF OrderInv
  <1>5. OrderedThread(local[w])'
    <2>1. CASE Raised(w)
      BY <2>1, RaisedOrdered
    <2>2. CASE Went(w, next)
      <3>1. \A r \in Rungs : issued'[r] \in Nat /\ issued[r] \in Nat /\ issued'[r] >= issued[r]
        BY <1>2, IssuedCounts
      <3>2. l.pc \notin {"restartConnector", "stopOld"}
        BY <1>1 DEF AuditPcs
      <3>3. QED BY <1>1, <1>4, <2>2, <3>1, <3>2, ExecutorOrdered
    <2>3. QED BY <1>1, <2>1, <2>2
  <1>6. QED BY <1>2, <1>3, <1>5 DEF OrderInv, OneThread

LEMMA RenamingOrder ==
  ASSUME TypeInv, OneThread, OrderInv, NEW w \in Workers, Renaming(w)
  PROVE  OrderInv'
  <1> DEFINE l == local[w]
  <1>1. PICK next :
          /\ RenameLine(l.pc, next) /\ Quiet
          /\ \/ RenamedRow(row, row', l.job) /\ Went(w, next)
             \/ (row' = row \/ RenamedRow(row, row', l.job)) /\ Raised(w)
    BY DEF Renaming
  <1>2. issued' = issued /\ row'.count = row.count /\ row'.latest = row.latest
    BY <1>1 DEF Quiet, history, RenamedRow
  <1>3. OrderedRow(row)'
    BY <1>2 DEF OrderInv, OrderedRow, ConnectorRestartCount, TimeoutCount
  <1>4. OrderedThread(l)
    BY DEF OrderInv
  <1>5. OrderedThread(local[w])'
    <2>1. CASE Raised(w)
      BY <2>1, RaisedOrdered
    <2>2. CASE Went(w, next)
      <3>1. \A r \in Rungs : issued'[r] \in Nat /\ issued[r] \in Nat /\ issued'[r] >= issued[r]
        BY <1>2, IssuedCounts
      <3>2. l.pc \notin {"restartConnector", "stopOld"}
        BY <1>1 DEF RenameLine
      <3>3. QED BY <1>1, <1>4, <2>2, <3>1, <3>2, ExecutorOrdered
    <2>3. QED BY <1>1, <2>1, <2>2
  <1>6. QED BY <1>2, <1>3, <1>5 DEF OrderInv, OneThread

LEMMA ActingOrder ==
  ASSUME TypeInv, TypeInv', OneThread, OrderInv, NEW w \in Workers, Acting(w)
  PROVE  OrderInv'
  <1> DEFINE l == local[w]
  <1>1. row' = row /\ Spent(l.pc)
    BY DEF Acting
  <1>2. /\ \A r \in Rungs : issued'[r] \in Nat /\ issued[r] \in Nat
        /\ \A r \in Rungs : issued'[r] >= issued[r] /\ (Requests(l.pc, r) => issued'[r] > 0)
        /\ \A r \in Rungs : ~Requests(l.pc, r) => issued'[r] = issued[r]
    <2>1. \A r \in Rungs : issued'[r] \in 0..CountCap /\ issued[r] \in 0..CountCap
      BY DEF TypeInv
    <2>2. QED BY <1>1, <2>1, SpentGrows, Caps DEF Spent
  <1>3. OrderedThread(l) /\ OrderedRow(row)
    BY DEF OrderInv
  <1>4. OrderedRow(row)'
    BY <1>1, <1>2, <1>3, RungNames DEF OrderedRow
  <1>5. /\ l.pc = "restartConnector" => issued'["CONNECTOR"] > 0
        /\ l.pc = "stopOld" => issued'["WITH_OFFSET"] > 0
    BY <1>2, RungNames DEF Requests
  <1>6. OrderedThread(local[w])'
    <2>1. CASE Raised(w)
      BY <2>1, RaisedOrdered
    <2>2. CASE \E next \in Pcs : Went(w, next) /\ ActLine(l.pc, next)
      BY <1>2, <1>3, <1>5, <2>2, ExecutorOrdered
    <2>3. QED BY <2>1, <2>2 DEF Acting
  <1>7. issued'["WITH_OFFSET"] > 0 \/ issued'["WITHOUT_OFFSET"] > 0 => issued'["CONNECTOR"] > 0
    <2>1. l.pc \in {"stopOld", "stopForFresh"} => issued["CONNECTOR"] > 0
      BY <1>3 DEF OrderedThread, WithOffsetPcs, WithoutOffsetPcs
    <2>2. CASE l.pc \in {"stopOld", "stopForFresh"}
      BY <1>2, <2>1, <2>2, RungNames
    <2>3. CASE l.pc \notin {"stopOld", "stopForFresh"}
      <3>1. /\ issued'["WITH_OFFSET"] = issued["WITH_OFFSET"]
            /\ issued'["WITHOUT_OFFSET"] = issued["WITHOUT_OFFSET"]
        BY <1>2, <2>3, RungNames DEF Requests
      <3>2. QED BY <1>2, <3>1, RungNames DEF OrderInv
    <2>4. QED BY <2>2, <2>3
  <1>8. issued'["RETRY"] > 0 => issued'["WITH_OFFSET"] > 0
    <2>1. CASE l.pc \in {"retryStop", "retryCreate"}
      BY <1>2, <1>3, <2>1, RungNames DEF OrderedThread, RetryPcs
    <2>2. CASE l.pc \notin {"retryStop", "retryCreate"}
      <3>1. issued'["RETRY"] = issued["RETRY"]
        BY <1>2, <2>2, RungNames DEF Requests
      <3>2. QED BY <1>2, <3>1, RungNames DEF OrderInv
    <2>3. QED BY <2>1, <2>2
  <1>9. QED BY <1>4, <1>6, <1>7, <1>8 DEF OrderInv, OneThread

LEMMA StepOrder ==
  ASSUME TypeInv, TypeInv', OneThread, ControlInv, ControlInv', EarnedInv', OrderInv,
         NEW w \in Workers, Step(w)
  PROVE  OrderInv'
  BY StepKinds, RoamingOrder, NoticedOrder, DecidingOrder, LoggingOrder, RenamingOrder,
     ActingOrder

LEMMA OrderStep ==
  ASSUME OneThread
  PROVE  TypeInv /\ TypeInv' /\ ControlInv /\ ControlInv' /\ EarnedInv' /\ OrderInv
           /\ [Next]_vars => OrderInv'
  <1> SUFFICES ASSUME TypeInv, TypeInv', ControlInv, ControlInv', EarnedInv', OrderInv,
                      [Next]_vars
               PROVE  OrderInv'
    OBVIOUS
  <1>1. ASSUME NEW w \in Workers, Step(w) PROVE OrderInv'
    BY <1>1, StepOrder
  <1>2. CASE Environment
    <2>1. Weathered
      BY <1>2, EnvironmentWeather
    <2>2. issued' = issued /\ OrderedRow(row)'
      BY <2>1 DEF Weathered, OrderInv, OrderedRow, ConnectorRestartCount, TimeoutCount
    <2>3. ASSUME NEW w \in Workers PROVE OrderedThread(local[w])'
      <3>1. CASE local'[w] = Idle
        BY <3>1, RaisedOrdered, RestingPcs
        DEF OrderedThread, StoppedPcs, WithOffsetPcs, WithoutOffsetPcs, RetryPcs
      <3>2. CASE SameThread(local[w], local'[w])
        <4>1. OrderedThread(local[w])
          BY DEF OrderInv
        <4>2. QED BY <2>2, <3>2, <4>1 DEF SameThread, OrderedThread
      <3>3. QED BY <2>1, <3>1, <3>2 DEF Weathered
    <2>4. QED BY <2>2, <2>3 DEF OrderInv
  <1>3. CASE UNCHANGED vars
    BY <1>3 DEF OrderInv, OrderedRow, OrderedThread, vars
  <1>4. QED BY <1>1, <1>2, <1>3 DEF Next

LEMMA OrderInit == Init => OrderInv
  BY RestingPcs, RungNames
  DEF Init, OrderInv, OrderedRow, OrderedThread, NoRow, NoCounts, ConnectorRestartCount,
      TimeoutCount, CountedEvents, ManagedStoppedEvents, WithOffsetFailureEvents,
      WithOffsetRetryEvents, WaitAfterRestartEvents, StoppedPcs, WithOffsetPcs,
      WithoutOffsetPcs, RetryPcs

LEMMA AlwaysOrdered ==
  ASSUME OneThread
  PROVE  Spec => []OrderInv
  BY OrderInit, AlwaysTyped, AlwaysControl, AlwaysEarned, OrderStep, PTL DEF Spec

-----------------------------------------------------------------------------
(* The three rungs whose events the log counts: restarts, and the recreate *)
(* without offsets.                                                        *)

CountedRungs == {"TASKS", "CONNECTOR", "WITHOUT_OFFSET"}
Done(r, rung) ==
  CASE rung = "TASKS" -> TaskRestartCount(r)
    [] rung = "CONNECTOR" -> ConnectorRestartCount(r)
    [] OTHER -> WithoutOffsetCount(r)
\* Requested, and not yet in the log.
Window(rung) ==
  CASE rung = "TASKS" -> {"logTaskRestart"}
    [] rung = "CONNECTOR" -> {"logConnectorRestart"}
    [] OTHER -> {"createFresh", "logWithout", "logWithoutFailed"}
Pending(pc, rung) == IF pc \in Window(rung) \/ uncertain THEN 1 ELSE 0
RungFits(rung) ==
  /\ issued[rung] <= MaxAttempts[rung] + Crashes
  /\ Done(row, rung) <= MaxAttempts[rung]
  /\ row.status \notin {"COMPLETED", "ESCALATED"} =>
       \A w \in Workers : issued[rung] <= Done(row, rung) + Crashes + Pending(local[w].pc, rung)
RungInv == \A rung \in CountedRungs : RungFits(rung)

LEMMA AttemptLimits ==
  ASSUME NEW rung \in CountedRungs
  PROVE  /\ rung \in Rungs /\ MaxAttempts[rung] \in Nat /\ MaxAttempts[rung] < CountCap
         /\ rung # "TASKS" => MaxAttempts[rung] = 1
         /\ rung = "TASKS" => MaxAttempts[rung] = TaskRestartMax
  BY Caps, IncidentAssumption DEF CountedRungs, Rungs, MaxAttempts, IncidentAssumption

LEMMA DoneType ==
  ASSUME NEW r \in Rows, NEW rung
  PROVE  Done(r, rung) \in Nat
  BY PolicyCounts, Caps DEF Done

LEMMA DoneKept ==
  ASSUME NEW r, NEW n, SameActions(r, n), NEW rung
  PROVE  Done(n, rung) = Done(r, rung)
  BY SameActionCounts DEF Done

LEMMA BumpBelow ==
  ASSUME NEW n \in 0..CountCap, n < CountCap
  PROVE  Bump(n) = n + 1
  BY Caps DEF Bump

LEMMA DoneLogged ==
  ASSUME NEW r \in Rows, NEW n, NEW pc, NEW e, NEW next, AuditLine(pc, e, next),
         EventCounts(r, n, e), NEW rung \in CountedRungs,
         pc \in Window(rung) => Done(r, rung) < MaxAttempts[rung]
  PROVE  Done(n, rung) = IF pc \in Window(rung) THEN Done(r, rung) + 1 ELSE Done(r, rung)
  <1>1. \A x \in CountedEvents : r.count[x] \in 0..CountCap
    BY PolicyCounts
  <1>2. MaxAttempts[rung] < CountCap /\ MaxAttempts[rung] \in Nat /\ CountCap \in Nat
    BY AttemptLimits, Caps
  <1>3. CASE rung = "TASKS"
    <2>1. e = "TASK_RESTART" <=> pc \in Window(rung)
      BY <1>3 DEF AuditLine, Window
    <2>2. QED
      BY <1>1, <1>2, <1>3, <2>1, CountedNames, BumpBelow
      DEF Done, TaskRestartCount, EventCounts
  <1>4. CASE rung = "CONNECTOR"
    <2>1. e = "CONNECTOR_RESTART" <=> pc \in Window(rung)
      BY <1>4 DEF AuditLine, Window
    <2>2. QED
      BY <1>1, <1>2, <1>4, <2>1, CountedNames, BumpBelow
      DEF Done, ConnectorRestartCount, EventCounts
  <1>5. CASE rung = "WITHOUT_OFFSET"
    <2> DEFINE a == "CONNECTOR_RECREATE_WITHOUT_OFFSET"
               b == "CONNECTOR_RECREATE_WITHOUT_OFFSET_FAILED"
    <2>1. e \in {a, b} <=> pc \in Window(rung)
      BY <1>5 DEF AuditLine, Window
    <2>2. /\ r.count[a] \in Nat /\ r.count[b] \in Nat
          /\ Done(r, rung) = r.count[a] + r.count[b] /\ Done(n, rung) = n.count[a] + n.count[b]
      BY <1>1, <1>5, Caps, CountedNames DEF Done, WithoutOffsetCount
    <2>3. CASE pc \in Window(rung)
      <3>1. r.count[a] = 0 /\ r.count[b] = 0
        BY <1>5, <2>2, <2>3, AttemptLimits
      <3>2. Bump(0) = 1
        BY Caps DEF Bump
      <3>3. e \in {a, b} /\ a # b /\ {a, b} \subseteq CountedEvents
        BY <2>1, <2>3, CountedNames
      <3>4. (n.count[a] = 1 /\ n.count[b] = 0) \/ (n.count[a] = 0 /\ n.count[b] = 1)
        BY <3>1, <3>2, <3>3 DEF EventCounts
      <3>5. QED BY <2>2, <2>3, <3>1, <3>4
    <2>4. CASE pc \notin Window(rung)
      <3>1. n.count[a] = r.count[a] /\ n.count[b] = r.count[b]
        BY <2>1, <2>4, CountedNames DEF EventCounts
      <3>2. QED BY <2>2, <2>4, <3>1
    <2>5. QED BY <2>3, <2>4
  <1>6. QED BY <1>3, <1>4, <1>5 DEF CountedRungs

\* Before a request and until its event, the job still has an attempt left.
LEMMA AttemptLeft ==
  ASSUME NEW l, l.job \in Rows, Earned(l), NEW rung \in CountedRungs,
         l.pc \in Window(rung) \/ Requests(l.pc, rung)
  PROVE  Done(l.job, rung) < MaxAttempts[rung]
  <1>1. CASE rung = "TASKS"
    BY <1>1, AttemptLimits DEF Window, Requests, Done, Earned
  <1>2. CASE rung = "CONNECTOR"
    BY <1>2, AttemptLimits DEF Window, Requests, Done, Earned
  <1>3. CASE rung = "WITHOUT_OFFSET"
    BY <1>3, AttemptLimits DEF Window, Requests, Done, Earned, WithoutOffsetPcs
  <1>4. QED BY <1>1, <1>2, <1>3 DEF CountedRungs

LEMMA WindowFollows ==
  ASSUME NEW pc, NEW next, ActLine(pc, next), NEW rung \in CountedRungs,
         pc \in Window(rung) \/ Requests(pc, rung)
  PROVE  next \in Window(rung)
  BY DEF ActLine, Window, Requests, CountedRungs

LEMMA WindowPcs ==
  ASSUME NEW rung \in CountedRungs
  PROVE  /\ Window(rung) \cap LoosePcs = {} /\ Window(rung) \cap RestPcs = {}
         /\ \A pc : Requests(pc, rung) => pc \notin Window(rung)
         /\ \A pc : pc \in Window(rung) \/ Requests(pc, rung) =>
              pc \notin SpentPcs \cup NewNamePcs \cup NewCountPcs
         /\ \A pc, next : RenameLine(pc, next) => pc \notin Window(rung)
  BY DEF Window, CountedRungs, LoosePcs, RestPcs, PlainPcs, Requests, RenameLine, SpentPcs,
         NewNamePcs, NewCountPcs, FreePcs, DoubtPcs

LEMMA ExecutorsCalm ==
  ASSUME TypeInv, ControlInv, UncertainInv, NEW w \in Workers, local[w].pc \in DispatchPcs
  PROVE  Calm /\ ~uncertain
  <1>1. local[w].pc \notin HeldBackPcs
    BY PcKinds
    DEF HeldBackPcs, RestartPcs, WithOffsetPcs, RetryPcs, WithoutOffsetPcs
  <1>2. IsOpen(row)
    BY DispatchOpen DEF ControlInv, Fits
  <1>3. QED BY <1>1, <1>2 DEF UncertainInv, Calm, IsOpen, OpenStatuses

\* No executor is at work: nothing is requested, and nothing is counted.
LEMMA QuietRung ==
  ASSUME TypeInv, OneThread, ControlInv, UncertainInv, NEW rung \in CountedRungs,
         RungFits(rung), NEW w \in Workers, Step(w), local[w].pc \in LoosePcs, QuietRow,
         issued' = issued
  PROVE  RungFits(rung)'
  <1>1. Done(row', rung) = Done(row, rung) /\ Crashes' = Crashes
    BY QuietActions, DoneKept, StepCrashes
  <1>2. local[w].pc \notin Window(rung)
    BY WindowPcs
  <1>3. ASSUME row'.status \notin {"COMPLETED", "ESCALATED"}
        PROVE  /\ row.status \notin {"COMPLETED", "ESCALATED"}
               /\ Pending(local[w].pc, rung) <= Pending(local[w].pc, rung)'
    BY <1>2, <1>3, ClosedByControl, DoubtEnds DEF Pending
  <1>4. /\ Pending(local[w].pc, rung) \in Nat /\ Pending(local[w].pc, rung)' \in Nat
        /\ Done(row, rung) \in Nat /\ Crashes \in Nat /\ issued[rung] \in Nat
    BY AttemptLimits, DoneType, HeldTypes, CrashCount, IssuedCounts DEF Pending
  <1>5. \A u \in Workers : local'[u] = local'[w] /\ local[u] = local[w]
    BY DEF OneThread
  <1>6. QED
    <2> DEFINE a == Pending(local[w].pc, rung)
               b == Pending(local[w].pc, rung)'
               d == Done(row, rung)
    <2>1. row'.status \notin {"COMPLETED", "ESCALATED"} => issued[rung] <= d + Crashes + a /\ a <= b
      BY <1>3 DEF RungFits
    <2>2. a \in Nat /\ b \in Nat /\ d \in Nat
      BY <1>4
    <2> HIDE DEF a, b, d
    <2>3. row'.status \notin {"COMPLETED", "ESCALATED"} => issued[rung] <= d + Crashes + b
      BY <1>4, <2>1, <2>2
    <2>4. QED BY <1>1, <1>5, <2>3 DEF RungFits, b, d, Pending

LEMMA LoggingRung ==
  ASSUME TypeInv, OneThread, ControlInv, UncertainInv, EarnedInv, NEW rung \in CountedRungs,
         RungFits(rung), NEW w \in Workers, Step(w), Logging(w)
  PROVE  RungFits(rung)'
  <1> DEFINE l == local[w]
             m == local'[w]
             d == Done(row, rung)
             f == Done(row', rung)
             inside == l.pc \in Window(rung)
  <1>1. PICK e \in EventTypes, next \in Pcs :
          /\ AuditLine(l.pc, e, next) /\ l.pc \in AuditPcs /\ Quiet
          /\ \/ EventRow(row, row', e) /\ Went(w, next)
             \/ (row' = row \/ EventRow(row, row', e)) /\ Raised(w)
    BY DEF Logging
  <1>2. issued' = issued /\ Crashes' = Crashes
    BY <1>1, StepCrashes DEF Quiet, history
  <1>3. l.pc \in DispatchPcs /\ ~uncertain /\ row.status \notin {"COMPLETED", "ESCALATED"}
    BY <1>1, PcsIncludeAll, ExecutorsCalm DEF Calm
  <1>4. inside => d < MaxAttempts[rung]
    <2>1. inside => l.job.count = row.count
      BY WindowPcs, InSyncNow
    <2>2. inside => Done(l.job, rung) < MaxAttempts[rung]
      BY HeldTypes, AttemptLeft DEF EarnedInv
    <2>3. QED
      BY <2>1, <2>2
      DEF Done, TaskRestartCount, ConnectorRestartCount, WithoutOffsetCount
  <1>5. EventRow(row, row', e) => f = IF inside THEN d + 1 ELSE d
    BY <1>1, <1>4, HeldTypes, EventRowCounts, DoneLogged
  <1>6. /\ d \in Nat /\ Crashes \in Nat /\ issued[rung] \in Nat /\ MaxAttempts[rung] \in Nat
    BY AttemptLimits, DoneType, HeldTypes, CrashCount, IssuedCounts
  <1>7. issued[rung] <= d + Crashes + (IF inside THEN 1 ELSE 0)
    BY <1>3 DEF RungFits, Pending
  <1>8. d <= MaxAttempts[rung] /\ issued[rung] <= MaxAttempts[rung] + Crashes
    BY DEF RungFits
  <1>9. Raised(w) => uncertain'
    BY <1>3 DEF Raised, GuardedPcs, DispatchPcs, RestartPcs, WithOffsetPcs, RetryPcs,
                WithoutOffsetPcs
  <1>10. row' = row => f = d
    OBVIOUS
  <1> DEFINE b == IF m.pc \in Window(rung) \/ uncertain' THEN 1 ELSE 0
  <1>11. b \in {0, 1} /\ (uncertain' => b = 1)
    OBVIOUS
  <1>12. \A u \in Workers : Pending(local[u].pc, rung)' = b
    BY DEF OneThread, Pending
  <1>13. f <= MaxAttempts[rung] /\ issued[rung] <= f + Crashes + b
    <2> HIDE DEF d, f, b, inside
    <2>1. QED BY <1>1, <1>4, <1>5, <1>6, <1>7, <1>8, <1>9, <1>10, <1>11
  <1>14. QED BY <1>2, <1>8, <1>12, <1>13 DEF RungFits

LEMMA RenamingRung ==
  ASSUME TypeInv, OneThread, ControlInv, UncertainInv, NEW rung \in CountedRungs,
         RungFits(rung), NEW w \in Workers, Step(w), Renaming(w)
  PROVE  RungFits(rung)'
  <1> DEFINE l == local[w]
             d == Done(row, rung)
             b == Pending(local[w].pc, rung)'
  <1>1. PICK next :
          /\ RenameLine(l.pc, next) /\ Quiet
          /\ row' = row \/ RenamedRow(row, row', l.job)
    BY DEF Renaming
  <1>2. /\ issued' = issued /\ Crashes' = Crashes /\ row'.status = row.status
        /\ SameActions(row, row')
    BY <1>1, StepCrashes DEF Quiet, history, RenamedRow, SameActions
  <1>3. Done(row', rung) = d
    BY <1>2, DoneKept
  <1>4. l.pc \in DispatchPcs
    BY <1>1, PcKinds DEF RenameLine, WithOffsetPcs, WithoutOffsetPcs
  <1>5. ~uncertain /\ l.pc \notin Window(rung)
    BY <1>1, <1>4, ExecutorsCalm, WindowPcs
  <1>6. d \in Nat /\ Crashes \in Nat /\ issued[rung] \in Nat /\ b \in Nat
    BY AttemptLimits, DoneType, HeldTypes, CrashCount, IssuedCounts DEF Pending
  <1>7. row.status \notin {"COMPLETED", "ESCALATED"} => issued[rung] <= d + Crashes
    BY <1>5, <1>6 DEF RungFits, Pending
  <1>8. \A u \in Workers : local'[u] = local'[w]
    BY DEF OneThread
  <1>9. row.status \notin {"COMPLETED", "ESCALATED"} => issued[rung] <= d + Crashes + b
    <2> HIDE DEF d, b
    <2>1. QED BY <1>6, <1>7
  <1>10. QED BY <1>2, <1>3, <1>8, <1>9 DEF RungFits, Pending

LEMMA ActingRung ==
  ASSUME TypeInv, OneThread, ControlInv, UncertainInv, EarnedInv, NEW rung \in CountedRungs,
         RungFits(rung), NEW w \in Workers, Step(w), Acting(w)
  PROVE  RungFits(rung)'
  <1> DEFINE l == local[w]
             m == local'[w]
             d == Done(row, rung)
             b == IF m.pc \in Window(rung) \/ uncertain' THEN 1 ELSE 0
             requested == Requests(l.pc, rung)
             inside == l.pc \in Window(rung)
  <1>1. row' = row /\ Spent(l.pc) /\ Crashes' = Crashes
    BY StepCrashes DEF Acting
  <1>2. l.pc \in DispatchPcs
    BY PcKinds DEF Acting, ActLine, RestartPcs, WithOffsetPcs, RetryPcs, WithoutOffsetPcs
  <1>3. ~uncertain /\ row.status \notin {"COMPLETED", "ESCALATED"}
    BY <1>2, ExecutorsCalm DEF Calm
  <1>4. /\ d \in Nat /\ Crashes \in Nat /\ issued[rung] \in 0..CountCap
        /\ MaxAttempts[rung] \in Nat /\ CountCap \in Nat
    BY AttemptLimits, DoneType, HeldTypes, CrashCount, IssuedCounts, Caps
  <1>5. issued[rung] <= d + Crashes + (IF inside THEN 1 ELSE 0)
    BY <1>3 DEF RungFits, Pending
  <1>6. requested => d < MaxAttempts[rung] /\ ~inside
    <2>1. requested => l.job.count = row.count /\ ~inside
      BY WindowPcs, InSyncNow
    <2>2. requested => Done(l.job, rung) < MaxAttempts[rung]
      BY HeldTypes, AttemptLeft DEF EarnedInv
    <2>3. QED
      BY <2>1, <2>2
      DEF Done, TaskRestartCount, ConnectorRestartCount, WithoutOffsetCount
  <1>7. issued'[rung] = IF requested THEN Bump(issued[rung]) ELSE issued[rung]
    BY <1>1, AttemptLimits DEF Spent
  <1>8. Bump(issued[rung]) <= issued[rung] + 1
    BY <1>4 DEF Bump
  <1>9. requested \/ inside => b = 1
    <2>1. CASE Raised(w)
      BY <1>2, <2>1
      DEF Raised, GuardedPcs, DispatchPcs, RestartPcs, WithOffsetPcs, RetryPcs, WithoutOffsetPcs
    <2>2. CASE \E next \in Pcs : Went(w, next) /\ ActLine(l.pc, next)
      BY <2>2, WindowFollows DEF Went
    <2>3. QED BY <2>1, <2>2 DEF Acting
  <1>10. d <= MaxAttempts[rung] /\ issued[rung] <= MaxAttempts[rung] + Crashes
    BY DEF RungFits
  <1>11. b \in {0, 1} /\ Bump(issued[rung]) \in Nat
    BY <1>4, BumpType
  <1>12. \A u \in Workers : Pending(local[u].pc, rung)' = b
    BY DEF OneThread, Pending
  <1>13. issued'[rung] <= MaxAttempts[rung] + Crashes /\ issued'[rung] <= d + Crashes + b
    <2> DEFINE p == Bump(issued[rung])
    <2> HIDE DEF d, b, requested, inside, p
    <2>1. QED BY <1>4, <1>5, <1>6, <1>7, <1>8, <1>9, <1>10, <1>11 DEF p
  <1>14. QED BY <1>1, <1>10, <1>12, <1>13 DEF RungFits

LEMMA StepRung ==
  ASSUME TypeInv, OneThread, ControlInv, UncertainInv, EarnedInv, RungInv,
         NEW w \in Workers, Step(w)
  PROVE  RungInv'
  <1> SUFFICES ASSUME NEW rung \in CountedRungs PROVE RungFits(rung)'
    BY DEF RungInv
  <1>1. RungFits(rung)
    BY DEF RungInv
  <1>2. CASE Roaming(w) \/ Noticed(w) \/ Missed(w) \/ Deciding(w)
    <2>1. local[w].pc \in LoosePcs /\ QuietRow /\ issued' = issued
      BY <1>2, SameRowQuiet, DecidingQuiet
      DEF Roaming, Noticed, Missed, Deciding, Quiet, history, LoosePcs
    <2>2. QED BY <1>1, <2>1, QuietRung
  <1>3. QED BY <1>1, <1>2, StepKinds, LoggingRung, RenamingRung, ActingRung

LEMMA RungStep ==
  ASSUME OneThread
  PROVE  TypeInv /\ ControlInv /\ UncertainInv /\ EarnedInv /\ RungInv /\ [Next]_vars
           => RungInv'
  <1> SUFFICES ASSUME TypeInv, ControlInv, UncertainInv, EarnedInv, RungInv, [Next]_vars
               PROVE  RungInv'
    OBVIOUS
  <1>1. ASSUME NEW w \in Workers, Step(w) PROVE RungInv'
    BY <1>1, StepRung
  <1>2. CASE Environment
    <2>1. Weathered
      BY <1>2, EnvironmentWeather
    <2> SUFFICES ASSUME NEW rung \in CountedRungs PROVE RungFits(rung)'
      BY DEF RungInv
    <2> DEFINE d == Done(row, rung)
    <2>2. issued' = issued /\ Done(row', rung) = d /\ row'.status = row.status
      BY <2>1, DoneKept DEF Weathered, SameActions
    <2>3. d \in Nat /\ Crashes \in Nat /\ issued[rung] \in Nat /\ MaxAttempts[rung] \in Nat
      BY AttemptLimits, DoneType, CrashCount, IssuedCounts DEF TypeInv
    <2>4. RungFits(rung)
      BY DEF RungInv
    <2>5. CASE Crashes' = Crashes /\ uncertain' = uncertain
                 /\ \A w \in Workers : SameThread(local[w], local'[w])
      BY <2>2, <2>4, <2>5 DEF RungFits, Pending, SameThread
    <2>6. CASE Crashes' = Crashes + 1
      <3>1. ASSUME NEW w \in Workers
            PROVE  Pending(local[w].pc, rung) \in {0, 1} /\ Pending(local[w].pc, rung)' \in {0, 1}
        BY DEF Pending
      <3>2. ASSUME NEW w \in Workers, row'.status \notin {"COMPLETED", "ESCALATED"}
            PROVE  issued[rung] <= d + Crashes + 1 + Pending(local[w].pc, rung)'
        <4> DEFINE a == Pending(local[w].pc, rung)
                   b == Pending(local[w].pc, rung)'
        <4>1. issued[rung] <= d + Crashes + a /\ a \in {0, 1} /\ b \in {0, 1}
          BY <2>2, <2>4, <3>1, <3>2 DEF RungFits
        <4> HIDE DEF a, b, d
        <4>2. issued[rung] <= d + Crashes + 1 + b
          BY <2>3, <4>1
        <4>3. QED BY <4>2 DEF b, d
      <3>3. issued[rung] <= MaxAttempts[rung] + (Crashes + 1) /\ d <= MaxAttempts[rung]
        BY <2>3, <2>4 DEF RungFits
      <3>4. QED BY <2>2, <2>3, <2>6, <3>2, <3>3 DEF RungFits
    <2>7. QED BY <2>1, <2>5, <2>6 DEF Weathered
  <1>3. CASE UNCHANGED vars
    BY <1>3 DEF RungInv, RungFits, Pending, vars, Crashes
  <1>4. QED BY <1>1, <1>2, <1>3 DEF Next

LEMMA RungInit == Init => RungInv
  <1> SUFFICES ASSUME Init, NEW rung \in CountedRungs PROVE RungFits(rung)
    BY DEF RungInv
  <1>1. issued[rung] = 0 /\ Done(row, rung) = 0
    BY CountedNames, AttemptLimits
    DEF Init, NoRow, NoCounts, Done, TaskRestartCount, ConnectorRestartCount,
        WithoutOffsetCount
  <1>2. TypeInv
    BY TypeInvInit
  <1>3. Crashes \in Nat /\ MaxAttempts[rung] \in Nat
    BY <1>2, CrashCount, AttemptLimits
  <1>4. QED BY <1>1, <1>3 DEF RungFits, Pending

LEMMA AlwaysRungs ==
  ASSUME OneThread
  PROVE  Spec => []RungInv
  BY RungInit, AlwaysTyped, AlwaysControl, AlwaysUncertain, AlwaysEarned, RungStep, PTL DEF Spec

-----------------------------------------------------------------------------
(* An incident that needed an action is closed as recovered with its audit.*)

Untouched == \A r \in Rungs : issued[r] = 0
Audited == row.count["HEALING_RECOVERED"] > 0
RecoveryInv ==
  /\ RecoveryAudited
  /\ \A w \in Workers : local[w].pc = "closeRecovered" => Untouched \/ Audited

\* What the log counts, it keeps counting.
CountsKept(r, n) == \A e \in CountedEvents : n.count[e] >= r.count[e]
LEMMA EventKeeps ==
  ASSUME NEW r \in Rows, NEW n, NEW e, EventRow(r, n, e)
  PROVE  CountsKept(r, n)
  <1>1. r.count \in [CountedEvents -> 0..CountCap]
    BY PolicyCounts
  <1>2. \A x \in CountedEvents : n.count[x] = r.count[x] \/ n.count[x] = Bump(r.count[x])
    BY <1>1, CountedFields DEF EventRow
  <1>3. QED BY <1>1, <1>2, BumpType, Caps DEF CountsKept

LEMMA SameKeeps ==
  ASSUME NEW r \in Rows, NEW n, n.count = r.count
  PROVE  CountsKept(r, n)
  <1>1. r.count \in [CountedEvents -> 0..CountCap]
    BY PolicyCounts
  <1>2. QED BY <1>1, Caps DEF CountsKept

LEMMA StepCounts ==
  ASSUME TypeInv, ControlInv, NEW w \in Workers, Step(w)
  PROVE  CountsKept(row, row')
  <1>1. CASE Roaming(w)
    BY <1>1, HeldTypes, EventKeeps, SameKeeps DEF Roaming, QuietRow, SameLog
  <1>2. CASE Deciding(w)
    BY <1>2, HeldTypes, EventKeeps DEF Deciding
  <1>3. CASE Logging(w)
    BY <1>3, HeldTypes, EventKeeps, SameKeeps DEF Logging
  <1>4. CASE Renaming(w)
    BY <1>4, HeldTypes, SameKeeps DEF Renaming, RenamedRow
  <1>5. CASE Noticed(w) \/ Missed(w) \/ Acting(w)
    BY <1>5, HeldTypes, SameKeeps DEF Noticed, Missed, Acting
  <1>6. QED BY <1>1, <1>2, <1>3, <1>4, <1>5, StepKinds

\* Only _handle_healthy completes an incident.
LEMMA CompletedBy ==
  ASSUME TypeInv, ControlInv, NEW w \in Workers, Step(w), row'.status = "COMPLETED",
         row.status # "COMPLETED"
  PROVE  local[w].pc = "closeRecovered"
  <1>1. CASE Arrive(w)
    BY <1>1, ArriveEffect DEF Arrived
  <1>2. CASE Assess(w) /\ ~Observe(w) /\ ~Confirm(w)
    BY <1>2, CheckEffect
  <1>3. CASE Observe(w) \/ Confirm(w)
    BY <1>3, HealthRows DEF EventRow
  <1>4. CASE Audit(w)
    BY <1>4, AuditRows DEF EventRow
  <1>5. CASE Rename(w)
    BY <1>5, RenameEffect DEF RenamedRow
  <1>6. CASE Close(w)
    BY <1>6, CloseEffect
  <1>7. CASE Act(w)
    BY <1>7, ActLines
  <1>8. CASE DeleteSuperseded(w)
    BY <1>8 DEF DeleteSuperseded
  <1>9. CASE Settle(w) /\ ~DeleteSuperseded(w)
    <2>1. row' = row \/ SettleWrite(local[w], row')
      BY <1>9, SettleEffect DEF Reread
    <2>2. QED BY <2>1 DEF SettleWrite, EventRow
  <1>10. QED
    BY <1>1, <1>2, <1>3, <1>4, <1>5, <1>6, <1>7, <1>8, <1>9 DEF Step, Assess, Record

\* It is reached without an action in the log, or right after the audit.
LEMMA RecoveredBy ==
  ASSUME TypeInv, ControlInv, NEW w \in Workers, Step(w), local'[w].pc = "closeRecovered"
  PROVE  \/ /\ local[w].pc = "check" /\ ActionCount(local[w].job) = 0
            /\ row' = row /\ issued' = issued
         \/ row'.count["HEALING_RECOVERED"] > 0
  <1> DEFINE m == local'[w]
  <1>1. ~Raised(w) /\ ~Left(w) /\ m # Idle
    BY RestingPcs
  <1>2. CASE Arrive(w)
    BY <1>1, <1>2, ArriveEffect DEF Arrived, Carried, Went
  <1>3. CASE Assess(w) /\ ~Observe(w) /\ ~Confirm(w)
    BY <1>1, <1>3, CheckEffect, FirstStepPcs DEF Checked, Carried, Quiet, history
  <1>4. CASE Observe(w) \/ Confirm(w)
    BY <1>1, <1>4, HealthRows, FirstStepPcs DEF DecidedPc
  <1>5. CASE Audit(w)
    BY <1>1, <1>5, AuditRows DEF AuditLine, Went
  <1>6. CASE Rename(w)
    BY <1>1, <1>6, RenameEffect DEF RenameLine, Went
  <1>7. CASE Close(w)
    BY <1>1, <1>7, CloseEffect DEF Went
  <1>8. CASE Act(w)
    BY <1>1, <1>8, ActLines DEF ActLine, Went
  <1>9. CASE DeleteSuperseded(w)
    BY <1>9, GotoEffect DEF DeleteSuperseded, Went
  <1>10. CASE Settle(w) /\ ~DeleteSuperseded(w)
    <2>1. SettleWrite(local[w], row') /\ SettleMove(w)
      BY <1>1, <1>10, SettleEffect DEF Reread
    <2>2. EventRow(row, row', "HEALING_RECOVERED")
      BY <1>1, <2>1 DEF SettleMove, Left, Went, SettleWrite
    <2>3. row.count \in [CountedEvents -> 0..CountCap]
      BY HeldTypes, PolicyCounts
    <2>4. row'.count["HEALING_RECOVERED"] = Bump(row.count["HEALING_RECOVERED"])
      BY <2>2, <2>3, CountedFields, CountedNames DEF EventRow
    <2>5. QED BY <2>3, <2>4, BumpType, CountedNames
  <1>11. QED
    BY <1>2, <1>3, <1>4, <1>5, <1>6, <1>7, <1>8, <1>9, <1>10 DEF Step, Assess, Record

\* Without a crash, an open incident whose log has no action had none requested.
LEMMA NothingRequested ==
  ASSUME TypeInv, ControlInv, UncertainInv, OrderInv, RungInv, Crashes = 0,
         NEW w \in Workers, local[w].pc = "check", ActionCount(local[w].job) = 0
  PROVE  Untouched
  <1>1. local[w].job.count = row.count
    BY InSyncNow DEF SpentPcs, NewNamePcs, NewCountPcs, FreePcs, DoubtPcs
  <1>2. TaskRestartCount(row) = 0 /\ ConnectorRestartCount(row) = 0
    <2> DEFINE a == TaskRestartCount(row)
               b == ConnectorRestartCount(row)
               c == WithOffsetCount(row)
               d == WithoutOffsetCount(row)
    <2>1. a + b + c + d = 0
      BY <1>1
      DEF ActionCount, TaskRestartCount, ConnectorRestartCount, WithOffsetCount,
          WithoutOffsetCount
    <2>2. a \in Nat /\ b \in Nat /\ c \in Nat /\ d \in Nat
      BY HeldTypes, PolicyCounts, Caps
    <2> HIDE DEF a, b, c, d
    <2>3. a = 0 /\ b = 0
      BY <2>1, <2>2
    <2>4. QED BY <2>3 DEF a, b
  <1>3. ~uncertain /\ row.status \notin {"COMPLETED", "ESCALATED"}
    BY DEF UncertainInv, HeldBackPcs, ControlInv, Fits, StatusFits, FreePcs, DoubtPcs, IsOpen,
           OpenStatuses
  <1>4. ASSUME NEW rung \in {"TASKS", "CONNECTOR"} PROVE issued[rung] = 0
    <2>1. rung \in CountedRungs /\ rung \in Rungs
      BY DEF CountedRungs, Rungs
    <2>2. Done(row, rung) = 0 /\ Pending(local[w].pc, rung) = 0
      BY <1>2, <1>3 DEF Done, Pending, Window
    <2>3. issued[rung] <= Done(row, rung) + Crashes + Pending(local[w].pc, rung)
      BY <1>3, <2>1 DEF RungInv, RungFits
    <2>4. QED BY <2>1, <2>2, <2>3, IssuedCounts
  <1>5. QED BY <1>4, IssuedCounts, RungNames DEF OrderInv, Untouched, Rungs

LEMMA StepRecovery ==
  ASSUME TypeInv, TypeInv', OneThread, ControlInv, ControlInv', UncertainInv, OrderInv, RungInv,
         Crashes = 0, RecoveryInv, NEW w \in Workers, Step(w)
  PROVE  RecoveryInv'
  <1>1. Audited => Audited'
    <2>1. row.count["HEALING_RECOVERED"] \in Nat /\ row'.count["HEALING_RECOVERED"] \in Nat
      BY HeldTypes, NextHeldTypes, PolicyCounts, CountedNames, Caps
    <2>2. QED BY <2>1, StepCounts, CountedNames DEF CountsKept, Audited
  <1>2. CASE local[w].pc \notin DispatchPcs
    <2>1. issued' = issued
      BY <1>2, StepKinds, DecidingQuiet, PcsIncludeAll, PcKinds
      DEF Roaming, Noticed, Missed, Logging, Renaming, Acting, Quiet, history, ActLine,
          RestartPcs, WithOffsetPcs, RetryPcs, WithoutOffsetPcs
    <2>2. RecoveryAudited'
      <3>1. CASE row.status = "COMPLETED"
        BY <1>1, <2>1, <3>1 DEF RecoveryInv, RecoveryAudited, Audited
      <3>2. CASE row.status # "COMPLETED" /\ row'.status = "COMPLETED"
        <4>1. Untouched \/ Audited
          BY <3>2, CompletedBy DEF RecoveryInv
        <4>2. QED BY <1>1, <2>1, <4>1, IssuedCounts DEF Untouched, Audited, RecoveryAudited
      <3>3. QED BY <3>1, <3>2 DEF RecoveryAudited
    <2>3. local'[w].pc = "closeRecovered" => Untouched' \/ Audited'
      BY <2>1, RecoveredBy, NothingRequested DEF Untouched, Audited
    <2>4. QED BY <2>2, <2>3 DEF RecoveryInv, OneThread
  <1>3. CASE local[w].pc \in DispatchPcs
    <2>1. row.status \notin {"COMPLETED", "ESCALATED"} /\ local[w].pc # "closeRecovered"
      BY <1>3, ExecutorsCalm, PcKinds
      DEF Calm, RestartPcs, WithOffsetPcs, RetryPcs, WithoutOffsetPcs
    <2>2. row'.status # "COMPLETED"
      BY <2>1, CompletedBy
    <2>3. local'[w].pc = "closeRecovered" => Audited'
      BY <1>3, RecoveredBy, PcKinds
      DEF Audited, RestartPcs, WithOffsetPcs, RetryPcs, WithoutOffsetPcs
    <2>4. QED BY <2>2, <2>3 DEF RecoveryInv, RecoveryAudited, OneThread
  <1>4. QED BY <1>2, <1>3

\* No crash so far, if there is none now.
LEMMA NotCrashedBefore ==
  ASSUME TypeInv, Crashes' = 0
  PROVE  /\ \A w \in Workers : Step(w) => Crashes = 0
         /\ Environment => Crashes = 0
  <1>1. Crashes \in Nat
    BY CrashCount
  <1>2. Environment => Crashes' \in {Crashes, Crashes + 1}
    BY EnvironmentWeather DEF Weathered
  <1>3. QED BY <1>1, <1>2, StepCrashes

UncrashedRecovery == Crashes = 0 => RecoveryInv
LEMMA RecoveryStep ==
  ASSUME OneThread
  PROVE  TypeInv /\ TypeInv' /\ ControlInv /\ ControlInv' /\ UncertainInv /\ OrderInv /\ RungInv
           /\ UncrashedRecovery /\ [Next]_vars => UncrashedRecovery'
  <1> SUFFICES ASSUME TypeInv, TypeInv', ControlInv, ControlInv', UncertainInv, OrderInv, RungInv,
                      UncrashedRecovery, [Next]_vars, Crashes' = 0
               PROVE  RecoveryInv'
    BY DEF UncrashedRecovery
  <1>1. ASSUME NEW w \in Workers, Step(w) PROVE RecoveryInv'
    BY <1>1, NotCrashedBefore, StepRecovery DEF UncrashedRecovery
  <1>2. CASE Environment
    <2>1. Weathered /\ RecoveryInv
      BY <1>2, EnvironmentWeather, NotCrashedBefore DEF UncrashedRecovery
    <2>2. ASSUME NEW w \in Workers PROVE local'[w].pc \in {local[w].pc, "idle"}
      BY <2>1, RestingPcs DEF Weathered, SameThread
    <2>3. QED
      BY <2>1, <2>2 DEF Weathered, RecoveryInv, RecoveryAudited, Untouched, Audited
  <1>3. CASE UNCHANGED vars
    BY <1>3 DEF UncrashedRecovery, RecoveryInv, RecoveryAudited, Untouched, Audited, vars, Crashes
  <1>4. QED BY <1>1, <1>2, <1>3 DEF Next

LEMMA RecoveryInit == Init => UncrashedRecovery
  BY RestingPcs DEF Init, UncrashedRecovery, RecoveryInv, RecoveryAudited, NoRow

\* Until the process crashes, _handle_healthy closes an incident as recovered
\* without HEALING_RECOVERED only if the log holds no action, and then none was
\* requested: whatever call failed in between, its action was logged, or its
\* doubt escalated the incident.
THEOREM RecoveriesAudited ==
  ASSUME OneThread
  PROVE  Spec => [](Crashes = 0 => RecoveryAudited)
  <1>1. UncrashedRecovery => (Crashes = 0 => RecoveryAudited)
    BY DEF UncrashedRecovery, RecoveryInv
  <1>2. QED
    BY <1>1, RecoveryInit, RecoveryStep, AlwaysTyped, AlwaysControl, AlwaysUncertain,
       AlwaysOrdered, AlwaysRungs, PTL DEF Spec

-----------------------------------------------------------------------------
(* The head of the line of connectors: nothing runs beyond the connector   *)
(* that the queue row names, or the last one that the log names.           *)

\* The last version the row, or the job, knows of.
LastNamed(job) == IF job.details.new # NoName THEN job.details.new ELSE job.name
DeadAbove(k, n) == \A v \in Versions : v > n => k[v] \notin Live

\* Before the replacement is resumed, or created running;
UnresumedPcs ==
  {"configWith", "capture", "logCaptured", "logNothingCaptured", "logNoOffsets",
   "logNoHistory", "stopOld", "create", "renameTimeout", "logTimeout", "patch", "renamePatch",
   "logPatch", "resume"}
UnreplacedPcs == {"configWithout", "stopForFresh", "createFresh"}
\* where the replaced connector was stopped,
HaltedPcs ==
  {"create", "renameTimeout", "patch", "renamePatch", "resume", "renameResume", "logWith",
   "createFresh", "logWithout"}
\* and where the log does not yet say how the recreate ended.
UnloggedPcs == CapturedPcs \cup UnreplacedPcs \cup {"logWithout", "logWithoutFailed"}

HeadRow(k, r) ==
  /\ k[r.name] \in Live => DeadAbove(k, r.name)
  /\ r.latest \in ManagedStoppedEvents => DeadAbove(k, LastNamed(r))
  /\ r.latest \in WithOffsetRetryEvents => r.details.new = r.name
HeadThread(k, r, l) ==
  /\ l.pc \in {"observe", "confirm"} =>
       /\ DeadAbove(k, LastNamed(l.job))
       /\ l.res # "STOPPED" \/ l.job.latest \in WithOffsetRetryEvents => DeadAbove(k, l.job.name)
       /\ l.res = "STOPPED" => k[l.job.name] \notin Live
  /\ l.pc \in WithOffsetPcs \cup {"logWithout", "logWithoutFailed", "renameWithout"} =>
       DeadAbove(k, Replacement(l.job))
  /\ l.pc \in UnresumedPcs \cup RetryPcs => DeadAbove(k, l.job.name)
  /\ l.pc \in UnreplacedPcs => DeadAbove(k, LastNamed(l.job))
  /\ l.pc \in HaltedPcs => k[l.job.name] \notin Live
  /\ l.pc = "logTimeout" => r.name = Replacement(l.job)
  /\ l.pc \in UnloggedPcs => r.latest \notin ManagedStoppedEvents
HeadInv == HeadRow(kc, row) /\ \A w \in Workers : HeadThread(kc, row, local[w])

LEMMA LastNamedType ==
  ASSUME NEW job \in Rows
  PROVE  /\ job.name \in Nat /\ LastNamed(job) \in Nat /\ Replacement(job) = LastNamed(job) + 1
         /\ Numbered(job) => LastNamed(job) >= job.name
         /\ job.details.new = job.name => LastNamed(job) = job.name
         /\ job.details.new = NoName => LastNamed(job) = job.name
  BY Caps DEF LastNamed, Replacement, Numbered, Rows, Details, Names, NoName, Versions

LEMMA DeadHigher ==
  ASSUME NEW k, NEW m \in Nat, NEW n \in Nat, m <= n, DeadAbove(k, m)
  PROVE  DeadAbove(k, n)
  BY Caps DEF DeadAbove, Versions

LEMMA DeadKept ==
  ASSUME NoneRevives, NEW n, DeadAbove(kc, n)
  PROVE  DeadAbove(kc', n)
  BY DEF NoneRevives, DeadAbove

LEMMA RestHead ==
  ASSUME NEW k, NEW r, NEW l, l.pc \in RestPcs
  PROVE  HeadThread(k, r, l)
  BY DEF HeadThread, RestPcs, PlainPcs, WithOffsetPcs, RetryPcs, UnresumedPcs, UnreplacedPcs,
         HaltedPcs, UnloggedPcs, CapturedPcs

LEMMA VersionsNamed ==
  ASSUME TypeInv
  PROVE  row \in Rows /\ row.name \in Versions
  BY DEF TypeInv, Rows

LEMMA QuietHead ==
  ASSUME TypeInv, HeadRow(kc, row), QuietRow, NoneRevives
  PROVE  HeadRow(kc', row')
  <1>1. /\ row'.name = row.name
        /\ \/ row'.latest = row.latest /\ row'.details = row.details
           \/ row'.latest \notin ManagedStoppedEvents \cup WithOffsetRetryEvents
    BY LadderEventsCounted DEF QuietRow, SameLog, EventRow
  <1>2. kc'[row.name] \in Live => kc[row.name] \in Live
    BY VersionsNamed DEF NoneRevives
  <1>3. LastNamed(row') = LastNamed(row) \/ row'.latest \notin ManagedStoppedEvents
    BY <1>1, LadderEventsCounted DEF LastNamed
  <1>4. QED BY <1>1, <1>2, <1>3, DeadKept, LadderEventsCounted DEF HeadRow

LEMMA RoamingHead ==
  ASSUME TypeInv, OneThread, HeadInv, NEW w \in Workers, Roaming(w)
  PROVE  HeadInv'
  <1>1. HeadRow(kc', row')
    BY QuietHead DEF Roaming, HeadInv
  <1>2. HeadThread(kc', row', local'[w])
    BY RestHead DEF Roaming
  <1>3. QED BY <1>1, <1>2 DEF HeadInv, OneThread

LEMMA NoticedHead ==
  ASSUME TypeInv, OneThread, ControlInv, HeadInv, NEW w \in Workers, Noticed(w) \/ Missed(w)
  PROVE  HeadInv'
  <1> DEFINE l == local[w]
             m == local'[w]
  <1>1. /\ kc' = kc /\ row' = row /\ l.pc = "check" /\ m.job = l.job
        /\ m.pc \in {"observe", "configRetry"}
    BY DEF Noticed, Missed, Quiet, Carried, cluster
  <1>2. /\ l.job.name = row.name /\ l.job.latest = row.latest /\ l.job.details = row.details
        /\ l.job \in Rows /\ Numbered(l.job)
    BY <1>1, HeldTypes
    DEF ControlInv, Fits, InSync, FreshPcs, SpentPcs, NewNamePcs, FreePcs, DoubtPcs
  <1>3. LastNamed(row) = LastNamed(l.job)
    BY <1>2 DEF LastNamed
  <1>4. HeadRow(kc, row)
    BY DEF HeadInv
  <1>5. l.job.latest \in WithOffsetRetryEvents => DeadAbove(kc, l.job.name)
    BY <1>2, <1>3, <1>4, LastNamedType, LadderEventsCounted DEF HeadRow
  <1>6. kc[l.job.name] \in Live =>
          DeadAbove(kc, l.job.name) /\ DeadAbove(kc, LastNamed(l.job))
    BY <1>2, <1>4, LastNamedType, DeadHigher DEF HeadRow
  <1>7. l.job.latest \in ManagedStoppedEvents => DeadAbove(kc, LastNamed(l.job))
    BY <1>2, <1>3, <1>4 DEF HeadRow
  <1>8. HeadThread(kc, row, m)
    <2>1. CASE Noticed(w)
      <3>1. m.pc = "observe"
        BY <2>1 DEF Noticed, Carried
      <3>2. \/ kc[l.job.name] \in Live /\ m.res # "STOPPED"
            \/ /\ kc[l.job.name] = "STOPPED" /\ l.job.latest \in ManagedStoppedEvents
               /\ m.res = "STOPPED"
        BY <2>1 DEF Noticed, IsManagedStopped
      <3>3. QED
        BY <1>1, <1>5, <1>6, <1>7, <3>1, <3>2
        DEF HeadThread, Live, WithOffsetPcs, RetryPcs, UnresumedPcs, UnreplacedPcs, HaltedPcs,
            UnloggedPcs, CapturedPcs
    <2>2. CASE Missed(w)
      <3>1. m.pc = "configRetry" /\ l.job.latest \in WithOffsetRetryEvents
        BY <2>2 DEF Missed, Carried
      <3>2. QED
        BY <1>1, <1>5, <3>1
        DEF HeadThread, WithOffsetPcs, RetryPcs, UnresumedPcs, UnreplacedPcs, HaltedPcs,
            UnloggedPcs, CapturedPcs
    <2>3. QED BY <2>1, <2>2
  <1>9. QED BY <1>1, <1>4, <1>8 DEF HeadInv, OneThread

LEMMA DecidingHead ==
  ASSUME TypeInv, TypeInv', OneThread, ControlInv', EarnedInv, EarnedInv', HeadInv,
         NEW w \in Workers, Deciding(w)
  PROVE  HeadInv'
  <1> DEFINE l == local[w]
             m == local'[w]
  <1>1. /\ QuietRow /\ kc' = kc /\ m.job.latest = l.job.latest /\ m.job.name = l.job.name
        /\ m.job.details = l.job.details /\ m.res = l.res /\ row'.latest \in QuietEvents
        /\ l.pc \in {"observe", "confirm"}
    BY DecidingQuiet DEF Deciding
  <1>2. HeadRow(kc', row')
    BY <1>1, QuietHead DEF HeadInv, NoneRevives
  <1>3. HeadThread(kc, row, l) /\ Earned(l) /\ Earned(m)
    BY DEF HeadInv, EarnedInv
  <1>4. row'.latest \notin ManagedStoppedEvents
    BY <1>1, LadderEventsCounted
  <1>5. LastNamed(m.job) = LastNamed(l.job) /\ Replacement(m.job) = Replacement(l.job)
    BY <1>1 DEF LastNamed, Replacement
  <1>6. \/ m.pc = "confirm"
        \/ m.pc \in {"refresh", "levelLimit", "escalate", "restartTasks", "restartConnector"}
        \/ m.pc = "configWith" /\ m.job.latest \notin ManagedStoppedEvents
        \/ m.pc = "configRetry" /\ m.job.latest \in WithOffsetRetryEvents
        \/ m.pc = "configWithout"
    BY <1>3, FirstStepPcs DEF Deciding, DecidedPc, Earned, WithOffsetPcs, RetryPcs
  <1>7. /\ DeadAbove(kc, LastNamed(l.job))
        /\ l.res # "STOPPED" \/ l.job.latest \in WithOffsetRetryEvents
             => DeadAbove(kc, l.job.name)
        /\ l.res = "STOPPED" => kc[l.job.name] \notin Live
    BY <1>1, <1>3 DEF HeadThread
  <1>8. m.pc = "configWith" => DeadAbove(kc, m.job.name) /\ DeadAbove(kc, Replacement(m.job))
    <2>1. SUFFICES ASSUME m.pc = "configWith"
                   PROVE  DeadAbove(kc, m.job.name) /\ DeadAbove(kc, Replacement(m.job))
      OBVIOUS
    <2>2. l.res # "STOPPED"
      BY <1>1, <1>3, <1>6, <2>1 DEF Earned
    <2>3. DeadAbove(kc, m.job.name)
      BY <1>1, <1>7, <2>2
    <2>4. Numbered(m.job) /\ m.job \in Rows
      BY <2>1, InSyncNext, NextHeldTypes DEF SpentPcs, NewNamePcs, NewCountPcs, FreePcs, DoubtPcs
    <2>5. Replacement(m.job) \in Nat /\ m.job.name \in Nat /\ m.job.name <= Replacement(m.job)
      BY <2>4, LastNamedType
    <2>6. QED BY <2>3, <2>5, DeadHigher
  <1>9. HeadThread(kc, row', m)
    <2>1. CASE m.pc = "confirm"
      BY <1>1, <1>5, <1>7, <2>1
      DEF HeadThread, WithOffsetPcs, RetryPcs, UnresumedPcs, UnreplacedPcs, HaltedPcs,
          UnloggedPcs, CapturedPcs
    <2>2. CASE m.pc \in {"refresh", "levelLimit", "escalate", "restartTasks", "restartConnector"}
      BY <2>2
      DEF HeadThread, WithOffsetPcs, RetryPcs, UnresumedPcs, UnreplacedPcs, HaltedPcs,
          UnloggedPcs, CapturedPcs
    <2>3. CASE m.pc = "configWith"
      BY <1>8, <2>3
      DEF HeadThread, WithOffsetPcs, RetryPcs, UnresumedPcs, UnreplacedPcs, HaltedPcs,
          UnloggedPcs, CapturedPcs
    <2>4. CASE m.pc = "configRetry" /\ m.job.latest \in WithOffsetRetryEvents
      BY <1>1, <1>7, <2>4
      DEF HeadThread, WithOffsetPcs, RetryPcs, UnresumedPcs, UnreplacedPcs, HaltedPcs,
          UnloggedPcs, CapturedPcs
    <2>5. CASE m.pc = "configWithout"
      BY <1>4, <1>5, <1>7, <2>5
      DEF HeadThread, WithOffsetPcs, RetryPcs, UnresumedPcs, UnreplacedPcs, HaltedPcs,
          UnloggedPcs, CapturedPcs
    <2>6. QED BY <1>6, <2>1, <2>2, <2>3, <2>4, <2>5
  <1>10. QED BY <1>1, <1>2, <1>9 DEF HeadInv, OneThread

\* The names that an executor's event leaves as the last ones.
LEMMA LoggedNames ==
  ASSUME TypeInv, ControlInv, HeadInv, NEW w \in Workers, NEW e, NEW next,
         AuditLine(local[w].pc, e, next), local[w].pc \in AuditPcs,
         EventRow(row, row', e), row'.details = AuditDetails(local[w])
  PROVE  HeadRow(kc, row')
  <1> DEFINE l == local[w]
  <1>1. /\ l.job \in Rows /\ row \in Rows /\ row'.name = row.name /\ row'.latest = e
        /\ row.name \in Nat /\ row.name # NoName
    BY HeldTypes, LastNamedType, Caps DEF EventRow, Rows, Versions, NoName
  <1>2. HeadThread(kc, row, l) /\ HeadRow(kc, row)
    BY DEF HeadInv
  <1>3. CASE e \notin ManagedStoppedEvents
    BY <1>1, <1>2, <1>3, LadderEventsCounted DEF HeadRow
  <1>4. CASE l.pc \in {"logTimeout", "logPatch", "logResume", "logWithFailed", "logWith"}
    <2>1. row'.details.new = Replacement(l.job)
      BY <1>4, AuditDetailsNew
    <2>2. DeadAbove(kc, Replacement(l.job))
      BY <1>2, <1>4 DEF HeadThread, WithOffsetPcs
    <2>3. LastNamed(row') \in {Replacement(l.job), row.name}
      BY <1>1, <2>1 DEF LastNamed
    <2>4. LastNamed(row') = Replacement(l.job) \/ Replacement(l.job) = NoName
      BY <1>1, <2>1 DEF LastNamed
    <2>5. Replacement(l.job) # NoName
      <3>1. l.pc \in NamingPcs
        BY <1>4 DEF NamingPcs, WithOffsetPcs
      <3>2. l \in NamedLocals
        BY HeldTypes
      <3>3. QED BY <3>1, <3>2, Caps DEF NamedLocals, Versions, NoName
    <2>6. e \in WithOffsetRetryEvents => l.pc = "logTimeout"
      BY <1>4 DEF AuditLine, WithOffsetRetryEvents
    <2>7. QED BY <1>1, <1>2, <2>1, <2>2, <2>4, <2>5, <2>6 DEF HeadRow, HeadThread
  <1>5. CASE l.pc \in {"logNoOffsets", "logNoHistory"}
    <2>1. row'.details.new = NoName
      BY <1>5, AuditDetailsNew
    <2>2. DeadAbove(kc, l.job.name) /\ l.job.name = row.name
      BY <1>2, <1>5, InSyncNow
      DEF HeadThread, UnresumedPcs, SpentPcs, NewNamePcs, NewCountPcs, FreePcs, DoubtPcs
    <2>3. LastNamed(row') = row.name
      BY <1>1, <2>1 DEF LastNamed
    <2>4. e \notin WithOffsetRetryEvents
      BY <1>5 DEF AuditLine, WithOffsetRetryEvents
    <2>5. QED BY <1>1, <1>2, <2>2, <2>3, <2>4 DEF HeadRow
  <1>6. CASE l.pc \in {"logRetryStopFailed", "logRetryTimeout", "logRetryPatch",
                       "logRetryResume", "logRetried"}
    <2>1. row'.details.new = l.job.name
      BY <1>6, AuditDetailsNew
    <2>2. DeadAbove(kc, l.job.name) /\ l.job.name = row.name
      BY <1>2, <1>6, InSyncNow
      DEF HeadThread, RetryPcs, SpentPcs, NewNamePcs, NewCountPcs, FreePcs, DoubtPcs
    <2>3. LastNamed(row') = row.name
      BY <1>1, <2>1, <2>2 DEF LastNamed
    <2>4. QED BY <1>1, <1>2, <2>1, <2>2, <2>3 DEF HeadRow
  <1>7. QED
    BY <1>3, <1>4, <1>5, <1>6
    DEF AuditLine, ManagedStoppedEvents, WithOffsetFailureEvents, WithOffsetRetryEvents

LEMMA LoggingThread ==
  ASSUME TypeInv, ControlInv, HeadInv, NEW w \in Workers, NEW e, NEW next,
         AuditLine(local[w].pc, e, next), Went(w, next), row'.latest = e
  PROVE  HeadThread(kc, row', local'[w])
  <1> DEFINE l == local[w]
             m == local'[w]
  <1>1. m.pc = next /\ m.job = l.job /\ HeadThread(kc, row, l)
    BY DEF Went, HeadInv
  <1>2. CASE l.pc \in {"logCaptured", "logNothingCaptured"}
    <2>1. e = "OFFSET_CAPTURED" /\ next \in {"stopOld", "logNoHistory", "logNoOffsets"}
      BY <1>2 DEF AuditLine
    <2>2. e \notin ManagedStoppedEvents
      BY <2>1 DEF ManagedStoppedEvents, WithOffsetFailureEvents, WithOffsetRetryEvents
    <2>3. DeadAbove(kc, l.job.name) /\ DeadAbove(kc, Replacement(l.job))
      BY <1>1, <1>2 DEF HeadThread, UnresumedPcs, WithOffsetPcs
    <2>4. QED
      BY <1>1, <2>1, <2>2, <2>3
      DEF HeadThread, WithOffsetPcs, RetryPcs, UnresumedPcs, UnreplacedPcs, HaltedPcs,
          UnloggedPcs, CapturedPcs
  <1>3. CASE l.pc \in {"logPatch", "logResume", "logWith", "logWithout"}
    <2>1. next \in {"logWithFailed", "renameWith", "renameWithout"}
      BY <1>3 DEF AuditLine
    <2>2. DeadAbove(kc, Replacement(l.job))
      BY <1>1, <1>3 DEF HeadThread, WithOffsetPcs
    <2>3. QED
      BY <1>1, <2>1, <2>2
      DEF HeadThread, WithOffsetPcs, RetryPcs, UnresumedPcs, UnreplacedPcs, HaltedPcs,
          UnloggedPcs, CapturedPcs
  <1>4. CASE next \in {"refresh", "escalate", "close"}
    BY <1>1, <1>4
    DEF HeadThread, WithOffsetPcs, RetryPcs, UnresumedPcs, UnreplacedPcs, HaltedPcs,
        UnloggedPcs, CapturedPcs
  <1>5. QED BY <1>2, <1>3, <1>4 DEF AuditLine

LEMMA RaisedHead ==
  ASSUME NEW w \in Workers, Raised(w), NEW k, NEW r
  PROVE  HeadThread(k, r, local'[w])
  BY RestfulPcs, RestHead

LEMMA LoggingHead ==
  ASSUME TypeInv, OneThread, ControlInv, HeadInv, NEW w \in Workers, Audit(w)
  PROVE  HeadInv'
  <1> DEFINE l == local[w]
  <1>1. PICK e \in EventTypes, next \in Pcs :
          LET r == Logged(row, e, AuditDetails(l))
          IN  /\ AuditLine(l.pc, e, next) /\ l.pc \in AuditPcs
              /\ \/ row' = r /\ Went(w, next)
                 \/ row' \in {row, r} /\ Raised(w)
              /\ UNCHANGED cluster
    BY AuditEffect
  <1>2. kc' = kc
    BY <1>1 DEF cluster
  <1>3. row' = row \/ (EventRow(row, row', e) /\ row'.details = AuditDetails(l))
    <2>1. AuditDetails(l) \in Details /\ row \in Rows
      BY <1>1, HeldTypes, AuditDetailsType
    <2>2. e # "HEALTH_FAILED_CONFIRMED"
      BY <1>1, AuditLineEvents
    <2>3. QED BY <1>1, <2>1, <2>2, LoggedEvent, LoggedFields
  <1>4. HeadRow(kc, row')
    BY <1>1, <1>3, LoggedNames DEF HeadInv
  <1>5. HeadThread(kc, row', local'[w])
    <2>1. CASE Raised(w)
      BY <2>1, RaisedHead
    <2>2. CASE row' = Logged(row, e, AuditDetails(l)) /\ Went(w, next) /\ ~Raised(w)
      <3>1. row'.latest = e
        <4>1. AuditDetails(l) \in Details /\ row \in Rows
          BY <1>1, HeldTypes, AuditDetailsType
        <4>2. e # "HEALTH_FAILED_CONFIRMED"
          BY <1>1, AuditLineEvents
        <4>3. QED BY <2>2, <4>1, <4>2, LoggedFields
      <3>2. QED BY <1>1, <2>2, <3>1, LoggingThread
    <2>3. QED BY <1>1, <2>1, <2>2
  <1>6. QED BY <1>2, <1>4, <1>5 DEF HeadInv, OneThread

LEMMA RenamingHead ==
  ASSUME TypeInv, OneThread, ControlInv, HeadInv, NEW w \in Workers, Renaming(w)
  PROVE  HeadInv'
  <1> DEFINE l == local[w]
             m == local'[w]
             n == Replacement(l.job)
  <1>1. PICK next :
          /\ RenameLine(l.pc, next) /\ Quiet
          /\ \/ RenamedRow(row, row', l.job) /\ Went(w, next)
             \/ (row' = row \/ RenamedRow(row, row', l.job)) /\ Raised(w)
    BY DEF Renaming
  <1>2. kc' = kc /\ HeadThread(kc, row, l) /\ HeadRow(kc, row)
    BY <1>1 DEF Quiet, cluster, HeadInv
  <1>3. DeadAbove(kc, n)
    BY <1>1, <1>2 DEF RenameLine, HeadThread, WithOffsetPcs
  <1>4. row.details.new = NoName \/ row.details.new = n
    BY <1>1 DEF RenameLine, ControlInv, Fits, InSync, CapturedPcs
  <1>5. HeadRow(kc, row')
    <2>1. CASE RenamedRow(row, row', l.job)
      <3>1. row'.name = n /\ row'.latest = row.latest /\ row'.details = row.details
        BY <2>1 DEF RenamedRow
      <3>2. LastNamed(row') = n
        BY <1>4, <3>1 DEF LastNamed
      <3>3. row.latest \in WithOffsetRetryEvents => row.details.new = n
        <4>1. row.name # NoName
          BY HeldTypes, Caps DEF Rows, Versions, NoName
        <4>2. QED BY <1>2, <1>4, <4>1 DEF HeadRow
      <3>4. QED BY <1>3, <3>1, <3>2, <3>3 DEF HeadRow
    <2>2. QED BY <1>1, <1>2, <2>1
  <1>6. HeadThread(kc, row', m)
    <2>1. CASE Raised(w)
      BY <2>1, RaisedHead
    <2>2. CASE RenamedRow(row, row', l.job) /\ Went(w, next)
      <3>1. m.pc = next /\ m.job = l.job /\ row'.name = n
        BY <2>2 DEF Went, RenamedRow
      <3>2. CASE l.pc \in {"renameTimeout", "renamePatch", "renameResume"}
        <4>1. next \in {"logTimeout", "logPatch", "logResume"}
          BY <1>1, <3>2 DEF RenameLine
        <4>2. next \in {"logTimeout", "logPatch"} => DeadAbove(kc, l.job.name)
          BY <1>1, <1>2 DEF RenameLine, HeadThread, UnresumedPcs
        <4>3. QED
          BY <1>3, <3>1, <4>1, <4>2
          DEF HeadThread, WithOffsetPcs, RetryPcs, UnresumedPcs, UnreplacedPcs, HaltedPcs,
              UnloggedPcs, CapturedPcs
      <3>3. CASE next = "dropOld"
        BY <3>1, <3>3
        DEF HeadThread, WithOffsetPcs, RetryPcs, UnresumedPcs, UnreplacedPcs, HaltedPcs,
            UnloggedPcs, CapturedPcs
      <3>4. QED BY <1>1, <3>2, <3>3 DEF RenameLine
    <2>3. QED BY <1>1, <2>1, <2>2
  <1>7. QED BY <1>2, <1>5, <1>6 DEF HeadInv, OneThread

\* A request, as far as the connectors beyond the current one go.
LEMMA ActingRow ==
  ASSUME TypeInv, ControlInv, HeadInv, NEW w \in Workers, Acting(w)
  PROVE  HeadRow(kc', row')
  <1> DEFINE l == local[w]
  <1>1. row' = row /\ Revives(l) /\ HeadThread(kc, row, l) /\ HeadRow(kc, row)
    BY DEF Acting, HeadInv
  <1>2. l.job \in Rows /\ row \in Rows /\ row.name \in Versions /\ Numbered(row)
    BY HeldTypes, VersionsNamed DEF ControlInv
  <1>3. CASE l.pc \notin {"resume", "createFresh", "retryResume"}
    <2>1. NoneRevives
      BY <1>1, <1>3 DEF Revives, Raises, NoneRevives
    <2>2. kc'[row.name] \in Live => kc[row.name] \in Live
      BY <1>2, <2>1 DEF NoneRevives
    <2>3. QED BY <1>1, <2>1, <2>2, DeadKept DEF HeadRow
  <1>4. CASE l.pc \in {"resume", "createFresh"}
    <2>1. l.job.name = row.name /\ Numbered(l.job)
      BY <1>4, InSyncNow
      DEF SpentPcs, NewNamePcs, NewCountPcs, FreePcs, DoubtPcs
    <2>2. kc[row.name] \notin Live /\ row.latest \notin ManagedStoppedEvents
      BY <1>1, <1>4, <2>1 DEF HeadThread, HaltedPcs, UnloggedPcs, CapturedPcs, UnreplacedPcs
    <2>3. Replacement(l.job) # row.name
      BY <1>2, <2>1, ReplacementAbove, LastNamedType
    <2>4. kc'[row.name] \notin Live
      BY <1>1, <1>2, <1>4, <2>2, <2>3 DEF Revives, Raises
    <2>5. QED BY <1>1, <2>2, <2>4, LadderEventsCounted DEF HeadRow
  <1>5. CASE l.pc = "retryResume"
    <2>1. l.job.name = row.name
      BY <1>5, InSyncNow
      DEF SpentPcs, NewNamePcs, NewCountPcs, FreePcs, DoubtPcs
    <2>2. DeadAbove(kc, row.name)
      BY <1>1, <1>5, <2>1 DEF HeadThread, RetryPcs
    <2>3. DeadAbove(kc', row.name)
      BY <1>1, <1>2, <1>5, <2>1, <2>2, LastNamedType DEF Revives, Raises, DeadAbove, Versions
    <2>4. LastNamed(row) \in Nat /\ row.name \in Nat /\ LastNamed(row) >= row.name
      BY <1>2, LastNamedType
    <2>5. DeadAbove(kc', LastNamed(row))
      BY <2>3, <2>4, DeadHigher
    <2>6. QED BY <1>1, <2>3, <2>5 DEF HeadRow
  <1>6. QED BY <1>3, <1>4, <1>5

\* Within an executor that brings nothing up.
LEMMA CalmExecutor ==
  ASSUME TypeInv, ControlInv, HeadInv, NEW w \in Workers, NEW next, row' = row, NoneRevives,
         Went(w, next), ActLine(local[w].pc, next),
         next \in {"create", "createFresh"} => kc'[local[w].job.name] \notin Live,
         local[w].pc \notin {"resume", "createFresh"}
  PROVE  HeadThread(kc', row', local'[w])
  <1> DEFINE l == local[w]
             m == local'[w]
             n == Replacement(l.job)
             v == l.job.name
             b == LastNamed(l.job)
  <1>1. m.pc = next /\ m.job = l.job /\ HeadThread(kc, row, l)
    BY DEF Went, HeadInv
  <1>2. /\ DeadAbove(kc, n) => DeadAbove(kc', n)
        /\ DeadAbove(kc, v) => DeadAbove(kc', v)
        /\ DeadAbove(kc, b) => DeadAbove(kc', b)
    BY DeadKept
  <1>3. kc[v] \notin Live => kc'[v] \notin Live
    BY HeldTypes DEF NoneRevives, Rows
  <1>4. DeadAbove(kc, b) => DeadAbove(kc, n)
    <2>1. b \in Nat /\ n = b + 1
      BY HeldTypes, LastNamedType
    <2>2. b <= n /\ n \in Nat
      BY <2>1
    <2> HIDE DEF b, n
    <2>3. QED BY <2>1, <2>2, DeadHigher
  <1> DEFINE dead == DeadAbove(kc', v)
             tip == DeadAbove(kc', n)
             base == DeadAbove(kc', b)
             halted == kc'[v] \notin Live
             open == row.latest \notin ManagedStoppedEvents
  <1>5. /\ l.pc \in WithOffsetPcs => tip
        /\ l.pc \in UnresumedPcs \cup RetryPcs => dead
        /\ l.pc \in UnreplacedPcs => base /\ tip
        /\ l.pc \in HaltedPcs => halted
        /\ l.pc \in UnloggedPcs => open
        /\ next \in {"create", "createFresh"} => halted
    BY <1>1, <1>2, <1>3, <1>4 DEF HeadThread
  <1> HIDE DEF dead, tip, base, halted, open
  <1>6. /\ next \in WithOffsetPcs \cup {"logWithout", "logWithoutFailed", "renameWithout"} => tip
        /\ next \in UnresumedPcs \cup RetryPcs => dead
    BY <1>5
    DEF ActLine, WithOffsetPcs, RetryPcs, UnresumedPcs, UnreplacedPcs
  <1>7. next \in UnreplacedPcs => base
    BY <1>5 DEF ActLine, UnreplacedPcs
  <1>8. next \in HaltedPcs => halted
    BY <1>5 DEF ActLine, HaltedPcs
  <1>9. next \in UnloggedPcs => open
    BY <1>5 DEF ActLine, UnloggedPcs, CapturedPcs, UnreplacedPcs
  <1>10. next \notin {"observe", "confirm", "logTimeout"}
    BY DEF ActLine
  <1>11. QED
    BY <1>1, <1>6, <1>7, <1>8, <1>9, <1>10
    DEF HeadThread, dead, tip, base, halted, open

\* The replacement is brought up: resumed, or created running.
LEMMA RevivingExecutor ==
  ASSUME TypeInv, ControlInv, HeadInv, NEW w \in Workers, NEW next, row' = row,
         Revives(local[w]), Went(w, next), ActLine(local[w].pc, next),
         local[w].pc \in {"resume", "createFresh"}
  PROVE  HeadThread(kc', row', local'[w])
  <1> DEFINE l == local[w]
             m == local'[w]
             n == Replacement(l.job)
             v == l.job.name
  <1>1. m.pc = next /\ m.job = l.job /\ HeadThread(kc, row, l)
    BY DEF Went, HeadInv
  <1>2. next \in {"logWith", "renameResume", "logWithout", "logWithoutFailed"}
    BY DEF ActLine
  <1>3. l.job \in Rows /\ v \in Versions /\ Numbered(l.job)
    BY HeldTypes, InSyncNow
    DEF Rows, SpentPcs, NewNamePcs, NewCountPcs, FreePcs, DoubtPcs
  <1>4. n \in Nat /\ v \in Nat /\ n > v /\ n = LastNamed(l.job) + 1 /\ LastNamed(l.job) \in Nat
    BY <1>3, LastNamedType, ReplacementAbove
  <1>5. DeadAbove(kc', n)
    <2>1. DeadAbove(kc, n)
      <3>1. CASE l.pc = "resume"
        BY <1>1, <3>1 DEF HeadThread, WithOffsetPcs
      <3>2. CASE l.pc = "createFresh"
        <4>1. DeadAbove(kc, LastNamed(l.job))
          BY <1>1, <3>2 DEF HeadThread, UnreplacedPcs
        <4>2. LastNamed(l.job) <= n
          BY <1>4
        <4>3. QED BY <1>4, <4>1, <4>2, DeadHigher
      <3>3. QED BY <3>1, <3>2
    <2> HIDE DEF n
    <2>2. \A u \in Versions : kc'[u] \in Live => kc[u] \in Live \/ u = n
      BY DEF Revives, Raises, n
    <2>3. QED BY <1>4, <2>1, <2>2, Caps DEF DeadAbove, Versions
  <1>6. kc'[v] \notin Live
    <2>1. kc[v] \notin Live
      BY <1>1 DEF HeadThread, HaltedPcs
    <2>2. QED BY <1>3, <1>4, <2>1 DEF Revives, Raises
  <1>7. next \in {"logWithout", "logWithoutFailed"} => row.latest \notin ManagedStoppedEvents
    BY <1>1 DEF ActLine, HeadThread, UnloggedPcs, UnreplacedPcs
  <1>8. next = "renameResume" => row.latest \notin ManagedStoppedEvents
    BY <1>1 DEF ActLine, HeadThread, UnloggedPcs, CapturedPcs
  <1>9. QED
    BY <1>1, <1>2, <1>5, <1>6, <1>7, <1>8
    DEF HeadThread, WithOffsetPcs, RetryPcs, UnresumedPcs, UnreplacedPcs, HaltedPcs,
        UnloggedPcs, CapturedPcs

LEMMA ActingHead ==
  ASSUME TypeInv, OneThread, ControlInv, HeadInv, NEW w \in Workers, Acting(w)
  PROVE  HeadInv'
  <1> DEFINE l == local[w]
             m == local'[w]
  <1>1. HeadRow(kc', row')
    BY ActingRow
  <1>2. HeadThread(kc', row', m)
    <2>1. CASE Raised(w)
      BY <2>1, RaisedHead
    <2>2. ASSUME NEW next \in Pcs, Went(w, next), ActLine(l.pc, next)
          PROVE  HeadThread(kc', row', m)
      <3>1. CASE l.pc \in {"resume", "createFresh"}
        BY <2>2, <3>1, RevivingExecutor DEF Acting
      <3>2. CASE l.pc = "retryResume"
        <4>1. m.pc = next /\ next \in {"logRetried", "logRetryResume"} /\ m.job = l.job
          BY <2>2, <3>2 DEF Went, ActLine
        <4>2. DeadAbove(kc, l.job.name)
          BY <3>2 DEF HeadInv, HeadThread, RetryPcs
        <4>3. DeadAbove(kc', l.job.name)
          BY <3>2, <4>2, HeldTypes, LastNamedType
          DEF Acting, Revives, Raises, DeadAbove, Versions
        <4>4. QED
          BY <4>1, <4>3
          DEF HeadThread, WithOffsetPcs, RetryPcs, UnresumedPcs, UnreplacedPcs, HaltedPcs,
              UnloggedPcs, CapturedPcs
      <3>3. CASE l.pc \notin {"resume", "createFresh", "retryResume"}
        <4>1. NoneRevives /\ row' = row
          BY <3>3 DEF Acting, Revives, Raises, NoneRevives
        <4>2. next \in {"create", "createFresh"} => kc'[l.job.name] \notin Live
          BY <2>2 DEF Acting, Went
        <4>3. QED BY <2>2, <3>3, <4>1, <4>2, CalmExecutor
      <3>4. QED BY <3>1, <3>2, <3>3
    <2>3. QED BY <2>1, <2>2 DEF Acting
  <1>3. QED BY <1>1, <1>2 DEF HeadInv, OneThread

LEMMA SameHead ==
  ASSUME TypeInv, HeadInv, NoneRevives, row'.name = row.name, row'.latest = row.latest,
         row'.details = row.details, NEW w \in Workers, SameThread(local[w], local'[w])
  PROVE  HeadThread(kc', row', local'[w])
  <1> DEFINE l == local[w]
             m == local'[w]
  <1>1. /\ LastNamed(m.job) = LastNamed(l.job) /\ Replacement(m.job) = Replacement(l.job)
        /\ m.pc = l.pc /\ m.res = l.res /\ m.job.name = l.job.name
        /\ m.job.latest = l.job.latest
    BY DEF SameThread, LastNamed, Replacement
  <1>2. HeadThread(kc, row, l)
    BY DEF HeadInv
  <1>3. kc[l.job.name] \notin Live => kc'[l.job.name] \notin Live
    BY HeldTypes DEF NoneRevives, Rows
  <1>4. \A n : DeadAbove(kc, n) => DeadAbove(kc', n)
    BY DeadKept
  <1>5. QED BY <1>1, <1>2, <1>3, <1>4 DEF HeadThread

\* The first connector is created while the threads get no further than the check.
LEMMA ArisesHead ==
  ASSUME UnbornInv, Arises
  PROVE  HeadInv'
  <1>1. /\ row.name = 0 /\ row.latest \notin ManagedStoppedEvents \cup WithOffsetRetryEvents
        /\ \A w \in Workers : local[w].pc \in UnbornPcs
    BY DEF UnbornInv, Arises, ManagedStoppedEvents, WithOffsetFailureEvents, WithOffsetRetryEvents
  <1>2. DeadAbove(kc', 0)
    BY Caps DEF UnbornInv, Arises, DeadAbove, Versions, Live
  <1>3. row' = row /\ local' = local
    BY DEF Arises
  <1>4. HeadRow(kc', row')
    BY <1>1, <1>2, <1>3 DEF HeadRow
  <1>5. ASSUME NEW w \in Workers PROVE HeadThread(kc', row', local'[w])
    BY <1>1, <1>3, RestHead DEF UnbornPcs, LoosePcs, RestPcs, PlainPcs
  <1>6. QED BY <1>4, <1>5 DEF HeadInv

LEMMA HeadStep ==
  ASSUME OneThread
  PROVE  TypeInv /\ TypeInv' /\ ControlInv /\ ControlInv' /\ EarnedInv /\ EarnedInv' /\ UnbornInv
           /\ HeadInv /\ [Next]_vars => HeadInv'
  <1> SUFFICES ASSUME TypeInv, TypeInv', ControlInv, ControlInv', EarnedInv, EarnedInv', UnbornInv,
                      HeadInv, [Next]_vars
               PROVE  HeadInv'
    OBVIOUS
  <1>1. ASSUME NEW w \in Workers, Step(w) PROVE HeadInv'
    <2>1. CASE Logging(w)
      BY <2>1, LoggingHead DEF Logging
    <2>2. QED
      BY <1>1, <2>1, StepKinds, RoamingHead, NoticedHead, DecidingHead, RenamingHead, ActingHead
  <1>5. CASE Environment /\ Arises
    BY <1>5, ArisesHead
  <1>2. CASE Environment /\ ~Arises
    <2>1. Weathered /\ NoneRevives
      BY <1>2, EnvironmentWeather DEF Weathered
    <2>2. HeadRow(kc', row')
      <3>1. kc'[row.name] \in Live => kc[row.name] \in Live
        BY <2>1, VersionsNamed DEF NoneRevives
      <3>2. LastNamed(row') = LastNamed(row)
        BY <2>1 DEF Weathered, LastNamed
      <3>3. QED BY <2>1, <3>1, <3>2, DeadKept DEF Weathered, HeadInv, HeadRow
    <2>3. ASSUME NEW w \in Workers PROVE HeadThread(kc', row', local'[w])
      <3>1. CASE local'[w] = Idle
        BY <3>1, RestfulPcs, RestHead
      <3>2. QED BY <2>1, <3>1, SameHead DEF Weathered
    <2>4. QED BY <2>2, <2>3 DEF HeadInv
  <1>3. CASE UNCHANGED vars
    BY <1>3 DEF HeadInv, vars
  <1>4. QED BY <1>1, <1>2, <1>3, <1>5 DEF Next

LEMMA HeadInit == Init => HeadInv
  <1> SUFFICES ASSUME Init PROVE HeadInv
    OBVIOUS
  <1>1. row = NoRow /\ row.name = 0 /\ row.latest = "NONE"
    BY DEF Init, NoRow
  <1>2. "NONE" \notin ManagedStoppedEvents \cup WithOffsetRetryEvents
    BY DEF ManagedStoppedEvents, WithOffsetFailureEvents, WithOffsetRetryEvents
  <1>3. DeadAbove(kc, 0)
    BY Caps DEF Init, DeadAbove, Live, Versions
  <1>4. \A w \in Workers : local[w].pc \in RestPcs
    BY RestingPcs DEF Init, RestPcs, PlainPcs
  <1>5. QED BY <1>1, <1>2, <1>3, <1>4, RestHead DEF HeadInv, HeadRow

LEMMA AlwaysHead ==
  ASSUME OneThread
  PROVE  Spec => []HeadInv
  BY HeadInit, AlwaysTyped, AlwaysControl, AlwaysEarned, AlwaysUnborn, HeadStep, PTL DEF Spec

-----------------------------------------------------------------------------
(* The recreate with offsets: the log counts its success and its failure,  *)
(* but not its timeouts, and not the two failures that are logged twice.   *)

\* What crashes may have added: one attempt each, and one per recreate
\* without offsets behind a crash.
Allowance == Crashes + Regained("WITH_OFFSET")
\* No request that the log should speak of, or none at all.
Spared == issued["WITH_OFFSET"] <= Allowance
Unspent == Crashes = 0 => issued["WITH_OFFSET"] = 0

\* The latest event says that a recreate was tried and is not to be retried.
Unfinished(r) ==
  /\ r.latest \in ManagedStoppedEvents
  /\ ~(r.latest \in WithOffsetRetryEvents /\ TimeoutCount(r) = 1)
SparedRow ==
  WithOffsetCount(row) = 0 /\ (TimeoutCount(row) = 0 \/ kc[row.name] \in Live) => Spared
UnspentRow == WithOffsetCount(row) = 0 /\ Unfinished(row) => Unspent
SparedJob(l) ==
  /\ WithOffsetCount(l.job) = 0 /\ (TimeoutCount(l.job) = 0 \/ l.res # "STOPPED") => Spared
  /\ WithOffsetCount(l.job) = 0 /\ Unfinished(l.job) => Unspent

UnstoppedPcs == {"configWith", "capture", "logCaptured", "logNothingCaptured", "stopOld"}
FreshlyStoppedPcs == {"createFresh", "logWithout", "logWithoutFailed", "renameWithout"}
WithThread(l) ==
  /\ l.pc \notin StoppedPcs \cup RetriedPcs \cup {"escalate", "close"} => SparedRow /\ UnspentRow
  /\ l.pc \in {"observe", "confirm"} => SparedJob(l)
  /\ l.pc \in UnstoppedPcs => Spared
  /\ l.pc \in WithoutOffsetPcs /\ WithOffsetCount(row) = 0 => Unspent
  /\ l.pc \in FreshlyStoppedPcs /\ WithOffsetCount(row) = 0 => Spared
  /\ l.pc \in StoppedPcs /\ Crashes = 0 => TimeoutCount(row) = 0
  /\ l.pc = "logTimeout" => kc[row.name] \notin Live
  /\ l.pc = "renameWith" => WithOffsetCount(row) > 0
WithInv ==
  /\ issued["WITH_OFFSET"] <= 1 + Allowance
  /\ Calm => \A w \in Workers : WithThread(local[w])

LEMMA AllowanceType ==
  ASSUME TypeInv
  PROVE  /\ Allowance \in Nat /\ Crashes \in Nat
         /\ issued["WITH_OFFSET"] \in 0..CountCap /\ issued["WITHOUT_OFFSET"] \in 0..CountCap
         /\ issued["WITH_OFFSET"] \in Nat /\ issued["WITHOUT_OFFSET"] \in Nat
         /\ Allowance = IF Crashes > 0 THEN Crashes + issued["WITHOUT_OFFSET"] ELSE 0
  BY CrashCount, IssuedCounts, RungNames DEF Allowance, Regained

LEMMA SparedUnspent ==
  ASSUME TypeInv, Spared
  PROVE  Unspent
  BY AllowanceType DEF Spared, Unspent

\* The allowance never shrinks.
LEMMA SpareKept ==
  ASSUME TypeInv, TypeInv', issued'["WITH_OFFSET"] = issued["WITH_OFFSET"],
         issued'["WITHOUT_OFFSET"] >= issued["WITHOUT_OFFSET"], Crashes' = Crashes
  PROVE  /\ Spared => Spared'
         /\ Unspent => Unspent'
         /\ issued["WITH_OFFSET"] <= 1 + Allowance => (issued["WITH_OFFSET"] <= 1 + Allowance)'
  <1>1. /\ issued'["WITHOUT_OFFSET"] \in Nat
        /\ Allowance' = IF Crashes > 0 THEN Crashes + issued'["WITHOUT_OFFSET"] ELSE 0
    <2>1. issued'["WITHOUT_OFFSET"] \in Nat
      BY Caps, RungNames DEF TypeInv
    <2>2. QED BY <2>1, CrashCount DEF Allowance, Regained
  <1>2. QED BY <1>1, AllowanceType DEF Spared, Unspent

LEMMA WithRowKept ==
  ASSUME Spared => Spared', Unspent => Unspent', SparedRow, UnspentRow,
         WithOffsetCount(row') = WithOffsetCount(row), TimeoutCount(row') = TimeoutCount(row),
         kc'[row'.name] \in Live => kc[row.name] \in Live,
         Unfinished(row') => Unfinished(row)
  PROVE  SparedRow' /\ UnspentRow'
  BY DEF SparedRow, UnspentRow

LEMMA WithSame ==
  ASSUME TypeInv, TypeInv', NEW w \in Workers, Step(w), issued' = issued
  PROVE  /\ Spared => Spared'
         /\ Unspent => Unspent'
         /\ issued["WITH_OFFSET"] <= 1 + Allowance => (issued["WITH_OFFSET"] <= 1 + Allowance)'
  BY StepCrashes, AllowanceType, SpareKept

\* A thread that rests holds the row clauses only.
LEMMA RestWith ==
  ASSUME NEW w \in Workers, local'[w].pc \in RestPcs, SparedRow', UnspentRow'
  PROVE  WithThread(local[w])'
  BY DEF WithThread, RestPcs, PlainPcs, StoppedPcs, WithoutOffsetPcs, UnstoppedPcs,
         FreshlyStoppedPcs

LEMMA QuietWith ==
  ASSUME TypeInv, QuietRow, NoneRevives, SparedRow, UnspentRow, Spared => Spared',
         Unspent => Unspent'
  PROVE  /\ SparedRow' /\ UnspentRow'
         /\ WithOffsetCount(row') = WithOffsetCount(row) /\ TimeoutCount(row') = TimeoutCount(row)
  <1>1. /\ WithOffsetCount(row') = WithOffsetCount(row) /\ TimeoutCount(row') = TimeoutCount(row)
    BY QuietActions, SameActionCounts
  <1>2. row'.name = row.name
    BY DEF QuietRow, SameLog, EventRow
  <1>3. kc'[row'.name] \in Live => kc[row.name] \in Live
    BY <1>2, VersionsNamed DEF NoneRevives
  <1>4. Unfinished(row') => Unfinished(row)
    BY <1>1, QuietCounts, LadderEventsCounted DEF Unfinished
  <1>5. QED BY <1>1, <1>3, <1>4, WithRowKept

LEMMA RoamingWith ==
  ASSUME TypeInv, TypeInv', OneThread, ControlInv, UncertainInv, WithInv, NEW w \in Workers,
         Step(w), Roaming(w)
  PROVE  WithInv'
  <1>1. /\ issued' = issued /\ QuietRow /\ NoneRevives /\ local[w].pc \in LoosePcs
        /\ local'[w].pc \in RestPcs
    BY DEF Roaming
  <1>2. (issued["WITH_OFFSET"] <= 1 + Allowance)'
    BY <1>1, WithSame DEF WithInv
  <1>3. ASSUME Calm' PROVE WithThread(local[w])'
    <2>1. local[w].pc # "close"
      BY <1>3 DEF Roaming, Calm
    <2>2. WithThread(local[w])
      BY <1>3, CalmBefore DEF WithInv
    <2>3. SparedRow /\ UnspentRow
      BY <1>1, <2>1, <2>2 DEF WithThread, LoosePcs, StoppedPcs, RetriedPcs
    <2>4. SparedRow' /\ UnspentRow'
      BY <1>1, <2>3, WithSame, QuietWith
    <2>5. QED BY <1>1, <2>4, RestWith
  <1>4. QED BY <1>2, <1>3 DEF WithInv, OneThread

LEMMA NoticedWith ==
  ASSUME TypeInv, TypeInv', OneThread, ControlInv, UncertainInv, WithInv, NEW w \in Workers,
         Step(w), Noticed(w) \/ Missed(w)
  PROVE  WithInv'
  <1> DEFINE l == local[w]
             m == local'[w]
  <1>1. /\ issued' = issued /\ row' = row /\ kc' = kc /\ l.pc = "check" /\ m.job = l.job
        /\ m.pc \in {"observe", "configRetry"}
        /\ m.pc = "observe" /\ m.res # "STOPPED" => kc[l.job.name] \in Live
    BY DEF Noticed, Missed, Quiet, Carried, history, cluster
  <1>2. (issued["WITH_OFFSET"] <= 1 + Allowance)'
    BY <1>1, WithSame DEF WithInv
  <1>3. ASSUME Calm' PROVE WithThread(local[w])'
    <2>1. WithThread(l)
      BY <1>3, CalmBefore DEF WithInv
    <2>2. SparedRow /\ UnspentRow
      BY <1>1, <2>1 DEF WithThread, StoppedPcs, RetriedPcs
    <2>3. SparedRow' /\ UnspentRow' /\ (Spared => Spared') /\ (Unspent => Unspent')
      BY <1>1, <2>2, WithSame, WithRowKept
    <2>4. l.job.name = row.name /\ l.job.latest = row.latest /\ l.job.count = row.count
      BY <1>1
      DEF ControlInv, Fits, InSync, FreshPcs, SpentPcs, NewNamePcs, NewCountPcs, FreePcs, DoubtPcs
    <2>5. /\ WithOffsetCount(l.job) = WithOffsetCount(row)
          /\ TimeoutCount(l.job) = TimeoutCount(row)
          /\ Unfinished(l.job) = Unfinished(row)
      BY <2>4 DEF WithOffsetCount, TimeoutCount, Unfinished
    <2>6. m.pc = "observe" => SparedJob(local[w])'
      BY <1>1, <2>2, <2>3, <2>4, <2>5 DEF SparedJob, SparedRow, UnspentRow
    <2>7. QED
      BY <1>1, <2>3, <2>6
      DEF WithThread, StoppedPcs, WithoutOffsetPcs, UnstoppedPcs, FreshlyStoppedPcs
  <1>4. QED BY <1>2, <1>3 DEF WithInv, OneThread

\* The policy goes without offsets only past a recreate that was tried with them.
LEMMA WithoutReason ==
  ASSUME NEW m, m.job \in Rows, DecidedPc(m), m.pc = "configWithout"
  PROVE  WithOffsetCount(m.job) > 0 \/ Unfinished(m.job)
  <1> DEFINE action == DecideUnhealthy(m.job, m.res = "TASKS")
  <1>1. action = "RECREATE_WITHOUT_OFFSET"
    <2>1. m.pc = FirstStep(m, action)
      BY DEF DecidedPc
    <2> HIDE DEF action
    <2>2. QED BY <2>1, FirstStepCases
  <1>2. CASE m.job.latest \in ManagedStoppedEvents
    <2>1. ~(m.job.latest \in WithOffsetRetryEvents /\ TimeoutCount(m.job) < WithOffsetTimeoutMax)
      BY <1>1, <1>2 DEF DecideUnhealthy, RecreateFollowUp
    <2>2. ~(m.job.latest \in WithOffsetRetryEvents /\ TimeoutCount(m.job) = 1)
      BY <2>1 DEF WithOffsetTimeoutMax
    <2>3. QED BY <1>2, <2>2 DEF Unfinished
  <1>3. CASE m.job.latest \notin ManagedStoppedEvents
    <2>1. WithOffsetCount(m.job) # 0
      BY <1>1, <1>3 DEF DecideUnhealthy
    <2>2. QED BY <2>1, PolicyCounts
  <1>4. QED BY <1>2, <1>3

LEMMA DecidingWith ==
  ASSUME TypeInv, TypeInv', OneThread, ControlInv, ControlInv', UncertainInv, EarnedInv,
         EarnedInv', WithInv, NEW w \in Workers, Step(w), Deciding(w)
  PROVE  WithInv'
  <1> DEFINE l == local[w]
             m == local'[w]
  <1>1. /\ QuietRow /\ issued' = issued /\ kc' = kc /\ m.job.latest = l.job.latest
        /\ m.res = l.res /\ l.pc \in {"observe", "confirm"}
        /\ SameActions(l.job, m.job)
    BY DecidingQuiet DEF Deciding
  <1>2. (issued["WITH_OFFSET"] <= 1 + Allowance)'
    BY <1>1, WithSame DEF WithInv
  <1>3. Earned(l) /\ Earned(m) /\ m.job \in Rows
    BY NextHeldTypes DEF EarnedInv
  <1>4. \/ m.pc \in {"confirm", "refresh", "levelLimit", "escalate", "restartTasks",
                     "restartConnector", "configRetry"}
        \/ m.pc = "configWith" /\ WithOffsetCount(m.job) = 0 /\ l.res # "STOPPED"
        \/ /\ m.pc = "configWithout"
           /\ WithOffsetCount(m.job) > 0 \/ Unfinished(m.job)
    <2>1. m.pc = "confirm" \/ DecidedPc(m)
      BY DEF Deciding
    <2>2. m.pc = "configWith" =>
            WithOffsetCount(m.job) = 0 /\ m.job.latest \notin ManagedStoppedEvents
      BY <1>3 DEF Earned, WithOffsetPcs
    <2>3. l.res = "STOPPED" => l.job.latest \in ManagedStoppedEvents
      BY <1>1, <1>3 DEF Earned
    <2>4. m.pc = "configWithout" => WithOffsetCount(m.job) > 0 \/ Unfinished(m.job)
      BY <1>3, <2>1, WithoutReason
    <2>5. QED BY <1>1, <2>1, <2>2, <2>3, <2>4, FirstStepPcs DEF DecidedPc
  <1>5. ASSUME Calm' PROVE WithThread(local[w])'
    <2>1. WithThread(l)
      BY <1>5, CalmBefore DEF WithInv
    <2>2. SparedRow /\ UnspentRow /\ SparedJob(l)
      BY <1>1, <2>1 DEF WithThread, StoppedPcs, RetriedPcs
    <2>3. SparedRow' /\ UnspentRow' /\ (Spared => Spared') /\ (Unspent => Unspent')
      BY <1>1, <2>2, WithSame, QuietWith DEF NoneRevives
    <2>4. /\ WithOffsetCount(m.job) = WithOffsetCount(l.job)
          /\ TimeoutCount(m.job) = TimeoutCount(l.job)
      BY <1>1, SameActionCounts
    <2>5. Unfinished(m.job) = Unfinished(l.job)
      BY <1>1, <2>4 DEF Unfinished
    <2>6. SparedJob(local[w])'
      BY <1>1, <2>2, <2>3, <2>4, <2>5 DEF SparedJob
    <2>7. m.pc = "configWith" => Spared'
      BY <1>4, <2>2, <2>3, <2>4 DEF SparedJob
    <2>8. m.pc = "configWithout" /\ WithOffsetCount(row') = 0 => Unspent'
      <3>1. m.pc = "configWithout" => m.job.count = row'.count
        BY InSyncNext DEF SpentPcs, NewNamePcs, NewCountPcs, FreePcs, DoubtPcs
      <3>2. m.pc = "configWithout" => WithOffsetCount(m.job) = WithOffsetCount(row')
        BY <3>1 DEF WithOffsetCount
      <3>3. QED BY <1>4, <2>2, <2>3, <2>4, <2>5, <3>2 DEF SparedJob
    <2>9. QED
      BY <1>4, <2>3, <2>6, <2>7, <2>8
      DEF WithThread, StoppedPcs, WithoutOffsetPcs, UnstoppedPcs, FreshlyStoppedPcs
  <1>6. QED BY <1>2, <1>5 DEF WithInv, OneThread

\* What an executor's event does to the counts that matter here.
LEMMA LoggedWith ==
  ASSUME NEW r \in Rows, NEW n, NEW e, EventCounts(r, n, e)
  PROVE  /\ e \in {"CONNECTOR_RECREATE_WITH_OFFSET", "CONNECTOR_RECREATE_WITH_OFFSET_FAILED"} =>
              WithOffsetCount(n) > 0
         /\ e \notin {"CONNECTOR_RECREATE_WITH_OFFSET", "CONNECTOR_RECREATE_WITH_OFFSET_FAILED"} =>
              WithOffsetCount(n) = WithOffsetCount(r)
         /\ e \in WithOffsetRetryEvents => TimeoutCount(n) = Bump(TimeoutCount(r))
         /\ e \notin WithOffsetRetryEvents => TimeoutCount(n) = TimeoutCount(r)
  <1> DEFINE a == "CONNECTOR_RECREATE_WITH_OFFSET"
             b == "CONNECTOR_RECREATE_WITH_OFFSET_FAILED"
             c == "CONNECTOR_RECREATE_WITH_OFFSET_TIMEOUT"
  <1>1. {a, b, c} \subseteq CountedEvents /\ a # b
    BY CountedNames
  <1>2. r.count[a] \in 0..CountCap /\ r.count[b] \in 0..CountCap /\ r.count[c] \in 0..CountCap
    BY <1>1, PolicyCounts
  <1>3. /\ r.count[a] \in Nat /\ r.count[b] \in Nat
        /\ \A i \in {r.count[a], r.count[b], r.count[c]} : Bump(i) > 0 /\ Bump(i) \in Nat
    BY <1>2, BumpType, Caps
  <1>4. \A x \in {a, b, c} : n.count[x] = IF x = e THEN Bump(r.count[x]) ELSE r.count[x]
    BY <1>1 DEF EventCounts
  <1>5. WithOffsetCount(r) = r.count[a] + r.count[b] /\ WithOffsetCount(n) = n.count[a] + n.count[b]
    BY DEF WithOffsetCount
  <1>6. TimeoutCount(r) = r.count[c] /\ TimeoutCount(n) = n.count[c]
    BY DEF TimeoutCount
  <1>7. WithOffsetRetryEvents = {c}
    BY DEF WithOffsetRetryEvents
  <1>8. n.count[a] \in Nat /\ n.count[b] \in Nat
    BY <1>3, <1>4
  <1>9. e \in {a, b} => WithOffsetCount(n) > 0
    <2>1. e \in {a, b} => n.count[a] > 0 \/ n.count[b] > 0
      BY <1>3, <1>4
    <2>2. QED BY <1>5, <1>8, <2>1
  <1>10. e \notin {a, b} => WithOffsetCount(n) = WithOffsetCount(r)
    BY <1>4, <1>5
  <1>11. QED BY <1>4, <1>6, <1>7, <1>9, <1>10

LEMMA LoggingThreadWith ==
  ASSUME TypeInv, TypeInv', HeadInv, NEW w \in Workers, WithThread(local[w]), NEW e, NEW next,
         AuditLine(local[w].pc, e, next), EventRow(row, row', e), Went(w, next), kc' = kc,
         Spared => Spared', Unspent => Unspent', Crashes' = Crashes
  PROVE  WithThread(local[w])'
  <1> DEFINE pc == local[w].pc
             a == WithOffsetCount(row)
             b == WithOffsetCount(row')
             t == TimeoutCount(row)
             u == TimeoutCount(row')
  <1>1. /\ row'.name = row.name /\ row'.latest = e /\ local'[w].pc = next
        /\ WithThread(local[w])
    BY DEF EventRow, Went
  <1>2. /\ a \in Nat /\ t \in 0..CountCap
        /\ e \in {"CONNECTOR_RECREATE_WITH_OFFSET", "CONNECTOR_RECREATE_WITH_OFFSET_FAILED"} =>
             b > 0
        /\ e \notin {"CONNECTOR_RECREATE_WITH_OFFSET", "CONNECTOR_RECREATE_WITH_OFFSET_FAILED"} =>
             b = a
        /\ e \in WithOffsetRetryEvents => u = Bump(t)
        /\ e \notin WithOffsetRetryEvents => u = t
    <2>1. EventCounts(row, row', e)
      BY HeldTypes, EventRowCounts
    <2>2. QED BY <2>1, HeldTypes, PolicyCounts, LoggedWith
  <1>3. ASSUME next \in {"escalate", "close"} PROVE WithThread(local[w])'
    BY <1>1, <1>3
    DEF WithThread, StoppedPcs, WithoutOffsetPcs, UnstoppedPcs, FreshlyStoppedPcs
  <1>4. ASSUME next \in {"refresh", "renameWith"}, b > 0 PROVE WithThread(local[w])'
    <2>1. SparedRow' /\ UnspentRow'
      BY <1>4 DEF SparedRow, UnspentRow
    <2>2. QED
      BY <1>1, <1>4, <2>1
      DEF WithThread, StoppedPcs, WithoutOffsetPcs, UnstoppedPcs, FreshlyStoppedPcs
  <1>5. ASSUME pc \in {"logTaskRestart", "logConnectorRestart", "logCaptured", "logNothingCaptured"}
        PROVE  WithThread(local[w])'
    <2>1. /\ next \in {"refresh", "stopOld", "logNoHistory", "logNoOffsets"}
          /\ e \in {"TASK_RESTART", "CONNECTOR_RESTART", "OFFSET_CAPTURED"}
          /\ pc \in UnstoppedPcs \/ next = "refresh"
      BY <1>5 DEF AuditLine, UnstoppedPcs
    <2>2. e \notin ManagedStoppedEvents /\ b = a /\ u = t
      BY <1>2, <2>1
      DEF ManagedStoppedEvents, WithOffsetFailureEvents, WithOffsetRetryEvents
    <2>3. SparedRow /\ UnspentRow
      BY <1>1, <1>5 DEF WithThread, StoppedPcs, RetriedPcs
    <2>4. SparedRow' /\ UnspentRow'
      BY <1>1, <2>2, <2>3 DEF SparedRow, UnspentRow, Unfinished
    <2>5. next = "stopOld" => Spared'
      BY <1>1, <2>1 DEF WithThread
    <2>6. QED
      BY <1>1, <2>1, <2>4, <2>5
      DEF WithThread, StoppedPcs, WithoutOffsetPcs, UnstoppedPcs, FreshlyStoppedPcs
  <1>6. ASSUME pc = "logTimeout" PROVE WithThread(local[w])'
    <2>1. next = "refresh" /\ e \in WithOffsetRetryEvents
      BY <1>6 DEF AuditLine, WithOffsetRetryEvents
    <2>2. u = Bump(t) /\ u > 0
      BY <1>2, <2>1, BumpType
    <2>3. kc[row.name] \notin Live /\ (Crashes = 0 => t = 0)
      BY <1>1, <1>6 DEF WithThread, StoppedPcs
    <2>4. Crashes = 0 => u = 1
      BY <2>2, <2>3, Caps DEF Bump
    <2>5. SparedRow'
      BY <1>1, <2>2, <2>3 DEF SparedRow
    <2>6. UnspentRow'
      <3>1. Crashes = 0 => ~Unfinished(row')
        BY <1>1, <2>1, <2>4 DEF Unfinished
      <3>2. QED BY <3>1 DEF UnspentRow, Unspent
    <2>7. QED
      BY <1>1, <2>1, <2>5, <2>6
      DEF WithThread, StoppedPcs, WithoutOffsetPcs, UnstoppedPcs, FreshlyStoppedPcs
  <1>7. ASSUME pc \in {"logPatch", "logResume"} PROVE WithThread(local[w])'
    <2>1. next = "logWithFailed" /\ e \notin WithOffsetRetryEvents
      BY <1>7 DEF AuditLine, WithOffsetRetryEvents
    <2>2. Crashes = 0 => u = 0
      BY <1>1, <1>2, <1>7, <2>1 DEF WithThread, StoppedPcs
    <2>3. QED
      BY <1>1, <2>1, <2>2
      DEF WithThread, StoppedPcs, WithoutOffsetPcs, UnstoppedPcs, FreshlyStoppedPcs
  <1>8. ASSUME pc \in {"logWith", "logNoOffsets", "logNoHistory", "logWithFailed", "logRetried"}
        PROVE  WithThread(local[w])'
    <2>1. /\ next \in {"refresh", "renameWith"}
          /\ e \in {"CONNECTOR_RECREATE_WITH_OFFSET", "CONNECTOR_RECREATE_WITH_OFFSET_FAILED"}
      BY <1>8 DEF AuditLine
    <2>2. QED BY <1>2, <1>4, <2>1
  <1>9. ASSUME pc = "logWithout" PROVE WithThread(local[w])'
    <2>1. next = "renameWithout" /\ e = "CONNECTOR_RECREATE_WITHOUT_OFFSET"
      BY <1>9 DEF AuditLine
    <2>2. e \notin ManagedStoppedEvents /\ b = a
      BY <1>2, <2>1
      DEF ManagedStoppedEvents, WithOffsetFailureEvents, WithOffsetRetryEvents
    <2>3. a = 0 => Spared /\ Unspent
      BY <1>1, <1>9, SparedUnspent DEF WithThread, FreshlyStoppedPcs
    <2>4. SparedRow' /\ UnspentRow'
      BY <1>1, <2>2, <2>3 DEF SparedRow, UnspentRow, Unfinished
    <2>5. QED
      BY <1>1, <2>1, <2>2, <2>3, <2>4
      DEF WithThread, StoppedPcs, WithoutOffsetPcs, UnstoppedPcs, FreshlyStoppedPcs
  <1>10. QED
    BY <1>3, <1>5, <1>6, <1>7, <1>8, <1>9 DEF AuditLine

\* An executor that raises leaves the outcome in doubt.
LEMMA DispatchDoubts ==
  ASSUME NEW w \in Workers, Raised(w), local[w].pc \in DispatchPcs
  PROVE  ~Calm'
  <1>1. local[w].pc \notin GuardedPcs
    BY PcKinds DEF GuardedPcs, RestartPcs, WithOffsetPcs, RetryPcs, WithoutOffsetPcs
  <1>2. QED BY <1>1 DEF Raised, Calm

LEMMA LoggingWith ==
  ASSUME TypeInv, TypeInv', OneThread, ControlInv, UncertainInv, HeadInv, WithInv,
         NEW w \in Workers, Step(w), Logging(w)
  PROVE  WithInv'
  <1>1. PICK e \in EventTypes, next \in Pcs :
          /\ AuditLine(local[w].pc, e, next) /\ local[w].pc \in AuditPcs /\ Quiet
          /\ \/ EventRow(row, row', e) /\ Went(w, next)
             \/ (row' = row \/ EventRow(row, row', e)) /\ Raised(w)
    BY DEF Logging
  <1>2. issued' = issued /\ kc' = kc /\ Crashes' = Crashes /\ local[w].pc \in DispatchPcs
    BY <1>1, PcsIncludeAll, StepCrashes DEF Quiet, history, cluster
  <1>3. (issued["WITH_OFFSET"] <= 1 + Allowance)'
    BY <1>2, WithSame DEF WithInv
  <1>4. ASSUME Calm' PROVE WithThread(local[w])'
    <2>1. WithThread(local[w])
      BY <1>4, CalmBefore DEF WithInv
    <2>2. EventRow(row, row', e) /\ Went(w, next)
      BY <1>1, <1>2, <1>4, DispatchDoubts
    <2>3. QED BY <1>1, <1>2, <2>1, <2>2, WithSame, LoggingThreadWith
  <1>5. QED BY <1>3, <1>4 DEF WithInv, OneThread

LEMMA RenamingWith ==
  ASSUME TypeInv, TypeInv', OneThread, ControlInv, UncertainInv, HeadInv, WithInv,
         NEW w \in Workers, Step(w), Renaming(w)
  PROVE  WithInv'
  <1> DEFINE l == local[w]
             n == Replacement(l.job)
  <1>1. PICK next :
          /\ RenameLine(l.pc, next) /\ Quiet
          /\ \/ RenamedRow(row, row', l.job) /\ Went(w, next)
             \/ (row' = row \/ RenamedRow(row, row', l.job)) /\ Raised(w)
    BY DEF Renaming
  <1>2. /\ issued' = issued /\ kc' = kc /\ Crashes' = Crashes /\ l.pc \in DispatchPcs
    BY <1>1, PcKinds, StepCrashes
    DEF Quiet, history, cluster, RenameLine, WithOffsetPcs, WithoutOffsetPcs
  <1>3. (issued["WITH_OFFSET"] <= 1 + Allowance)'
    BY <1>2, WithSame DEF WithInv
  <1>4. ASSUME Calm' PROVE WithThread(local[w])'
    <2>1. WithThread(l)
      BY <1>4, CalmBefore DEF WithInv
    <2>2. RenamedRow(row, row', l.job) /\ Went(w, next)
      BY <1>1, <1>2, <1>4, DispatchDoubts
    <2>3. /\ WithOffsetCount(row') = WithOffsetCount(row)
          /\ TimeoutCount(row') = TimeoutCount(row) /\ Unfinished(row') = Unfinished(row)
          /\ row'.name = n /\ local'[w].pc = next
      BY <2>2 DEF RenamedRow, WithOffsetCount, TimeoutCount, Unfinished, Went
    <2>4. (Spared => Spared') /\ (Unspent => Unspent')
      BY <1>2, WithSame
    <2>5. CASE l.pc \in {"renameTimeout", "renamePatch", "renameResume"}
      <3>1. /\ next \in {"logTimeout", "logPatch", "logResume"}
            /\ Crashes = 0 => TimeoutCount(row') = 0
        BY <1>1, <2>1, <2>3, <2>5 DEF RenameLine, WithThread, StoppedPcs
      <3>2. next = "logTimeout" => kc[n] \notin Live
        <4>1. ASSUME next = "logTimeout" PROVE kc[n] \notin Live
          <5>1. l.pc = "renameTimeout" /\ DeadAbove(kc, l.job.name) /\ Numbered(l.job)
            BY <1>1, <4>1, InSyncNow
            DEF RenameLine, HeadInv, HeadThread, UnresumedPcs, SpentPcs, NewNamePcs,
                NewCountPcs, FreePcs, DoubtPcs
          <5>2. n > l.job.name /\ n \in Versions
            <6>1. l.pc \in NamingPcs /\ l \in NamedLocals
              BY <5>1, HeldTypes DEF NamingPcs, WithOffsetPcs
            <6>2. QED BY <5>1, <6>1, HeldTypes, ReplacementAbove DEF NamedLocals
          <5>3. QED BY <5>1, <5>2 DEF DeadAbove
        <4>2. QED BY <4>1
      <3>3. QED
        BY <1>2, <2>3, <3>1, <3>2
        DEF WithThread, StoppedPcs, WithoutOffsetPcs, UnstoppedPcs, FreshlyStoppedPcs
    <2>6. CASE l.pc \in {"renameWith", "renameWithout"}
      <3>1. WithOffsetCount(row) = 0 => Spared
        <4>1. WithOffsetCount(row) \in Nat
          BY HeldTypes, PolicyCounts
        <4>2. QED BY <2>1, <2>6, <4>1 DEF WithThread, FreshlyStoppedPcs
      <3>2. UnspentRow
        BY <2>1, <2>6 DEF WithThread, StoppedPcs, RetriedPcs
      <3>3. SparedRow' /\ UnspentRow'
        BY <2>3, <2>4, <3>1, <3>2 DEF SparedRow, UnspentRow
      <3>4. next = "dropOld"
        BY <1>1, <2>6 DEF RenameLine
      <3>5. QED
        BY <2>3, <3>3, <3>4
        DEF WithThread, StoppedPcs, WithoutOffsetPcs, UnstoppedPcs, FreshlyStoppedPcs
    <2>7. QED BY <1>1, <2>5, <2>6 DEF RenameLine
  <1>5. QED BY <1>3, <1>4 DEF WithInv, OneThread

\* What a request does to the allowance: only the stop of the old connector
\* spends it, and the stop for a fresh one adds to it.
LEMMA ActingAllowance ==
  ASSUME TypeInv, TypeInv', NEW w \in Workers, Step(w), Acting(w)
  PROVE  /\ local[w].pc # "stopOld" => (Spared => Spared') /\ (Unspent => Unspent')
         /\ local[w].pc # "stopOld" =>
              (issued["WITH_OFFSET"] <= 1 + Allowance => (issued["WITH_OFFSET"] <= 1 + Allowance)')
         /\ local[w].pc = "stopOld" => (Spared => (issued["WITH_OFFSET"] <= 1 + Allowance)')
         /\ local[w].pc = "stopForFresh" =>
              (Unspent /\ issued["WITH_OFFSET"] <= 1 + Allowance => Spared')
  <1> DEFINE pc == local[w].pc
  <1>1. /\ Crashes' = Crashes
        /\ issued'["WITH_OFFSET"] =
             IF pc = "stopOld" THEN Bump(issued["WITH_OFFSET"]) ELSE issued["WITH_OFFSET"]
        /\ issued'["WITHOUT_OFFSET"] =
             IF pc = "stopForFresh" THEN Bump(issued["WITHOUT_OFFSET"])
             ELSE issued["WITHOUT_OFFSET"]
    <2>1. Spent(pc) /\ Crashes' = Crashes
      BY StepCrashes DEF Acting
    <2>2. /\ Requests(pc, "WITH_OFFSET") <=> pc = "stopOld"
          /\ Requests(pc, "WITHOUT_OFFSET") <=> pc = "stopForFresh"
      BY DEF Requests
    <2>3. QED BY <2>1, <2>2, RungNames DEF Spent
  <1>2. issued'["WITHOUT_OFFSET"] >= issued["WITHOUT_OFFSET"]
    BY <1>1, AllowanceType, BumpType
  <1>3. CASE pc # "stopOld"
    <2>1. (Spared => Spared') /\ (Unspent => Unspent')
            /\ (issued["WITH_OFFSET"] <= 1 + Allowance => (issued["WITH_OFFSET"] <= 1 + Allowance)')
      BY <1>1, <1>2, <1>3, SpareKept
    <2>2. ASSUME pc = "stopForFresh", Unspent, issued["WITH_OFFSET"] <= 1 + Allowance
          PROVE  Spared'
      <3> DEFINE i == issued["WITH_OFFSET"]
                 o == issued["WITHOUT_OFFSET"]
                 p == issued'["WITHOUT_OFFSET"]
      <3>1. /\ i \in 0..CountCap /\ o \in 0..CountCap /\ Crashes \in Nat /\ CountCap \in Nat
            /\ i \in Nat /\ o \in Nat
            /\ i <= 1 + (IF Crashes > 0 THEN Crashes + o ELSE 0) /\ (Crashes = 0 => i = 0)
        BY <2>2, AllowanceType, Caps DEF Unspent
      <3>2. p = o + 1 \/ p = CountCap
        BY <1>1, <2>2, <3>1 DEF Bump
      <3>3. Allowance' = IF Crashes > 0 THEN Crashes + p ELSE Crashes
        <4>1. Allowance' = Crashes' + IF Crashes' > 0 THEN p ELSE 0
          BY DEF Allowance, Regained
        <4>2. QED BY <1>1, <3>1, <4>1
      <3>4. issued'["WITH_OFFSET"] = i
        BY <1>1, <1>3
      <3> HIDE DEF i, o, p
      <3>5. i <= IF Crashes > 0 THEN Crashes + p ELSE Crashes
        BY <3>1, <3>2
      <3>6. QED BY <3>3, <3>4, <3>5 DEF Spared
    <2>3. QED BY <1>3, <2>1, <2>2
  <1>4. CASE pc = "stopOld"
    <2>1. Allowance' = Allowance
      BY <1>1, <1>4 DEF Allowance, Regained
    <2>2. Bump(issued["WITH_OFFSET"]) <= issued["WITH_OFFSET"] + 1
          /\ Bump(issued["WITH_OFFSET"]) \in Nat
      BY AllowanceType, Caps DEF Bump
    <2>3. Spared => issued'["WITH_OFFSET"] <= 1 + Allowance'
      BY <1>1, <1>4, <2>1, <2>2, AllowanceType DEF Spared
    <2>4. QED BY <1>4, <2>3
  <1>5. QED BY <1>3, <1>4

LEMMA ActingThreadWith ==
  ASSUME TypeInv, TypeInv', ControlInv, OrderInv, HeadInv, NEW w \in Workers, Step(w),
         Acting(w), WithThread(local[w]), issued["WITH_OFFSET"] <= 1 + Allowance,
         NEW next, Went(w, next), ActLine(local[w].pc, next)
  PROVE  WithThread(local[w])'
  <1> DEFINE l == local[w]
             pc == l.pc
  <1>1. row' = row /\ Revives(l) /\ local'[w].pc = next /\ Crashes' = Crashes
    BY StepCrashes DEF Acting, Went
  <1>2. pc # "stopOld" => (Spared => Spared') /\ (Unspent => Unspent')
    BY ActingAllowance
  <1>3. pc = "stopForFresh" => (Unspent => Spared')
    BY ActingAllowance
  <1>4. /\ pc \in {"stopOld"} \cup StoppedPcs => next \in StoppedPcs
        /\ pc \in {"retryStop", "retryCreate"} \cup RetriedPcs => next \in RetriedPcs
        /\ next \notin {"observe", "confirm", "logTimeout", "renameWith"}
        /\ next \in StoppedPcs => pc \in {"stopOld"} \cup StoppedPcs
        /\ next \in UnstoppedPcs => pc \in UnstoppedPcs \ {"stopOld"}
        /\ next \in WithoutOffsetPcs => pc \in WithoutOffsetPcs
        /\ next \in FreshlyStoppedPcs => pc \in FreshlyStoppedPcs \cup {"stopForFresh"}
    BY DEF ActLine, StoppedPcs, RetriedPcs, UnstoppedPcs, WithoutOffsetPcs, FreshlyStoppedPcs
  <1>5. CASE next \in StoppedPcs
    <2>1. Crashes = 0 => TimeoutCount(row) = 0
      <3>1. CASE pc \in StoppedPcs
        BY <3>1 DEF WithThread
      <3>2. CASE pc = "stopOld"
        <4>1. Crashes = 0 => issued["WITH_OFFSET"] = 0
          BY <3>2, SparedUnspent DEF WithThread, UnstoppedPcs, Unspent
        <4>2. TimeoutCount(row) > 0 => issued["WITH_OFFSET"] > 0
          BY DEF OrderInv, OrderedRow
        <4>3. TimeoutCount(row) \in Nat
          BY HeldTypes, PolicyCounts, Caps
        <4>4. QED BY <4>1, <4>2, <4>3
      <3>3. QED BY <1>4, <1>5, <3>1, <3>2
    <2>2. next \notin WithoutOffsetPcs \cup UnstoppedPcs \cup FreshlyStoppedPcs
      BY <1>5 DEF StoppedPcs, UnstoppedPcs, WithoutOffsetPcs, FreshlyStoppedPcs
    <2>3. QED BY <1>1, <1>4, <1>5, <2>1, <2>2 DEF WithThread
  <1>6. CASE next \in RetriedPcs
    BY <1>1, <1>6
    DEF WithThread, RetriedPcs, StoppedPcs, UnstoppedPcs, WithoutOffsetPcs, FreshlyStoppedPcs
  <1>7. CASE next \notin StoppedPcs \cup RetriedPcs
    <2>1. pc \notin {"stopOld", "retryStop", "retryCreate"} \cup StoppedPcs \cup RetriedPcs
            \cup {"escalate", "close"}
      BY <1>4, <1>7 DEF ActLine
    <2>2. SparedRow /\ UnspentRow
      BY <2>1 DEF WithThread
    <2>3. kc'[row.name] \in Live => kc[row.name] \in Live
      <3>1. CASE pc = "createFresh"
        <4>1. l.job.name = row.name /\ Numbered(l.job)
          BY <3>1, InSyncNow DEF SpentPcs, NewNamePcs, NewCountPcs, FreePcs, DoubtPcs
        <4>2. Replacement(l.job) > row.name /\ row.name \in Nat /\ Replacement(l.job) \in Nat
          BY <4>1, HeldTypes, ReplacementAbove, LastNamedType
        <4>3. ~Raises(l, row.name)
          BY <3>1, <4>2 DEF Raises
        <4>4. QED BY <1>1, <4>3, VersionsNamed DEF Revives
      <3>2. CASE pc # "createFresh"
        <4>1. ~Raises(l, row.name)
          BY <2>1, <3>2 DEF Raises, StoppedPcs, RetriedPcs
        <4>2. QED BY <1>1, <4>1, VersionsNamed DEF Revives
      <3>3. QED BY <3>1, <3>2
    <2>4. SparedRow' /\ UnspentRow'
      BY <1>1, <1>2, <2>1, <2>2, <2>3, WithRowKept
    <2>5. next \in UnstoppedPcs => Spared'
      BY <1>2, <1>4 DEF WithThread
    <2>6. next \in WithoutOffsetPcs /\ WithOffsetCount(row) = 0 => Unspent'
      BY <1>2, <1>4, <2>1 DEF WithThread
    <2>7. next \in FreshlyStoppedPcs /\ WithOffsetCount(row) = 0 => Spared'
      <3>1. pc = "stopForFresh" /\ WithOffsetCount(row) = 0 => Spared'
        BY <1>3 DEF WithThread, WithoutOffsetPcs
      <3>2. QED BY <1>2, <1>4, <2>1, <3>1 DEF WithThread
    <2>8. QED BY <1>1, <1>4, <1>7, <2>4, <2>5, <2>6, <2>7 DEF WithThread
  <1>8. QED BY <1>5, <1>6, <1>7

LEMMA ActingWith ==
  ASSUME TypeInv, TypeInv', OneThread, ControlInv, UncertainInv, OrderInv, HeadInv, WithInv,
         NEW w \in Workers, Step(w), Acting(w)
  PROVE  WithInv'
  <1> DEFINE l == local[w]
  <1>1. l.pc \in DispatchPcs
    BY PcKinds DEF Acting, ActLine, RestartPcs, WithOffsetPcs, RetryPcs, WithoutOffsetPcs
  <1>2. Calm /\ WithThread(l) /\ issued["WITH_OFFSET"] <= 1 + Allowance
    BY <1>1, ExecutorsCalm DEF WithInv
  <1>3. l.pc = "stopOld" => Spared
    BY <1>2 DEF WithThread, UnstoppedPcs
  <1>4. (issued["WITH_OFFSET"] <= 1 + Allowance)'
    BY <1>2, <1>3, ActingAllowance
  <1>5. ASSUME Calm' PROVE WithThread(local[w])'
    <2>1. \E next \in Pcs : Went(w, next) /\ ActLine(l.pc, next)
      BY <1>1, <1>5, DispatchDoubts DEF Acting
    <2>2. QED BY <1>2, <2>1, ActingThreadWith
  <1>6. QED BY <1>4, <1>5 DEF WithInv, OneThread

LEMMA WithStep ==
  ASSUME OneThread
  PROVE  TypeInv /\ TypeInv' /\ ControlInv /\ ControlInv' /\ UncertainInv /\ EarnedInv
           /\ EarnedInv' /\ OrderInv /\ UnbornInv /\ HeadInv /\ WithInv /\ [Next]_vars
         => WithInv'
  <1> SUFFICES ASSUME TypeInv, TypeInv', ControlInv, ControlInv', UncertainInv, EarnedInv,
                      EarnedInv', OrderInv, UnbornInv, HeadInv, WithInv, [Next]_vars
               PROVE  WithInv'
    OBVIOUS
  <1>1. ASSUME NEW w \in Workers, Step(w) PROVE WithInv'
    BY <1>1, StepKinds, RoamingWith, NoticedWith, DecidingWith, LoggingWith, RenamingWith,
       ActingWith
  <1>5. CASE Environment /\ Arises
    <2>1. /\ UNCHANGED <<row, local, issued, uncertain>> /\ Crashes' = Crashes
          /\ Allowance' = Allowance /\ TimeoutCount(row) = 0
          /\ \A w \in Workers : local[w].pc # "logTimeout"
      BY <1>5 DEF Arises, UnbornInv, UnbornPcs, LoosePcs, Crashes, Allowance, Regained
    <2>2. (Spared' <=> Spared) /\ (Unspent' <=> Unspent)
      BY <2>1 DEF Spared, Unspent
    <2>3. (SparedRow => SparedRow') /\ (UnspentRow => UnspentRow')
      BY <2>1, <2>2 DEF SparedRow, UnspentRow
    <2>4. \A w \in Workers : WithThread(local[w]) => WithThread(local[w])'
      BY <2>1, <2>2, <2>3 DEF WithThread, SparedJob
    <2>5. QED BY <2>1, <2>4 DEF WithInv, Calm
  <1>2. CASE Environment /\ ~Arises
    <2>1. Weathered /\ NoneRevives
      BY <1>2, EnvironmentWeather DEF Weathered
    <2>2. /\ issued' = issued /\ row'.name = row.name /\ row'.count = row.count
          /\ row'.latest = row.latest /\ row'.status = row.status
          /\ WithOffsetCount(row') = WithOffsetCount(row)
          /\ TimeoutCount(row') = TimeoutCount(row) /\ Unfinished(row') = Unfinished(row)
          /\ kc'[row.name] \in Live => kc[row.name] \in Live
      BY <2>1, VersionsNamed DEF Weathered, NoneRevives, WithOffsetCount, TimeoutCount, Unfinished
    <2>3. CASE /\ Crashes' = Crashes /\ uncertain' = uncertain
               /\ \A w \in Workers : SameThread(local[w], local'[w])
      <3>1. /\ (Spared => Spared') /\ (Unspent => Unspent')
            /\ (issued["WITH_OFFSET"] <= 1 + Allowance)'
        BY <2>2, <2>3, AllowanceType, SpareKept DEF WithInv
      <3>2. ASSUME Calm', NEW w \in Workers PROVE WithThread(local[w])'
        <4>1. WithThread(local[w])
          BY <2>2, <2>3, <3>2 DEF WithInv, Calm
        <4>2. (SparedRow => SparedRow') /\ (UnspentRow => UnspentRow')
          BY <2>2, <3>1 DEF SparedRow, UnspentRow
        <4>3. SameThread(local[w], local'[w])
          BY <2>3
        <4>4. SparedJob(local[w]) => SparedJob(local[w])'
          BY <3>1, <4>3 DEF SparedJob, SameThread, WithOffsetCount, TimeoutCount, Unfinished
        <4>5. local'[w].pc = local[w].pc
          BY <4>3 DEF SameThread
        <4>6. QED BY <2>2, <2>3, <3>1, <4>1, <4>2, <4>4, <4>5 DEF WithThread
      <3>3. QED BY <3>1, <3>2 DEF WithInv
    <2>4. CASE Crashes' = Crashes + 1 /\ \A w \in Workers : local'[w] = Idle
      <3>1. Spared' /\ Allowance' \in Nat /\ issued'["WITH_OFFSET"] \in Nat
        <4> DEFINE i == issued["WITH_OFFSET"]
                   o == issued["WITHOUT_OFFSET"]
        <4>1. /\ i \in Nat /\ o \in Nat /\ Crashes \in Nat
              /\ i <= 1 + (IF Crashes > 0 THEN Crashes + o ELSE 0)
          BY AllowanceType DEF WithInv
        <4>2. Allowance' = Crashes' + IF Crashes' > 0 THEN o ELSE 0
          BY <2>2 DEF Allowance, Regained
        <4>3. issued'["WITH_OFFSET"] = i
          BY <2>2
        <4> HIDE DEF i, o
        <4>4. Allowance' = Crashes + 1 + o
          BY <2>4, <4>1, <4>2
        <4>5. QED BY <4>1, <4>3, <4>4 DEF Spared
      <3>2. Unspent'
        BY <2>4, CrashCount DEF Unspent
      <3>3. SparedRow' /\ UnspentRow'
        BY <3>1, <3>2 DEF SparedRow, UnspentRow
      <3>4. ASSUME NEW w \in Workers PROVE WithThread(local[w])'
        BY <2>4, <3>3, RestfulPcs, RestWith
      <3>5. QED BY <3>1, <3>4 DEF WithInv, Spared
    <2>5. QED BY <2>1, <2>3, <2>4 DEF Weathered
  <1>3. CASE UNCHANGED vars
    <2>1. /\ row' = row /\ kc' = kc /\ local' = local /\ issued' = issued /\ budget' = budget
          /\ uncertain' = uncertain
      BY <1>3 DEF vars
    <2>2. Crashes' = Crashes /\ Allowance' = Allowance
      BY <2>1 DEF Crashes, Allowance, Regained
    <2>3. QED
      BY <2>1, <2>2
      DEF WithInv, Calm, WithThread, SparedRow, UnspentRow, SparedJob, Spared, Unspent
  <1>4. QED BY <1>1, <1>2, <1>3, <1>5 DEF Next

LEMMA WithInit == Init => WithInv
  <1> SUFFICES ASSUME Init PROVE WithInv
    OBVIOUS
  <1>1. TypeInv /\ issued["WITH_OFFSET"] = 0
    BY TypeInvInit, RungNames DEF Init
  <1>2. Allowance \in Nat
    BY <1>1, AllowanceType
  <1>3. Spared /\ Unspent
    BY <1>1, <1>2 DEF Spared, Unspent
  <1>4. \A w \in Workers : local[w].pc = "idle"
    BY RestingPcs DEF Init
  <1>5. QED
    BY <1>1, <1>2, <1>3, <1>4
    DEF WithInv, WithThread, SparedRow, UnspentRow, SparedJob, WithoutOffsetPcs, UnstoppedPcs,
        FreshlyStoppedPcs, StoppedPcs

LEMMA AlwaysWith ==
  ASSUME OneThread
  PROVE  Spec => []WithInv
  BY WithInit, AlwaysTyped, AlwaysControl, AlwaysUncertain, AlwaysEarned, AlwaysOrdered,
     AlwaysUnborn, AlwaysHead, WithStep, PTL DEF Spec

-----------------------------------------------------------------------------
(* The retry: taken once, for the first timeout that the log counts.       *)

Rested == issued["RETRY"] <= Crashes
RetryRow == row.latest \in WithOffsetRetryEvents /\ TimeoutCount(row) = 1 => Rested
RetryThread(l) ==
  /\ l.pc \notin RetriedPcs => RetryRow
  /\ l.pc \in {"observe", "confirm"} /\ l.job.latest \in WithOffsetRetryEvents =>
       TimeoutCount(l.job) >= 1 /\ (TimeoutCount(l.job) = 1 => Rested)
  /\ l.pc \in RetryPcs => TimeoutCount(l.job) = 1
  /\ l.pc \in RetryPcs \ RetriedPcs => Rested
RetryInv ==
  /\ issued["RETRY"] <= 1 + Crashes
  /\ row.latest \in WithOffsetRetryEvents => TimeoutCount(row) >= 1
  /\ issued["RETRY"] > 0 => TimeoutCount(row) > 0
  /\ Calm => \A w \in Workers : RetryThread(local[w])

LEMMA OtherRetry ==
  ASSUME NEW w \in Workers, local'[w].pc \notin RetryPcs \cup {"observe", "confirm"}, RetryRow'
  PROVE  RetryThread(local[w])'
  BY DEF RetryThread

LEMMA QuietRetry ==
  ASSUME TypeInv, OneThread, RetryInv, NEW w \in Workers, Step(w), QuietRow, issued' = issued,
         Calm' => RetryRow /\ (RetryRow' => RetryThread(local[w])')
  PROVE  RetryInv'
  <1>1. TimeoutCount(row') = TimeoutCount(row) /\ Crashes' = Crashes
    BY QuietActions, SameActionCounts, StepCrashes
  <1>2. row'.latest \in WithOffsetRetryEvents => row.latest \in WithOffsetRetryEvents
    BY QuietCounts, LadderEventsCounted
  <1>3. RetryRow => RetryRow'
    BY <1>1, <1>2 DEF RetryRow, Rested
  <1>4. QED BY <1>1, <1>2, <1>3 DEF RetryInv, OneThread

LEMMA NoticedRetry ==
  ASSUME TypeInv, OneThread, ControlInv, UncertainInv, RetryInv, NEW w \in Workers, Step(w),
         Noticed(w) \/ Missed(w)
  PROVE  RetryInv'
  <1> DEFINE l == local[w]
             m == local'[w]
  <1>1. /\ issued' = issued /\ row' = row /\ l.pc = "check" /\ m.job = l.job
        /\ \/ m.pc = "observe"
           \/ /\ m.pc = "configRetry" /\ l.job.latest \in WithOffsetRetryEvents
              /\ TimeoutCount(l.job) < WithOffsetTimeoutMax
    BY DEF Noticed, Missed, Quiet, Carried, history
  <1>2. TimeoutCount(l.job) = TimeoutCount(row) /\ l.job.latest = row.latest
    BY <1>1
    DEF ControlInv, Fits, InSync, FreshPcs, SpentPcs, NewNamePcs, NewCountPcs, FreePcs, DoubtPcs,
        TimeoutCount
  <1>3. /\ TimeoutCount(row) \in Nat
        /\ l.job.latest \in WithOffsetRetryEvents => TimeoutCount(row) >= 1
    BY <1>2, HeldTypes, PolicyCounts, Caps DEF RetryInv
  <1>4. m.pc = "configRetry" => TimeoutCount(l.job) = 1
    BY <1>1, <1>2, <1>3 DEF WithOffsetTimeoutMax
  <1>5. ASSUME Calm' PROVE RetryRow /\ (RetryRow' => RetryThread(local[w])')
    <2>1. RetryThread(l)
      BY <1>5, CalmBefore DEF RetryInv
    <2>2. RetryRow
      BY <1>1, <2>1 DEF RetryThread, RetriedPcs
    <2>3. l.job.latest \in WithOffsetRetryEvents /\ TimeoutCount(l.job) = 1 => Rested'
      <3>1. Crashes' = Crashes
        BY StepCrashes
      <3>2. QED BY <1>1, <1>2, <2>2, <3>1 DEF RetryRow, Rested
    <2>4. m.pc = "observe" => (RetryRow' => RetryThread(local[w])')
      BY <1>1, <1>2, <1>3, <2>3 DEF RetryThread, RetryPcs
    <2>5. m.pc = "configRetry" => (RetryRow' => RetryThread(local[w])')
      BY <1>1, <1>4, <2>3 DEF RetryThread, RetriedPcs
    <2>6. QED BY <1>1, <2>2, <2>4, <2>5
  <1>6. QED BY <1>1, <1>5, SameRowQuiet, QuietRetry

LEMMA DecidingRetry ==
  ASSUME TypeInv, TypeInv', OneThread, ControlInv, UncertainInv, EarnedInv', RetryInv,
         NEW w \in Workers, Step(w), Deciding(w)
  PROVE  RetryInv'
  <1> DEFINE l == local[w]
             m == local'[w]
  <1>1. /\ QuietRow /\ issued' = issued /\ m.job.latest = l.job.latest
        /\ l.pc \in {"observe", "confirm"} /\ SameActions(l.job, m.job)
    BY DecidingQuiet DEF Deciding
  <1>2. /\ TimeoutCount(m.job) = TimeoutCount(l.job) /\ TimeoutCount(l.job) \in Nat
        /\ Crashes' = Crashes
    BY <1>1, SameActionCounts, HeldTypes, PolicyCounts, Caps, StepCrashes
  <1>3. /\ m.pc \in RetryPcs => m.pc = "configRetry"
        /\ m.pc \in {"observe", "confirm"} => m.pc = "confirm"
    BY FirstStepPcs DEF Deciding, DecidedPc, RetryPcs
  <1>4. m.pc = "configRetry" =>
          m.job.latest \in WithOffsetRetryEvents /\ TimeoutCount(m.job) < WithOffsetTimeoutMax
    BY DEF EarnedInv, Earned, RetryPcs
  <1>5. ASSUME Calm' PROVE RetryRow /\ (RetryRow' => RetryThread(local[w])')
    <2>1. RetryThread(l)
      BY <1>5, CalmBefore DEF RetryInv
    <2>2. RetryRow
      BY <1>1, <2>1 DEF RetryThread, RetriedPcs
    <2>3. l.job.latest \in WithOffsetRetryEvents =>
            TimeoutCount(l.job) >= 1 /\ (TimeoutCount(l.job) = 1 => Rested')
      BY <1>1, <1>2, <2>1 DEF RetryThread, Rested
    <2>4. m.pc = "configRetry" => TimeoutCount(m.job) = 1 /\ Rested'
      BY <1>1, <1>2, <1>4, <2>3 DEF WithOffsetTimeoutMax
    <2>5. QED BY <1>1, <1>2, <1>3, <2>2, <2>3, <2>4 DEF RetryThread
  <1>6. QED BY <1>1, <1>5, QuietRetry

LEMMA LoggingRetry ==
  ASSUME TypeInv, TypeInv', OneThread, ControlInv, UncertainInv, RetryInv,
         NEW w \in Workers, Step(w), Logging(w)
  PROVE  RetryInv'
  <1> DEFINE l == local[w]
             t == TimeoutCount(row)
             u == TimeoutCount(row')
  <1>1. PICK e \in EventTypes, next \in Pcs :
          /\ AuditLine(l.pc, e, next) /\ l.pc \in AuditPcs /\ Quiet
          /\ \/ EventRow(row, row', e) /\ Went(w, next)
             \/ (row' = row \/ EventRow(row, row', e)) /\ Raised(w)
    BY DEF Logging
  <1>2. issued' = issued /\ Crashes' = Crashes /\ l.pc \in DispatchPcs
    BY <1>1, PcsIncludeAll, StepCrashes DEF Quiet, history
  <1>3. /\ t \in 0..CountCap /\ t \in Nat /\ issued["RETRY"] \in Nat
        /\ \/ row' = row
           \/ (u = IF e \in WithOffsetRetryEvents THEN Bump(t) ELSE t) /\ row'.latest = e
    <2>1. EventRow(row, row', e) => EventCounts(row, row', e)
      BY HeldTypes, EventRowCounts
    <2>2. t \in 0..CountCap /\ t \in Nat /\ issued["RETRY"] \in Nat
      BY HeldTypes, PolicyCounts, Caps, IssuedCounts, RungNames
    <2>3. EventCounts(row, row', e) => u = (IF e \in WithOffsetRetryEvents THEN Bump(t) ELSE t)
      BY HeldTypes, LoggedWith
    <2>4. QED BY <1>1, <2>1, <2>2, <2>3 DEF EventRow
  <1>4. Bump(t) > 0 /\ Bump(t) \in Nat /\ (t = 0 => Bump(t) = 1) /\ (t = 1 => Bump(t) = 2)
    BY <1>3, BumpType, Caps DEF Bump
  <1>5. /\ row'.latest \in WithOffsetRetryEvents => u >= 1
        /\ issued["RETRY"] > 0 => u > 0
    BY <1>3, <1>4 DEF RetryInv
  <1>6. ASSUME Calm' PROVE RetryThread(local[w])'
    <2>1. RetryThread(l)
      BY <1>6, CalmBefore DEF RetryInv
    <2>2. EventRow(row, row', e) /\ Went(w, next)
      BY <1>1, <1>2, <1>6, DispatchDoubts
    <2>3. row'.latest = e /\ local'[w].pc = next
      BY <2>2 DEF EventRow, Went
    <2>4. next \notin RetryPcs \cup {"observe", "confirm"}
      BY <1>1 DEF AuditLine, RetryPcs
    <2>5. e \in WithOffsetRetryEvents => l.pc \in {"logTimeout", "logRetryTimeout"}
      BY <1>1 DEF AuditLine, WithOffsetRetryEvents
    <2>6. l.pc = "logRetryTimeout" => t = 1
      <3>1. l.pc = "logRetryTimeout" => l.job.count = row.count /\ TimeoutCount(l.job) = 1
        BY <2>1, InSyncNow
        DEF RetryThread, RetryPcs, SpentPcs, NewNamePcs, NewCountPcs, FreePcs, DoubtPcs
      <3>2. QED BY <3>1 DEF TimeoutCount
    <2>7. u = IF e \in WithOffsetRetryEvents THEN Bump(t) ELSE t
      <3>1. EventCounts(row, row', e)
        BY <2>2, HeldTypes, EventRowCounts
      <3>2. QED BY <3>1, HeldTypes, LoggedWith
    <2>8. RetryRow'
      <3>1. ASSUME e \in WithOffsetRetryEvents, u = 1 PROVE Rested'
        <4>1. t = 0
          <5>1. t # 1
            BY <1>4, <2>7, <3>1
          <5>2. t > 1 => Bump(t) > 1
            BY <1>3, Caps DEF Bump
          <5>3. QED BY <1>3, <2>7, <3>1, <5>1, <5>2
        <4>2. issued["RETRY"] = 0
          BY <1>3, <4>1 DEF RetryInv
        <4>3. QED BY <1>2, <4>2, CrashCount DEF Rested
      <3>2. QED BY <2>3, <3>1 DEF RetryRow
    <2>9. QED BY <2>3, <2>4, <2>8, OtherRetry
  <1>7. QED BY <1>2, <1>5, <1>6 DEF RetryInv, OneThread

LEMMA RenamingRetry ==
  ASSUME TypeInv, OneThread, ControlInv, UncertainInv, RetryInv, NEW w \in Workers, Step(w),
         Renaming(w)
  PROVE  RetryInv'
  <1>1. PICK next :
          /\ RenameLine(local[w].pc, next) /\ Quiet
          /\ row' = row \/ RenamedRow(row, row', local[w].job)
          /\ Raised(w) \/ Went(w, next)
    BY DEF Renaming
  <1>2. /\ issued' = issued /\ Crashes' = Crashes /\ row'.latest = row.latest
        /\ TimeoutCount(row') = TimeoutCount(row)
    BY <1>1, StepCrashes DEF Quiet, history, RenamedRow, TimeoutCount
  <1>3. ASSUME Calm' PROVE RetryThread(local[w])'
    <2>1. RetryRow
      BY <1>1, <1>3, CalmBefore DEF RetryInv, RetryThread, RenameLine, RetriedPcs
    <2>2. RetryRow'
      BY <1>2, <2>1 DEF RetryRow, Rested
    <2>3. local'[w].pc \notin RetryPcs \cup {"observe", "confirm"}
      BY <1>1, RestfulPcs DEF RenameLine, Went, RestPcs, PlainPcs, RetryPcs
    <2>4. QED BY <2>2, <2>3, OtherRetry
  <1>4. QED BY <1>2, <1>3 DEF RetryInv, OneThread

LEMMA ActingRetry ==
  ASSUME TypeInv, TypeInv', OneThread, ControlInv, UncertainInv, RetryInv, NEW w \in Workers,
         Step(w), Acting(w)
  PROVE  RetryInv'
  <1> DEFINE l == local[w]
             asks == l.pc \in {"retryStop", "retryCreate"}
  <1>1. l.pc \in DispatchPcs
    BY PcKinds DEF Acting, ActLine, RestartPcs, WithOffsetPcs, RetryPcs, WithoutOffsetPcs
  <1>2. Calm /\ RetryThread(l) /\ row' = row /\ Crashes' = Crashes /\ Crashes \in Nat
    BY <1>1, ExecutorsCalm, StepCrashes, CrashCount DEF RetryInv, Acting
  <1>3. issued'["RETRY"] = IF asks THEN Bump(issued["RETRY"]) ELSE issued["RETRY"]
    BY RungNames DEF Acting, Spent, Requests
  <1>4. /\ issued["RETRY"] \in 0..CountCap /\ issued["RETRY"] \in Nat
        /\ Bump(issued["RETRY"]) \in Nat /\ Bump(issued["RETRY"]) <= issued["RETRY"] + 1
    <2>1. issued["RETRY"] \in 0..CountCap /\ CountCap \in Nat
      BY IssuedCounts, RungNames, Caps
    <2>2. QED BY <2>1 DEF Bump
  <1>5. asks => Rested /\ TimeoutCount(row) = 1
    <2>1. asks => l.job.count = row.count
      BY InSyncNow DEF SpentPcs, NewNamePcs, NewCountPcs, FreePcs, DoubtPcs
    <2>2. asks => Rested /\ TimeoutCount(l.job) = 1
      BY <1>2 DEF RetryThread, RetryPcs, RetriedPcs
    <2>3. QED BY <2>1, <2>2 DEF TimeoutCount
  <1>6. issued'["RETRY"] <= 1 + Crashes /\ (issued'["RETRY"] > 0 => TimeoutCount(row) > 0)
    BY <1>2, <1>3, <1>4, <1>5 DEF RetryInv, Rested
  <1>7. ASSUME Calm' PROVE RetryThread(local[w])'
    <2>1. PICK next \in Pcs : Went(w, next) /\ ActLine(l.pc, next)
      BY <1>1, <1>7, DispatchDoubts DEF Acting
    <2>2. local'[w].pc = next /\ local'[w].job = l.job
      BY <2>1 DEF Went
    <2>3. /\ asks => next \in RetriedPcs
          /\ l.pc \in RetriedPcs => next \in RetriedPcs
          /\ next \in RetryPcs => l.pc \in RetryPcs
          /\ next \notin RetriedPcs => l.pc \notin RetriedPcs
          /\ next \notin {"observe", "confirm"}
      BY <2>1 DEF ActLine, RetriedPcs, RetryPcs
    <2>4. ~asks => (Rested => Rested')
      BY <1>2, <1>3 DEF Rested
    <2>5. ~asks => (RetryRow => RetryRow')
      BY <1>2, <2>4 DEF RetryRow
    <2>6. QED BY <1>2, <2>2, <2>3, <2>4, <2>5 DEF RetryThread
  <1>8. QED BY <1>2, <1>6, <1>7 DEF RetryInv, OneThread

LEMMA RetryStep ==
  ASSUME OneThread
  PROVE  TypeInv /\ TypeInv' /\ ControlInv /\ UncertainInv /\ EarnedInv' /\ RetryInv
           /\ [Next]_vars => RetryInv'
  <1> SUFFICES ASSUME TypeInv, TypeInv', ControlInv, UncertainInv, EarnedInv', RetryInv,
                      [Next]_vars
               PROVE  RetryInv'
    OBVIOUS
  <1>1. ASSUME NEW w \in Workers, Step(w) PROVE RetryInv'
    <2>1. CASE Roaming(w)
      <3>1. ASSUME Calm' PROVE RetryRow /\ (RetryRow' => RetryThread(local[w])')
        <4>1. RetryThread(local[w])
          BY <1>1, <3>1, CalmBefore DEF RetryInv
        <4>2. RetryRow
          BY <2>1, <4>1 DEF RetryThread, Roaming, LoosePcs, RetriedPcs
        <4>3. local'[w].pc \notin RetryPcs \cup {"observe", "confirm"}
          BY <2>1 DEF Roaming, RestPcs, PlainPcs, RetryPcs
        <4>4. QED BY <4>2, <4>3, OtherRetry
      <3>2. QED BY <1>1, <2>1, <3>1, QuietRetry DEF Roaming
    <2>2. QED
      BY <1>1, <2>1, StepKinds, NoticedRetry, DecidingRetry, LoggingRetry, RenamingRetry,
         ActingRetry
  <1>2. CASE Environment
    <2>1. Weathered
      BY <1>2, EnvironmentWeather
    <2>2. /\ issued' = issued /\ row'.latest = row.latest /\ row'.status = row.status
          /\ TimeoutCount(row') = TimeoutCount(row)
      BY <2>1 DEF Weathered, TimeoutCount
    <2>3. Crashes \in Nat /\ issued["RETRY"] \in Nat
      BY CrashCount, IssuedCounts, RungNames
    <2>4. CASE /\ Crashes' = Crashes /\ uncertain' = uncertain
               /\ \A w \in Workers : SameThread(local[w], local'[w])
      <3>1. ASSUME Calm', NEW w \in Workers PROVE RetryThread(local[w])'
        <4>1. RetryThread(local[w])
          BY <2>2, <2>4, <3>1 DEF RetryInv, Calm
        <4>2. /\ local'[w].pc = local[w].pc /\ local'[w].job.latest = local[w].job.latest
              /\ TimeoutCount(local'[w].job) = TimeoutCount(local[w].job)
          BY <2>4 DEF SameThread, TimeoutCount
        <4>3. QED BY <2>2, <2>4, <4>1, <4>2 DEF RetryThread, RetryRow, Rested
      <3>2. QED BY <2>2, <2>4, <3>1 DEF RetryInv
    <2>5. CASE Crashes' = Crashes + 1 /\ \A w \in Workers : local'[w] = Idle
      <3>1. Rested' /\ (issued["RETRY"] <= 1 + Crashes)'
        BY <2>2, <2>3, <2>5 DEF RetryInv, Rested
      <3>2. RetryRow'
        BY <3>1 DEF RetryRow
      <3>3. ASSUME NEW w \in Workers PROVE RetryThread(local[w])'
        <4>1. local'[w].pc = "idle"
          BY <2>5, RestingPcs
        <4>2. QED BY <3>2, <4>1, OtherRetry DEF RetryPcs
      <3>4. QED BY <2>2, <3>1, <3>3 DEF RetryInv
    <2>6. QED BY <2>1, <2>4, <2>5 DEF Weathered
  <1>3. CASE UNCHANGED vars
    <2>1. /\ row' = row /\ local' = local /\ issued' = issued /\ budget' = budget
          /\ uncertain' = uncertain
      BY <1>3 DEF vars
    <2>2. Crashes' = Crashes
      BY <2>1 DEF Crashes
    <2>3. QED BY <2>1, <2>2 DEF RetryInv, Calm, RetryThread, RetryRow, Rested
  <1>4. QED BY <1>1, <1>2, <1>3 DEF Next

LEMMA RetryInit == Init => RetryInv
  <1> SUFFICES ASSUME Init PROVE RetryInv
    OBVIOUS
  <1>1. TypeInv /\ issued["RETRY"] = 0 /\ row.latest = "NONE"
    BY TypeInvInit, RungNames DEF Init, NoRow
  <1>2. Crashes \in Nat
    BY <1>1, CrashCount
  <1>3. \A w \in Workers : local[w].pc = "idle"
    BY RestingPcs DEF Init
  <1>4. QED BY <1>1, <1>2, <1>3 DEF RetryInv, RetryThread, RetryRow, WithOffsetRetryEvents, RetryPcs

LEMMA AlwaysRetry ==
  ASSUME OneThread
  PROVE  Spec => []RetryInv
  BY RetryInit, AlwaysTyped, AlwaysControl, AlwaysUncertain, AlwaysEarned, RetryStep, PTL DEF Spec

\* AttemptsBounded holds of one thread: whatever fails, and however often the
\* process crashes, no rung is climbed beyond its limit but by what the crashes
\* hid (the counters of domain/healing.py and spGetConnectorHealingQueue).
THEOREM LadderBounded ==
  ASSUME OneThread
  PROVE  Spec => []AttemptsBounded
  <1>1. TypeInv /\ RungInv /\ WithInv /\ RetryInv => AttemptsBounded
    <2> SUFFICES ASSUME TypeInv, RungInv, WithInv, RetryInv, NEW r \in Rungs
                 PROVE  issued[r] <= MaxAttempts[r] + Crashes + Regained(r)
      BY DEF AttemptsBounded
    <2>1. CASE r \in CountedRungs
      <3>1. issued[r] <= MaxAttempts[r] + Crashes
        BY <2>1 DEF RungInv, RungFits
      <3>2. Regained(r) = 0
        BY <2>1 DEF Regained, CountedRungs
      <3>3. MaxAttempts[r] \in Nat /\ Crashes \in Nat
        BY <2>1, AttemptLimits, CrashCount
      <3>4. QED BY <3>1, <3>2, <3>3
    <2>2. CASE r = "WITH_OFFSET"
      <3>1. MaxAttempts[r] = 1
        BY <2>2 DEF MaxAttempts
      <3>2. Regained("WITH_OFFSET") \in Nat /\ Crashes \in Nat
        BY AllowanceType DEF Regained
      <3>3. issued[r] <= 1 + (Crashes + Regained("WITH_OFFSET"))
        BY <2>2 DEF WithInv, Allowance
      <3>4. QED BY <2>2, <3>1, <3>2, <3>3
    <2>3. CASE r = "RETRY"
      <3>1. MaxAttempts[r] = 1 /\ Regained(r) = 0
        BY <2>3 DEF MaxAttempts, Regained
      <3>2. QED BY <2>3, <3>1, CrashCount DEF RetryInv
    <2>4. QED BY <2>1, <2>2, <2>3 DEF Rungs, CountedRungs
  <1>2. QED BY <1>1, AlwaysTyped, AlwaysRungs, AlwaysWith, AlwaysRetry, PTL

-----------------------------------------------------------------------------
(* One connector alive: until the process crashes, the row names it, or    *)
(* the executor at work knows it as the replacement.                       *)

\* Where the replacement is up and the row still names the replaced connector,
RaisedPcs == {"renameResume", "logWith", "renameWith", "logWithout", "renameWithout"}
\* where nothing is up,
DarkPcs == {"create", "renameTimeout", "patch", "renamePatch", "resume", "createFresh"}
\* and where a failed create may have left a running replacement unnamed.
LostPcs == {"logWithoutFailed", "escalate", "close"}
OnlyLive(k, n) == \A v \in Versions : k[v] \in Live => v = n
NoneLive(k) == \A v \in Versions : k[v] \notin Live
LiveThread(k, r, l) ==
  /\ l.pc \notin RaisedPcs \cup LostPcs => OnlyLive(k, r.name)
  /\ l.pc \in RaisedPcs => OnlyLive(k, Replacement(l.job))
  /\ l.pc \in DarkPcs => NoneLive(k)
LiveInv ==
  Crashes = 0 =>
    OneLiveConnector /\ (Calm => \A w \in Workers : LiveThread(kc, row, local[w]))

LEMMA LiveKept ==
  ASSUME NoneRevives
  PROVE  /\ \A n : OnlyLive(kc, n) => OnlyLive(kc', n)
         /\ NoneLive(kc) => NoneLive(kc')
         /\ OneLiveConnector => OneLiveConnector'
  BY DEF NoneRevives, OnlyLive, NoneLive, OneLiveConnector

LEMMA QuietLive ==
  ASSUME TypeInv, OneThread, ControlInv, UncertainInv, LiveInv, NEW w \in Workers, Step(w),
         row'.name = row.name, NoneRevives, local'[w].pc \notin RaisedPcs \cup DarkPcs,
         Calm' => local[w].pc \notin RaisedPcs \cup LostPcs
  PROVE  LiveInv'
  <1>1. Crashes' = Crashes
    BY StepCrashes
  <1>2. ASSUME Crashes = 0, Calm' PROVE LiveThread(kc', row', local'[w])
    <2>1. LiveThread(kc, row, local[w])
      BY <1>2, CalmBefore DEF LiveInv
    <2>2. QED BY <1>2, <2>1, LiveKept DEF LiveThread
  <1>3. QED BY <1>1, <1>2, LiveKept DEF LiveInv, OneThread

LEMMA LoggingLive ==
  ASSUME TypeInv, OneThread, ControlInv, UncertainInv, LiveInv, NEW w \in Workers, Step(w),
         Logging(w)
  PROVE  LiveInv'
  <1> DEFINE l == local[w]
  <1>1. PICK e \in EventTypes, next \in Pcs :
          /\ AuditLine(l.pc, e, next) /\ l.pc \in AuditPcs /\ Quiet
          /\ \/ EventRow(row, row', e) /\ Went(w, next)
             \/ (row' = row \/ EventRow(row, row', e)) /\ Raised(w)
    BY DEF Logging
  <1>2. kc' = kc /\ Crashes' = Crashes /\ row'.name = row.name /\ l.pc \in DispatchPcs
    BY <1>1, PcsIncludeAll, StepCrashes DEF Quiet, cluster, EventRow
  <1>3. ASSUME Crashes = 0, Calm' PROVE LiveThread(kc, row', local'[w])
    <2>1. LiveThread(kc, row, l)
      BY <1>3, CalmBefore DEF LiveInv
    <2>2. local'[w].pc = next /\ local'[w].job = l.job
      BY <1>1, <1>2, <1>3, DispatchDoubts DEF Went
    <2>3. /\ next \in RaisedPcs <=> l.pc \in RaisedPcs
          /\ l.pc \in LostPcs => next \in LostPcs
          /\ next \notin DarkPcs
      BY <1>1 DEF AuditLine, RaisedPcs, LostPcs, DarkPcs
    <2>4. QED BY <1>2, <2>1, <2>2, <2>3 DEF LiveThread
  <1>4. QED BY <1>2, <1>3 DEF LiveInv, OneThread, OneLiveConnector

LEMMA RenamingLive ==
  ASSUME TypeInv, OneThread, ControlInv, UncertainInv, LiveInv, NEW w \in Workers, Step(w),
         Renaming(w)
  PROVE  LiveInv'
  <1> DEFINE l == local[w]
  <1>1. PICK next :
          /\ RenameLine(l.pc, next) /\ Quiet
          /\ \/ RenamedRow(row, row', l.job) /\ Went(w, next)
             \/ Raised(w)
    BY DEF Renaming
  <1>2. kc' = kc /\ Crashes' = Crashes /\ l.pc \in DispatchPcs
    BY <1>1, PcKinds, StepCrashes
    DEF Quiet, cluster, RenameLine, WithOffsetPcs, WithoutOffsetPcs, DispatchPcs
  <1>3. ASSUME Crashes = 0, Calm' PROVE LiveThread(kc, row', local'[w])
    <2>1. LiveThread(kc, row, l)
      BY <1>3, CalmBefore DEF LiveInv
    <2>2. /\ local'[w].pc = next /\ local'[w].job = l.job
          /\ row'.name = Replacement(l.job)
      BY <1>1, <1>2, <1>3, DispatchDoubts DEF Went, RenamedRow
    <2>3. /\ next \notin RaisedPcs \cup LostPcs \cup DarkPcs
          /\ l.pc \in RaisedPcs \cup DarkPcs
      BY <1>1 DEF RenameLine, RaisedPcs, LostPcs, DarkPcs
    <2>4. OnlyLive(kc, Replacement(l.job))
      BY <2>1, <2>3 DEF LiveThread, OnlyLive, NoneLive
    <2>5. QED BY <2>2, <2>3, <2>4 DEF LiveThread
  <1>4. QED BY <1>2, <1>3 DEF LiveInv, OneThread, OneLiveConnector

LEMMA ActingLive ==
  ASSUME TypeInv, OneThread, ControlInv, UncertainInv, LiveInv, NEW w \in Workers, Step(w),
         Acting(w)
  PROVE  LiveInv'
  <1> DEFINE l == local[w]
             n == Replacement(l.job)
  <1>1. l.pc \in DispatchPcs
    BY PcKinds DEF Acting, ActLine, RestartPcs, WithOffsetPcs, RetryPcs, WithoutOffsetPcs
  <1>2. Calm /\ row' = row /\ Revives(l) /\ Crashes' = Crashes
    BY <1>1, ExecutorsCalm, StepCrashes DEF Acting
  <1> SUFFICES ASSUME Crashes = 0
               PROVE  OneLiveConnector' /\ (Calm' => LiveThread(kc', row', local'[w]))
    BY <1>2 DEF LiveInv, OneThread
  <1>3. LiveThread(kc, row, l) /\ OneLiveConnector
    BY <1>2 DEF LiveInv
  <1>4. l.pc \in {"stopOld", "stopForFresh", "retryResume"} => l.job.name = row.name
    BY InSyncNow DEF SpentPcs, NewNamePcs, NewCountPcs, FreePcs, DoubtPcs
  <1>5. CASE l.pc \in {"resume", "createFresh"}
    <2>1. NoneLive(kc)
      BY <1>3, <1>5 DEF LiveThread, DarkPcs
    <2>2. OnlyLive(kc', n)
      BY <1>2, <1>5, <2>1 DEF Revives, Raises, OnlyLive, NoneLive
    <2>3. OneLiveConnector'
      BY <2>2 DEF OnlyLive, OneLiveConnector
    <2>4. ASSUME Calm' PROVE LiveThread(kc', row', local'[w])
      <3>1. PICK next \in Pcs : Went(w, next) /\ ActLine(l.pc, next)
        BY <1>1, <2>4, DispatchDoubts DEF Acting
      <3>2. next \in {"logWith", "renameResume", "logWithout", "logWithoutFailed"}
        BY <1>5, <3>1 DEF ActLine
      <3>3. QED
        BY <2>2, <3>1, <3>2 DEF Went, LiveThread, RaisedPcs, LostPcs, DarkPcs
    <2>5. QED BY <2>3, <2>4
  <1>6. CASE l.pc = "retryResume"
    <2>1. OnlyLive(kc', row.name)
      BY <1>2, <1>3, <1>4, <1>6 DEF LiveThread, OnlyLive, Revives, Raises, RaisedPcs, LostPcs
    <2>2. OneLiveConnector'
      BY <2>1 DEF OnlyLive, OneLiveConnector
    <2>3. ASSUME Calm' PROVE LiveThread(kc', row', local'[w])
      <3>1. PICK next \in Pcs : Went(w, next) /\ ActLine(l.pc, next)
        BY <1>1, <2>3, DispatchDoubts DEF Acting
      <3>2. next \notin RaisedPcs \cup DarkPcs
        BY <1>6, <3>1 DEF ActLine, RaisedPcs, DarkPcs
      <3>3. QED BY <1>2, <2>1, <3>1, <3>2 DEF Went, LiveThread
    <2>4. QED BY <2>2, <2>3
  <1>7. CASE l.pc \notin {"resume", "createFresh", "retryResume"}
    <2>1. NoneRevives
      BY <1>2, <1>7 DEF Revives, Raises, NoneRevives
    <2>2. OneLiveConnector'
      BY <1>3, <2>1, LiveKept
    <2>3. ASSUME Calm' PROVE LiveThread(kc', row', local'[w])
      <3>1. PICK next \in Pcs : Went(w, next) /\ ActLine(l.pc, next)
        BY <1>1, <2>3, DispatchDoubts DEF Acting
      <3>2. local'[w].pc = next
        BY <3>1 DEF Went
      <3>3. /\ l.pc \notin RaisedPcs \cup LostPcs /\ next \notin RaisedPcs
            /\ next \in DarkPcs => l.pc \in DarkPcs \/ next \in {"create", "createFresh"}
            /\ next \in {"create", "createFresh"} => l.pc \in {"stopOld", "stopForFresh"}
        BY <1>7, <3>1 DEF ActLine, RaisedPcs, DarkPcs, LostPcs
      <3>4. OnlyLive(kc, row.name) /\ OnlyLive(kc', row.name)
        BY <1>3, <2>1, <3>3, LiveKept DEF LiveThread
      <3>5. next \in {"create", "createFresh"} => NoneLive(kc')
        <4>1. next \in {"create", "createFresh"} => kc'[row.name] \notin Live
          BY <1>4, <3>2, <3>3 DEF Acting
        <4>2. QED BY <3>4, <4>1 DEF OnlyLive, NoneLive
      <3>6. next \in DarkPcs => NoneLive(kc')
        BY <1>3, <2>1, <3>3, <3>5, LiveKept DEF LiveThread
      <3>7. QED BY <1>2, <3>2, <3>3, <3>4, <3>6 DEF LiveThread
    <2>4. QED BY <2>2, <2>3
  <1>8. QED BY <1>5, <1>6, <1>7

LEMMA LiveStep ==
  ASSUME OneThread
  PROVE  TypeInv /\ TypeInv' /\ ControlInv /\ UncertainInv /\ UnbornInv /\ LiveInv /\ [Next]_vars
         => LiveInv'
  <1> SUFFICES ASSUME TypeInv, TypeInv', ControlInv, UncertainInv, UnbornInv, LiveInv, [Next]_vars
               PROVE  LiveInv'
    OBVIOUS
  <1>1. ASSUME NEW w \in Workers, Step(w) PROVE LiveInv'
    <2>1. CASE Roaming(w)
      <3>1. row'.name = row.name /\ NoneRevives
        BY <2>1 DEF Roaming, QuietRow, SameLog, EventRow
      <3>2. local'[w].pc \notin RaisedPcs \cup DarkPcs
        BY <2>1 DEF Roaming, RestPcs, PlainPcs, RaisedPcs, DarkPcs
      <3>3. local[w].pc \in RaisedPcs \cup LostPcs => local[w].pc = "close"
        BY <2>1 DEF Roaming, LoosePcs, RaisedPcs, LostPcs
      <3>4. Calm' => local[w].pc # "close"
        BY <2>1 DEF Roaming, Calm
      <3>5. QED BY <1>1, <3>1, <3>2, <3>3, <3>4, QuietLive
    <2>2. CASE Noticed(w) \/ Missed(w)
      <3>1. /\ row'.name = row.name /\ kc' = kc /\ local[w].pc = "check"
            /\ local'[w].pc \in {"observe", "configRetry"}
        BY <2>2 DEF Noticed, Missed, Quiet, cluster, Carried
      <3>2. QED BY <1>1, <3>1, QuietLive DEF NoneRevives, RaisedPcs, DarkPcs, LostPcs
    <2>3. CASE Deciding(w)
      <3>1. row'.name = row.name /\ kc' = kc /\ local[w].pc \in {"observe", "confirm"}
        BY <2>3 DEF Deciding, Quiet, cluster, EventRow
      <3>2. local'[w].pc \notin RaisedPcs \cup DarkPcs
        BY <2>3, FirstStepPcs DEF Deciding, DecidedPc, RaisedPcs, DarkPcs
      <3>3. QED BY <1>1, <3>1, <3>2, QuietLive DEF NoneRevives, RaisedPcs, LostPcs
    <2>4. QED
      BY <1>1, <2>1, <2>2, <2>3, StepKinds, LoggingLive, RenamingLive, ActingLive
  <1>5. CASE Environment /\ Arises
    <2>1. /\ OnlyLive(kc', 0) /\ row' = row /\ row.name = 0
          /\ \A w \in Workers : local'[w].pc \in UnbornPcs
      BY <1>5 DEF Arises, UnbornInv, OnlyLive
    <2>2. \A w \in Workers : LiveThread(kc', row', local'[w])
      BY <2>1 DEF LiveThread, UnbornPcs, LoosePcs, RaisedPcs, LostPcs, DarkPcs
    <2>3. OneLiveConnector'
      BY <2>1 DEF OnlyLive, OneLiveConnector
    <2>4. QED BY <2>2, <2>3 DEF LiveInv
  <1>2. CASE Environment /\ ~Arises
    <2>1. Weathered /\ NoneRevives
      BY <1>2, EnvironmentWeather DEF Weathered
    <2>2. ASSUME Crashes' = 0 PROVE LiveInv'
      <3>1. Crashes = 0 /\ Crashes' # Crashes + 1
        BY <1>2, <2>2, NotCrashedBefore
      <3>2. /\ Calm' => Calm
            /\ \A w \in Workers : SameThread(local[w], local'[w])
        BY <2>1, <3>1 DEF Weathered, Calm
      <3>3. ASSUME Calm', NEW w \in Workers PROVE LiveThread(kc', row', local'[w])
        <4>1. LiveThread(kc, row, local[w])
          BY <3>1, <3>2, <3>3 DEF LiveInv
        <4>2. local'[w].pc = local[w].pc /\ Replacement(local'[w].job) = Replacement(local[w].job)
          BY <3>2 DEF SameThread, Replacement
        <4>3. row'.name = row.name /\ NoneRevives
          BY <2>1 DEF Weathered
        <4>4. QED BY <4>1, <4>2, <4>3, LiveKept DEF LiveThread
      <3>4. QED BY <2>1, <3>1, <3>3, LiveKept DEF LiveInv, Weathered
    <2>3. QED BY <2>2 DEF LiveInv
  <1>3. CASE UNCHANGED vars
    BY <1>3 DEF LiveInv, OneLiveConnector, Calm, vars, Crashes
  <1>4. QED BY <1>1, <1>2, <1>3, <1>5 DEF Next

LEMMA LiveInit == Init => LiveInv
  <1> SUFFICES ASSUME Init PROVE LiveInv
    OBVIOUS
  <1>1. OnlyLive(kc, 0) /\ row.name = 0
    BY DEF Init, NoRow, OnlyLive, Live
  <1>2. \A w \in Workers : local[w].pc = "idle"
    BY RestingPcs DEF Init
  <1>3. QED
    BY <1>1, <1>2 DEF LiveInv, LiveThread, OneLiveConnector, OnlyLive, RaisedPcs, DarkPcs

\* Until the process crashes, two versions of one source never run at a time:
\* every executor stops the connector it replaces, and whichever request or
\* database call fails in between, the next attempt starts from the one that
\* runs. (A crash between a recreate's log and the new name of the row breaks
\* this, see crash_name.)
THEOREM NeverTwoLive ==
  ASSUME OneThread
  PROVE  Spec => [](Crashes = 0 => OneLiveConnector)
  <1>1. LiveInv => (Crashes = 0 => OneLiveConnector)
    BY DEF LiveInv
  <1>2. QED
    BY <1>1, LiveInit, LiveStep, AlwaysTyped, AlwaysControl, AlwaysUncertain, AlwaysUnborn, PTL
    DEF Spec

-----------------------------------------------------------------------------
(* The verdict: once a terminal event is logged, the attempt that logged   *)
(* it closes the incident, or leaves its outcome in doubt.                 *)

VerdictInv ==
  /\ \A w \in Workers : local[w].pc \in DoubtPcs => uncertain
  /\ Crashes = 0 => (Calm /\ Verdict => \A w \in Workers : local[w].pc = "close")

LEMMA SameVerdict ==
  ASSUME TypeInv, row'.count = row.count \/ \E e : EventRow(row, row', e) /\ e \notin TerminalEvents
  PROVE  Verdict' <=> Verdict
  <1>1. CASE row'.count = row.count
    BY <1>1 DEF Verdict
  <1>2. ASSUME NEW e, EventRow(row, row', e), e \notin TerminalEvents
        PROVE  Verdict' <=> Verdict
    <2>1. \A x \in CountedEvents : x # e => row'.count[x] = row.count[x]
      BY <1>2, VersionsNamed, EventRowCounts DEF EventCounts
    <2>2. \A x \in TerminalEvents : row'.count[x] = row.count[x]
      BY <1>2, <2>1, EventsCounted
    <2>3. QED BY <2>2 DEF Verdict
  <1>3. QED BY <1>1, <1>2

\* Terminal events are logged by escalate and level_limit_reached, which go on
\* to close the incident, and by _quarantine_uncertain_action.
LEMMA VerdictBy ==
  ASSUME TypeInv, ControlInv, NEW w \in Workers, Step(w), ~Verdict, Verdict'
  PROVE  \/ local[w].pc \in {"levelLimit", "escalate"} /\ (Went(w, "close") \/ Raised(w))
         \/ local[w].pc = "quarantine"
  <1> DEFINE l == local[w]
  <1>1. /\ row'.count # row.count
        /\ \A e : EventRow(row, row', e) => e \in TerminalEvents
    BY SameVerdict
  <1>2. CASE Arrive(w)
    BY <1>1, <1>2, ArriveEffect DEF SameLog
  <1>3. CASE Assess(w) /\ ~Observe(w) /\ ~Confirm(w)
    BY <1>1, <1>3, CheckEffect
  <1>4. CASE Observe(w) \/ Confirm(w)
    BY <1>1, <1>4, HealthRows DEF TerminalEvents
  <1>5. CASE Audit(w)
    BY <1>1, <1>5, AuditRows DEF AuditLine, TerminalEvents
  <1>6. CASE Rename(w)
    BY <1>1, <1>6, RenameEffect DEF RenamedRow
  <1>7. CASE Close(w)
    BY <1>1, <1>7, CloseEffect DEF SameLog
  <1>8. CASE Act(w)
    BY <1>1, <1>8, ActLines
  <1>9. CASE DeleteSuperseded(w)
    BY <1>1, <1>9 DEF DeleteSuperseded
  <1>10. CASE Settle(w) /\ ~DeleteSuperseded(w)
    <2>1. SettleWrite(l, row')
      BY <1>1, <1>10, SettleEffect DEF Reread
    <2>2. QED BY <1>1, <2>1 DEF SettleWrite, SameLog, TerminalEvents
  <1>11. QED
    BY <1>2, <1>3, <1>4, <1>5, <1>6, <1>7, <1>8, <1>9, <1>10 DEF Step, Assess, Record

\* The doubt is quarantined only where there is one.
LEMMA DoubtBy ==
  ASSUME TypeInv, ControlInv, VerdictInv, NEW w \in Workers, Step(w), local'[w].pc \in DoubtPcs
  PROVE  uncertain'
  <1> DEFINE m == local'[w]
  <1>1. ~Left(w) /\ m # Idle /\ (Raised(w) => uncertain')
    BY RestingPcs DEF DoubtPcs, Raised, Went
  <1>2. CASE Arrive(w)
    <2>1. CASE Raised(w)
      BY <1>1, <2>1
    <2>2. CASE Arrived(w) /\ UNCHANGED uncertain
      <3>1. m.pc \notin {"enqueue", "acquire", "start", "finish", "check"}
        BY DEF DoubtPcs
      <3>2. uncertain
        BY <1>1, <2>2, <3>1 DEF Arrived, Carried, Went
      <3>3. QED BY <2>2, <3>2
    <2>3. QED BY <1>2, <2>1, <2>2, ArriveEffect
  <1>3. CASE Assess(w) /\ ~Observe(w) /\ ~Confirm(w)
    BY <1>1, <1>3, CheckEffect, FirstStepPcs DEF Checked, Carried, DoubtPcs
  <1>4. CASE Observe(w) \/ Confirm(w)
    BY <1>1, <1>4, HealthRows, FirstStepPcs DEF DecidedPc, DoubtPcs
  <1>5. CASE Audit(w)
    BY <1>1, <1>5, AuditRows DEF AuditLine, Went, DoubtPcs
  <1>6. CASE Rename(w)
    BY <1>1, <1>6, RenameEffect DEF RenameLine, Went, DoubtPcs
  <1>7. CASE Close(w)
    BY <1>1, <1>7, CloseEffect DEF Went, DoubtPcs
  <1>8. CASE Act(w)
    BY <1>1, <1>8, ActLines DEF ActLine, Went, DoubtPcs
  <1>9. CASE DeleteSuperseded(w)
    BY <1>9, GotoEffect DEF DeleteSuperseded, Went, DoubtPcs
  <1>10. CASE Settle(w) /\ ~DeleteSuperseded(w)
    <2>1. Raised(w) \/ SettleMove(w) \/ Reread(w)
      BY <1>10, SettleEffect
    <2>2. QED BY <1>1, <2>1 DEF SettleMove, Reread, Went, DoubtPcs, VerdictInv
  <1>11. QED
    BY <1>2, <1>3, <1>4, <1>5, <1>6, <1>7, <1>8, <1>9, <1>10 DEF Step, Assess, Record

LEMMA StepVerdict ==
  ASSUME TypeInv, OneThread, ControlInv, UncertainInv, VerdictInv, NEW w \in Workers, Step(w)
  PROVE  VerdictInv'
  <1>1. Crashes' = Crashes
    BY StepCrashes
  <1>2. local'[w].pc \in DoubtPcs => uncertain'
    BY DoubtBy
  <1>3. ASSUME Crashes = 0, Calm', Verdict' PROVE local'[w].pc = "close"
    <2>1. Calm
      BY <1>3, CalmBefore
    <2>2. CASE Verdict
      <3>1. local[w].pc = "close"
        BY <1>3, <2>1, <2>2 DEF VerdictInv
      <3>2. ~Noticed(w) /\ ~Missed(w) /\ ~Deciding(w) /\ ~Logging(w) /\ ~Renaming(w)
        BY <3>1 DEF Noticed, Missed, Deciding, Logging, AuditLine, Renaming, RenameLine
      <3>3. Acting(w) => Raised(w)
        BY <3>1 DEF Acting, ActLine
      <3>4. Roaming(w) \/ Raised(w)
        BY <3>2, <3>3, StepKinds
      <3>5. QED BY <1>3, <3>1, <3>4, DispatchDoubts DEF Roaming, Calm, DispatchPcs
    <2>3. CASE ~Verdict
      <3>1. local[w].pc # "quarantine"
        BY <2>1 DEF VerdictInv, DoubtPcs, Calm
      <3>2. local[w].pc \in {"levelLimit", "escalate"} /\ (Went(w, "close") \/ Raised(w))
        BY <1>3, <2>3, <3>1, VerdictBy
      <3>3. QED BY <1>3, <3>2, DispatchDoubts DEF DispatchPcs, Went
    <2>4. QED BY <2>2, <2>3
  <1>4. QED BY <1>1, <1>2, <1>3 DEF VerdictInv, OneThread

LEMMA VerdictStep ==
  ASSUME OneThread
  PROVE  TypeInv /\ ControlInv /\ UncertainInv /\ VerdictInv /\ [Next]_vars => VerdictInv'
  <1> SUFFICES ASSUME TypeInv, ControlInv, UncertainInv, VerdictInv, [Next]_vars
               PROVE  VerdictInv'
    OBVIOUS
  <1>1. ASSUME NEW w \in Workers, Step(w) PROVE VerdictInv'
    BY <1>1, StepVerdict
  <1>2. CASE Environment
    <2>1. Weathered
      BY <1>2, EnvironmentWeather
    <2>2. Verdict' <=> Verdict
      BY <2>1, SameVerdict DEF Weathered
    <2>3. ASSUME NEW w \in Workers, local'[w].pc \in DoubtPcs PROVE uncertain'
      BY <2>1, <2>3, RestingPcs DEF Weathered, SameThread, VerdictInv, DoubtPcs
    <2>4. ASSUME Crashes' = 0, Calm', Verdict', NEW w \in Workers PROVE local'[w].pc = "close"
      <3>1. Crashes = 0 /\ Crashes' # Crashes + 1
        BY <1>2, <2>4, NotCrashedBefore
      <3>2. Calm /\ SameThread(local[w], local'[w])
        BY <2>1, <2>4, <3>1 DEF Weathered, Calm
      <3>3. QED BY <2>2, <2>4, <3>1, <3>2 DEF VerdictInv, SameThread
    <2>5. QED BY <2>3, <2>4 DEF VerdictInv
  <1>3. CASE UNCHANGED vars
    BY <1>3 DEF VerdictInv, Verdict, Calm, vars, Crashes
  <1>4. QED BY <1>1, <1>2, <1>3 DEF Next

LEMMA AlwaysVerdict ==
  ASSUME OneThread
  PROVE  Spec => []VerdictInv
  <1>1. Init => VerdictInv
    <2> SUFFICES ASSUME Init PROVE VerdictInv
      OBVIOUS
    <2>1. \A w \in Workers : local[w].pc = "idle"
      BY RestingPcs DEF Init
    <2>2. ~Verdict
      BY EventsCounted DEF Init, NoRow, NoCounts, Verdict
    <2>3. QED BY <2>1, <2>2 DEF VerdictInv, DoubtPcs
  <1>2. QED BY <1>1, AlwaysTyped, AlwaysControl, AlwaysUncertain, VerdictStep, PTL DEF Spec

-----------------------------------------------------------------------------
(* The ladder: every step of the one thread is a step of RecoveryLadder,   *)
(* or leaves all of it alone.                                              *)

LadderStep == Ladder!Next \/ UNCHANGED Ladder!ladderVars
RecoveryMode == row.status # "NONE" /\ row.level = 4
Confirmed == row.count["HEALTH_FAILED_CONFIRMED"] > 0

\* The same incident, in the same mode, with the same verdict.
SameLadder ==
  /\ (RecoveryMode' <=> RecoveryMode) /\ (Confirmed' <=> Confirmed) /\ (Verdict' <=> Verdict)

LEMMA LadderStutters ==
  ASSUME SameLadder, issued' = issued, LadderPhase' = LadderPhase
  PROVE  LadderStep
  <1> DEFINE p == LadderPhase
             q == row.status # "NONE" /\ row.level = 4
             c == row.count["HEALTH_FAILED_CONFIRMED"] > 0
             v == Verdict
  <1>1. q' = q
    BY DEF SameLadder, RecoveryMode
  <1>2. c' = c
    BY DEF SameLadder, Confirmed
  <1>3. v' = v
    BY DEF SameLadder, Verdict
  <1>4. UNCHANGED <<p, q, c, issued, v>>
    <2> HIDE DEF p, q, c, v
    <2>1. p' = p
      BY DEF p
    <2>2. QED BY <1>1, <1>2, <1>3, <2>1
  <1>5. QED BY <1>4 DEF LadderStep, Ladder!ladderVars

\* Only spEnqueueConnectorHealing sets the level.
LEMMA StepLevel ==
  ASSUME TypeInv, NEW w \in Workers, Step(w), row.status # "NONE"
  PROVE  row'.level = row.level
  <1> DEFINE l == local[w]
  <1>1. \A r : r.level = row.level /\ (\E next : Write(w, r, next)) => row'.level = row.level
    BY DEF Write, Wrote, DbFault
  <1>2. row \in Rows
    BY HeldTypes
  <1>3. CASE Arrive(w)
    <2>1. ASSUME Notice(w) \/ ListDue(w) \/ Alerted(w) \/ TryLock(w)
          PROVE  row' = row
      <3>1. CASE Notice(w)
        BY <3>1 DEF Notice
      <3>2. CASE ListDue(w)
        BY <3>2 DEF ListDue
      <3>3. CASE Alerted(w)
        BY <3>3 DEF Alerted
      <3>4. CASE TryLock(w)
        BY <3>4 DEF TryLock
      <3>5. QED BY <2>1, <3>1, <3>2, <3>3, <3>4
    <2>2. CASE Enqueue(w)
      BY <1>1, <2>2 DEF Enqueue
    <2>3. CASE Start(w)
      <3>1. [row EXCEPT !.status = "PROCESSING"].level = row.level
        BY <1>2 DEF Rows
      <3>2. QED BY <1>1, <2>3, <3>1 DEF Start
    <2>4. CASE Finish(w)
      BY <1>1, <1>2, <2>4, ClosedFields DEF Finish
    <2>5. QED BY <1>3, <2>1, <2>2, <2>3, <2>4 DEF Arrive
  <1>4. CASE Assess(w) /\ ~Observe(w) /\ ~Confirm(w)
    BY <1>4, CheckEffect
  <1>5. ASSUME NEW e, NEW d, NEW next, Write(w, Logged(row, e, d), next)
        PROVE  row'.level = row.level
    <2>1. Logged(row, e, d).level = row.level
      <3> DEFINE c == Counted(row.count, e)
                 b == e \in WaitEvents
      <3>1. \/ Logged(row, e, d) = row
            \/ Logged(row, e, d) = [row EXCEPT !.latest = e, !.details = d, !.wait = b, !.count = c]
        BY DEF Logged
      <3> HIDE DEF c, b
      <3>2. QED BY <1>2, <3>1 DEF Rows
    <2>2. QED BY <1>1, <1>5, <2>1
  <1>6. CASE Observe(w) \/ Confirm(w) \/ Audit(w)
    BY <1>5, <1>6 DEF Observe, Confirm, Audit
  <1>7. CASE Rename(w)
    BY <1>7, RenameEffect DEF RenamedRow
  <1>8. CASE Close(w)
    BY <1>1, <1>2, <1>8, ClosedFields DEF Close
  <1>9. CASE Act(w)
    BY <1>9, ActLines
  <1>10. CASE DeleteSuperseded(w) \/ Refresh(w)
    BY <1>10 DEF DeleteSuperseded, Refresh
  <1>11. CASE LogRecovered(w) \/ Quarantine(w) \/ LogError(w)
    BY <1>5, <1>11 DEF LogRecovered, Quarantine, LogError
  <1>12. CASE CloseRecovered(w) \/ QuarantineClose(w)
    BY <1>2, <1>12, ClosedFields DEF CloseRecovered, QuarantineClose, Wrote, DbFault
  <1>13. CASE Defer(w)
    <2> DEFINE b == l.job.wait
    <2>1. b \in BOOLEAN
      BY HeldTypes DEF Rows
    <2>2. \E next : Write(w, [row EXCEPT !.status = "WAITING", !.deferred = b], next)
      BY <1>13 DEF Defer
    <2> HIDE DEF b
    <2>3. [row EXCEPT !.status = "WAITING", !.deferred = b].level = row.level
      BY <1>2, <2>1 DEF Rows
    <2>4. QED BY <1>1, <2>2, <2>3
  <1>14. QED
    BY <1>3, <1>4, <1>6, <1>7, <1>8, <1>9, <1>10, <1>11, <1>12, <1>13
    DEF Step, Assess, Record, Settle

LEMMA LadderInit == Init => Ladder!Init
  <1> SUFFICES ASSUME Init PROVE Ladder!Init
    OBVIOUS
  <1>1. /\ row.status = "NONE" /\ issued = [r \in Rungs |-> 0]
        /\ \A e \in CountedEvents : row.count[e] = 0
    BY DEF Init, NoRow, NoCounts
  <1>2. ~Verdict /\ ~(row.count["HEALTH_FAILED_CONFIRMED"] > 0)
    BY <1>1, EventsCounted DEF Verdict
  <1>3. LadderPhase = "none"
    BY <1>1 DEF LadderPhase
  <1>4. QED BY <1>1, <1>2, <1>3 DEF Ladder!Init

\* The confirmation is logged by _handle_unhealthy alone.
LEMMA ConfirmedBy ==
  ASSUME TypeInv, ControlInv, NEW w \in Workers, Step(w), ~Confirmed, Confirmed'
  PROVE  local[w].pc = "confirm"
  <1> DEFINE l == local[w]
             e == "HEALTH_FAILED_CONFIRMED"
  <1>1. row'.count # row.count
    BY DEF Confirmed
  <1>2. ASSUME NEW x, EventRow(row, row', x) PROVE x = e
    <2>1. x # e => row'.count[e] = row.count[e]
      BY <1>2, VersionsNamed, EventRowCounts, EventsCounted DEF EventCounts
    <2>2. QED BY <2>1 DEF Confirmed
  <1>3. CASE Arrive(w)
    BY <1>1, <1>3, ArriveEffect DEF SameLog
  <1>4. CASE Assess(w) /\ ~Observe(w) /\ ~Confirm(w)
    BY <1>1, <1>4, CheckEffect
  <1>5. CASE Observe(w) \/ Confirm(w)
    <2>1. l.pc = "observe" => row' = row \/ EventRow(row, row', "HEALTH_FAILURE_OBSERVED")
      BY <1>5, HealthRows
    <2>2. QED BY <1>1, <1>2, <1>5, <2>1, HealthRows
  <1>6. CASE Audit(w)
    BY <1>1, <1>2, <1>6, AuditRows DEF AuditLine
  <1>7. CASE Rename(w)
    BY <1>1, <1>7, RenameEffect DEF RenamedRow
  <1>8. CASE Close(w)
    BY <1>1, <1>8, CloseEffect DEF SameLog
  <1>9. CASE Act(w)
    BY <1>1, <1>9, ActLines
  <1>10. CASE DeleteSuperseded(w)
    BY <1>1, <1>10 DEF DeleteSuperseded
  <1>11. CASE Settle(w) /\ ~DeleteSuperseded(w)
    <2>1. SettleWrite(l, row')
      BY <1>1, <1>11, SettleEffect DEF Reread
    <2>2. QED BY <1>1, <1>2, <2>1 DEF SettleWrite, SameLog
  <1>12. QED
    BY <1>3, <1>4, <1>5, <1>6, <1>7, <1>8, <1>9, <1>10, <1>11 DEF Step, Assess, Record

\* One call of the process makes requests or writes the row; a write logs one
\* event, or changes the rest of the row.
LEMMA StepWrites ==
  ASSUME TypeInv, TypeInv', ControlInv, NEW w \in Workers, Step(w)
  PROVE  \/ row' = row /\ Spent(local[w].pc) /\ local[w].pc \in DispatchPcs \ {"close"}
         \/ /\ issued' = issued
            /\ row'.count = row.count \/ \E e : EventRow(row, row', e)
  <1>1. CASE Roaming(w)
    BY <1>1 DEF Roaming, QuietRow, SameLog
  <1>2. CASE Noticed(w) \/ Missed(w) \/ Deciding(w)
    BY <1>2 DEF Noticed, Missed, Deciding, Quiet, history
  <1>3. CASE Logging(w)
    BY <1>3 DEF Logging, Quiet, history
  <1>4. CASE Renaming(w)
    BY <1>4 DEF Renaming, RenamedRow, Quiet, history
  <1>5. CASE Acting(w)
    <2>1. row' = row /\ Spent(local[w].pc) /\ local[w].pc \in DispatchPcs
      BY <1>5, PcKinds
      DEF Acting, ActLine, RestartPcs, WithOffsetPcs, RetryPcs, WithoutOffsetPcs
    <2>2. local[w].pc = "close" => issued' = issued
      BY <2>1 DEF Spent, Requests, TypeInv
    <2>3. QED BY <2>1, <2>2
  <1>6. QED BY <1>1, <1>2, <1>3, <1>4, <1>5, StepKinds

\* What is done for an incident is done while it is open, and before the verdict.
LEMMA WorksOpenly ==
  ASSUME TypeInv, ControlInv, UncertainInv, VerdictInv, Crashes = 0, NEW w \in Workers,
         local[w].pc \notin FreePcs \cup HeldBackPcs \cup {"close"}
  PROVE  IsOpen(row) /\ LadderPhase = "open" /\ ~Verdict
  <1>1. IsOpen(row)
    BY DEF ControlInv, Fits, StatusFits, HeldBackPcs, DoubtPcs
  <1>2. row.status \notin {"NONE", "COMPLETED", "ESCALATED"} /\ LadderPhase = "open"
    BY <1>1 DEF IsOpen, OpenStatuses, LadderPhase
  <1>3. ~uncertain
    BY DEF UncertainInv
  <1>4. QED BY <1>1, <1>2, <1>3 DEF VerdictInv, Calm

\* A request climbs one rung.
LEMMA RequestClimbs ==
  ASSUME TypeInv, TypeInv', ControlInv, UncertainInv, VerdictInv, LedgerInv', OrderInv',
         AttemptsBounded', Crashes = 0, Crashes' = 0, NEW w \in Workers,
         row' = row, Spent(local[w].pc),
         local[w].pc \in DispatchPcs \ {"close"}
  PROVE  LadderStep
  <1> DEFINE pc == local[w].pc
  <1>1. SameLadder /\ LadderPhase' = LadderPhase
    BY DEF SameLadder, RecoveryMode, Confirmed, Verdict, LadderPhase
  <1>2. LadderPhase = "open" /\ row.status # "NONE" /\ ~Verdict
    <2>1. pc \notin FreePcs \cup HeldBackPcs \cup {"close"}
      BY PcKinds
      DEF FreePcs, HeldBackPcs, RestartPcs, WithOffsetPcs, RetryPcs, WithoutOffsetPcs
    <2>2. QED BY <2>1, WorksOpenly DEF IsOpen, OpenStatuses
  <1>3. CASE \A r \in Rungs : ~Requests(pc, r)
    <2>1. issued' = issued
      BY <1>3 DEF Spent, TypeInv
    <2>2. QED BY <1>1, <2>1, LadderStutters
  <1>4. ASSUME NEW r \in Rungs, Requests(pc, r) PROVE LadderStep
    <2>1. \A q \in Rungs : q # r => ~Requests(pc, q)
      BY <1>4 DEF Requests
    <2>2. issued'[r] = Bump(issued[r]) /\ \A q \in Rungs : q # r => issued'[q] = issued[q]
      BY <1>4, <2>1 DEF Spent
    <2>3. issued[r] \in 0..CountCap /\ MaxAttempts[r] \in Nat /\ MaxAttempts[r] < CountCap
      BY Caps, IncidentAssumption DEF TypeInv, MaxAttempts, IncidentAssumption
    <2>4. issued'[r] <= MaxAttempts[r]
      <3>1. Regained(r)' = 0
        BY DEF Regained
      <3>2. issued'[r] <= MaxAttempts[r] + Crashes' + Regained(r)'
        BY DEF AttemptsBounded
      <3>3. QED BY <2>3, <3>1, <3>2
    <2>5. issued[r] < MaxAttempts[r] /\ issued'[r] = issued[r] + 1
      BY <2>2, <2>3, <2>4, Caps DEF Bump
    <2>6. issued' = [issued EXCEPT ![r] = @ + 1]
      BY <2>2, <2>5 DEF TypeInv
    <2>7. issued'[r] > 0
      BY <2>3, <2>5, Caps
    <2>8. FailureConfirmed(row) /\ (r \in Recreates => row.level = 4)
      BY <2>7 DEF LedgerInv, Justified
    <2>9. \A q \in Prior[r] : issued[q] > 0
      <3>1. /\ r \in {"WITH_OFFSET", "WITHOUT_OFFSET"} => issued'["CONNECTOR"] > 0
            /\ r = "RETRY" => issued'["WITH_OFFSET"] > 0
        BY <2>7 DEF OrderInv
      <3>2. ASSUME NEW q \in Prior[r] PROVE q \in Rungs /\ q # r /\ issued'[q] > 0
        BY <3>1 DEF Prior, Rungs
      <3>3. QED BY <2>2, <3>2
    <2>10. Ladder!Request(r)
      <3>1. row.count["HEALTH_FAILED_CONFIRMED"] > 0
        BY <2>8 DEF FailureConfirmed
      <3>2. LadderPhase' = LadderPhase /\ row' = row /\ (Verdict' <=> Verdict)
        BY <1>1 DEF SameLadder
      <3> HIDE DEF pc
      <3>3. UNCHANGED <<LadderPhase, row.status # "NONE" /\ row.level = 4,
                        row.count["HEALTH_FAILED_CONFIRMED"] > 0, Verdict>>
        BY <3>2 DEF Verdict
      <3>4. QED BY <1>2, <2>5, <2>6, <2>8, <2>9, <3>1, <3>3 DEF Ladder!Request
    <2>11. QED BY <2>10 DEF LadderStep, Ladder!Next
  <1>5. QED BY <1>3, <1>4

\* An incident begins PENDING.
LEMMA OpenedBy ==
  ASSUME TypeInv, ControlInv, NEW w \in Workers, Step(w), row.status = "NONE"
  PROVE  row'.status \in {"NONE", "PENDING"} /\ row'.count = row.count
  <1>1. local[w].pc \in {"idle", "enqueue", "refresh"}
    BY HeldTypes DEF ControlInv, Fits, StatusFits, IsOpen, OpenStatuses, FreePcs, DoubtPcs
  <1>2. CASE Arrive(w)
    BY <1>1, <1>2, ArriveEffect DEF Arrived, SameLog
  <1>3. CASE Settle(w)
    BY <1>1, <1>3, SettleEffect DEF DeleteSuperseded, SettleMove, Reread
  <1>4. ~Act(w)
    BY <1>1
    DEF Act, Restart, LoadConfig, Capture, StopConnector, RetryProbe, CreateStopped,
        PatchOffsets, ResumeConnector, CreateFresh, DropOld
  <1>5. ~Assess(w)
    BY <1>1
    DEF Assess, CheckUnreachable, CheckNotCreated, CheckAdminStopped, CheckHealthy,
        CheckUnhealthy, Observe, Confirm
  <1>6. ~Record(w)
    BY <1>1 DEF Record, Audit, Rename, Close, AuditPcs
  <1>7. QED BY <1>2, <1>3, <1>4, <1>5, <1>6 DEF Step

\* An event of the log confirms the failure, gives up, or does not matter here.
LEMMA EventClimbs ==
  ASSUME TypeInv, TypeInv', ControlInv, UncertainInv, VerdictInv, LedgerInv, Crashes = 0,
         NEW w \in Workers, Step(w), row.status # "NONE",
         issued' = issued, NEW e, EventRow(row, row', e)
  PROVE  LadderStep
  <1> DEFINE l == local[w]
             confirmed == "HEALTH_FAILED_CONFIRMED"
  <1>1. /\ row'.status = row.status /\ row'.level = row.level
        /\ LadderPhase' = LadderPhase /\ (RecoveryMode' <=> RecoveryMode)
    BY DEF EventRow, LadderPhase, RecoveryMode
  <1>2. /\ (Confirmed => Confirmed') /\ (Verdict => Verdict')
    <2>1. CountsKept(row, row')
      BY StepCounts
    <2>2. \A x \in CountedEvents : row.count[x] \in Nat /\ row'.count[x] \in Nat
      BY PolicyCounts, Caps DEF TypeInv
    <2>3. \A x \in CountedEvents : row.count[x] > 0 => row'.count[x] > 0
      BY <2>1, <2>2 DEF CountsKept
    <2>4. QED BY <2>3, EventsCounted DEF Confirmed, Verdict
  <1>3. \A x \in CountedEvents : x # e => row'.count[x] = row.count[x]
    BY VersionsNamed, EventRowCounts DEF EventCounts
  <1>4. CASE ~Verdict /\ Verdict'
    <2>1. e \in TerminalEvents
      BY <1>4, SameVerdict
    <2>2. Confirmed' <=> Confirmed
      BY <1>3, <2>1, EventsCounted DEF Confirmed
    <2>3. LadderPhase = "open"
      <3>1. l.pc \in {"levelLimit", "escalate", "quarantine"}
        BY <1>4, VerdictBy
      <3>2. IsOpen(row) \/ row.status = "ESCALATED"
        BY <3>1 DEF ControlInv, Fits, StatusFits, FreePcs, DoubtPcs
      <3>3. row.status # "ESCALATED"
        BY <1>4 DEF LedgerInv, Consistent, HasVerdict, Verdict
      <3>4. QED BY <3>2, <3>3 DEF IsOpen, OpenStatuses, LadderPhase
    <2>4. Verdict' = TRUE
      BY <1>4 DEF Verdict
    <2>5. UNCHANGED <<LadderPhase, row.status # "NONE" /\ row.level = 4,
                      row.count["HEALTH_FAILED_CONFIRMED"] > 0, issued>>
      BY <1>1, <2>2 DEF RecoveryMode, Confirmed
    <2>6. Ladder!GiveUp
      BY <1>4, <2>3, <2>4, <2>5 DEF Ladder!GiveUp
    <2>7. QED BY <2>6 DEF LadderStep, Ladder!Next
  <1>5. CASE ~Confirmed /\ Confirmed'
    <2>1. e = confirmed
      BY <1>3, <1>5, EventsCounted DEF Confirmed
    <2>2. Verdict' <=> Verdict
      BY <2>1, SameVerdict, EventsCounted
    <2>3. LadderPhase = "open" /\ ~Verdict
      <3>1. l.pc = "confirm"
        BY <1>5, ConfirmedBy
      <3>2. QED BY <3>1, WorksOpenly DEF FreePcs, HeldBackPcs
    <2>4. (row.count["HEALTH_FAILED_CONFIRMED"] > 0)' = TRUE
      BY <1>5 DEF Confirmed
    <2>5. UNCHANGED <<LadderPhase, row.status # "NONE" /\ row.level = 4, issued, Verdict>>
      BY <1>1, <2>2 DEF RecoveryMode, Verdict
    <2>6. Ladder!Confirm
      BY <2>3, <2>4, <2>5 DEF Ladder!Confirm
    <2>7. QED BY <2>6 DEF LadderStep, Ladder!Next
  <1>6. CASE (Confirmed' <=> Confirmed) /\ (Verdict' <=> Verdict)
    BY <1>1, <1>6, LadderStutters DEF SameLadder
  <1>7. QED BY <1>2, <1>4, <1>5, <1>6

\* Without a new event the incident is opened, closed, or goes on.
LEMMA StatusClimbs ==
  ASSUME TypeInv, TypeInv', ControlInv, UncertainInv, VerdictInv, LedgerInv', Crashes = 0,
         NEW w \in Workers, Step(w), issued' = issued, row'.count = row.count
  PROVE  LadderStep
  <1>1. (Confirmed' <=> Confirmed) /\ (Verdict' <=> Verdict)
    BY DEF Confirmed, Verdict
  <1>2. CASE row.status = "NONE"
    <2>1. row'.status \in {"NONE", "PENDING"}
      BY <1>2, OpenedBy
    <2>2. CASE row'.status = "NONE"
      BY <1>1, <1>2, <2>2, LadderStutters DEF SameLadder, RecoveryMode, LadderPhase
    <2>3. CASE row'.status = "PENDING"
      <3>1. LadderPhase = "none" /\ LadderPhase' = "open"
        BY <1>2, <2>3 DEF LadderPhase
      <3>2. (row.status # "NONE" /\ row.level = 4)' \in BOOLEAN
        OBVIOUS
      <3>3. UNCHANGED <<row.count["HEALTH_FAILED_CONFIRMED"] > 0, issued, Verdict>>
        BY DEF Verdict
      <3>4. Ladder!Open
        BY <3>1, <3>2, <3>3 DEF Ladder!Open
      <3>5. QED BY <3>4 DEF LadderStep, Ladder!Next
    <2>4. QED BY <2>1, <2>2, <2>3
  <1>3. CASE row.status # "NONE"
    <2>1. RecoveryMode' <=> RecoveryMode
      BY <1>3, StepLevel, StaysQueued DEF RecoveryMode
    <2>2. CASE LadderPhase' = LadderPhase
      BY <1>1, <2>1, <2>2, LadderStutters DEF SameLadder
    <2>3. CASE LadderPhase' # LadderPhase
      <3>1. row'.status # "NONE"
        BY <1>3, StaysQueued
      <3>2. row.status \notin {"COMPLETED", "ESCALATED"}
        BY <2>3, ClosedByControl DEF LadderPhase
      <3>3. LadderPhase = "open"
        BY <1>3, <3>2 DEF LadderPhase
      <3>4. row'.status \in {"COMPLETED", "ESCALATED"}
        BY <2>3, <3>1, <3>3 DEF LadderPhase
      <3>5. row'.status = "ESCALATED" => Verdict
        BY <1>1 DEF LedgerInv, Consistent, HasVerdict, Verdict
      <3>6. ASSUME row'.status = "COMPLETED" PROVE ~Verdict
        <4>1. local[w].pc = "closeRecovered"
          BY <3>2, <3>6, CompletedBy
        <4>2. QED BY <4>1, WorksOpenly DEF FreePcs, HeldBackPcs
      <3>7. LadderPhase' = IF Verdict THEN "escalated" ELSE "recovered"
        BY <3>4, <3>5, <3>6 DEF LadderPhase
      <3>8. UNCHANGED <<row.status # "NONE" /\ row.level = 4,
                        row.count["HEALTH_FAILED_CONFIRMED"] > 0, issued, Verdict>>
        BY <1>1, <2>1 DEF RecoveryMode, Verdict
      <3>9. Ladder!Close
        BY <3>3, <3>7, <3>8 DEF Ladder!Close
      <3>10. QED BY <3>9 DEF LadderStep, Ladder!Next
    <2>4. QED BY <2>2, <2>3
  <1>4. QED BY <1>2, <1>3

LEMMA StepClimbs ==
  ASSUME OneThread, TypeInv, TypeInv', ControlInv, UncertainInv, VerdictInv, LedgerInv,
         LedgerInv', OrderInv', AttemptsBounded', Crashes = 0, NEW w \in Workers, Step(w)
  PROVE  LadderStep
  <1>1. Crashes' = 0
    BY StepCrashes
  <1>2. CASE row' = row /\ Spent(local[w].pc) /\ local[w].pc \in DispatchPcs \ {"close"}
    BY <1>1, <1>2, RequestClimbs
  <1>3. CASE issued' = issued /\ row'.count = row.count
    BY <1>3, StatusClimbs
  <1>4. ASSUME issued' = issued, NEW e, EventRow(row, row', e) PROVE LadderStep
    <2>1. CASE row.status = "NONE"
      BY <1>4, <2>1, OpenedBy, StatusClimbs
    <2>2. CASE row.status # "NONE"
      BY <1>4, <2>2, EventClimbs
    <2>3. QED BY <2>1, <2>2
  <1>5. QED BY <1>2, <1>3, <1>4, StepWrites

\* The environment leaves the incident, and what was requested for it, alone.
LEMMA EnvironmentClimbs ==
  ASSUME TypeInv, Environment
  PROVE  LadderStep
  <1>1. row'.level = row.level
    <2>1. CASE Elapse
      BY <2>1, ElapseFields
    <2>2. CASE ~Elapse
      BY <2>2
      DEF Environment, FirstCreated, ConnectorFails, ConnectorRecovers, OperatorStops, ElapseStale, Stabilize,
          Crash
    <2>3. QED BY <2>1, <2>2
  <1>2. row'.status = row.status /\ row'.count = row.count /\ issued' = issued
    BY EnvironmentWeather DEF Weathered
  <1>3. SameLadder /\ LadderPhase' = LadderPhase
    BY <1>1, <1>2 DEF SameLadder, RecoveryMode, Confirmed, Verdict, LadderPhase
  <1>4. QED BY <1>2, <1>3, LadderStutters

\* One thread that never crashes climbs the ladder of RecoveryLadder: an incident
\* is opened once, confirmed before anything is requested, climbs each rung at
\* most as often as allowed and only after the rungs below it, and ends once, with
\* its verdict if it escalates (db_state_machine.py, policy.py and the executors).
THEOREM LadderImplemented ==
  ASSUME OneThread, MaxCrashes = 0
  PROVE  Spec => ImplementsLadder
  <1> DEFINE Inv == TypeInv /\ ControlInv /\ UncertainInv /\ VerdictInv /\ LedgerInv
                      /\ OrderInv /\ AttemptsBounded
  <1>1. Spec => []Inv
    BY AlwaysTyped, AlwaysControl, AlwaysUncertain, AlwaysVerdict, AlwaysLedger, AlwaysOrdered,
       LadderBounded, PTL
  <1>2. Inv /\ Inv' /\ [Next]_vars => LadderStep
    <2> SUFFICES ASSUME Inv, Inv', [Next]_vars PROVE LadderStep
      OBVIOUS
    <2>1. Crashes = 0
      BY CrashCount DEF Crashes
    <2>2. ASSUME NEW w \in Workers, Step(w) PROVE LadderStep
      BY <2>1, <2>2, StepClimbs
    <2>3. CASE Environment
      BY <2>3, EnvironmentClimbs
    <2>4. CASE UNCHANGED vars
      <3>1. row' = row /\ issued' = issued
        BY <2>4 DEF vars, history
      <3>2. SameLadder /\ LadderPhase' = LadderPhase
        BY <3>1 DEF SameLadder, RecoveryMode, Confirmed, Verdict, LadderPhase
      <3>3. QED BY <3>1, <3>2, LadderStutters
    <2>5. QED BY <2>2, <2>3, <2>4 DEF Next
  <1>3. Inv /\ Inv' /\ [Next]_vars => [Ladder!Next]_(Ladder!ladderVars)
    BY <1>2 DEF LadderStep
  <1> HIDE DEF Inv
  <1>4. QED BY <1>1, <1>3, LadderInit, PTL DEF Spec, ImplementsLadder, Ladder!Spec

-----------------------------------------------------------------------------
(* The wait: from the request until the wait is over, the thread logs, and *)
(* schedules; the log says wait to whoever reads the row.                  *)

\* On the way from a request to the event that starts the wait, or to the verdict,
CoolPcs ==
  {"logTaskRestart", "logConnectorRestart", "renameTimeout", "logTimeout", "logWith",
   "logRetryTimeout", "logRetried", "logWithout", "escalate", "close"}
\* and between two attempts.
HeldPcs ==
  {"renameWith", "renameWithout", "dropOld", "refresh", "defer", "idle", "acquire", "start"}
WaitThread(r, l) ==
  /\ l.pc \in CoolPcs \cup HeldPcs
  /\ l.pc \in HeldPcs => r.wait
  /\ l.pc \in {"defer", "acquire", "start"} => l.job.wait
  /\ l.pc \in {"acquire", "start"} => DbFaults = 1
  /\ l.pc = "idle" => DbFaults = 1 \/ r.deferred
WaitInv ==
  /\ cooling => row.status # "NONE"
  /\ cooling /\ DbFaults < 2 /\ Calm => \A w \in Workers : WaitThread(row, local[w])

LEMMA FaultCount ==
  ASSUME TypeInv
  PROVE  /\ DbFaults \in Nat
         /\ DbFailed => DbFaults' = DbFaults + 1
         /\ UNCHANGED budget.db => DbFaults' = DbFaults
  BY IncidentAssumption DEF TypeInv, Budgets, DbFaults, DbFailed, IncidentAssumption

\* Connect's answers do not use up the faults of SQL Server.
LEMMA ActFaults ==
  ASSUME TypeInv, NEW w \in Workers, Act(w) \/ DeleteSuperseded(w)
  PROVE  budget'.db = budget.db
  <1>1. UNCHANGED budget \/ ConnectFault
    <2>1. CASE Restart(w) \/ LoadConfig(w) \/ Capture(w) \/ RetryProbe(w)
      BY <2>1 DEF Restart, LoadConfig, Capture, RetryProbe, Answered, FailedTo
    <2>2. CASE StopConnector(w) \/ PatchOffsets(w) \/ DropOld(w) \/ DeleteSuperseded(w)
      BY <2>2
      DEF StopConnector, PatchOffsets, DropOld, DeleteSuperseded, Deletes, Answered, FailedTo
    <2>3. CASE CreateStopped(w)
      BY <2>3 DEF CreateStopped, Answered, FailedTo
    <2>4. CASE ResumeConnector(w) \/ CreateFresh(w)
      BY <2>4 DEF ResumeConnector, CreateFresh, Answered, FailedTo
    <2>5. QED BY <2>1, <2>2, <2>3, <2>4 DEF Act
  <1>2. QED BY <1>1 DEF ConnectFault, TypeInv, Budgets

\* A request that starts the wait is followed by its event, or leaves a doubt.
LEMMA ActCools ==
  ASSUME TypeInv, NEW w \in Workers, Act(w)
  PROVE  cooling' = cooling \/ local'[w].pc \in CoolPcs \ HeldPcs \/ uncertain'
  <1> DEFINE l == local[w]
             done == local'[w].pc \in CoolPcs \ HeldPcs \/ uncertain'
  <1>1. ASSUME Raise(w), l.pc \in DispatchPcs PROVE uncertain'
    BY <1>1 DEF Raise
  <1>2. ASSUME NEW pc \in CoolPcs \ HeldPcs, Goto(w, pc) PROVE local'[w].pc \in CoolPcs \ HeldPcs
    BY <1>2, HeldTypes, GotoEffect DEF Went, CoolPcs, HeldPcs, Pcs, HoldingPcs, DispatchPcs,
       RestartPcs, WithOffsetPcs, RetryPcs, WithoutOffsetPcs
  <1>3. CASE Restart(w)
    <2>1. l.pc \in DispatchPcs
      BY <1>3, PcKinds DEF Restart, RestartPcs
    <2>2. \/ Raise(w)
          \/ Goto(w, "logTaskRestart") \/ Goto(w, "logConnectorRestart")
      BY <1>3 DEF Restart, Answered
    <2>3. QED BY <1>1, <1>2, <2>1, <2>2 DEF CoolPcs, HeldPcs
  <1>4. CASE LoadConfig(w) \/ Capture(w) \/ StopConnector(w) \/ RetryProbe(w)
               \/ PatchOffsets(w) \/ DropOld(w)
    BY <1>4
    DEF LoadConfig, Capture, StopConnector, RetryProbe, PatchOffsets, DropOld, history
  <1>5. CASE CreateStopped(w)
    <2>1. \/ cooling' = cooling
          \/ FailedTo(w, IF l.pc = "retryCreate" THEN "logRetryTimeout" ELSE "renameTimeout")
      BY <1>5 DEF CreateStopped, cluster
    <2>2. QED BY <1>2, <2>1 DEF FailedTo, CoolPcs, HeldPcs
  <1>6. CASE ResumeConnector(w)
    <2>1. \/ cooling' = cooling
          \/ Answered(w, IF l.pc = "retryResume" THEN "logRetried" ELSE "logWith")
      BY <1>6 DEF ResumeConnector
    <2>2. QED BY <1>2, <2>1 DEF Answered, CoolPcs, HeldPcs
  <1>7. CASE CreateFresh(w)
    <2>1. cooling' = cooling \/ Answered(w, "logWithout")
      BY <1>7 DEF CreateFresh
    <2>2. QED BY <1>2, <2>1 DEF Answered, CoolPcs, HeldPcs
  <1>8. QED BY <1>3, <1>4, <1>5, <1>6, <1>7 DEF Act

\* Where the thread may be in the wait, and what it holds.
LEMMA WaitHolds ==
  ASSUME TypeInv, ControlInv, VerdictInv, LedgerInv, Crashes = 0, Calm, NEW w \in Workers,
         local[w].pc \in FreshPcs
  PROVE  local[w].job.latest \notin TerminalEvents
  <1>1. ~Verdict
    BY DEF VerdictInv, FreshPcs
  <1>2. local[w].job.latest = row.latest
    BY DEF ControlInv, Fits, InSync
  <1>3. QED BY <1>1, <1>2 DEF LedgerInv, Consistent, HasVerdict, Verdict

LEMMA WaitArrives ==
  ASSUME TypeInv, ControlInv, VerdictInv, LedgerInv, Webhooks = {}, Crashes = 0, Calm,
         NEW w \in Workers, Arrive(w), row.status # "NONE", DbFaults < 2,
         WaitThread(row, local[w]), DbFaults' < 2
  PROVE  WaitThread(row, local[w])'
  <1> DEFINE l == local[w]
             m == local'[w]
  <1>1. l.pc \in {"idle", "acquire", "start"} /\ row'.wait = row.wait /\ row.wait /\ w \in Pollers
    <2>1. l.pc \in {"idle", "enqueue", "acquire", "start", "finish"}
      BY ArriveEffect DEF Arrived
    <2>2. QED BY <2>1, ArriveEffect DEF WaitThread, CoolPcs, HeldPcs, SameLog, Workers
  <1>2. DbFaults \in Nat /\ (DbFailed => DbFaults' = DbFaults + 1)
        /\ (UNCHANGED budget.db => DbFaults' = DbFaults)
    BY FaultCount
  <1>3. CASE l.pc = "idle"
    <2>1. /\ row' = row /\ ~row.deferred /\ m.pc = "acquire" /\ m.job = Read(row)
          /\ UNCHANGED budget.db
      BY <1>1, <1>3, ArriveEffect DEF Arrived
    <2>2. m.job.wait
      BY <1>1, <2>1, VersionsNamed DEF Read, Rows
    <2>3. QED BY <1>1, <1>2, <1>3, <2>1, <2>2 DEF WaitThread, HeldPcs
  <1>4. CASE l.pc = "acquire"
    <2>1. row' = row /\ (m = Idle \/ Went(w, "start")) /\ UNCHANGED budget.db
      BY <1>4, ArriveEffect DEF Arrived
    <2>2. m.pc = "idle" \/ (m.pc = "start" /\ m.job = l.job)
      BY <2>1, RestingPcs DEF Went
    <2>3. QED BY <1>1, <1>2, <1>4, <2>1, <2>2 DEF WaitThread, HeldPcs
  <1>5. CASE l.pc = "start"
    <2>1. ~Raised(w) \/ ~DbFailed
      BY <1>2, <1>5 DEF WaitThread
    <2>2. l.job.wait /\ l.job.latest \notin TerminalEvents /\ ~uncertain
      BY <1>5, WaitHolds DEF WaitThread, FreshPcs, Calm
    <2>3. Left(w) /\ UNCHANGED budget.db
      BY <1>5, <2>1, <2>2, ArriveEffect DEF Arrived, DbFailed
    <2>4. m.pc \in {"idle", "refresh"}
      BY <2>3, RestingPcs
    <2>5. QED BY <1>1, <1>2, <1>5, <2>3, <2>4 DEF WaitThread, HeldPcs
  <1>6. QED BY <1>1, <1>3, <1>4, <1>5

\* The events that end a request start the wait, or lead to the verdict.
LEMMA WaitRecords ==
  ASSUME TypeInv, ControlInv, NEW w \in Workers, Record(w), WaitThread(row, local[w]), Calm'
  PROVE  WaitThread(row, local[w])'
  <1> DEFINE l == local[w]
             m == local'[w]
  <1>1. Raised(w) => l.pc \notin DispatchPcs
    BY DispatchDoubts DEF Calm
  <1>2. CASE Audit(w)
    <2>1. PICK e \in EventTypes, next \in Pcs :
            /\ AuditLine(l.pc, e, next) /\ l.pc \in AuditPcs
            /\ (EventRow(row, row', e) /\ Went(w, next)) \/ Raised(w)
      BY <1>2, AuditRows
    <2>2. EventRow(row, row', e) /\ Went(w, next)
      BY <1>1, <2>1, PcsIncludeAll
    <2>3. \/ next \in {"refresh", "renameWith", "renameWithout"} /\ e \in WaitEvents
          \/ next \in {"escalate", "close"}
      BY <2>1 DEF WaitThread, CoolPcs, HeldPcs, AuditPcs, AuditLine, WaitEvents,
                  WaitAfterRestartEvents, WaitAfterRecreateEvents, WithOffsetRetryEvents
    <2>4. QED BY <2>2, <2>3 DEF EventRow, Went, WaitThread, CoolPcs, HeldPcs
  <1>3. CASE Rename(w)
    <2>1. l.pc \in DispatchPcs
      BY <1>3, PcKinds DEF Rename, WithOffsetPcs, WithoutOffsetPcs
    <2>2. PICK next : RenameLine(l.pc, next) /\ RenamedRow(row, row', l.job) /\ Went(w, next)
      BY <1>1, <1>3, <2>1, RenameEffect
    <2>3. \/ next = "logTimeout"
          \/ next = "dropOld" /\ row.wait
      BY <2>2 DEF WaitThread, CoolPcs, HeldPcs, RenameLine
    <2>4. QED BY <2>2, <2>3 DEF RenamedRow, Went, WaitThread, CoolPcs, HeldPcs
  <1>4. ~Close(w)
    BY <1>1, CloseEffect, PcKinds DEF Calm
  <1>5. QED BY <1>2, <1>3, <1>4 DEF Record

LEMMA WaitSettles ==
  ASSUME TypeInv, ControlInv, NEW w \in Workers, Settle(w), WaitThread(row, local[w]),
         row.status # "NONE", DbFaults' < 2, Calm'
  PROVE  WaitThread(row, local[w])'
  <1> DEFINE l == local[w]
             m == local'[w]
  <1>1. ~DeleteSuperseded(w)
    BY DEF DeleteSuperseded, WaitThread, CoolPcs, HeldPcs
  <1>2. l.pc \in {"refresh", "defer"}
    BY <1>1, SettleEffect DEF SettleMove, Reread, WaitThread, CoolPcs, HeldPcs
  <1>3. DbFaults \in Nat /\ (DbFailed => DbFaults' = DbFaults + 1)
    BY FaultCount
  <1>4. CASE l.pc = "refresh"
    <2>1. Reread(w)
      BY <1>1, <1>4, SettleEffect DEF SettleMove
    <2>2. row' = row /\ m.pc = "defer" /\ m.job = Read(row)
      <3>1. row.status # "NONE" => IsOpen(row)
        BY <2>1, VersionsNamed DEF Reread, Calm, Rows, Statuses, IsOpen, OpenStatuses
      <3>2. QED BY <2>1, <3>1 DEF Reread
    <2>3. row.wait /\ m.job.wait
      BY <1>4, <2>2, VersionsNamed DEF WaitThread, HeldPcs, Read, Rows
    <2>4. QED BY <2>2, <2>3 DEF WaitThread, HeldPcs
  <1>5. CASE l.pc = "defer"
    <2>1. l.job.wait /\ row.wait
      BY <1>5 DEF WaitThread, HeldPcs
    <2>2. CASE DbFailed
      <3>1. row'.wait /\ m.pc = "idle"
        <4>1. row' = row \/ SettleWrite(l, row')
          BY <1>1, SettleEffect DEF Reread
        <4>2. row'.wait
          BY <1>5, <2>1, <4>1 DEF SettleWrite, SameLog
        <4>3. l.pc \notin DispatchPcs \cup GuardedPcs
          BY <1>5, PcKinds
          DEF GuardedPcs, RestartPcs, WithOffsetPcs, RetryPcs, WithoutOffsetPcs
        <4>4. m = Idle
          <5>1. Raised(w) \/ SettleMove(w)
            BY <1>1, <1>5, SettleEffect DEF Reread
          <5>2. QED BY <1>5, <4>3, <5>1 DEF Raised, SettleMove
        <4>5. QED BY <4>2, <4>4, RestingPcs
      <3>2. DbFaults' = 1
        BY <1>3, <2>2
      <3>3. QED BY <3>1, <3>2 DEF WaitThread, HeldPcs
    <2>3. CASE ~DbFailed
      <3>1. row'.wait /\ row'.deferred /\ m.pc = "idle"
        BY <1>1, <1>5, <2>1, <2>3, SettleEffect, RestingPcs
        DEF SettleWrite, SettleMove, SameLog, Reread
      <3>2. QED BY <3>1 DEF WaitThread, HeldPcs
    <2>4. QED BY <2>2, <2>3
  <1>6. QED BY <1>2, <1>4, <1>5

\* A step uses up at most one fault of SQL Server.
LEMMA StepFaults ==
  ASSUME TypeInv, ControlInv, NEW w \in Workers, Step(w)
  PROVE  DbFailed \/ budget'.db = budget.db
  <1>1. CASE Arrive(w)
    BY <1>1, ArriveEffect DEF DbFailed
  <1>2. CASE Assess(w)
    BY <1>2, CheckEffect, HealthRows
  <1>3. CASE Record(w)
    BY <1>3, AuditRows, RenameEffect, CloseEffect DEF Record
  <1>4. CASE Act(w) \/ DeleteSuperseded(w)
    BY <1>4, ActFaults
  <1>5. CASE Settle(w) /\ ~DeleteSuperseded(w)
    BY <1>5, SettleEffect
  <1>6. QED BY <1>1, <1>2, <1>3, <1>4, <1>5 DEF Step

\* Only a call to Connect makes a request, and starts the wait.
LEMMA StepRests ==
  ASSUME TypeInv, ControlInv, NEW w \in Workers, Step(w), ~Act(w)
  PROVE  UNCHANGED history
  <1>1. CASE Arrive(w)
    BY <1>1, ArriveEffect DEF Quiet
  <1>2. CASE Assess(w)
    BY <1>2, CheckEffect, HealthRows DEF Quiet
  <1>3. CASE Record(w)
    BY <1>3, AuditRows, RenameEffect, CloseEffect DEF Record, Quiet
  <1>4. CASE DeleteSuperseded(w)
    BY <1>4 DEF DeleteSuperseded
  <1>5. CASE Settle(w) /\ ~DeleteSuperseded(w)
    BY <1>5, SettleEffect DEF Quiet
  <1>6. QED BY <1>1, <1>2, <1>3, <1>4, <1>5 DEF Step

\* In the wait the only call to Connect deletes the replaced connector.
LEMMA WaitActs ==
  ASSUME TypeInv, ControlInv, NEW w \in Workers, Act(w), Calm',
         cooling => WaitThread(row, local[w]), cooling'
  PROVE  WaitThread(row, local[w])'
  <1> DEFINE l == local[w]
             m == local'[w]
  <1>1. l.pc \in DispatchPcs
    BY PcKinds
    DEF Act, Restart, LoadConfig, Capture, StopConnector, RetryProbe, CreateStopped,
        PatchOffsets, ResumeConnector, CreateFresh, DropOld, RestartPcs, WithOffsetPcs,
        RetryPcs, WithoutOffsetPcs
  <1>2. PICK next \in Pcs : row' = row /\ Went(w, next) /\ ActLine(l.pc, next)
    BY <1>1, ActLines, DispatchDoubts
  <1>3. CASE m.pc \in CoolPcs \ HeldPcs
    BY <1>3 DEF WaitThread, CoolPcs, HeldPcs
  <1>4. CASE cooling /\ WaitThread(row, l)
    <2>1. next = "refresh" /\ row.wait
      BY <1>2, <1>4 DEF ActLine, WaitThread, CoolPcs, HeldPcs
    <2>2. QED BY <1>2, <2>1 DEF Went, WaitThread, CoolPcs, HeldPcs
  <1>5. uncertain' => WaitThread(row, local[w])'
    BY DEF Calm
  <1>6. QED BY <1>3, <1>4, <1>5, ActCools

\* A step makes no request in the wait, and keeps it.
LEMMA StepWaits ==
  ASSUME OneThread, TypeInv, ControlInv, UncertainInv, VerdictInv, LedgerInv, Webhooks = {},
         Crashes = 0, WaitInv, NEW w \in Workers, Step(w)
  PROVE  WaitInv' /\ (cooling /\ DbFaults < 2 => issued' = issued)
  <1> DEFINE l == local[w]
  <1>1. DbFaults \in Nat /\ DbFaults' \in {DbFaults, DbFaults + 1}
    BY FaultCount, StepFaults
  <1>2. Act(w) => IsOpen(row) /\ ~uncertain /\ Calm
    <2>1. Act(w) => l.pc \notin FreePcs \cup HeldBackPcs
      BY DEF Act, Restart, LoadConfig, Capture, StopConnector, RetryProbe, CreateStopped,
             PatchOffsets, ResumeConnector, CreateFresh, DropOld, FreePcs, HeldBackPcs
    <2>2. l.pc \notin FreePcs \cup HeldBackPcs => IsOpen(row) /\ ~uncertain
      BY DEF ControlInv, Fits, StatusFits, HeldBackPcs, DoubtPcs, UncertainInv
    <2>3. QED BY <2>1, <2>2 DEF Calm, IsOpen, OpenStatuses
  <1>3. ~Act(w) => UNCHANGED history
    BY StepRests
  <1>4. cooling' => row'.status # "NONE"
    BY <1>2, <1>3, StaysQueued DEF WaitInv, history, IsOpen, OpenStatuses
  <1>5. ASSUME cooling', DbFaults' < 2, Calm' PROVE WaitThread(row, local[w])'
    <2>1. Calm /\ DbFaults < 2
      BY <1>1, <1>5, CalmBefore
    <2>2. cooling => WaitThread(row, l)
      BY <2>1 DEF WaitInv
    <2>3. CASE Act(w)
      BY <1>5, <2>2, <2>3, WaitActs
    <2>4. CASE ~Act(w)
      <3>1. cooling /\ WaitThread(row, l) /\ row.status # "NONE"
        BY <1>3, <1>5, <2>2, <2>4 DEF history, WaitInv
      <3>2. ~Assess(w)
        BY <3>1
        DEF WaitThread, CoolPcs, HeldPcs, Assess, CheckUnreachable, CheckNotCreated,
            CheckAdminStopped, CheckHealthy, CheckUnhealthy, Observe, Confirm
      <3>3. QED
        BY <1>5, <2>1, <2>4, <3>1, <3>2, WaitArrives, WaitRecords, WaitSettles DEF Step
    <2>5. QED BY <2>3, <2>4
  <1>6. ASSUME cooling, DbFaults < 2 PROVE issued' = issued
    <2>1. CASE Act(w)
      <3>1. l.pc \in CoolPcs \cup HeldPcs
        BY <1>2, <1>6, <2>1 DEF WaitInv, WaitThread
      <3>2. DropOld(w)
        BY <2>1, <3>1
        DEF CoolPcs, HeldPcs, Act, Restart, LoadConfig, Capture, StopConnector, RetryProbe,
            CreateStopped, PatchOffsets, ResumeConnector, CreateFresh
      <3>3. QED BY <3>2 DEF DropOld, history
    <2>2. CASE ~Act(w)
      BY <1>3, <2>2 DEF history
    <2>3. QED BY <2>1, <2>2
  <1>7. QED BY <1>4, <1>5, <1>6 DEF WaitInv, OneThread

\* Time, Connect and the operators do not shorten the wait of the one thread.
LEMMA EnvironmentWaits ==
  ASSUME OneThread, TypeInv, ControlInv, MaxCrashes = 0, WaitInv, Environment
  PROVE  WaitInv' /\ issued' = issued
  <1>1. issued' = issued /\ row'.status = row.status
    BY EnvironmentWeather DEF Weathered
  <1>2. ~Crash
    BY DEF Crash, TypeInv, Budgets
  <1>3. CASE Elapse
    BY <1>1, <1>3 DEF Elapse, WaitInv
  <1>4. CASE ~Elapse
    <2>1. row' = row /\ cooling' = cooling /\ uncertain' = uncertain /\ budget'.db = budget.db
      BY <1>2, <1>4
      DEF Environment, FirstCreated, ConnectorFails, ConnectorRecovers, OperatorStops, ElapseStale,
          Stabilize, history, TypeInv, Budgets
    <2>2. DbFaults' = DbFaults /\ (Calm' <=> Calm)
      BY <2>1 DEF DbFaults, Calm
    <2>3. ASSUME NEW w \in Workers, WaitThread(row, local[w]) PROVE WaitThread(row, local[w])'
      <3>1. CASE local'[w] = local[w]
        BY <2>1, <2>2, <2>3, <3>1 DEF WaitThread
      <3>2. CASE local'[w] # local[w]
        <4>1. ElapseStale(w) /\ local'[w] = NoLongerWaiting(local[w])
          <5>1. PICK u \in Workers : ElapseStale(u)
            BY <1>2, <1>4, <3>2
            DEF Environment, FirstCreated, ConnectorFails, ConnectorRecovers, OperatorStops, Stabilize
          <5>2. QED BY <5>1, BecomeEffect DEF ElapseStale, OneThread
        <4>2. local[w].job.count # row.count
          <5>1. /\ ActionCount(local[w].job) + TimeoutCount(local[w].job)
                     < ActionCount(row) + TimeoutCount(row)
            BY <4>1 DEF ElapseStale
          <5>2. ActionCount(row) + TimeoutCount(row) \in Nat
            BY VersionsNamed, PolicyCounts, ActionCountType
          <5>3. ASSUME local[w].job.count = row.count
                PROVE  ActionCount(local[w].job) + TimeoutCount(local[w].job)
                         = ActionCount(row) + TimeoutCount(row)
            BY <5>3 DEF ActionCount, TaskRestartCount, ConnectorRestartCount, WithOffsetCount,
                        WithoutOffsetCount, TimeoutCount
          <5>4. QED BY <5>1, <5>2, <5>3
        <4>3. local[w].pc \notin {"defer", "acquire", "start"}
          BY <4>2 DEF ControlInv, Fits, InSync, SpentPcs, FreePcs, DoubtPcs, NewCountPcs
        <4>4. local'[w].pc = local[w].pc
          BY <4>1, HeldTypes, NoLongerWaitingFields
        <4>5. QED BY <2>1, <2>2, <2>3, <4>3, <4>4 DEF WaitThread
      <3>3. QED BY <3>1, <3>2
    <2>4. cooling' => row'.status # "NONE"
      BY <2>1 DEF WaitInv
    <2>5. ASSUME cooling', DbFaults' < 2, Calm', NEW w \in Workers
          PROVE  WaitThread(row, local[w])'
      <3>1. cooling /\ DbFaults < 2 /\ Calm
        BY <2>1, <2>2, <2>5
      <3>2. QED BY <2>3, <3>1 DEF WaitInv
    <2>6. WaitInv'
      BY <2>4, <2>5 DEF WaitInv
    <2>7. QED BY <1>1, <2>6
  <1>5. QED BY <1>1, <1>3, <1>4

LEMMA WaitStep ==
  ASSUME OneThread, MaxCrashes = 0, Webhooks = {}
  PROVE  TypeInv /\ ControlInv /\ UncertainInv /\ VerdictInv /\ LedgerInv /\ WaitInv /\ [Next]_vars
           => WaitInv' /\ (cooling /\ DbFaults < 2 => issued' = issued)
  <1> SUFFICES ASSUME TypeInv, ControlInv, UncertainInv, VerdictInv, LedgerInv, WaitInv,
                      [Next]_vars
               PROVE  WaitInv' /\ (cooling /\ DbFaults < 2 => issued' = issued)
    OBVIOUS
  <1>1. Crashes = 0
    BY CrashCount DEF Crashes
  <1>2. ASSUME NEW w \in Workers, Step(w)
        PROVE  WaitInv' /\ (cooling /\ DbFaults < 2 => issued' = issued)
    BY <1>1, <1>2, StepWaits
  <1>3. CASE Environment
    BY <1>3, EnvironmentWaits
  <1>4. CASE UNCHANGED vars
    BY <1>4 DEF vars, WaitInv, WaitThread, DbFaults, Calm
  <1>5. QED BY <1>2, <1>3, <1>4 DEF Next

\* NoActionInsideWait holds of the one reconciliation thread, without webhooks and
\* crashes: with at most one failed SQL Server call nothing is requested of Connect
\* before the wait after the previous request is over (_action_wait_until of
\* db_state_machine.py:609, and NextAttemptAt of the queue).
THEOREM WaitKept ==
  ASSUME OneThread, MaxCrashes = 0, Webhooks = {}
  PROVE  Spec => NoActionInsideWait
  <1> DEFINE Inv == TypeInv /\ ControlInv /\ UncertainInv /\ VerdictInv /\ LedgerInv
             NoRequest == cooling /\ DbFaults < 2 => issued' = issued
  <1>1. Spec => []Inv
    BY AlwaysTyped, AlwaysControl, AlwaysUncertain, AlwaysVerdict, AlwaysLedger, PTL
  <1>2. Init => WaitInv
    BY DEF Init, WaitInv
  <1>3. Inv /\ WaitInv /\ [Next]_vars => WaitInv' /\ NoRequest
    BY WaitStep
  <1>4. NoRequest => [cooling /\ DbFaults < 2 => UNCHANGED issued]_vars
    OBVIOUS
  <1> HIDE DEF Inv
  <1>5. QED BY <1>1, <1>2, <1>3, <1>4, PTL DEF Spec, NoActionInsideWait
=============================================================================
