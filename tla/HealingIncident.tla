-------------------------- MODULE HealingIncident --------------------------
(***************************************************************************)
(* One incident of the healing state machine, from the poll or the alert   *)
(* that finds the connector failed to the terminal queue status.           *)
(*                                                                         *)
(* The incident is one ConnectorHealingQueue row with its log, the Kafka   *)
(* Connect connectors of its root name (version 0 is the root, version n   *)
(* the n-th replacement), and the threads of the one healing process:      *)
(* reconciliation (Pollers, tick) and webhook workers (process_connector). *)
(* Each thread works on the job it READ, not on the row.  A step is one    *)
(* stored-procedure call or one Kafka Connect request with the in-memory   *)
(* work that follows it; anything may happen between two steps.            *)
(*                                                                         *)
(* Abstractions: the log is kept as its latest event, the connector names  *)
(* in that event's details and a counter per event type (saturating at     *)
(* CountCap, which is above every threshold the policy compares with).     *)
(* Timestamps are kept as "the wait has not elapsed yet" flags.  PAUSED    *)
(* and UNASSIGNED are RUNNING here: the health check maps all three to     *)
(* HEALTHY.  A second incident of the same root, opened after this one     *)
(* closed, is a new row and another instance of this module.               *)
(***************************************************************************)
EXTENDS RecoveryPolicy

CONSTANTS
  Pollers,            \* reconciliation threads
  Webhooks,           \* webhook worker threads
  MaxVersion,         \* bound: replacement versions
  CountCap,           \* bound: log counters saturate here
  MaxCrashes,         \* bound: process crashes
  MaxDbFaults,        \* bound: SQL Server calls that raise
  MaxConnectFaults,   \* bound: Kafka Connect requests that fail
  MaxOperatorStops,   \* bound: connectors an operator stops
  MaxAlerts,          \* bound: alerts and follow-ups the webhook workers take
  QueueLevels,        \* levels of the incident: 2 (RESTART_ONLY), 4 (RECOVERY)
  Failures,           \* bound: the ways a connector fails on its own
  KeepBase,           \* RECREATE_KEEP_BASE_CONNECTOR
  RootVersioned       \* the root name itself ends in ".NNN"

Workers == Pollers \cup Webhooks
Versions == 0..MaxVersion
NoName == MaxVersion + 1

ASSUME IncidentAssumption ==
  /\ Pollers \cap Webhooks = {}
  /\ MaxVersion \in Nat
  /\ CountCap \in Nat /\ CountCap >= FailureConfirmChecks + TaskRestartMax /\ CountCap > 2
  /\ MaxCrashes \in Nat /\ MaxDbFaults \in Nat
  /\ MaxConnectFaults \in Nat /\ MaxOperatorStops \in Nat /\ MaxAlerts \in Nat
  /\ QueueLevels \subseteq {2, 4} /\ QueueLevels # {}
  /\ Failures \subseteq {"TASK_FAILED", "FAILED"}
  /\ KeepBase \in BOOLEAN /\ RootVersioned \in BOOLEAN

VARIABLES
  row,        \* the queue row and what its log says
  kc,         \* Kafka Connect: state of each version of the connector
  offsets,    \* Kafka Connect: where each version starts reading
  local,      \* per thread: program counter, job it read, check result
  since,      \* _healthy_since[id]
  uncertain,  \* id \in _uncertain_actions
  issued,     \* history: Kafka Connect actions requested, per rung
  cooling,    \* history: an action was requested and its wait has not elapsed
  budget      \* faults and alerts still to come

vars == <<row, kc, offsets, local, since, uncertain, issued, cooling, budget>>
cluster == <<kc, offsets>>
history == <<issued, cooling>>

-----------------------------------------------------------------------------
(* Values                                                                  *)

Live == {"RUNNING", "TASK_FAILED", "FAILED"}
ConnectorStates == Live \cup {"STOPPED", "ABSENT"}
\* "none": created and not patched; "restored": captured offsets patched in;
\* "new": created without offsets on purpose; "uncreated": the incident's first
\* connector, before anybody created it.
Origins == {"source", "none", "restored", "new", "uncreated"}
Statuses == {"NONE", "COMPLETED", "ESCALATED"} \cup OpenStatuses
CheckResults == {"NONE", "STOPPED", "HEALTHY", "TASKS", "CONNECTOR", "NOT_CREATED"}
Rungs == {"TASKS", "CONNECTOR", "WITH_OFFSET", "RETRY", "WITHOUT_OFFSET"}

Names == Versions \cup {NoName}
Details == [old : Names, original : Names, new : Names]
NoDetails == [old |-> NoName, original |-> NoName, new |-> NoName]
NoCounts == [e \in CountedEvents |-> 0]

Rows == [status : Statuses, name : Versions, level : {1, 2, 4},
         latest : EventTypes \cup {"NONE"}, details : Details,
         count : [CountedEvents -> 0..CountCap], wait : BOOLEAN, deferred : BOOLEAN]
NoRow == [status |-> "NONE", name |-> 0, level |-> 2, latest |-> "NONE",
          details |-> NoDetails, count |-> NoCounts, wait |-> FALSE, deferred |-> FALSE]

\* Slip: a queue read that forgets to filter on the open statuses.
EveryRowIsOpen(r) == r.status # "NONE"
IsOpen(r) == r.status \in OpenStatuses

\* Steps inside _dispatch_decision: an exception leaves the outcome uncertain.
RestartPcs == {"restartTasks", "logTaskRestart", "restartConnector", "logConnectorRestart"}
WithOffsetPcs ==
  {"configWith", "capture", "logCaptured", "logNothingCaptured", "logNoOffsets",
   "logNoHistory", "stopOld", "create", "renameTimeout", "logTimeout", "patch",
   "renamePatch", "logPatch", "resume", "renameResume", "logResume",
   "logWithFailed", "logWith", "renameWith"}
RetryPcs ==
  {"configRetry", "retry", "retryStop", "logRetryStopFailed", "retryCreate",
   "logRetryTimeout", "retryPatch", "logRetryPatch", "retryResume", "logRetryResume",
   "logRetried"}
WithoutOffsetPcs ==
  {"configWithout", "stopForFresh", "createFresh", "logWithoutFailed", "logWithout",
   "renameWithout"}
DispatchPcs ==
  UNION {RestartPcs, WithOffsetPcs, RetryPcs, WithoutOffsetPcs,
         {"levelLimit", "escalate", "close", "dropOld"}}
\* The other steps under the connector lock, inside the try of _process_job_safely.
GuardedPcs ==
  {"start", "finish", "check", "observe", "confirm", "supersede", "logRecovered",
   "closeRecovered", "quarantine", "quarantineClose"}
HoldingPcs == UNION {DispatchPcs, GuardedPcs, {"error"}}
Pcs == HoldingPcs \cup {"idle", "enqueue", "acquire", "refresh", "defer"}

Locals == [pc : Pcs, job : Rows, res : CheckResults, alert : BOOLEAN]
Idle == [pc |-> "idle", job |-> NoRow, res |-> "NONE", alert |-> FALSE]

NotHealthy == [on |-> FALSE, at |-> 0, stable |-> FALSE]

TypeOK ==
  /\ row \in Rows
  /\ kc \in [Versions -> ConnectorStates]
  /\ offsets \in [Versions -> Origins]
  /\ local \in [Workers -> Locals]
  /\ since \in [on : BOOLEAN, at : Nat, stable : BOOLEAN]
  /\ uncertain \in BOOLEAN
  /\ issued \in [Rungs -> 0..CountCap]
  /\ cooling \in BOOLEAN
  /\ budget \in [crash : 0..MaxCrashes, db : 0..MaxDbFaults,
                 connect : 0..MaxConnectFaults, stop : 0..MaxOperatorStops,
                 alerts : 0..MaxAlerts]

Init ==
  /\ row = NoRow
  /\ \E created \in BOOLEAN :
       /\ kc = [v \in Versions |-> IF v = 0 /\ created THEN "RUNNING" ELSE "ABSENT"]
       /\ offsets = [v \in Versions |-> IF v # 0 THEN "none"
                                       ELSE IF created THEN "source" ELSE "uncreated"]
  /\ local = [w \in Workers |-> Idle]
  /\ since = NotHealthy
  /\ uncertain = FALSE
  /\ issued = [r \in Rungs |-> 0]
  /\ cooling = FALSE
  /\ budget = [crash |-> MaxCrashes, db |-> MaxDbFaults,
               connect |-> MaxConnectFaults, stop |-> MaxOperatorStops, alerts |-> MaxAlerts]

-----------------------------------------------------------------------------
(* Helpers on the row and the job                                          *)

\* Slip: the counter is not clamped.
Unclamped(n) == n + 1
Bump(n) == IF n < CountCap THEN n + 1 ELSE n

Counted(count, e) ==
  IF e \in CountedEvents THEN [count EXCEPT ![e] = Bump(count[e])] ELSE count

\* spInsertConnectorHealingLog: append-only, except that a second
\* HEALTH_FAILED_CONFIRMED of the queue item is dropped.
Logged(r, e, d) ==
  IF e = "HEALTH_FAILED_CONFIRMED" /\ r.count[e] > 0 THEN r
  ELSE [r EXCEPT !.latest = e, !.details = d, !.wait = e \in WaitEvents,
                 !.count = Counted(r.count, e)]

\* complete(): status and NextAttemptAt, whatever they were.
Closed(r, status) == [r EXCEPT !.status = status, !.deferred = FALSE]

\* The job a read returns: the row, without the queue's own due time.
Read(r) == [r EXCEPT !.deferred = FALSE]

OriginalName(job) ==
  IF job.details.original # NoName THEN job.details.original
  ELSE IF job.details.old # NoName THEN job.details.old
  ELSE job.name

\* build_replacement_connector: the version after the last one logged.
Replacement(job) == (IF job.details.new # NoName THEN job.details.new ELSE job.name) + 1

IsVersioned(v) == v > 0 \/ RootVersioned

\* Slip: task restarts are not reported as a healing step.
ActionCountWithoutTasks(job) ==
  ConnectorRestartCount(job) + WithOffsetCount(job) + WithoutOffsetCount(job)
\* Actions the log counts; recovery_summary calls their absence NO_AUTOMATED_STEP.
ActionCount(job) ==
  TaskRestartCount(job) + ConnectorRestartCount(job) + WithOffsetCount(job)
    + WithoutOffsetCount(job)

\* _is_healing_managed_stopped
IsManagedStopped(job) == HasNextStep(job) /\ job.latest \in ManagedStoppedEvents

Locked(v) == \E u \in Workers : local[u].pc \in HoldingPcs /\ local[u].job.name = v

-----------------------------------------------------------------------------
(* One step of a thread: what follows it, and what an exception does.      *)

Become(w, l) == local' = [local EXCEPT ![w] = l]
Goto(w, pc) == Become(w, [local[w] EXCEPT !.pc = pc])

\* The lock is released; the next attempt is scheduled when followup is wanted.
Leave(l, followup) == IF followup THEN [l EXCEPT !.pc = "refresh"] ELSE Idle

\* Slip: the doubt closes the queue row without its audit.
DoubtClosesOnly == "quarantineClose"
DoubtfulStep == "quarantine"

\* _execute_decision records the doubt before it quarantines; any other
\* exception is logged, unless the doubt already forbids a normal outcome.
Raise(w) ==
  IF local[w].pc \in DispatchPcs
  THEN uncertain' = TRUE /\ Goto(w, DoubtfulStep)
  ELSE /\ UNCHANGED uncertain
       /\ IF local[w].pc \in GuardedPcs /\ ~uncertain
          THEN Goto(w, "error") ELSE Become(w, Idle)

Wrote(w, r, next) ==
  row' = r /\ Become(w, next) /\ UNCHANGED budget
\* The call raises; its transaction committed or not.
DbFault(w, r) ==
  /\ budget.db > 0 /\ budget' = [budget EXCEPT !.db = @ - 1]
  /\ row' \in {row, r}
  /\ Raise(w)
Write(w, r, next) == (Wrote(w, r, next) /\ UNCHANGED uncertain) \/ DbFault(w, r)

Answered(w, pc) == Goto(w, pc) /\ UNCHANGED <<budget, uncertain>>
ConnectFault == budget.connect > 0 /\ budget' = [budget EXCEPT !.connect = @ - 1]
FailedTo(w, pc) == ConnectFault /\ Goto(w, pc) /\ UNCHANGED uncertain

Count(rung) == issued' = [issued EXCEPT ![rung] = Bump(@)]

-----------------------------------------------------------------------------
(* How an incident reaches a thread                                        *)

\* A webhook worker takes the next alert or follow-up; a poller needs none.
Taken(w) ==
  IF w \in Webhooks
  THEN budget.alerts > 0 /\ budget' = [budget EXCEPT !.alerts = @ - 1]
  ELSE UNCHANGED budget

\* No open row: the check finds the connector neither healthy nor stopped and
\* enqueues it (tick's discovery, or process_connector for an alert), also when
\* Connect answers that it has no such connector.
Notice(w) ==
  /\ local[w].pc = "idle" /\ row.status = "NONE" /\ kc[0] \notin {"RUNNING", "STOPPED"}
  /\ Taken(w)
  /\ \E alert \in BOOLEAN :
       /\ alert => w \in Webhooks
       /\ Become(w, [local[w] EXCEPT !.pc = "enqueue", !.alert = alert])
  /\ UNCHANGED <<row, cluster, since, uncertain, history>>

\* spEnqueueConnectorHealing returns the open row of the root, or inserts one;
\* its result set has no Level and no log columns, so level() defaults to 1.
Enqueue(w) ==
  /\ local[w].pc = "enqueue"
  /\ \E lvl \in QueueLevels :
       LET r == IF row.status = "NONE"
                THEN [row EXCEPT !.status = "PENDING", !.level = lvl] ELSE row
           job == [Read(r) EXCEPT !.level = 1, !.latest = "NONE", !.details = NoDetails,
                                  !.count = NoCounts, !.wait = FALSE]
       IN  Write(w, r, IF w \in Webhooks /\ IsOpen(r)
                       THEN [local[w] EXCEPT !.pc = "acquire", !.job = job] ELSE Idle)
  /\ UNCHANGED <<cluster, since, history>>

\* tick: every open row whose NextAttemptAt has passed.
ListDue(w) ==
  /\ w \in Pollers /\ local[w].pc = "idle" /\ IsOpen(row) /\ ~row.deferred
  /\ Become(w, [local[w] EXCEPT !.pc = "acquire", !.job = Read(row)])
  /\ UNCHANGED <<row, cluster, since, uncertain, history, budget>>

\* process_connector: an alert (or a follow-up) for a connector with an open row.
Alerted(w) ==
  /\ w \in Webhooks /\ local[w].pc = "idle" /\ IsOpen(row) /\ Taken(w)
  /\ \E alert \in BOOLEAN :
       Become(w, [local[w] EXCEPT !.pc = "acquire", !.job = Read(row), !.alert = alert])
  /\ UNCHANGED <<row, cluster, since, uncertain, history>>

\* The lock of the name the job carries, or nothing at all.
TryLock(w) ==
  /\ local[w].pc = "acquire"
  /\ IF Locked(local[w].job.name) THEN Become(w, Idle) ELSE Goto(w, "start")
  /\ UNCHANGED <<row, cluster, since, uncertain, history, budget>>

-----------------------------------------------------------------------------
(* _process_job                                                            *)

\* start_processing, then the three early returns that need no health check.
Start(w) ==
  LET l == local[w]
      next == IF uncertain THEN [l EXCEPT !.pc = "quarantine"]
              ELSE IF l.job.latest \in TerminalEvents THEN [l EXCEPT !.pc = "finish"]
              ELSE IF l.job.wait THEN Leave(l, FailedCount(l.job) > 0)
              ELSE [l EXCEPT !.pc = "check"]
  IN  /\ l.pc = "start"
      /\ Write(w, [row EXCEPT !.status = "PROCESSING"], next)
      /\ UNCHANGED <<cluster, since, history>>

\* A terminal event was logged but the row is still open.
Finish(w) ==
  /\ local[w].pc = "finish"
  /\ Write(w, Closed(row, "ESCALATED"), Idle)
  /\ UNCHANGED <<cluster, since, history>>

\* What a transition decision leads to, behind the level gate.
FirstStep(l, action) ==
  IF action = "DEBOUNCE" THEN "refresh"
  ELSE IF l.job.level < RequiredLevel(action) THEN "levelLimit"
  ELSE CASE action = "RESTART_TASKS" -> "restartTasks"
         [] action = "RESTART_CONNECTOR" -> "restartConnector"
         [] action = "RECREATE_WITH_OFFSET" -> "configWith"
         [] action = "RETRY_RECREATE_WITH_OFFSET" -> "configRetry"
         [] action = "RECREATE_WITHOUT_OFFSET" -> "configWithout"
         [] OTHER -> "escalate"

CheckUnreachable(w) ==
  /\ local[w].pc = "check" /\ ConnectFault
  /\ since' = NotHealthy
  /\ Become(w, Leave(local[w], FailedCount(local[w].job) > 0))
  /\ UNCHANGED <<row, cluster, uncertain, history>>

\* 404.  After a create timeout the replacement is retried; otherwise wait.
CheckNotCreated(w) ==
  LET l == local[w]
      seen == [l EXCEPT !.res = "NOT_CREATED"]
  IN  /\ l.pc = "check" /\ kc[l.job.name] = "ABSENT"
      /\ IF l.job.latest \in WithOffsetRetryEvents
         THEN /\ Become(w, [seen EXCEPT !.pc = FirstStep(l, DecideMissingReplacement(l.job))])
              /\ UNCHANGED since
         ELSE /\ Become(w, Leave(seen, FailedCount(l.job) > 0))
              /\ since' = NotHealthy
      /\ UNCHANGED <<row, cluster, uncertain, history, budget>>

\* STOPPED, and not by the healer as far as the job's latest event tells.
CheckAdminStopped(w) ==
  LET l == local[w] IN
  /\ l.pc = "check" /\ kc[l.job.name] = "STOPPED" /\ ~IsManagedStopped(l.job)
  /\ Become(w, Idle)
  /\ UNCHANGED <<row, cluster, since, uncertain, history, budget>>

\* _handle_healthy: after an action the connector must stay healthy for the
\* confirmation interval, counted from a check later than that action.
CheckHealthy(w) ==
  LET l == local[w]
      acted == l.job.latest \in WaitAfterRestartEvents \cup WaitAfterRecreateEvents
      counting == since.on /\ since.at >= ActionCount(l.job)
      recovered == [l EXCEPT !.res = "HEALTHY",
                     !.pc = IF ActionCount(l.job) = 0 THEN "closeRecovered" ELSE "supersede"]
  IN  /\ l.pc = "check" /\ kc[l.job.name] = "RUNNING"
      /\ IF acted /\ ~(counting /\ since.stable)
         THEN /\ since' = IF counting THEN since
                          ELSE [on |-> TRUE, at |-> ActionCount(row), stable |-> FALSE]
              /\ Become(w, Leave(l, FailedCount(l.job) > 0))
         ELSE Become(w, recovered) /\ UNCHANGED since
      /\ UNCHANGED <<row, cluster, uncertain, history, budget>>

\* _handle_unhealthy up to its first log.  The alert's confirmation is not
\* passed on for a connector found STOPPED.
CheckUnhealthy(w) ==
  LET l == local[w]
      state == kc[l.job.name]
      res == CASE state = "TASK_FAILED" -> "TASKS"
               [] state = "FAILED" -> "CONNECTOR"
               [] OTHER -> "STOPPED"
      stop == DecideUnhealthy(l.job, res = "TASKS") = "STOP"
  IN  /\ l.pc = "check"
      /\ \/ state \in {"TASK_FAILED", "FAILED"}
         \/ state = "STOPPED" /\ IsManagedStopped(l.job)
      /\ since' = NotHealthy
      /\ Become(w, [l EXCEPT !.res = res, !.alert = l.alert /\ res # "STOPPED",
                              !.pc = IF stop THEN "finish" ELSE "observe"])
      /\ UNCHANGED <<row, cluster, uncertain, history, budget>>

\* The job copied in memory with one more event of a kind.
WithEvent(l, e) ==
  [l EXCEPT !.job = [l.job EXCEPT !.count = Counted(l.job.count, e)]]

\* The second decision, on the job with this observation added.
Decided(l) == [l EXCEPT !.pc = FirstStep(l, DecideUnhealthy(l.job, l.res = "TASKS"))]

\* Slips: one observation too few; or only an alert confirms.
ConfirmsEarly(job, alert) ==
  ~FailureConfirmed(job) /\ (alert \/ FailedCount(job) >= FailureConfirmChecks - 1)
AlertConfirmsOnly(job, alert) == ~FailureConfirmed(job) /\ alert
NeedsConfirmation(job, alert) ==
  ~FailureConfirmed(job) /\ (alert \/ FailedCount(job) >= FailureConfirmChecks)

Observe(w) ==
  LET l == local[w]
      seen == WithEvent(l, "HEALTH_FAILURE_OBSERVED")
  IN  /\ l.pc = "observe"
      /\ Write(w, Logged(row, "HEALTH_FAILURE_OBSERVED", NoDetails),
               IF NeedsConfirmation(seen.job, seen.alert)
               THEN [seen EXCEPT !.pc = "confirm"] ELSE Decided(seen))
      /\ UNCHANGED <<cluster, since, history>>

Confirm(w) ==
  LET l == WithEvent(local[w], "HEALTH_FAILED_CONFIRMED")
  IN  /\ local[w].pc = "confirm"
      /\ Write(w, Logged(row, "HEALTH_FAILED_CONFIRMED", NoDetails), Decided(l))
      /\ UNCHANGED <<cluster, since, history>>

-----------------------------------------------------------------------------
(* The audit log: which event each logging step of the executors writes,   *)
(* and the steps that may follow it.                                       *)

RestartAudit(pc) ==
  [event |-> IF pc = "logTaskRestart" THEN "TASK_RESTART" ELSE "CONNECTOR_RESTART",
   next |-> {"refresh"}]

\* replacement_connector may still find no schema history topic to preserve.
WithOffsetAudit(pc) ==
  CASE pc = "logCaptured" ->
         [event |-> "OFFSET_CAPTURED", next |-> {"stopOld", "logNoHistory"}]
    [] pc = "logNothingCaptured" ->
         [event |-> "OFFSET_CAPTURED", next |-> {"logNoOffsets"}]
    [] pc = "logTimeout" ->
         [event |-> "CONNECTOR_RECREATE_WITH_OFFSET_TIMEOUT", next |-> {"refresh"}]
    [] pc = "logPatch" ->
         [event |-> "OFFSET_PATCH_FAILED", next |-> {"logWithFailed"}]
    [] pc = "logResume" ->
         [event |-> "CONNECTOR_RESUME_FAILED", next |-> {"logWithFailed"}]
    [] pc = "logWith" ->
         [event |-> "CONNECTOR_RECREATE_WITH_OFFSET", next |-> {"renameWith"}]
    [] OTHER ->
         [event |-> "CONNECTOR_RECREATE_WITH_OFFSET_FAILED", next |-> {"refresh"}]

\* Every failure of the retry returns False, and the dispatcher escalates.
RetryAudit(pc) ==
  CASE pc = "logRetryTimeout" ->
         [event |-> "CONNECTOR_RECREATE_WITH_OFFSET_TIMEOUT", next |-> {"escalate"}]
    [] pc = "logRetryPatch" -> [event |-> "OFFSET_PATCH_FAILED", next |-> {"escalate"}]
    [] pc = "logRetryResume" -> [event |-> "CONNECTOR_RESUME_FAILED", next |-> {"escalate"}]
    [] pc = "logRetried" ->
         [event |-> "CONNECTOR_RECREATE_WITH_OFFSET", next |-> {"refresh"}]
    [] OTHER ->
         [event |-> "CONNECTOR_RECREATE_WITH_OFFSET_FAILED", next |-> {"escalate"}]

WithoutOffsetAudit(pc) ==
  IF pc = "logWithout"
  THEN [event |-> "CONNECTOR_RECREATE_WITHOUT_OFFSET", next |-> {"renameWithout"}]
  ELSE [event |-> "CONNECTOR_RECREATE_WITHOUT_OFFSET_FAILED", next |-> {"escalate"}]

EscalationAudit(pc) ==
  [event |-> IF pc = "levelLimit" THEN "HEALING_LEVEL_LIMIT_REACHED" ELSE "HEALING_ESCALATED",
   next |-> {"close"}]

AuditPcs ==
  {"logTaskRestart", "logConnectorRestart", "logCaptured", "logNothingCaptured",
   "logNoOffsets", "logNoHistory", "logTimeout", "logPatch", "logResume",
   "logWithFailed", "logWith", "logRetryStopFailed", "logRetryTimeout", "logRetryPatch",
   "logRetryResume", "logRetried", "logWithout", "logWithoutFailed", "levelLimit",
   "escalate"}
AuditOf(pc) ==
  CASE pc \in RestartPcs -> RestartAudit(pc)
    [] pc \in WithOffsetPcs -> WithOffsetAudit(pc)
    [] pc \in RetryPcs -> RetryAudit(pc)
    [] pc \in WithoutOffsetPcs -> WithoutOffsetAudit(pc)
    [] OTHER -> EscalationAudit(pc)

\* The connector names the event's details carry.
AuditDetails(l) ==
  LET recreated == [old |-> l.job.name, original |-> OriginalName(l.job),
                    new |-> Replacement(l.job)]
  IN  CASE l.pc = "logNoOffsets" -> [recreated EXCEPT !.old = NoName, !.new = NoName]
        [] l.pc = "logNoHistory" -> [recreated EXCEPT !.new = NoName]
        [] l.pc \in RetryPcs ->
             [old |-> l.job.details.old, original |-> OriginalName(l.job), new |-> l.job.name]
        [] l.pc \in RestartPcs \cup {"logCaptured", "logNothingCaptured", "levelLimit",
                                     "escalate"} -> NoDetails
        [] OTHER -> recreated

Audit(w) ==
  LET l == local[w] IN
  /\ l.pc \in AuditPcs
  /\ \E pc \in AuditOf(l.pc).next :
       Write(w, Logged(row, AuditOf(l.pc).event, AuditDetails(l)), [l EXCEPT !.pc = pc])
  /\ UNCHANGED <<cluster, since, history>>

\* Slip: the queue row keeps pointing at the replaced connector.
NotRenamed(r, job) == r
\* update_queue_fields(current_connector_name = replacement)
Renamed(r, job) == [r EXCEPT !.name = Replacement(job)]

Rename(w) ==
  LET l == local[w]
      next == CASE l.pc = "renameTimeout" -> "logTimeout"
                [] l.pc = "renamePatch" -> "logPatch"
                [] l.pc = "renameResume" -> "logResume"
                [] OTHER -> "dropOld"
  IN  /\ l.pc \in {"renameTimeout", "renamePatch", "renameResume", "renameWith",
                   "renameWithout"}
      /\ Write(w, Renamed(row, l.job), [l EXCEPT !.pc = next])
      /\ UNCHANGED <<cluster, since, history>>

\* complete("ESCALATED") of escalate and level_limit_reached
Close(w) ==
  /\ local[w].pc = "close"
  /\ Write(w, Closed(row, "ESCALATED"), [local[w] EXCEPT !.pc = "refresh"])
  /\ UNCHANGED <<cluster, since, history>>

-----------------------------------------------------------------------------
(* The Kafka Connect requests of the executors                             *)

\* A restart that is accepted may or may not help; one that raises may have
\* been carried out.
Restart(w) ==
  LET l == local[w]
      v == l.job.name
      tasks == l.pc = "restartTasks"
  IN  /\ l.pc \in {"restartTasks", "restartConnector"}
      /\ kc' \in IF kc[v] \in Live THEN {kc, [kc EXCEPT ![v] = "RUNNING"]} ELSE {kc}
      /\ \/ /\ kc[v] # "ABSENT"
            /\ Answered(w, IF tasks THEN "logTaskRestart" ELSE "logConnectorRestart")
         \/ kc[v] # "ABSENT" /\ ConnectFault /\ Raise(w)
         \/ kc[v] = "ABSENT" /\ Raise(w) /\ UNCHANGED budget
      /\ Count(IF tasks THEN "TASKS" ELSE "CONNECTOR")
      /\ cooling' = TRUE
      /\ UNCHANGED <<row, offsets, since>>

\* get_config of the job's connector; no readable config is an exception.
LoadConfig(w) ==
  LET l == local[w]
      next == CASE l.pc = "configWith" -> "capture"
                [] l.pc = "configRetry" -> "retry"
                [] OTHER -> "stopForFresh"
  IN  /\ l.pc \in {"configWith", "configRetry", "configWithout"}
      /\ l.pc = "configRetry" \/ Replacement(l.job) \in Versions  \* bound: MaxVersion
      /\ \/ kc[l.job.name] # "ABSENT" /\ Answered(w, next)
         \/ kc[l.job.name] # "ABSENT" /\ ConnectFault /\ Raise(w)
         \/ kc[l.job.name] = "ABSENT" /\ Raise(w) /\ UNCHANGED budget
      /\ UNCHANGED <<row, cluster, since, history>>

\* get_offsets: unreachable, 404 or 405 is "none"; any other error raises.
Capture(w) ==
  /\ local[w].pc = "capture"
  /\ \/ \E pc \in {"logCaptured", "logNothingCaptured"} : Answered(w, pc)
     \/ ConnectFault /\ Raise(w)
  /\ UNCHANGED <<row, cluster, since, history>>

\* stop_connector of the failed connector, or of an existing replacement.
StopConnector(w) ==
  LET l == local[w]
      v == l.job.name
      rung == CASE l.pc = "stopOld" -> "WITH_OFFSET"
                [] l.pc = "retryStop" -> "RETRY"
                [] OTHER -> "WITHOUT_OFFSET"
      stopped == IF kc[v] = "ABSENT" THEN kc ELSE [kc EXCEPT ![v] = "STOPPED"]
  IN  /\ l.pc \in {"stopOld", "retryStop", "stopForFresh"}
      /\ \/ kc' = stopped /\ Answered(w, CASE l.pc = "stopOld" -> "create"
                                           [] l.pc = "retryStop" -> "retryPatch"
                                           [] OTHER -> "createFresh")
         \/ kc' \in {kc, stopped} /\ FailedTo(w, CASE l.pc = "stopOld" -> "logWithFailed"
                                                   [] l.pc = "retryStop" -> "logRetryStopFailed"
                                                   [] OTHER -> "logWithoutFailed")
      /\ Count(rung)
      /\ UNCHANGED <<row, offsets, since, cooling>>

\* connector_exists swallows every error and answers False.
RetryProbe(w) ==
  /\ local[w].pc = "retry"
  /\ \/ Answered(w, IF kc[local[w].job.name] = "ABSENT" THEN "retryCreate" ELSE "retryStop")
     \/ FailedTo(w, "retryCreate")
  /\ UNCHANGED <<row, cluster, since, history>>

Created(v, state, origin) ==
  kc' = [kc EXCEPT ![v] = state] /\ offsets' = [offsets EXCEPT ![v] = origin]

\* Slip: the replacement is resumed without its offsets.
ResumeUnpatched(retry) == IF retry THEN "retryResume" ELSE "resume"
AfterCreate(retry) == IF retry THEN "retryPatch" ELSE "patch"

\* create_connector(initial_state = STOPPED).  A timed-out or failed request
\* may have created the connector; an existing one is a conflict (409).
CreateStopped(w) ==
  LET l == local[w]
      retry == l.pc = "retryCreate"
      v == IF retry THEN l.job.name ELSE Replacement(l.job)
      timedOut == FailedTo(w, IF retry THEN "logRetryTimeout" ELSE "renameTimeout")
      refused == IF retry THEN Raise(w) ELSE Goto(w, "logWithFailed") /\ UNCHANGED uncertain
  IN  /\ l.pc \in {"create", "retryCreate"}
      /\ \/ /\ kc[v] = "ABSENT" /\ Created(v, "STOPPED", "none")
            /\ \/ Answered(w, AfterCreate(retry)) /\ UNCHANGED cooling
               \/ timedOut /\ cooling' = TRUE
               \/ ConnectFault /\ refused /\ UNCHANGED cooling
         \/ /\ UNCHANGED cluster
            /\ \/ timedOut /\ cooling' = TRUE
               \/ ConnectFault /\ refused /\ UNCHANGED cooling
               \/ kc[v] # "ABSENT" /\ refused /\ UNCHANGED <<budget, cooling>>
      /\ IF retry THEN Count("RETRY") ELSE UNCHANGED issued
      /\ UNCHANGED <<row, since>>

\* patch_offsets: only a STOPPED connector takes them.
PatchOffsets(w) ==
  LET l == local[w]
      retry == l.pc = "retryPatch"
      v == IF retry THEN l.job.name ELSE Replacement(l.job)
      failed == IF retry THEN "logRetryPatch" ELSE "renamePatch"
      restored == [offsets EXCEPT ![v] = "restored"]
  IN  /\ l.pc \in {"patch", "retryPatch"}
      /\ \/ /\ kc[v] = "STOPPED" /\ offsets' = restored
            /\ Answered(w, IF retry THEN "retryResume" ELSE "resume")
         \/ kc[v] = "STOPPED" /\ offsets' \in {offsets, restored} /\ FailedTo(w, failed)
         \/ kc[v] # "STOPPED" /\ UNCHANGED offsets /\ Answered(w, failed)
      /\ UNCHANGED <<row, kc, since, history>>

ResumeConnector(w) ==
  LET l == local[w]
      retry == l.pc = "retryResume"
      v == IF retry THEN l.job.name ELSE Replacement(l.job)
      failed == IF retry THEN "logRetryResume" ELSE "renameResume"
      resumed == IF kc[v] = "STOPPED" THEN [kc EXCEPT ![v] = "RUNNING"] ELSE kc
  IN  /\ l.pc \in {"resume", "retryResume"}
      /\ \/ /\ kc[v] # "ABSENT" /\ kc' = resumed /\ cooling' = TRUE
            /\ Answered(w, IF retry THEN "logRetried" ELSE "logWith")
         \/ kc' \in {kc, resumed} /\ FailedTo(w, failed) /\ UNCHANGED cooling
         \/ kc[v] = "ABSENT" /\ Answered(w, failed) /\ UNCHANGED <<kc, cooling>>
      /\ UNCHANGED <<row, offsets, since, issued>>

\* recreate_without_offset's create: RUNNING at once; every exception is a failure.
CreateFresh(w) ==
  LET v == Replacement(local[w].job) IN
  /\ local[w].pc = "createFresh"
  /\ \/ /\ kc[v] = "ABSENT" /\ Created(v, "RUNNING", "new") /\ cooling' = TRUE
        /\ Answered(w, "logWithout")
     \/ /\ kc[v] = "ABSENT" /\ Created(v, "RUNNING", "new") /\ UNCHANGED cooling
        /\ FailedTo(w, "logWithoutFailed")
     \/ FailedTo(w, "logWithoutFailed") /\ UNCHANGED <<cluster, cooling>>
     \/ kc[v] # "ABSENT" /\ Answered(w, "logWithoutFailed") /\ UNCHANGED <<cluster, cooling>>
  /\ UNCHANGED <<row, since, issued>>

\* Best effort: a failed request deletes any part of the set.
Deletes(names) ==
  \E gone \in SUBSET names :
    /\ \/ gone = names /\ UNCHANGED budget
       \/ names # {} /\ ConnectFault
    /\ kc' = [v \in Versions |-> IF v \in gone THEN "ABSENT" ELSE kc[v]]

\* Slip: the current connector is protected in place of the first one.
KeptCurrent(job) == IF KeepBase THEN {job.name} ELSE {}
\* RECREATE_KEEP_BASE_CONNECTOR protects the incident's first connector.
Kept(job) == IF KeepBase THEN {OriginalName(job)} ELSE {}

\* _delete_failed_versioned_connector
DropOld(w) ==
  LET job == local[w].job IN
  /\ local[w].pc = "dropOld"
  /\ Deletes(IF IsVersioned(job.name) THEN {job.name} \ Kept(job) ELSE {})
  /\ Goto(w, "refresh")
  /\ UNCHANGED <<row, offsets, since, uncertain, history>>

-----------------------------------------------------------------------------
(* Recovery, quarantine, errors and the next attempt                       *)

\* Slip: the current name is not filtered out of the old ones.
SupersededWithCurrent(job) == {OriginalName(job), job.details.old} \ {NoName}
\* _delete_superseded_connector_if_needed
Superseded(job) == SupersededWithCurrent(job) \ {job.name}

DeleteSuperseded(w) ==
  LET job == local[w].job IN
  /\ local[w].pc = "supersede"
  /\ Deletes(Superseded(job) \ Kept(job))
  /\ Goto(w, "logRecovered")
  /\ UNCHANGED <<row, offsets, since, uncertain, history>>

LogRecovered(w) ==
  LET job == local[w].job
      names == [old |-> job.details.old, original |-> OriginalName(job), new |-> NoName]
  IN  /\ local[w].pc = "logRecovered"
      /\ Write(w, Logged(row, "HEALING_RECOVERED", names),
               [local[w] EXCEPT !.pc = "closeRecovered"])
      /\ UNCHANGED <<cluster, since, history>>

CloseRecovered(w) ==
  LET l == local[w] IN
  /\ l.pc = "closeRecovered"
  /\ \/ /\ Wrote(w, Closed(row, "COMPLETED"), Leave(l, FailedCount(l.job) > 0))
        /\ UNCHANGED uncertain
        /\ since' = NotHealthy
     \/ DbFault(w, Closed(row, "COMPLETED")) /\ UNCHANGED since
  /\ UNCHANGED <<cluster, history>>

\* _quarantine_uncertain_action: log, complete, and only then forget the doubt.
Quarantine(w) ==
  /\ local[w].pc = "quarantine"
  /\ Write(w, Logged(row, "HEALING_ESCALATED", NoDetails),
           [local[w] EXCEPT !.pc = "quarantineClose"])
  /\ UNCHANGED <<cluster, since, history>>

QuarantineClose(w) ==
  LET l == local[w]
      r == Closed(row, "ESCALATED")
  IN  /\ l.pc = "quarantineClose"
      /\ \/ Wrote(w, r, Leave(l, l.res # "NONE")) /\ uncertain' = FALSE
         \/ DbFault(w, r)
      /\ UNCHANGED <<cluster, since, history>>

LogError(w) ==
  /\ local[w].pc = "error"
  /\ Write(w, Logged(row, "STATE_MACHINE_ERROR", NoDetails), Idle)
  /\ UNCHANGED <<cluster, since, history>>

\* After the lock is released: read the row again; only an open one is deferred.
Refresh(w) ==
  /\ local[w].pc = "refresh"
  /\ Become(w, IF IsOpen(row) THEN [local[w] EXCEPT !.pc = "defer", !.job = Read(row)]
               ELSE Idle)
  /\ UNCHANGED <<row, cluster, since, uncertain, history, budget>>

\* wait_for_next_attempt writes WAITING whatever the status is by now.
Defer(w) ==
  LET l == local[w] IN
  /\ l.pc = "defer"
  /\ Write(w, [row EXCEPT !.status = "WAITING", !.deferred = l.job.wait], Idle)
  /\ UNCHANGED <<cluster, since, history>>

-----------------------------------------------------------------------------
(* The environment                                                         *)

ConnectorFails(v) ==
  /\ kc[v] = "RUNNING"
  /\ \E s \in Failures : kc' = [kc EXCEPT ![v] = s]
  /\ UNCHANGED <<row, offsets, local, since, uncertain, history, budget>>

\* A rebalance, or an operator.
ConnectorRecovers(v) ==
  /\ kc[v] \in {"TASK_FAILED", "FAILED"}
  /\ kc' = [kc EXCEPT ![v] = "RUNNING"]
  /\ UNCHANGED <<row, offsets, local, since, uncertain, history, budget>>

OperatorStops(v) ==
  /\ budget.stop > 0 /\ budget' = [budget EXCEPT !.stop = @ - 1]
  /\ kc[v] \in Live /\ kc' = [kc EXCEPT ![v] = "STOPPED"]
  /\ UNCHANGED <<row, offsets, local, since, uncertain, history>>

Uncreated == offsets[0] = "uncreated"

\* What NOT_CREATED waits for: somebody creates the connector.
FirstCreated ==
  /\ Uncreated
  /\ kc' = [kc EXCEPT ![0] = "RUNNING"]
  /\ offsets' = [offsets EXCEPT ![0] = "source"]
  /\ UNCHANGED <<row, local, since, uncertain, history, budget>>

NoLongerWaiting(l) == [l EXCEPT !.job = [l.job EXCEPT !.wait = FALSE]]

\* The wait after the last action passes, for the row and everything read from it.
Elapse ==
  /\ cooling \/ row.wait \/ row.deferred
  /\ row' = [row EXCEPT !.wait = FALSE, !.deferred = FALSE]
  /\ local' = [w \in Workers |-> NoLongerWaiting(local[w])]
  /\ cooling' = FALSE
  /\ UNCHANGED <<cluster, since, uncertain, issued, budget>>

\* The wait of a job read before the last action passes, ahead of that action's.
ElapseStale(w) ==
  /\ local[w].job.wait
  /\ ActionCount(local[w].job) + TimeoutCount(local[w].job)
       < ActionCount(row) + TimeoutCount(row)
  /\ Become(w, NoLongerWaiting(local[w]))
  /\ UNCHANGED <<row, cluster, since, uncertain, history, budget>>

\* The confirmation interval passes without an unhealthy check in between.
Stabilize ==
  /\ since.on /\ ~since.stable
  /\ since' = [since EXCEPT !.stable = TRUE]
  /\ UNCHANGED <<row, cluster, local, uncertain, history, budget>>

\* The process dies and starts again: only the database and Connect remain.
Crash ==
  /\ budget.crash > 0 /\ budget' = [budget EXCEPT !.crash = @ - 1]
  /\ local' = [w \in Workers |-> Idle]
  /\ since' = NotHealthy
  /\ uncertain' = FALSE
  /\ UNCHANGED <<row, cluster, history>>

-----------------------------------------------------------------------------
(* The specification                                                       *)

Arrive(w) ==
  Notice(w) \/ Enqueue(w) \/ ListDue(w) \/ Alerted(w) \/ TryLock(w) \/ Start(w) \/ Finish(w)
Assess(w) ==
  \/ CheckUnreachable(w) \/ CheckNotCreated(w) \/ CheckAdminStopped(w) \/ CheckHealthy(w)
  \/ CheckUnhealthy(w) \/ Observe(w) \/ Confirm(w)
Record(w) == Audit(w) \/ Rename(w) \/ Close(w)
Act(w) ==
  \/ Restart(w) \/ LoadConfig(w) \/ Capture(w) \/ StopConnector(w) \/ RetryProbe(w)
  \/ CreateStopped(w) \/ PatchOffsets(w) \/ ResumeConnector(w) \/ CreateFresh(w) \/ DropOld(w)
Settle(w) ==
  \/ DeleteSuperseded(w) \/ LogRecovered(w) \/ CloseRecovered(w) \/ Quarantine(w)
  \/ QuarantineClose(w) \/ LogError(w) \/ Refresh(w) \/ Defer(w)

Step(w) == Arrive(w) \/ Assess(w) \/ Record(w) \/ Act(w) \/ Settle(w)

Environment ==
  \/ \E v \in Versions : ConnectorFails(v) \/ ConnectorRecovers(v) \/ OperatorStops(v)
  \/ FirstCreated \/ Elapse \/ (\E w \in Workers : ElapseStale(w)) \/ Stabilize \/ Crash

Next == (\E w \in Workers : Step(w)) \/ Environment

Spec == Init /\ [][Next]_vars

\* The reconciliation thread keeps polling, its calls return, and time passes.
\* Nothing is assumed of the webhooks, of the connectors or of the faults.
Fairness ==
  /\ \A w \in Pollers : WF_vars(Step(w))
  /\ WF_vars(Elapse)
  /\ WF_vars(Stabilize)
FairSpec == Spec /\ Fairness

-----------------------------------------------------------------------------
(* Properties                                                              *)

Crashes == MaxCrashes - budget.crash
Recreates == {"WITH_OFFSET", "RETRY", "WITHOUT_OFFSET"}
Verdict == \E e \in TerminalEvents : row.count[e] > 0
MaxAttempts == [r \in Rungs |-> IF r = "TASKS" THEN TaskRestartMax ELSE 1]

\* No rung of the ladder is climbed more often than its limit, whatever the
\* audit log lost; a crash between request and log costs one more attempt. And
\* where a crash hid how a recreate ended, the connector that a recreate
\* WITHOUT_OFFSET brings up may be recreated WITH_OFFSET once more: the log has
\* its timeouts, which the policy does not count as a recreate.
Regained(r) == IF r = "WITH_OFFSET" /\ Crashes > 0 THEN issued["WITHOUT_OFFSET"] ELSE 0
AttemptsBounded == \A r \in Rungs : issued[r] <= MaxAttempts[r] + Crashes + Regained(r)

\* Kafka Connect is touched only after the failure was confirmed in the log.
ActsOnConfirmed ==
  (\E r \in Rungs : issued[r] > 0) => row.count["HEALTH_FAILED_CONFIRMED"] > 0

\* Without alerts a failure is confirmed only by the required observations.
Debounced ==
  row.count["HEALTH_FAILED_CONFIRMED"] > 0
    => row.count["HEALTH_FAILURE_OBSERVED"] >= FailureConfirmChecks

\* Two versions of one source never capture changes at the same time.
OneLiveConnector == \A u, v \in Versions : kc[u] \in Live /\ kc[v] \in Live => u = v

\* A replacement runs only from restored offsets or, on purpose, without any.
RunsFromKnownOffsets == \A v \in Versions : kc[v] \in Live => offsets[v] # "none"

\* A RESTART_ONLY incident is restarted at most, never recreated.
RestartOnlyNotRecreated ==
  row.level = 2 => \A r \in Recreates : issued[r] = 0

\* The healer never deletes the connector its queue row points at.
CurrentNeverDeleted ==
  [][kc[row.name] # "ABSENT" => kc'[row.name] # "ABSENT"]_vars

\* With RECREATE_KEEP_BASE_CONNECTOR the root connector is never deleted.
BaseKept == [][KeepBase /\ kc[0] # "ABSENT" => kc'[0] # "ABSENT"]_vars

\* An incident is closed as ESCALATED only with the reason in its log.
EscalationAudited == row.status = "ESCALATED" => Verdict

\* An incident that needed an action is closed as recovered only with its audit.
RecoveryAudited ==
  row.status = "COMPLETED" /\ (\E r \in Rungs : issued[r] > 0)
    => row.count["HEALING_RECOVERED"] > 0

\* While no thread works on the incident, the queue row names the connector
\* that the last logged recreate brought up.
NamePreserved ==
  (\A w \in Workers : local[w].pc \notin HoldingPcs) /\ row.latest \in WaitAfterRecreateEvents
    => row.name = row.details.new

\* The level gate stops only incidents queued as RESTART_ONLY.
LevelLimitJustified == row.count["HEALING_LEVEL_LIMIT_REACHED"] > 0 => row.level = 2

\* Nothing is requested while the wait after the previous action runs, although
\* any later log event replaces the one that the wait is computed from. It takes
\* two failed SQL Server calls to get around it: one that leaves the row due and
\* one whose STATE_MACHINE_ERROR replaces that event before the wait is over.
DbFaults == MaxDbFaults - budget.db
NoActionInsideWait == [][cooling /\ DbFaults < 2 => UNCHANGED issued]_vars

\* A closed incident is not reopened.
ClosedStaysClosed ==
  [][row.status \in {"COMPLETED", "ESCALATED"} => UNCHANGED row.status]_vars

\* Reconciliation alone ends every incident of a connector that exists, if no SQL
\* Server call fails, no operator stops a connector and Kafka Connect fails finitely
\* often. (The incident of a connector that Connect does not have waits until
\* somebody creates it, db_state_machine.py:288-290.)
EventuallyClosed ==
  IsOpen(row) /\ ~Uncreated ~> row.status \in {"COMPLETED", "ESCALATED"}

-----------------------------------------------------------------------------
(* The abstract ladder this module implements, for one thread that does    *)
(* not crash (with several threads or a crash it does not).                *)

LadderPhase ==
  CASE row.status = "NONE" -> "none"
    [] row.status = "COMPLETED" -> "recovered"
    [] row.status = "ESCALATED" -> "escalated"
    [] OTHER -> "open"
Prior ==
  [r \in Rungs |-> CASE r \in {"TASKS", "CONNECTOR"} -> {}
                     [] r = "RETRY" -> {"WITH_OFFSET"}
                     [] OTHER -> {"CONNECTOR"}]
Ladder == INSTANCE RecoveryLadder WITH
  Limit <- MaxAttempts,
  phase <- LadderPhase,
  recovery <- row.status # "NONE" /\ row.level = 4,
  confirmed <- row.count["HEALTH_FAILED_CONFIRMED"] > 0,
  spent <- issued,
  verdict <- Verdict

\* The incident climbs the ladder as promised, each step once and in order.
ImplementsLadder == Ladder!Spec
=============================================================================
