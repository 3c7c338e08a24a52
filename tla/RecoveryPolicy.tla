--------------------------- MODULE RecoveryPolicy ---------------------------
(***************************************************************************)
(* The pure decision table of the healer (healing/policy.py) and the       *)
(* policy values it reads (domain/healing.py).  A job is the view of one   *)
(* queue row that spGetConnectorHealingQueue returns: its latest log event *)
(* and the number of log events of each type.                              *)
(*                                                                         *)
(* No recursion and no variables: every operator here is a function of its *)
(* arguments, so the modules that use it can be proved about.              *)
(***************************************************************************)
EXTENDS Naturals

CONSTANTS
  FailureConfirmChecks,  \* FAILURE_CONFIRM_CHECKS
  TaskRestartMax         \* TASK_RESTART_MAX_ATTEMPTS

\* RecoveryPolicy.__post_init__ rejects values below 1.
ASSUME PolicyAssumption ==
  /\ FailureConfirmChecks \in Nat \ {0}
  /\ TaskRestartMax \in Nat \ {0}

\* ConnectorStateMachine passes min(configured, 1), and 0 is rejected.
ConnectorRestartMax == 1
WithOffsetTimeoutMax == 2
WithoutOffsetMax == 1

-----------------------------------------------------------------------------
(* Log events, by the names the code stores.                               *)

WaitAfterRestartEvents == {"TASK_RESTART", "CONNECTOR_RESTART"}
WaitAfterRecreateEvents ==
  {"CONNECTOR_RECREATE_WITH_OFFSET", "CONNECTOR_RECREATE_WITHOUT_OFFSET"}
\* OFFSET_CAPTURE_FAILED is in the table; no executor ever logs it.
WithOffsetFailureEvents ==
  {"CONNECTOR_RECREATE_WITH_OFFSET_FAILED", "OFFSET_CAPTURE_FAILED",
   "OFFSET_PATCH_FAILED", "CONNECTOR_RESUME_FAILED"}
WithOffsetRetryEvents == {"CONNECTOR_RECREATE_WITH_OFFSET_TIMEOUT"}
WithoutOffsetEvents ==
  {"CONNECTOR_RECREATE_WITHOUT_OFFSET", "CONNECTOR_RECREATE_WITHOUT_OFFSET_FAILED"}
TerminalEvents == {"HEALING_ESCALATED", "HEALING_LEVEL_LIMIT_REACHED"}

EventTypes ==
  UNION {WaitAfterRestartEvents, WaitAfterRecreateEvents, WithOffsetFailureEvents,
         WithOffsetRetryEvents, WithoutOffsetEvents, TerminalEvents,
         {"HEALTH_FAILURE_OBSERVED", "HEALTH_FAILED_CONFIRMED", "OFFSET_CAPTURED",
          "HEALING_RECOVERED", "STATE_MACHINE_ERROR"}}

\* The events counted, for the job view or by the audit properties.
CountedEvents ==
  UNION {WaitAfterRestartEvents, WaitAfterRecreateEvents, WithOffsetRetryEvents,
         WithoutOffsetEvents, TerminalEvents,
         {"CONNECTOR_RECREATE_WITH_OFFSET_FAILED", "HEALTH_FAILURE_OBSERVED",
          "HEALTH_FAILED_CONFIRMED", "HEALING_RECOVERED"}}

\* Slip: only recreates are waited for.
RecreateWaitEvents == WaitAfterRecreateEvents \cup WithOffsetRetryEvents
\* Events after which _action_wait_until holds the incident back.
WaitEvents == UNION {WaitAfterRestartEvents, WaitAfterRecreateEvents, WithOffsetRetryEvents}

\* Slip: a failed recreate is not remembered as the healer's stop.
StoppedByRetryOnly == WithOffsetRetryEvents \cup {"CONNECTOR_RECREATE_WITH_OFFSET"}
\* A STOPPED connector is the healer's own doing only after one of these.
ManagedStoppedEvents ==
  UNION {WithOffsetFailureEvents, WithOffsetRetryEvents, {"CONNECTOR_RECREATE_WITH_OFFSET"}}

-----------------------------------------------------------------------------
(* What spGetConnectorHealingQueue derives from the log.                   *)

FailedCount(job) == job.count["HEALTH_FAILURE_OBSERVED"]
FailureConfirmed(job) == job.count["HEALTH_FAILED_CONFIRMED"] > 0
TaskRestartCount(job) == job.count["TASK_RESTART"]
ConnectorRestartCount(job) == job.count["CONNECTOR_RESTART"]
WithOffsetCount(job) ==
  job.count["CONNECTOR_RECREATE_WITH_OFFSET"]
    + job.count["CONNECTOR_RECREATE_WITH_OFFSET_FAILED"]
TimeoutCount(job) == job.count["CONNECTOR_RECREATE_WITH_OFFSET_TIMEOUT"]
WithoutOffsetCount(job) ==
  job.count["CONNECTOR_RECREATE_WITHOUT_OFFSET"]
    + job.count["CONNECTOR_RECREATE_WITHOUT_OFFSET_FAILED"]

\* LatestHasNextStep is computed from the status, not from the log.
OpenStatuses == {"PENDING", "PROCESSING", "WAITING"}
HasNextStep(job) == job.status \in OpenStatuses

-----------------------------------------------------------------------------
(* The decision.                                                           *)

RecoveryActions ==
  {"DEBOUNCE", "STOP", "RESTART_TASKS", "RESTART_CONNECTOR", "RECREATE_WITH_OFFSET",
   "RETRY_RECREATE_WITH_OFFSET", "RECREATE_WITHOUT_OFFSET", "ESCALATE"}

\* Slip: a recreate is gated like a restart.
RestartLevelForAll(action) == IF action \in {"DEBOUNCE", "STOP", "ESCALATE"} THEN 0 ELSE 2
\* HealingStep demanded of the job's level; 0 where the decision names none.
RequiredLevel(action) ==
  CASE action \in {"RESTART_TASKS", "RESTART_CONNECTOR"} -> 2
    [] action \in {"RECREATE_WITH_OFFSET", "RETRY_RECREATE_WITH_OFFSET"} -> 3
    [] action = "RECREATE_WITHOUT_OFFSET" -> 4
    [] OTHER -> 0

WithoutOffsetOrEscalate(job) ==
  IF WithoutOffsetCount(job) < WithoutOffsetMax
  THEN "RECREATE_WITHOUT_OFFSET" ELSE "ESCALATE"

\* Slip: the limit is compared with <=.
OneRestartTooMany(job, failedTask) ==
  /\ ConnectorRestartCount(job) <= ConnectorRestartMax
  /\ failedTask => TaskRestartCount(job) >= TaskRestartMax
ShouldRestartConnector(job, failedTask) ==
  /\ ConnectorRestartCount(job) < ConnectorRestartMax
  /\ failedTask =>
       /\ TaskRestartCount(job) >= TaskRestartMax
       /\ \/ FailureConfirmed(job)
          \/ FailedCount(job) >= FailureConfirmChecks + TaskRestartMax

\* The part of the table that looks only at the latest event: what follows an
\* unfinished or finished recreate, and nothing once the incident is terminal.
RecreateFollowUp(job) ==
  IF job.latest \in WithOffsetRetryEvents /\ TimeoutCount(job) < WithOffsetTimeoutMax
  THEN "RETRY_RECREATE_WITH_OFFSET"
  ELSE WithoutOffsetOrEscalate(job)

DecideUnhealthy(job, failedTask) ==
  IF job.latest \in ManagedStoppedEvents THEN RecreateFollowUp(job)
  ELSE IF job.latest \in WithoutOffsetEvents THEN "ESCALATE"
  ELSE IF job.latest \in TerminalEvents /\ ~HasNextStep(job) THEN "STOP"
  ELSE IF ~FailureConfirmed(job) /\ FailedCount(job) < FailureConfirmChecks THEN "DEBOUNCE"
  ELSE IF failedTask /\ TaskRestartCount(job) < TaskRestartMax THEN "RESTART_TASKS"
  ELSE IF ShouldRestartConnector(job, failedTask) THEN "RESTART_CONNECTOR"
  ELSE IF WithOffsetCount(job) = 0 THEN "RECREATE_WITH_OFFSET"
  ELSE WithoutOffsetOrEscalate(job)

\* _run_recreate_with_offset_retry_or_escalate: the replacement is missing.
DecideMissingReplacement(job) ==
  IF TimeoutCount(job) < WithOffsetTimeoutMax
  THEN "RETRY_RECREATE_WITH_OFFSET" ELSE "ESCALATE"
=============================================================================
