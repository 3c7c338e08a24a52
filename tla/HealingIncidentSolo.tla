------------------------ MODULE HealingIncidentSolo ------------------------
(***************************************************************************)
(* Theorems about HealingIncident for one thread at a time: the poller, or *)
(* one webhook worker.  What the thread has read still describes the row,  *)
(* because nobody else writes it; with several threads the statements      *)
(* below are not theorems.                                                 *)
(***************************************************************************)
EXTENDS HealingIncidentProofs

OneThread == \A u, w \in Workers : u = w

-----------------------------------------------------------------------------
(* What a step does to the thread that takes it                            *)

\* The thread goes on with the job it holds.
Went(w, pc) ==
  /\ local'[w].pc = pc /\ local'[w].job = local[w].job
  /\ local'[w].res = local[w].res /\ local'[w].alert = local[w].alert

\* The thread leaves the incident, or goes to schedule its next attempt.
Left(w) == local'[w] = Idle \/ Went(w, "refresh")

\* The call the thread made has raised.
Raised(w) ==
  \/ local[w].pc \in DispatchPcs /\ uncertain' = TRUE /\ Went(w, "quarantine")
  \/ /\ local[w].pc \in GuardedPcs /\ ~uncertain
     /\ UNCHANGED uncertain /\ Went(w, "error")
  \/ local[w].pc \notin DispatchPcs /\ UNCHANGED uncertain /\ local'[w] = Idle

LEMMA BecomeEffect ==
  ASSUME TypeInv, NEW w \in Workers, NEW l, Become(w, l)
  PROVE  local'[w] = l
  BY DEF Become, TypeInv

LEMMA HeldTypes ==
  ASSUME TypeInv, NEW w \in Workers
  PROVE  /\ local[w] \in Locals /\ local[w] \in NamedLocals /\ local[w].pc \in Pcs
         /\ local[w].job \in Rows /\ row \in Rows
  BY DEF TypeInv, NamedLocals, Locals

LEMMA GotoEffect ==
  ASSUME TypeInv, NEW w \in Workers, NEW pc, Goto(w, pc)
  PROVE  Went(w, pc)
  <1>1. local'[w] = [local[w] EXCEPT !.pc = pc]
    BY BecomeEffect DEF Goto
  <1>2. QED BY <1>1, HeldTypes DEF Went, Locals

LEMMA LeaveEffect ==
  ASSUME TypeInv, NEW w \in Workers, NEW b, Become(w, Leave(local[w], b))
  PROVE  Left(w)
  <1>1. CASE b
    BY <1>1, GotoEffect DEF Leave, Goto, Left
  <1>2. CASE ~b
    BY <1>2, BecomeEffect DEF Leave, Left
  <1>3. QED BY <1>1, <1>2

LEMMA RaiseEffect ==
  ASSUME TypeInv, NEW w \in Workers, Raise(w)
  PROVE  Raised(w)
  <1>1. CASE local[w].pc \in DispatchPcs
    BY <1>1, GotoEffect DEF Raise, Raised, DoubtfulStep
  <1>2. CASE local[w].pc \notin DispatchPcs
    <2>1. CASE local[w].pc \in GuardedPcs /\ ~uncertain
      BY <1>2, <2>1, GotoEffect DEF Raise, Raised
    <2>2. CASE ~(local[w].pc \in GuardedPcs /\ ~uncertain)
      BY <1>2, <2>2, BecomeEffect DEF Raise, Raised
    <2>3. QED BY <2>1, <2>2
  <1>3. QED BY <1>1, <1>2

\* A write commits and the thread goes on, or it raises, committed or not.
LEMMA WriteEffect ==
  ASSUME TypeInv, NEW w \in Workers, NEW r, NEW l, Write(w, r, l)
  PROVE  \/ row' = r /\ local'[w] = l /\ UNCHANGED <<uncertain, budget>>
         \/ /\ row' \in {row, r} /\ Raised(w)
            /\ budget.db > 0 /\ budget' = [budget EXCEPT !.db = @ - 1]
  BY BecomeEffect, RaiseEffect DEF Write, Wrote, DbFault

\* The audit log line by line: the event each step writes, and what follows it.
AuditLine(pc, e, next) ==
  \/ pc = "logTaskRestart" /\ e = "TASK_RESTART" /\ next = "refresh"
  \/ pc = "logConnectorRestart" /\ e = "CONNECTOR_RESTART" /\ next = "refresh"
  \/ pc = "logCaptured" /\ e = "OFFSET_CAPTURED" /\ next \in {"stopOld", "logNoHistory"}
  \/ pc = "logNothingCaptured" /\ e = "OFFSET_CAPTURED" /\ next = "logNoOffsets"
  \/ /\ pc = "logTimeout" /\ e = "CONNECTOR_RECREATE_WITH_OFFSET_TIMEOUT"
     /\ next = "refresh"
  \/ pc = "logPatch" /\ e = "OFFSET_PATCH_FAILED" /\ next = "logWithFailed"
  \/ pc = "logResume" /\ e = "CONNECTOR_RESUME_FAILED" /\ next = "logWithFailed"
  \/ pc = "logWith" /\ e = "CONNECTOR_RECREATE_WITH_OFFSET" /\ next = "renameWith"
  \/ /\ pc \in {"logNoOffsets", "logNoHistory", "logWithFailed"}
     /\ e = "CONNECTOR_RECREATE_WITH_OFFSET_FAILED" /\ next = "refresh"
  \/ /\ pc = "logRetryTimeout" /\ e = "CONNECTOR_RECREATE_WITH_OFFSET_TIMEOUT"
     /\ next = "escalate"
  \/ pc = "logRetryPatch" /\ e = "OFFSET_PATCH_FAILED" /\ next = "escalate"
  \/ pc = "logRetryResume" /\ e = "CONNECTOR_RESUME_FAILED" /\ next = "escalate"
  \/ pc = "logRetried" /\ e = "CONNECTOR_RECREATE_WITH_OFFSET" /\ next = "refresh"
  \/ /\ pc = "logRetryStopFailed" /\ e = "CONNECTOR_RECREATE_WITH_OFFSET_FAILED"
     /\ next = "escalate"
  \/ pc = "logWithout" /\ e = "CONNECTOR_RECREATE_WITHOUT_OFFSET" /\ next = "renameWithout"
  \/ /\ pc = "logWithoutFailed" /\ e = "CONNECTOR_RECREATE_WITHOUT_OFFSET_FAILED"
     /\ next = "escalate"
  \/ pc = "levelLimit" /\ e = "HEALING_LEVEL_LIMIT_REACHED" /\ next = "close"
  \/ pc = "escalate" /\ e = "HEALING_ESCALATED" /\ next = "close"

LEMMA AuditLines ==
  ASSUME NEW pc \in AuditPcs, NEW next \in AuditOf(pc).next
  PROVE  AuditLine(pc, AuditOf(pc).event, next)
  <1>1. CASE pc \in RestartPcs
    <2>1. AuditOf(pc) = RestartAudit(pc)
      BY <1>1, PcFamilies DEF AuditOf
    <2>2. pc \in {"logTaskRestart", "logConnectorRestart"}
      BY <1>1 DEF RestartPcs, AuditPcs
    <2>3. QED BY <2>1, <2>2 DEF RestartAudit, AuditLine
  <1>2. CASE pc \in WithOffsetPcs
    <2>1. AuditOf(pc) = WithOffsetAudit(pc)
      BY <1>2, PcFamilies DEF AuditOf
    <2>2. pc \in {"logCaptured", "logNothingCaptured", "logTimeout", "logPatch", "logResume",
                  "logWith", "logNoOffsets", "logNoHistory", "logWithFailed"}
      BY <1>2 DEF WithOffsetPcs, AuditPcs
    <2>3. QED BY <2>1, <2>2 DEF WithOffsetAudit, AuditLine
  <1>3. CASE pc \in RetryPcs
    <2>1. AuditOf(pc) = RetryAudit(pc)
      BY <1>3, PcFamilies DEF AuditOf
    <2>2. pc \in {"logRetryTimeout", "logRetryPatch", "logRetryResume", "logRetried",
                  "logRetryStopFailed"}
      BY <1>3 DEF RetryPcs, AuditPcs
    <2>3. QED BY <2>1, <2>2 DEF RetryAudit, AuditLine
  <1>4. CASE pc \in WithoutOffsetPcs
    <2>1. AuditOf(pc) = WithoutOffsetAudit(pc)
      BY <1>4, PcFamilies DEF AuditOf
    <2>2. pc \in {"logWithout", "logWithoutFailed"}
      BY <1>4 DEF WithoutOffsetPcs, AuditPcs
    <2>3. QED BY <2>1, <2>2 DEF WithoutOffsetAudit, AuditLine
  <1>5. CASE pc \in {"levelLimit", "escalate"}
    <2>1. AuditOf(pc) = EscalationAudit(pc)
      BY <1>5 DEF AuditOf, WithOffsetPcs, RestartPcs, RetryPcs, WithoutOffsetPcs
    <2>2. QED BY <1>5, <2>1 DEF EscalationAudit, AuditLine
  <1>6. QED
    BY <1>1, <1>2, <1>3, <1>4, <1>5
    DEF AuditPcs, RestartPcs, WithOffsetPcs, RetryPcs, WithoutOffsetPcs

\* What Logged leaves behind, field by field.
LEMMA LoggedFields ==
  ASSUME NEW r \in Rows, NEW e \in EventTypes, NEW d \in Details,
         e = "HEALTH_FAILED_CONFIRMED" => r.count[e] = 0
  PROVE  LET n == Logged(r, e, d)
         IN  /\ n.latest = e /\ n.details = d /\ n.count = Counted(r.count, e)
             /\ n.status = r.status /\ n.name = r.name /\ n.level = r.level
             /\ n.deferred = r.deferred /\ (n.wait <=> e \in WaitEvents)
  <1> DEFINE c == Counted(r.count, e)
             b == e \in WaitEvents
  <1>1. Logged(r, e, d) = [r EXCEPT !.latest = e, !.details = d, !.wait = b, !.count = c]
    BY DEF Logged, Rows
  <1> HIDE DEF c, b
  <1>2. QED BY <1>1 DEF Rows, c, b

LEMMA CountedFields ==
  ASSUME NEW c \in [CountedEvents -> 0..CountCap], NEW e
  PROVE  /\ e \notin CountedEvents => Counted(c, e) = c
         /\ \A x \in CountedEvents :
              Counted(c, e)[x] = IF x = e THEN Bump(c[x]) ELSE c[x]
  BY DEF Counted

\* Every event the executors write.
LEMMA AuditLineEvents ==
  ASSUME NEW pc, NEW e, NEW next, AuditLine(pc, e, next)
  PROVE  e \in EventTypes /\ e # "HEALTH_FAILED_CONFIRMED"
  BY DEF AuditLine, EventTypes, WaitAfterRestartEvents, WaitAfterRecreateEvents,
     WithOffsetFailureEvents, WithOffsetRetryEvents, WithoutOffsetEvents, TerminalEvents

\* What an audit step does: the log and the thread.
LEMMA AuditEffect ==
  ASSUME TypeInv, NEW w \in Workers, Audit(w)
  PROVE  \E e \in EventTypes, next \in Pcs :
           LET r == Logged(row, e, AuditDetails(local[w]))
           IN  /\ AuditLine(local[w].pc, e, next) /\ local[w].pc \in AuditPcs
               /\ r \in Rows
               /\ \/ row' = r /\ Went(w, next) /\ UNCHANGED <<uncertain, budget>>
                  \/ /\ row' \in {row, r} /\ Raised(w)
                     /\ budget.db > 0 /\ budget' = [budget EXCEPT !.db = @ - 1]
               /\ UNCHANGED <<cluster, since, history>>
  <1> DEFINE l == local[w]
  <1>1. l.pc \in AuditPcs /\ UNCHANGED <<cluster, since, history>>
    BY DEF Audit
  <1>2. PICK next \in AuditOf(l.pc).next :
          Write(w, Logged(row, AuditOf(l.pc).event, AuditDetails(l)), [l EXCEPT !.pc = next])
    BY DEF Audit
  <1> DEFINE e == AuditOf(l.pc).event
             r == Logged(row, e, AuditDetails(l))
             m == [l EXCEPT !.pc = next]
  <1>3. AuditLine(l.pc, e, next)
    BY <1>1, <1>2, AuditLines
  <1>4. e \in EventTypes /\ next \in Pcs
    BY <1>1, <1>2, AuditTable
  <1>5. r \in Rows
    BY <1>1, <1>4, HeldTypes, AuditDetailsType, LoggedType
  <1>6. m.pc = next /\ m.job = l.job /\ m.res = l.res /\ m.alert = l.alert
    BY HeldTypes DEF Locals
  <1>7. Write(w, r, m)
    BY <1>2
  <1> HIDE DEF e, r, m
  <1>8. \/ row' = r /\ local'[w] = m /\ UNCHANGED <<uncertain, budget>>
        \/ /\ row' \in {row, r} /\ Raised(w)
           /\ budget.db > 0 /\ budget' = [budget EXCEPT !.db = @ - 1]
    BY <1>7, WriteEffect
  <1>9. local'[w] = m => Went(w, next)
    BY <1>6 DEF Went
  <1>10. QED BY <1>1, <1>3, <1>4, <1>5, <1>8, <1>9 DEF r

-----------------------------------------------------------------------------
(* Control: where the thread is tells what the row looks like.             *)

FreePcs == {"idle", "enqueue", "refresh", "error"}
DoubtPcs == {"quarantine", "quarantineClose"}
\* Where the job no longer has to agree with the row: after a rename,
NewNamePcs == {"logTimeout", "logPatch", "logResume", "logWithFailed", "dropOld"}
\* after a counted event,
NewCountPcs == {"renameWith", "renameWithout", "dropOld"}
\* or because nothing more is decided with it.
SpentPcs == {"closeRecovered", "escalate", "close"} \cup FreePcs \cup DoubtPcs
FreshPcs == {"acquire", "start", "check", "observe", "supersede"}
\* Between OFFSET_CAPTURED and the recreate's own event.
CapturedPcs ==
  {"stopOld", "logNoHistory", "create", "renameTimeout", "patch", "renamePatch", "resume",
   "renameResume"}

\* Replacements are numbered upwards.
Numbered(r) == r.details.new # NoName => r.details.new >= r.name

\* A row that was never enqueued carries nothing.
Pristine(r) ==
  r.status = "NONE" =>
    r.count = NoCounts /\ r.details = NoDetails /\ r.latest = "NONE" /\ r.name = 0

StatusFits(r, l) ==
  /\ l.pc = "enqueue" => r.status = "NONE"
  /\ l.pc = "error" => r.status # "NONE"
  /\ l.pc \in DoubtPcs => IsOpen(r) \/ r.status = "ESCALATED"
  /\ l.pc \notin FreePcs \cup DoubtPcs => IsOpen(r)

InSync(r, l) ==
  /\ l.pc \notin SpentPcs \cup NewNamePcs => l.job.name = r.name /\ Numbered(l.job)
  /\ l.pc \notin SpentPcs \cup NewCountPcs => l.job.count = r.count
  /\ l.pc \in FreshPcs => l.job.latest = r.latest /\ l.job.details = r.details
  /\ l.pc \in NewNamePcs \ {"dropOld"} => r.name <= Replacement(l.job)
  /\ l.pc = "dropOld" => r.name # l.job.name
  /\ l.pc \in CapturedPcs => r.details.new = NoName
  /\ l.pc \in {"renameWith", "renameWithout"} => r.details.new = Replacement(l.job)
  /\ l.pc = "confirm" => ~FailureConfirmed(l.job)

Fits(r, l) == StatusFits(r, l) /\ InSync(r, l)

ControlInv == Pristine(row) /\ Numbered(row) /\ \A w \in Workers : Fits(row, local[w])

LEMMA ReplacementAbove ==
  ASSUME NEW job \in Rows, Numbered(job)
  PROVE  Replacement(job) > job.name /\ Replacement(job) \in Nat
  <1>1. job.name \in Nat /\ job.details.new \in Nat
    BY Caps DEF Rows, Details, Names, Versions, NoName
  <1>2. QED BY <1>1 DEF Replacement, Numbered

LEMMA IdleFits ==
  ASSUME NEW r
  PROVE  Fits(r, Idle)
  BY IdleType
  DEF Fits, StatusFits, InSync, FreePcs, DoubtPcs, SpentPcs, NewNamePcs, NewCountPcs, FreshPcs,
      CapturedPcs

\* Pcs where the thread still holds what it read.
LEMMA DispatchOpen ==
  ASSUME NEW r, NEW l, StatusFits(r, l), l.pc \in DispatchPcs
  PROVE  IsOpen(r)
  BY PcKinds DEF StatusFits, DispatchPcs, FreePcs, DoubtPcs, RestartPcs, WithOffsetPcs, RetryPcs,
     WithoutOffsetPcs

LEMMA GuardedQueued ==
  ASSUME NEW r, NEW l, StatusFits(r, l), l.pc \in GuardedPcs
  PROVE  r.status # "NONE"
  BY DEF StatusFits, GuardedPcs, FreePcs, DoubtPcs, IsOpen, OpenStatuses

LEMMA RaisedFits ==
  ASSUME NEW w \in Workers, NEW r, Raised(w),
         local[w].pc \in DispatchPcs => IsOpen(r) \/ r.status = "ESCALATED",
         local[w].pc \in GuardedPcs => r.status # "NONE"
  PROVE  Fits(r, local'[w])
  <1>1. CASE local'[w] = Idle
    BY <1>1, IdleFits
  <1>2. CASE Went(w, "error") /\ local[w].pc \in GuardedPcs
    BY <1>2
    DEF Went, Fits, StatusFits, InSync, FreePcs, DoubtPcs, SpentPcs, NewNamePcs, NewCountPcs,
        FreshPcs, CapturedPcs
  <1>3. CASE Went(w, "quarantine") /\ local[w].pc \in DispatchPcs
    BY <1>3
    DEF Went, Fits, StatusFits, InSync, FreePcs, DoubtPcs, SpentPcs, NewNamePcs, NewCountPcs,
        FreshPcs, CapturedPcs
  <1>4. QED BY <1>1, <1>2, <1>3 DEF Raised

LEMMA LeftFits ==
  ASSUME NEW w \in Workers, NEW r, Left(w)
  PROVE  Fits(r, local'[w])
  <1>1. CASE local'[w] = Idle
    BY <1>1, IdleFits
  <1>2. CASE Went(w, "refresh")
    BY <1>2
    DEF Went, Fits, StatusFits, InSync, FreePcs, DoubtPcs, SpentPcs, NewNamePcs, NewCountPcs,
        FreshPcs, CapturedPcs
  <1>3. QED BY <1>1, <1>2 DEF Left

LEMMA ControlMove ==
  ASSUME OneThread, ControlInv, NEW w \in Workers, row' = row,
         Fits(row, local'[w]) \/ Raised(w)
  PROVE  ControlInv'
  <1>1. Fits(row, local'[w])
    <2>1. /\ local[w].pc \in DispatchPcs => IsOpen(row)
          /\ local[w].pc \in GuardedPcs => row.status # "NONE"
      BY DispatchOpen, GuardedQueued DEF ControlInv, Fits
    <2>2. QED BY <2>1, RaisedFits
  <1>2. QED BY <1>1 DEF ControlInv, OneThread

LEMMA ControlWrite ==
  ASSUME OneThread, ControlInv, NEW w \in Workers, NEW r,
         \/ row' = r /\ Fits(r, local'[w])
         \/ row' \in {row, r} /\ Raised(w),
         r.status # "NONE", Numbered(r),
         local[w].pc \in DispatchPcs => IsOpen(r) \/ r.status = "ESCALATED"
  PROVE  ControlInv'
  <1>1. Pristine(row') /\ Numbered(row')
    BY DEF ControlInv, Pristine
  <1>2. Fits(row', local'[w])
    <2>1. /\ local[w].pc \in DispatchPcs => IsOpen(row)
          /\ local[w].pc \in GuardedPcs => row.status # "NONE"
      BY DispatchOpen, GuardedQueued DEF ControlInv, Fits
    <2>2. QED BY <2>1, RaisedFits
  <1>3. QED BY <1>1, <1>2 DEF ControlInv, OneThread

\* The status of a row that is closed or given a new status.
LEMMA StatusKept ==
  ASSUME NEW r \in Rows, NEW s \in Statuses, NEW b \in BOOLEAN, s # "NONE", Numbered(r)
  PROVE  LET n == [r EXCEPT !.status = s, !.deferred = b]
             q == [r EXCEPT !.status = s]
         IN  /\ Pristine(n) /\ Numbered(n) /\ Pristine(q) /\ Numbered(q)
             /\ n.status = s /\ n.count = r.count /\ n.latest = r.latest
             /\ n.name = r.name /\ n.details = r.details
             /\ q.status = s /\ q.count = r.count /\ q.latest = r.latest
             /\ q.name = r.name /\ q.details = r.details
  BY DEF Rows, Pristine, Numbered

LEMMA ClosedFields ==
  ASSUME NEW r \in Rows, NEW s \in {"COMPLETED", "ESCALATED"}
  PROVE  LET n == Closed(r, s)
         IN  /\ n.status = s /\ n.count = r.count /\ n.latest = r.latest /\ n.name = r.name
             /\ n.details = r.details /\ n.level = r.level /\ n.wait = r.wait
             /\ n.deferred = FALSE /\ n.status # "NONE" /\ ~IsOpen(n)
             /\ Numbered(r) => Numbered(n)
  <1>1. Closed(r, s) = [r EXCEPT !.status = s, !.deferred = FALSE]
    BY DEF Closed
  <1>2. QED BY <1>1 DEF Rows, Numbered, IsOpen, OpenStatuses

LEMMA DeferredFields ==
  ASSUME NEW r \in Rows, NEW b \in BOOLEAN
  PROVE  LET n == [r EXCEPT !.status = "WAITING", !.deferred = b]
         IN  /\ n.status = "WAITING" /\ n.count = r.count /\ n.latest = r.latest
             /\ n.name = r.name /\ n.details = r.details /\ n.level = r.level
             /\ n.wait = r.wait /\ n.deferred = b /\ n.status # "NONE" /\ IsOpen(n)
             /\ Numbered(r) => Numbered(n)
  BY DEF Rows, Numbered, IsOpen, OpenStatuses

\* complete() or the release of the doubt: the thread leaves, or it raises.
LEMMA LeavingEffect ==
  ASSUME TypeInv, NEW w \in Workers, NEW r, NEW b,
         Wrote(w, r, Leave(local[w], b)) \/ DbFault(w, r)
  PROVE  \/ row' = r /\ Left(w) /\ UNCHANGED budget
         \/ /\ row' \in {row, r} /\ Raised(w)
            /\ budget.db > 0 /\ budget' = [budget EXCEPT !.db = @ - 1]
  BY LeaveEffect, RaiseEffect DEF Wrote, DbFault

LEMMA ReadFields ==
  ASSUME NEW r \in Rows
  PROVE  LET n == Read(r)
         IN  /\ n.status = r.status /\ n.name = r.name /\ n.level = r.level
             /\ n.latest = r.latest /\ n.details = r.details /\ n.count = r.count
             /\ n.wait = r.wait /\ n.deferred = FALSE
  BY DEF Read, Rows

\* A thread that takes the row as its job.
LEMMA FreshFits ==
  ASSUME NEW r \in Rows, NEW job, NEW l, IsOpen(r), Numbered(r), l.pc \in {"acquire", "defer"},
         l.job = job, job.name = r.name, job.count = r.count, job.latest = r.latest,
         job.details = r.details
  PROVE  Fits(r, l)
  BY DEF Fits, StatusFits, InSync, FreePcs, DoubtPcs, SpentPcs, NewNamePcs, NewCountPcs, FreshPcs,
     CapturedPcs, Numbered

LEMMA ArriveControl ==
  ASSUME TypeInv, OneThread, ControlInv, NEW w \in Workers, Arrive(w)
  PROVE  ControlInv'
  <1> DEFINE l == local[w]
  <1>1. /\ l \in Locals /\ l.job \in Rows /\ row \in Rows /\ Fits(row, l)
        /\ Pristine(row) /\ Numbered(row)
    BY HeldTypes DEF ControlInv
  <1>2. CASE Notice(w)
    <2>1. PICK alert \in BOOLEAN : Become(w, [l EXCEPT !.pc = "enqueue", !.alert = alert])
      BY <1>2 DEF Notice
    <2> DEFINE m == [l EXCEPT !.pc = "enqueue", !.alert = alert]
    <2>2. m.pc = "enqueue" /\ m.job = l.job
      BY <1>1 DEF Locals
    <2>3. local'[w] = m
      BY <2>1, BecomeEffect
    <2> HIDE DEF m
    <2>4. Fits(row, m)
      BY <1>2, <2>2
      DEF Notice, Fits, StatusFits, InSync, FreePcs, DoubtPcs, SpentPcs, NewNamePcs,
          NewCountPcs, FreshPcs, CapturedPcs
    <2>5. QED BY <1>2, <2>3, <2>4, ControlMove DEF Notice
  <1>3. CASE Enqueue(w)
    <2>1. PICK lvl \in QueueLevels :
            LET r == IF row.status = "NONE"
                     THEN [row EXCEPT !.status = "PENDING", !.level = lvl] ELSE row
                job == [Read(r) EXCEPT !.level = 1, !.latest = "NONE", !.details = NoDetails,
                                       !.count = NoCounts, !.wait = FALSE]
            IN  Write(w, r, IF w \in Webhooks /\ IsOpen(r)
                            THEN [local[w] EXCEPT !.pc = "acquire", !.job = job] ELSE Idle)
      BY <1>3 DEF Enqueue
    <2> DEFINE r == [row EXCEPT !.status = "PENDING", !.level = lvl]
               job == [Read(r) EXCEPT !.level = 1, !.latest = "NONE", !.details = NoDetails,
                                      !.count = NoCounts, !.wait = FALSE]
               m == [l EXCEPT !.pc = "acquire", !.job = job]
               next == IF w \in Webhooks /\ IsOpen(r) THEN m ELSE Idle
    <2>2. row.status = "NONE"
      BY <1>1, <1>3 DEF Enqueue, Fits, StatusFits
    <2>3. Write(w, r, next)
      BY <2>1, <2>2
    <2>4. row.count = NoCounts /\ row.details = NoDetails /\ row.latest = "NONE"
      BY <1>1, <2>2 DEF Pristine
    <2>5. /\ r \in Rows /\ IsOpen(r) /\ Numbered(r) /\ Pristine(r) /\ r.status = "PENDING"
          /\ r.name = row.name /\ r.count = row.count /\ r.details = row.details
          /\ r.latest = row.latest
      BY <1>1, IncidentAssumption
      DEF Rows, Statuses, OpenStatuses, IsOpen, Numbered, Pristine, IncidentAssumption
    <2> HIDE DEF r
    <2>6. /\ job.name = r.name /\ job.count = NoCounts /\ job.latest = "NONE"
          /\ job.details = NoDetails
      BY <2>5 DEF Read, Rows
    <2> HIDE DEF job
    <2>7. m.pc = "acquire" /\ m.job = job
      BY <1>1 DEF Locals
    <2> HIDE DEF m
    <2>8. Fits(r, m)
      BY <2>4, <2>5, <2>6, <2>7, FreshFits
    <2>9. Fits(r, next)
      BY <2>8, IdleFits
    <2> HIDE DEF next
    <2>10. QED BY <2>3, <2>5, <2>9, WriteEffect, ControlWrite
  <1>4. ASSUME NEW m, m.pc = "acquire", m.job = Read(row), IsOpen(row)
        PROVE  Fits(row, m)
    BY <1>1, <1>4, ReadFields, FreshFits
  <1>5. CASE ListDue(w)
    <2> DEFINE m == [l EXCEPT !.pc = "acquire", !.job = Read(row)]
    <2>1. m.pc = "acquire" /\ m.job = Read(row)
      BY <1>1 DEF Locals
    <2>2. local'[w] = m
      BY <1>5, BecomeEffect DEF ListDue
    <2> HIDE DEF m
    <2>3. QED BY <1>4, <1>5, <2>1, <2>2, ControlMove DEF ListDue
  <1>6. CASE Alerted(w)
    <2>1. PICK alert \in BOOLEAN :
            Become(w, [l EXCEPT !.pc = "acquire", !.job = Read(row), !.alert = alert])
      BY <1>6 DEF Alerted
    <2> DEFINE m == [l EXCEPT !.pc = "acquire", !.job = Read(row), !.alert = alert]
    <2>2. m.pc = "acquire" /\ m.job = Read(row)
      BY <1>1 DEF Locals
    <2>3. local'[w] = m
      BY <2>1, BecomeEffect
    <2> HIDE DEF m
    <2>4. QED BY <1>4, <1>6, <2>2, <2>3, ControlMove DEF Alerted
  <1>7. CASE TryLock(w)
    <2>1. local'[w] = Idle \/ Went(w, "start")
      BY <1>7, BecomeEffect, GotoEffect DEF TryLock
    <2>2. Went(w, "start") => Fits(row, local'[w])
      BY <1>1, <1>7
      DEF TryLock, Went, Fits, StatusFits, InSync, FreePcs, DoubtPcs, SpentPcs, NewNamePcs,
          NewCountPcs, FreshPcs, CapturedPcs
    <2>3. QED BY <1>7, <2>1, <2>2, IdleFits, ControlMove DEF TryLock
  <1>8. CASE Start(w)
    <2> DEFINE r == [row EXCEPT !.status = "PROCESSING"]
               next == IF uncertain THEN [l EXCEPT !.pc = "quarantine"]
                       ELSE IF l.job.latest \in TerminalEvents THEN [l EXCEPT !.pc = "finish"]
                       ELSE IF l.job.wait THEN Leave(l, FailedCount(l.job) > 0)
                       ELSE [l EXCEPT !.pc = "check"]
    <2>1. /\ Pristine(r) /\ Numbered(r) /\ r.status = "PROCESSING" /\ r.count = row.count
          /\ r.latest = row.latest /\ r.name = row.name /\ r.details = row.details
      BY <1>1, StatusKept DEF Statuses, OpenStatuses
    <2>2. Write(w, r, next)
      BY <1>8 DEF Start
    <2>3. local'[w] = next =>
            \/ Went(w, "quarantine") \/ Went(w, "finish") \/ Went(w, "check") \/ Left(w)
      BY <1>1 DEF Leave, Left, Went, Locals
    <2> HIDE DEF r, next
    <2>4. Went(w, "quarantine") \/ Went(w, "finish") \/ Went(w, "check") => Fits(r, local'[w])
      BY <1>1, <1>8, <2>1
      DEF Start, Went, Fits, StatusFits, InSync, FreePcs, DoubtPcs, SpentPcs, NewNamePcs,
          NewCountPcs, FreshPcs, CapturedPcs, IsOpen, OpenStatuses
    <2>5. local'[w] = next => Fits(r, local'[w])
      BY <2>3, <2>4, LeftFits
    <2>6. IsOpen(r)
      BY <2>1 DEF IsOpen, OpenStatuses
    <2>7. QED BY <2>1, <2>2, <2>5, <2>6, WriteEffect, ControlWrite
  <1>9. CASE Finish(w)
    <2> DEFINE r == Closed(row, "ESCALATED")
    <2>1. r.status # "NONE" /\ Numbered(r) /\ r.status = "ESCALATED"
      BY <1>1, ClosedFields
    <2>2. Write(w, r, Idle)
      BY <1>9 DEF Finish
    <2> HIDE DEF r
    <2>3. QED BY <2>1, <2>2, IdleFits, WriteEffect, ControlWrite
  <1>10. QED
    BY <1>2, <1>3, <1>5, <1>6, <1>7, <1>8, <1>9 DEF Arrive

\* Where a decision leads.
LEMMA FirstStepPcs ==
  ASSUME NEW l, NEW action
  PROVE  FirstStep(l, action) \in
           {"refresh", "levelLimit", "restartTasks", "restartConnector", "configWith",
            "configRetry", "configWithout", "escalate"}
  BY DEF FirstStep

\* The job copied with one more event.
LEMMA WithEventFields ==
  ASSUME NEW l \in Locals, NEW e
  PROVE  LET m == WithEvent(l, e)
         IN  /\ m \in Locals /\ m.pc = l.pc /\ m.res = l.res /\ m.alert = l.alert
             /\ m.job \in Rows /\ m.job.status = l.job.status
             /\ m.job.name = l.job.name /\ m.job.latest = l.job.latest
             /\ m.job.details = l.job.details /\ m.job.level = l.job.level
             /\ m.job.wait = l.job.wait /\ m.job.count = Counted(l.job.count, e)
  <1> DEFINE c == Counted(l.job.count, e)
             job == [l.job EXCEPT !.count = c]
             m == [l EXCEPT !.job = job]
  <1>1. /\ job.count = c /\ job.status = l.job.status /\ job.name = l.job.name
        /\ job.latest = l.job.latest /\ job.details = l.job.details
        /\ job.level = l.job.level /\ job.wait = l.job.wait
    BY DEF Locals, Rows
  <1>2. m \in Locals
    BY WithEventType DEF WithEvent
  <1> HIDE DEF c, job
  <1>3. m.job = job /\ m.pc = l.pc /\ m.res = l.res /\ m.alert = l.alert
    BY DEF Locals
  <1>4. m.job \in Rows
    BY <1>2 DEF Locals
  <1> HIDE DEF m
  <1>5. m = WithEvent(l, e)
    BY DEF WithEvent, m, job, c
  <1>6. QED BY <1>1, <1>2, <1>3, <1>4, <1>5 DEF c

LEMMA DecidedFields ==
  ASSUME NEW l \in Locals
  PROVE  LET m == Decided(l)
         IN  /\ m.pc = FirstStep(l, DecideUnhealthy(l.job, l.res = "TASKS"))
             /\ m.job = l.job /\ m.res = l.res /\ m.alert = l.alert
  <1> DEFINE pc == FirstStep(l, DecideUnhealthy(l.job, l.res = "TASKS"))
  <1> HIDE DEF pc
  <1>1. /\ [l EXCEPT !.pc = pc].pc = pc /\ [l EXCEPT !.pc = pc].job = l.job
        /\ [l EXCEPT !.pc = pc].res = l.res /\ [l EXCEPT !.pc = pc].alert = l.alert
    BY DEF Locals
  <1>2. QED BY <1>1 DEF Decided, pc

\* What an observation, or the confirmation, leaves in the row.
LEMMA HealthLog ==
  ASSUME NEW r \in Rows, NEW e \in {"HEALTH_FAILURE_OBSERVED", "HEALTH_FAILED_CONFIRMED"},
         e = "HEALTH_FAILED_CONFIRMED" => ~FailureConfirmed(r)
  PROVE  LET n == Logged(r, e, NoDetails)
         IN  /\ n.latest = e /\ n.details = NoDetails /\ n.count = Counted(r.count, e)
             /\ n.status = r.status /\ n.name = r.name /\ n.level = r.level /\ ~n.wait
             /\ n \in Rows
  <1>1. e \in EventTypes /\ e \notin WaitEvents
    BY DEF EventTypes, WaitEvents, WaitAfterRestartEvents, WaitAfterRecreateEvents,
       WithOffsetRetryEvents
  <1>2. r.count["HEALTH_FAILED_CONFIRMED"] \in 0..CountCap
    BY EventsCounted DEF Rows
  <1>3. e = "HEALTH_FAILED_CONFIRMED" => r.count[e] = 0
    BY <1>2, Caps DEF FailureConfirmed
  <1> DEFINE n == Logged(r, e, NoDetails)
  <1>4. n \in Rows
    BY <1>1, NoRowType, LoggedType
  <1>5. /\ n.latest = e /\ n.details = NoDetails /\ n.count = Counted(r.count, e)
        /\ n.status = r.status /\ n.name = r.name /\ n.level = r.level
        /\ (n.wait <=> e \in WaitEvents)
    BY <1>1, <1>3, NoRowType, LoggedFields
  <1> HIDE DEF n
  <1>6. ~n.wait
    BY <1>1, <1>5
  <1>7. QED BY <1>4, <1>5, <1>6 DEF n

LEMMA LoggedPlain ==
  ASSUME NEW r, r.status # "NONE", r.details = NoDetails
  PROVE  Pristine(r) /\ Numbered(r)
  BY DEF Pristine, Numbered, NoDetails

LEMMA AssessControl ==
  ASSUME TypeInv, OneThread, ControlInv, NEW w \in Workers, Assess(w)
  PROVE  ControlInv'
  <1> DEFINE l == local[w]
  <1>1. /\ l \in Locals /\ l.job \in Rows /\ row \in Rows /\ Fits(row, l)
        /\ Pristine(row) /\ Numbered(row)
    BY HeldTypes DEF ControlInv
  <1>2. ASSUME l.pc = "check" PROVE IsOpen(row) /\ l.job.name = row.name /\ Numbered(l.job)
                   /\ l.job.count = row.count /\ l.job.latest = row.latest
                   /\ l.job.details = row.details
    BY <1>1, <1>2
    DEF Fits, StatusFits, InSync, FreePcs, DoubtPcs, SpentPcs, NewNamePcs, NewCountPcs, FreshPcs
  <1>3. ASSUME l.pc = "check", NEW m, m.job = l.job, m.pc \in
                 {"refresh", "levelLimit", "restartTasks", "restartConnector", "configWith",
                  "configRetry", "configWithout", "escalate", "closeRecovered", "supersede",
                  "finish", "observe"}
        PROVE  Fits(row, m)
    BY <1>2, <1>3
    DEF Fits, StatusFits, InSync, FreePcs, DoubtPcs, SpentPcs, NewNamePcs, NewCountPcs, FreshPcs,
        CapturedPcs
  <1>4. CASE CheckUnreachable(w)
    BY <1>4, LeaveEffect, LeftFits, ControlMove DEF CheckUnreachable
  <1>5. CASE CheckNotCreated(w)
    <2> DEFINE seen == [l EXCEPT !.res = "NOT_CREATED"]
               pc == FirstStep(l, DecideMissingReplacement(l.job))
               m == [seen EXCEPT !.pc = pc]
               b == FailedCount(l.job) > 0
    <2>1. \/ Become(w, m)
          \/ Become(w, Leave(seen, b))
      BY <1>5 DEF CheckNotCreated
    <2> HIDE DEF pc, b
    <2>2. /\ m.pc = pc /\ m.job = l.job
          /\ [seen EXCEPT !.pc = "refresh"].pc = "refresh"
          /\ [seen EXCEPT !.pc = "refresh"].job = l.job
      BY <1>1 DEF Locals
    <2> HIDE DEF m, seen
    <2>3. Fits(row, m) /\ Fits(row, [seen EXCEPT !.pc = "refresh"])
      BY <1>3, <1>5, <2>2, FirstStepPcs DEF CheckNotCreated, pc
    <2>4. Fits(row, Leave(seen, b))
      BY <2>3, IdleFits DEF Leave
    <2>5. QED BY <1>5, <2>1, <2>3, <2>4, BecomeEffect, ControlMove DEF CheckNotCreated
  <1>6. CASE CheckAdminStopped(w)
    BY <1>6, BecomeEffect, IdleFits, ControlMove DEF CheckAdminStopped
  <1>7. CASE CheckHealthy(w)
    <2> DEFINE pc == IF ActionCount(l.job) = 0 THEN "closeRecovered" ELSE "supersede"
               m == [l EXCEPT !.res = "HEALTHY", !.pc = pc]
    <2>1. \/ Become(w, Leave(l, FailedCount(l.job) > 0))
          \/ Become(w, m)
      BY <1>7 DEF CheckHealthy
    <2>2. pc \in {"closeRecovered", "supersede"}
      OBVIOUS
    <2> HIDE DEF pc
    <2>3. m.pc = pc /\ m.job = l.job
      BY <1>1 DEF Locals
    <2> HIDE DEF m
    <2>4. Fits(row, m)
      BY <1>3, <1>7, <2>2, <2>3 DEF CheckHealthy
    <2>5. QED BY <1>7, <2>1, <2>4, LeaveEffect, LeftFits, BecomeEffect, ControlMove
              DEF CheckHealthy
  <1>8. CASE CheckUnhealthy(w)
    <2> DEFINE res == CASE kc[l.job.name] = "TASK_FAILED" -> "TASKS"
                        [] kc[l.job.name] = "FAILED" -> "CONNECTOR"
                        [] OTHER -> "STOPPED"
               alert == l.alert /\ res # "STOPPED"
               stop == DecideUnhealthy(l.job, res = "TASKS") = "STOP"
               pc == IF stop THEN "finish" ELSE "observe"
               m == [l EXCEPT !.res = res, !.alert = alert, !.pc = pc]
    <2>1. Become(w, m)
      BY <1>8 DEF CheckUnhealthy
    <2>2. pc \in {"finish", "observe"}
      OBVIOUS
    <2> HIDE DEF res, alert, pc
    <2>3. m.pc = pc /\ m.job = l.job
      BY <1>1 DEF Locals
    <2> HIDE DEF m
    <2>4. Fits(row, m)
      BY <1>3, <1>8, <2>2, <2>3 DEF CheckUnhealthy
    <2>5. QED BY <1>8, <2>1, <2>4, BecomeEffect, ControlMove DEF CheckUnhealthy
  <1>9. ASSUME l.pc \in {"observe", "confirm"}
        PROVE  IsOpen(row) /\ l.job.name = row.name /\ Numbered(l.job) /\ l.job.count = row.count
    BY <1>1, <1>9
    DEF Fits, StatusFits, InSync, FreePcs, DoubtPcs, SpentPcs, NewNamePcs, NewCountPcs
  <1>10. ASSUME NEW r, NEW m, IsOpen(r), m.job.name = r.name, m.job.details = l.job.details,
                m.job.name = l.job.name, Numbered(l.job), m.job.count = r.count, m.pc \in
                  {"refresh", "levelLimit", "restartTasks", "restartConnector", "configWith",
                   "configRetry", "configWithout", "escalate"}
         PROVE  Fits(r, m)
    BY <1>10
    DEF Fits, StatusFits, InSync, FreePcs, DoubtPcs, SpentPcs, NewNamePcs, NewCountPcs, FreshPcs,
        CapturedPcs, Numbered
  <1>11. CASE Observe(w)
    <2> DEFINE seen == WithEvent(l, "HEALTH_FAILURE_OBSERVED")
               confirms == NeedsConfirmation(seen.job, seen.alert)
               next == IF confirms THEN [seen EXCEPT !.pc = "confirm"] ELSE Decided(seen)
               r == Logged(row, "HEALTH_FAILURE_OBSERVED", NoDetails)
    <2>1. Write(w, r, next) /\ l.pc = "observe"
      BY <1>11 DEF Observe
    <2>2. /\ r.details = NoDetails /\ r.count = Counted(row.count, "HEALTH_FAILURE_OBSERVED")
          /\ r.status = row.status /\ r.name = row.name
      BY <1>1, HealthLog
    <2>3. /\ seen \in Locals /\ seen.job.name = l.job.name /\ seen.job.details = l.job.details
          /\ seen.job.count = Counted(l.job.count, "HEALTH_FAILURE_OBSERVED")
      BY <1>1, WithEventFields
    <2>4. confirms => ~FailureConfirmed(seen.job)
      BY DEF NeedsConfirmation
    <2> HIDE DEF r, seen, confirms
    <2>5. [seen EXCEPT !.pc = "confirm"].pc = "confirm"
            /\ [seen EXCEPT !.pc = "confirm"].job = seen.job
      BY <2>3 DEF Locals
    <2>6. IsOpen(r) /\ r.status # "NONE" /\ Numbered(r)
      BY <1>9, <2>1, <2>2, LoggedPlain DEF IsOpen, OpenStatuses
    <2>7. Fits(r, Decided(seen))
      BY <1>9, <1>10, <2>1, <2>2, <2>3, <2>6, DecidedFields, FirstStepPcs
    <2>8. confirms => Fits(r, [seen EXCEPT !.pc = "confirm"])
      BY <1>9, <2>1, <2>2, <2>3, <2>4, <2>5, <2>6
      DEF Fits, StatusFits, InSync, FreePcs, DoubtPcs, SpentPcs, NewNamePcs, NewCountPcs,
          FreshPcs, CapturedPcs, Numbered
    <2>9. Fits(r, next)
      BY <2>7, <2>8
    <2> HIDE DEF next
    <2>10. QED BY <2>1, <2>6, <2>9, WriteEffect, ControlWrite
  <1>12. CASE Confirm(w)
    <2> DEFINE m == WithEvent(l, "HEALTH_FAILED_CONFIRMED")
               r == Logged(row, "HEALTH_FAILED_CONFIRMED", NoDetails)
    <2>1. Write(w, r, Decided(m)) /\ l.pc = "confirm"
      BY <1>12 DEF Confirm
    <2>2. ~FailureConfirmed(row)
      BY <1>1, <1>9, <2>1 DEF Fits, InSync, FailureConfirmed
    <2>3. /\ r.details = NoDetails /\ r.count = Counted(row.count, "HEALTH_FAILED_CONFIRMED")
          /\ r.status = row.status /\ r.name = row.name
      BY <1>1, <2>2, HealthLog
    <2>4. /\ m \in Locals /\ m.job.name = l.job.name /\ m.job.details = l.job.details
          /\ m.job.count = Counted(l.job.count, "HEALTH_FAILED_CONFIRMED")
      BY <1>1, WithEventFields
    <2> HIDE DEF r, m
    <2>5. IsOpen(r) /\ r.status # "NONE" /\ Numbered(r)
      BY <1>9, <2>1, <2>3, LoggedPlain DEF IsOpen, OpenStatuses
    <2>6. Fits(r, Decided(m))
      BY <1>9, <1>10, <2>1, <2>3, <2>4, <2>5, DecidedFields, FirstStepPcs
    <2>7. QED BY <2>1, <2>5, <2>6, WriteEffect, ControlWrite
  <1>13. QED
    BY <1>4, <1>5, <1>6, <1>7, <1>8, <1>11, <1>12 DEF Assess

\* The names an executor's event carries, by the step that logs it.
LEMMA AuditDetailsNew ==
  ASSUME NEW l, l.pc \in AuditPcs
  PROVE  LET d == AuditDetails(l)
         IN  /\ l.pc \in {"logTimeout", "logPatch", "logResume", "logWithFailed", "logWith",
                          "logWithout", "logWithoutFailed"} => d.new = Replacement(l.job)
             /\ l.pc \in {"logRetryStopFailed", "logRetryTimeout", "logRetryPatch",
                          "logRetryResume", "logRetried"} => d.new = l.job.name
             /\ l.pc \in {"logTaskRestart", "logConnectorRestart", "logCaptured",
                          "logNothingCaptured", "logNoOffsets", "logNoHistory", "levelLimit",
                          "escalate"} => d.new = NoName
  <1>1. CASE l.pc \in {"logTimeout", "logPatch", "logResume", "logWithFailed", "logWith",
                       "logWithout", "logWithoutFailed"}
    BY <1>1 DEF AuditDetails, RetryPcs, RestartPcs
  <1>2. CASE l.pc \in {"logRetryStopFailed", "logRetryTimeout", "logRetryPatch",
                       "logRetryResume", "logRetried"}
    BY <1>2 DEF AuditDetails, RetryPcs, RestartPcs
  <1>3. CASE l.pc \in {"logTaskRestart", "logConnectorRestart", "logCaptured",
                       "logNothingCaptured", "levelLimit", "escalate"}
    BY <1>3 DEF AuditDetails, RetryPcs, RestartPcs, NoDetails
  <1>4. CASE l.pc \in {"logNoOffsets", "logNoHistory"}
    <2> DEFINE recreated == [old |-> l.job.name, original |-> OriginalName(l.job),
                             new |-> Replacement(l.job)]
               a == [recreated EXCEPT !.old = NoName, !.new = NoName]
               b == [recreated EXCEPT !.new = NoName]
               c == [old |-> l.job.details.old, original |-> OriginalName(l.job),
                     new |-> l.job.name]
               quiet == RestartPcs \cup {"logCaptured", "logNothingCaptured", "levelLimit",
                                         "escalate"}
    <2>1. AuditDetails(l) =
            CASE l.pc = "logNoOffsets" -> a [] l.pc = "logNoHistory" -> b
              [] l.pc \in RetryPcs -> c [] l.pc \in quiet -> NoDetails
              [] OTHER -> recreated
      BY DEF AuditDetails
    <2>2. a.new = NoName /\ b.new = NoName
      OBVIOUS
    <2>3. l.pc \notin RetryPcs /\ l.pc \notin quiet
      BY <1>4 DEF RetryPcs, RestartPcs
    <2> HIDE DEF a, b, c, quiet, recreated
    <2>4. AuditDetails(l).new = NoName
      BY <1>4, <2>1, <2>2, <2>3
    <2>5. QED BY <1>4, <2>4
  <1>5. QED BY <1>1, <1>2, <1>3, <1>4 DEF AuditPcs

LEMMA UncountedEvents ==
  /\ "OFFSET_CAPTURED" \notin CountedEvents /\ "OFFSET_PATCH_FAILED" \notin CountedEvents
  /\ "CONNECTOR_RESUME_FAILED" \notin CountedEvents
  BY DEF CountedEvents, WaitAfterRestartEvents, WaitAfterRecreateEvents, WithOffsetRetryEvents,
     WithoutOffsetEvents, TerminalEvents

LEMMA RecordControl ==
  ASSUME TypeInv, OneThread, ControlInv, NEW w \in Workers, Record(w)
  PROVE  ControlInv'
  <1> DEFINE l == local[w]
  <1>1. /\ l \in Locals /\ l.job \in Rows /\ row \in Rows /\ Fits(row, l)
        /\ Pristine(row) /\ Numbered(row) /\ l \in NamedLocals
        /\ row.count \in [CountedEvents -> 0..CountCap]
    BY HeldTypes DEF ControlInv, Rows
  <1>2. Numbered(l.job) => Replacement(l.job) > l.job.name
    BY <1>1, ReplacementAbove
  <1>3. CASE Audit(w)
    <2>1. PICK e \in EventTypes, next \in Pcs :
            LET r == Logged(row, e, AuditDetails(l))
            IN  /\ AuditLine(l.pc, e, next) /\ l.pc \in AuditPcs
                /\ \/ row' = r /\ Went(w, next)
                   \/ row' \in {row, r} /\ Raised(w)
      BY <1>3, AuditEffect
    <2> DEFINE r == Logged(row, e, AuditDetails(l))
               d == AuditDetails(l)
    <2>2. /\ r.details = d /\ r.count = Counted(row.count, e)
          /\ r.status = row.status /\ r.name = row.name
      BY <1>1, <2>1, AuditLineEvents, AuditDetailsType, LoggedFields
    <2>3. e \notin CountedEvents => r.count = row.count
      BY <1>1, <2>2, CountedFields
    <2>4. IsOpen(row) /\ IsOpen(r) /\ r.status # "NONE"
      BY <1>1, <2>1, <2>2
      DEF Fits, StatusFits, FreePcs, DoubtPcs, AuditPcs, IsOpen, OpenStatuses, Pristine
    <2> HIDE DEF r
    <2>5. Numbered(r) /\ (next \in {"stopOld", "logNoHistory"} => r.details.new = NoName)
            /\ (next = "renameWith" \/ next = "renameWithout" =>
                  r.details.new = Replacement(l.job))
      <3>1. CASE l.pc \in {"logTimeout", "logPatch", "logResume", "logWithFailed"}
        <4>1. d.new = Replacement(l.job) /\ row.name <= Replacement(l.job)
          BY <1>1, <2>1, <3>1, AuditDetailsNew DEF Fits, InSync, NewNamePcs
        <4>2. QED BY <2>1, <2>2, <3>1, <4>1 DEF AuditLine, Numbered
      <3>2. CASE l.pc \in {"logWith", "logWithout", "logWithoutFailed"}
        <4>1. d.new = Replacement(l.job) /\ l.job.name = row.name /\ Numbered(l.job)
          BY <1>1, <2>1, <3>2, AuditDetailsNew
          DEF Fits, InSync, NewNamePcs, SpentPcs, FreePcs, DoubtPcs
        <4>2. QED
          BY <1>1, <1>2, <2>1, <2>2, <3>2, <4>1, ReplacementAbove, Caps
          DEF AuditLine, Numbered, Rows, Versions
      <3>3. CASE l.pc \in {"logRetryStopFailed", "logRetryTimeout", "logRetryPatch",
                           "logRetryResume", "logRetried"}
        <4>1. d.new = l.job.name /\ l.job.name = row.name
          BY <1>1, <2>1, <3>3, AuditDetailsNew
          DEF Fits, InSync, NewNamePcs, SpentPcs, FreePcs, DoubtPcs
        <4>2. QED
          BY <1>1, <2>1, <2>2, <3>3, <4>1, Caps DEF AuditLine, Numbered, Rows, Versions
      <3>4. CASE l.pc \in {"logTaskRestart", "logConnectorRestart", "logCaptured",
                           "logNothingCaptured", "logNoOffsets", "logNoHistory",
                           "levelLimit", "escalate"}
        <4>1. d.new = NoName
          BY <2>1, <3>4, AuditDetailsNew
        <4>2. QED BY <2>1, <2>2, <3>4, <4>1 DEF AuditLine, Numbered
      <3>5. QED BY <2>1, <3>1, <3>2, <3>3, <3>4 DEF AuditPcs
    <2>6. Went(w, next) => Fits(r, local'[w])
      <3>1. CASE next \in {"refresh", "escalate", "close"}
        BY <2>4, <3>1
        DEF Went, Fits, StatusFits, InSync, FreePcs, DoubtPcs, SpentPcs, NewNamePcs,
            NewCountPcs, FreshPcs, CapturedPcs
      <3>2. CASE next \in {"stopOld", "logNoHistory", "logNoOffsets"}
        <4>1. l.pc \in {"logCaptured", "logNothingCaptured"} /\ e = "OFFSET_CAPTURED"
          BY <2>1, <3>2 DEF AuditLine
        <4>2. /\ l.job.name = row.name /\ Numbered(l.job) /\ l.job.count = row.count
          BY <1>1, <4>1 DEF Fits, InSync, NewNamePcs, NewCountPcs, SpentPcs, FreePcs, DoubtPcs
        <4>3. QED
          BY <2>2, <2>3, <2>4, <2>5, <3>2, <4>1, <4>2, UncountedEvents
          DEF Went, Fits, StatusFits, InSync, FreePcs, DoubtPcs, SpentPcs, NewNamePcs,
              NewCountPcs, FreshPcs, CapturedPcs
      <3>3. CASE next = "logWithFailed"
        <4>1. l.pc \in {"logPatch", "logResume"} /\ e \notin CountedEvents
          BY <2>1, <3>3, UncountedEvents DEF AuditLine
        <4>2. row.name <= Replacement(l.job) /\ l.job.count = row.count
          BY <1>1, <4>1 DEF Fits, InSync, NewNamePcs, NewCountPcs, SpentPcs, FreePcs, DoubtPcs
        <4>3. QED
          BY <2>2, <2>3, <2>4, <3>3, <4>1, <4>2
          DEF Went, Fits, StatusFits, InSync, FreePcs, DoubtPcs, SpentPcs, NewNamePcs,
              NewCountPcs, FreshPcs, CapturedPcs
      <3>4. CASE next \in {"renameWith", "renameWithout"}
        <4>1. l.pc \in {"logWith", "logWithout"}
          BY <2>1, <3>4 DEF AuditLine
        <4>2. /\ l.job.name = row.name /\ Numbered(l.job)
          BY <1>1, <4>1 DEF Fits, InSync, NewNamePcs, NewCountPcs, SpentPcs, FreePcs, DoubtPcs
        <4>3. QED
          BY <2>2, <2>4, <2>5, <3>4, <4>2
          DEF Went, Fits, StatusFits, InSync, FreePcs, DoubtPcs, SpentPcs, NewNamePcs,
              NewCountPcs, FreshPcs, CapturedPcs
      <3>5. QED BY <2>1, <3>1, <3>2, <3>3, <3>4 DEF AuditLine
    <2>7. QED BY <2>1, <2>4, <2>5, <2>6, ControlWrite DEF r
  <1>4. CASE Rename(w)
    <2> DEFINE next == CASE l.pc = "renameTimeout" -> "logTimeout"
                         [] l.pc = "renamePatch" -> "logPatch"
                         [] l.pc = "renameResume" -> "logResume"
                         [] OTHER -> "dropOld"
               r == Renamed(row, l.job)
               m == [l EXCEPT !.pc = next]
    <2>1. /\ Write(w, r, m)
          /\ l.pc \in {"renameTimeout", "renamePatch", "renameResume", "renameWith",
                       "renameWithout"}
      BY <1>4 DEF Rename
    <2>2. \/ next = "logTimeout" /\ l.pc = "renameTimeout"
          \/ next = "logPatch" /\ l.pc = "renamePatch"
          \/ next = "logResume" /\ l.pc = "renameResume"
          \/ next = "dropOld" /\ l.pc \in {"renameWith", "renameWithout"}
      <3>1. l.pc \in {"renameTimeout", "renamePatch", "renameResume", "renameWith",
                     "renameWithout"}
        BY <2>1
      <3>2. QED BY <3>1
    <2> HIDE DEF next
    <2>3. m.pc = next /\ m.job = l.job
      BY <1>1 DEF Locals
    <2>4. /\ r.name = Replacement(l.job) /\ r.count = row.count /\ r.details = row.details
          /\ r.status = row.status
      BY <1>1 DEF Renamed, Rows
    <2> HIDE DEF r, m
    <2>5. /\ IsOpen(r) /\ r.status # "NONE"
      BY <1>1, <2>1, <2>4
      DEF Fits, StatusFits, FreePcs, DoubtPcs, IsOpen, OpenStatuses, Pristine
    <2>6. l.job.name = row.name /\ Numbered(l.job)
      BY <1>1, <2>1 DEF Fits, InSync, NewNamePcs, SpentPcs, FreePcs, DoubtPcs
    <2>7. Replacement(l.job) > l.job.name /\ Replacement(l.job) \in Nat /\ l.job.name \in Nat
      BY <1>1, <2>6, ReplacementAbove, Caps DEF Rows, Versions
    <2>8. row.details.new = NoName \/ row.details.new = Replacement(l.job)
      BY <1>1, <2>1 DEF Fits, InSync, CapturedPcs
    <2>9. Numbered(r)
      BY <2>4, <2>7, <2>8 DEF Numbered
    <2>10. l.pc \in {"renameTimeout", "renamePatch", "renameResume"} => l.job.count = row.count
      BY <1>1 DEF Fits, InSync, NewCountPcs, SpentPcs, FreePcs, DoubtPcs
    <2>11. Fits(r, m)
      BY <2>2, <2>3, <2>4, <2>5, <2>7, <2>10
      DEF Fits, StatusFits, InSync, FreePcs, DoubtPcs, SpentPcs, NewNamePcs, NewCountPcs,
          FreshPcs, CapturedPcs
    <2>12. QED BY <2>1, <2>5, <2>9, <2>11, WriteEffect, ControlWrite
  <1>5. CASE Close(w)
    <2> DEFINE r == Closed(row, "ESCALATED")
    <2>1. r.status # "NONE" /\ Numbered(r) /\ r.status = "ESCALATED"
      BY <1>1, ClosedFields
    <2>2. Write(w, r, [l EXCEPT !.pc = "refresh"])
      BY <1>5 DEF Close
    <2>3. local'[w] = [l EXCEPT !.pc = "refresh"] => Left(w)
      BY <1>1 DEF Left, Went, Locals
    <2> HIDE DEF r
    <2>4. QED BY <2>1, <2>2, <2>3, LeftFits, WriteEffect, ControlWrite
  <1>6. QED BY <1>3, <1>4, <1>5 DEF Record

\* The requests line by line: where each one may lead.
ActLine(pc, next) ==
  \/ pc = "restartTasks" /\ next = "logTaskRestart"
  \/ pc = "restartConnector" /\ next = "logConnectorRestart"
  \/ pc = "configWith" /\ next = "capture"
  \/ pc = "configRetry" /\ next = "retry"
  \/ pc = "configWithout" /\ next = "stopForFresh"
  \/ pc = "capture" /\ next \in {"logCaptured", "logNothingCaptured"}
  \/ pc = "stopOld" /\ next \in {"create", "logWithFailed"}
  \/ pc = "retryStop" /\ next \in {"retryPatch", "logRetryStopFailed"}
  \/ pc = "stopForFresh" /\ next \in {"createFresh", "logWithoutFailed"}
  \/ pc = "retry" /\ next \in {"retryCreate", "retryStop"}
  \/ pc = "create" /\ next \in {"patch", "renameTimeout", "logWithFailed"}
  \/ pc = "retryCreate" /\ next \in {"retryPatch", "logRetryTimeout"}
  \/ pc = "patch" /\ next \in {"resume", "renamePatch"}
  \/ pc = "retryPatch" /\ next \in {"retryResume", "logRetryPatch"}
  \/ pc = "resume" /\ next \in {"logWith", "renameResume"}
  \/ pc = "retryResume" /\ next \in {"logRetried", "logRetryResume"}
  \/ pc = "createFresh" /\ next \in {"logWithout", "logWithoutFailed"}
  \/ pc = "dropOld" /\ next = "refresh"

LEMMA ActLines ==
  ASSUME TypeInv, NEW w \in Workers, Act(w)
  PROVE  /\ row' = row
         /\ Raised(w) \/ \E next \in Pcs : Went(w, next) /\ ActLine(local[w].pc, next)
  <1> DEFINE l == local[w]
  <1>1. row' = row
    BY ActMoves
  <1>2. Raise(w) \/ \E next \in Pcs : Goto(w, next) /\ ActLine(l.pc, next)
    <2>1. CASE Restart(w)
      BY <2>1, ActPcs DEF Restart, Answered, ActLine
    <2>2. CASE LoadConfig(w)
      BY <2>2, ActPcs DEF LoadConfig, Answered, ActLine
    <2>3. CASE Capture(w)
      BY <2>3, ActPcs DEF Capture, Answered, ActLine
    <2>4. CASE StopConnector(w)
      BY <2>4, ActPcs DEF StopConnector, Answered, FailedTo, ActLine
    <2>5. CASE RetryProbe(w)
      BY <2>5, ActPcs DEF RetryProbe, Answered, FailedTo, ActLine
    <2>6. CASE CreateStopped(w)
      BY <2>6, ActPcs DEF CreateStopped, Answered, FailedTo, AfterCreate, ActLine
    <2>7. CASE PatchOffsets(w)
      BY <2>7, ActPcs DEF PatchOffsets, Answered, FailedTo, ActLine
    <2>8. CASE ResumeConnector(w)
      BY <2>8, ActPcs DEF ResumeConnector, Answered, FailedTo, ActLine
    <2>9. CASE CreateFresh(w)
      BY <2>9, ActPcs DEF CreateFresh, Answered, FailedTo, ActLine
    <2>10. CASE DropOld(w)
      BY <2>10, ActPcs DEF DropOld, ActLine
    <2>11. QED
      BY <2>1, <2>2, <2>3, <2>4, <2>5, <2>6, <2>7, <2>8, <2>9, <2>10 DEF Act
  <1>3. QED BY <1>1, <1>2, RaiseEffect, GotoEffect

LEMMA ActControl ==
  ASSUME TypeInv, OneThread, ControlInv, NEW w \in Workers, Act(w)
  PROVE  ControlInv'
  <1> DEFINE l == local[w]
  <1>1. /\ l.job \in Rows /\ Fits(row, l)
    BY HeldTypes DEF ControlInv
  <1>2. ASSUME NEW next \in Pcs, Went(w, next), ActLine(l.pc, next)
        PROVE  Fits(row, local'[w])
    <2>1. StatusFits(row, local'[w])
      BY <1>1, <1>2 DEF Fits, StatusFits, Went, ActLine, FreePcs, DoubtPcs
    <2>2. CASE l.pc = "dropOld"
      BY <1>1, <1>2, <2>1, <2>2
      DEF ActLine, Went, Fits, InSync, FreePcs, DoubtPcs, SpentPcs, NewNamePcs, NewCountPcs,
          FreshPcs, CapturedPcs
    <2>3. CASE l.pc # "dropOld"
      <3>1. l.job.name = row.name /\ Numbered(l.job) /\ l.job.count = row.count
        BY <1>1, <1>2, <2>3
        DEF ActLine, Fits, InSync, FreePcs, DoubtPcs, SpentPcs, NewNamePcs, NewCountPcs
      <3>2. row.name <= Replacement(l.job)
        BY <1>1, <3>1, ReplacementAbove, Caps DEF Rows, Versions
      <3>3. next \in CapturedPcs => row.details.new = NoName
        BY <1>1, <1>2 DEF ActLine, Fits, InSync, CapturedPcs
      <3>4. /\ next \notin FreshPcs /\ next # "confirm" /\ next # "dropOld"
            /\ next \notin {"renameWith", "renameWithout"}
        BY <1>2, <2>3 DEF ActLine, FreshPcs
      <3>5. QED BY <1>2, <2>1, <3>1, <3>2, <3>3, <3>4 DEF Fits, InSync, Went
    <2>4. QED BY <2>2, <2>3
  <1>3. row' = row /\ (Raised(w) \/ Fits(row, local'[w]))
    BY <1>2, ActLines
  <1>4. QED BY <1>3, ControlMove

LEMMA SettleControl ==
  ASSUME TypeInv, OneThread, ControlInv, NEW w \in Workers, Settle(w)
  PROVE  ControlInv'
  <1> DEFINE l == local[w]
  <1>1. /\ l \in Locals /\ l.job \in Rows /\ row \in Rows /\ Fits(row, l)
        /\ Pristine(row) /\ Numbered(row)
    BY HeldTypes DEF ControlInv
  <1>2. {"HEALING_RECOVERED", "HEALING_ESCALATED", "STATE_MACHINE_ERROR"} \subseteq EventTypes
    BY DEF EventTypes, TerminalEvents
  <1>3. ASSUME NEW e \in {"HEALING_RECOVERED", "HEALING_ESCALATED", "STATE_MACHINE_ERROR"},
               NEW d \in Details, d.new = NoName, row.status # "NONE"
        PROVE  /\ Numbered(Logged(row, e, d)) /\ Logged(row, e, d).status # "NONE"
               /\ Logged(row, e, d).status = row.status
    BY <1>1, <1>2, <1>3, LoggedFields DEF Numbered
  <1>4. NoDetails \in Details /\ NoDetails.new = NoName
    BY NoRowType DEF NoDetails
  <1>5. CASE DeleteSuperseded(w)
    <2>1. Went(w, "logRecovered")
      BY <1>5, GotoEffect DEF DeleteSuperseded
    <2>2. Fits(row, local'[w])
      BY <1>1, <1>5, <2>1
      DEF DeleteSuperseded, Went, Fits, StatusFits, InSync, FreePcs, DoubtPcs, SpentPcs,
          NewNamePcs, NewCountPcs, FreshPcs, CapturedPcs
    <2>3. QED BY <1>5, <2>2, ControlMove DEF DeleteSuperseded
  <1>6. CASE LogRecovered(w)
    <2> DEFINE d == [old |-> l.job.details.old, original |-> OriginalName(l.job),
                     new |-> NoName]
               r == Logged(row, "HEALING_RECOVERED", d)
               m == [l EXCEPT !.pc = "closeRecovered"]
    <2>1. Write(w, r, m) /\ l.pc = "logRecovered"
      BY <1>6 DEF LogRecovered
    <2>2. d \in Details /\ d.new = NoName
      <3>1. NoName \in Names /\ l.job.details \in Details /\ l.job.name \in Names
        BY <1>1 DEF Rows, Names
      <3>2. OriginalName(l.job) \in Names
        BY <3>1 DEF OriginalName, Details
      <3>3. QED BY <3>1, <3>2 DEF Details
    <2>3. IsOpen(row) /\ row.status # "NONE"
      BY <1>1, <2>1 DEF Fits, StatusFits, FreePcs, DoubtPcs, IsOpen, OpenStatuses
    <2> HIDE DEF d
    <2>4. r.status # "NONE" /\ Numbered(r) /\ IsOpen(r)
      BY <1>3, <2>2, <2>3 DEF IsOpen
    <2>5. m.pc = "closeRecovered"
      BY <1>1 DEF Locals
    <2> HIDE DEF r, m
    <2>6. Fits(r, m)
      BY <2>4, <2>5
      DEF Fits, StatusFits, InSync, FreePcs, DoubtPcs, SpentPcs, NewNamePcs, NewCountPcs,
          FreshPcs, CapturedPcs
    <2>7. QED BY <2>1, <2>4, <2>6, WriteEffect, ControlWrite
  <1>7. CASE CloseRecovered(w)
    <2> DEFINE r == Closed(row, "COMPLETED")
    <2>1. r.status # "NONE" /\ Numbered(r)
      BY <1>1, ClosedFields
    <2>2. (Left(w) /\ row' = r) \/ (row' \in {row, r} /\ Raised(w))
      BY <1>7, LeavingEffect DEF CloseRecovered
    <2>3. l.pc \notin DispatchPcs
      BY <1>7, PcKinds DEF CloseRecovered, RestartPcs, WithOffsetPcs, RetryPcs, WithoutOffsetPcs
    <2> HIDE DEF r
    <2>4. QED BY <2>1, <2>2, <2>3, LeftFits, ControlWrite
  <1>8. ASSUME l.pc \in DoubtPcs
        PROVE  (IsOpen(row) \/ row.status = "ESCALATED") /\ row.status # "NONE"
    BY <1>1, <1>8 DEF Fits, StatusFits, IsOpen, OpenStatuses
  <1>9. ASSUME l.pc \in DoubtPcs \cup {"error", "defer"} PROVE l.pc \notin DispatchPcs
    BY <1>9, PcKinds DEF DoubtPcs, RestartPcs, WithOffsetPcs, RetryPcs, WithoutOffsetPcs
  <1>10. CASE Quarantine(w)
    <2> DEFINE r == Logged(row, "HEALING_ESCALATED", NoDetails)
               m == [l EXCEPT !.pc = "quarantineClose"]
    <2>1. Write(w, r, m) /\ l.pc \in DoubtPcs
      BY <1>10 DEF Quarantine, DoubtPcs
    <2>2. r.status # "NONE" /\ Numbered(r) /\ r.status = row.status
      BY <1>3, <1>4, <1>8, <2>1
    <2>3. m.pc = "quarantineClose"
      BY <1>1 DEF Locals
    <2> HIDE DEF r, m
    <2>4. Fits(r, m)
      BY <1>8, <2>1, <2>2, <2>3
      DEF Fits, StatusFits, InSync, FreePcs, DoubtPcs, SpentPcs, NewNamePcs, NewCountPcs,
          FreshPcs, CapturedPcs, IsOpen
    <2>5. QED BY <1>9, <2>1, <2>2, <2>4, WriteEffect, ControlWrite
  <1>11. CASE QuarantineClose(w)
    <2> DEFINE r == Closed(row, "ESCALATED")
    <2>1. r.status # "NONE" /\ Numbered(r)
      BY <1>1, ClosedFields
    <2>2. (Left(w) /\ row' = r) \/ (row' \in {row, r} /\ Raised(w))
      BY <1>11, LeavingEffect DEF QuarantineClose
    <2>3. l.pc \notin DispatchPcs
      BY <1>9, <1>11 DEF QuarantineClose, DoubtPcs
    <2> HIDE DEF r
    <2>4. QED BY <2>1, <2>2, <2>3, LeftFits, ControlWrite
  <1>12. CASE LogError(w)
    <2> DEFINE r == Logged(row, "STATE_MACHINE_ERROR", NoDetails)
    <2>1. Write(w, r, Idle) /\ l.pc = "error"
      BY <1>12 DEF LogError
    <2>2. row.status # "NONE"
      BY <1>1, <2>1 DEF Fits, StatusFits
    <2>3. r.status # "NONE" /\ Numbered(r)
      BY <1>3, <1>4, <2>2
    <2> HIDE DEF r
    <2>4. QED BY <1>9, <2>1, <2>3, IdleFits, WriteEffect, ControlWrite
  <1>13. CASE Refresh(w)
    <2> DEFINE m == [l EXCEPT !.pc = "defer", !.job = Read(row)]
    <2>1. (Become(w, m) /\ IsOpen(row)) \/ Become(w, Idle)
      BY <1>13 DEF Refresh
    <2>2. m.pc = "defer" /\ m.job = Read(row)
      BY <1>1 DEF Locals
    <2> HIDE DEF m
    <2>3. IsOpen(row) => Fits(row, m)
      BY <1>1, <2>2, ReadFields, FreshFits
    <2>4. QED BY <1>13, <2>1, <2>3, IdleFits, BecomeEffect, ControlMove DEF Refresh
  <1>14. CASE Defer(w)
    <2> DEFINE b == l.job.wait
               r == [row EXCEPT !.status = "WAITING", !.deferred = b]
    <2>1. Write(w, r, Idle) /\ l.pc = "defer"
      BY <1>14 DEF Defer
    <2>2. b \in BOOLEAN
      BY <1>1 DEF Rows
    <2> HIDE DEF b
    <2>3. r.status # "NONE" /\ Numbered(r)
      BY <1>1, <2>2, DeferredFields
    <2> HIDE DEF r
    <2>4. QED BY <1>9, <2>1, <2>3, IdleFits, WriteEffect, ControlWrite
  <1>15. QED
    BY <1>5, <1>6, <1>7, <1>10, <1>11, <1>12, <1>13, <1>14 DEF Settle

\* Only the waits of a job pass by themselves.
LEMMA NoLongerWaitingFields ==
  ASSUME NEW l \in Locals
  PROVE  LET m == NoLongerWaiting(l)
         IN  /\ m.pc = l.pc /\ m.res = l.res /\ m.alert = l.alert
             /\ m.job.status = l.job.status /\ m.job.name = l.job.name
             /\ m.job.level = l.job.level /\ m.job.latest = l.job.latest
             /\ m.job.details = l.job.details /\ m.job.count = l.job.count
             /\ m.job.wait = FALSE
  <1> DEFINE job == [l.job EXCEPT !.wait = FALSE]
             m == [l EXCEPT !.job = job]
  <1>1. /\ job.status = l.job.status /\ job.name = l.job.name /\ job.level = l.job.level
        /\ job.latest = l.job.latest /\ job.details = l.job.details
        /\ job.count = l.job.count /\ job.wait = FALSE
    BY DEF Locals, Rows
  <1> HIDE DEF job
  <1>2. m.pc = l.pc /\ m.res = l.res /\ m.alert = l.alert /\ m.job = job
    BY DEF Locals
  <1> HIDE DEF m
  <1>3. NoLongerWaiting(l) = m
    BY DEF NoLongerWaiting, m, job
  <1>4. QED BY <1>1, <1>2, <1>3

LEMMA ElapseFields ==
  ASSUME TypeInv, Elapse
  PROVE  /\ row'.status = row.status /\ row'.name = row.name /\ row'.level = row.level
         /\ row'.latest = row.latest /\ row'.details = row.details /\ row'.count = row.count
         /\ row'.wait = FALSE /\ row'.deferred = FALSE
  BY DEF Elapse, TypeInv, Rows

LEMMA SameFits ==
  ASSUME NEW r, NEW n, NEW l, NEW m, Fits(r, l),
         n.status = r.status, n.name = r.name, n.details = r.details, n.count = r.count,
         n.latest = r.latest, m.pc = l.pc, m.job.name = l.job.name,
         m.job.details = l.job.details, m.job.count = l.job.count,
         m.job.latest = l.job.latest
  PROVE  Fits(n, m)
  BY DEF Fits, StatusFits, InSync, IsOpen, Numbered, Replacement, FailureConfirmed

LEMMA StillFits ==
  ASSUME NEW r, NEW n, NEW l \in Locals, Fits(r, l),
         n.status = r.status, n.name = r.name, n.details = r.details, n.count = r.count,
         n.latest = r.latest
  PROVE  Fits(n, NoLongerWaiting(l))
  <1> DEFINE m == NoLongerWaiting(l)
  <1>1. /\ m.pc = l.pc /\ m.job.name = l.job.name /\ m.job.details = l.job.details
        /\ m.job.count = l.job.count /\ m.job.latest = l.job.latest
    BY NoLongerWaitingFields
  <1> HIDE DEF m
  <1>2. Fits(n, m)
    BY <1>1, SameFits
  <1>3. QED BY <1>2 DEF m

LEMMA EnvironmentControl ==
  ASSUME TypeInv, ControlInv, Environment
  PROVE  ControlInv'
  <1>1. ASSUME NEW v \in Versions, ConnectorFails(v) \/ ConnectorRecovers(v) \/ OperatorStops(v)
        PROVE  ControlInv'
    BY <1>1 DEF ConnectorFails, ConnectorRecovers, OperatorStops, ControlInv
  <1>2. CASE Elapse
    <2>1. Pristine(row') /\ Numbered(row')
      BY <1>2, ElapseFields DEF ControlInv, Pristine, Numbered
    <2>2. ASSUME NEW u \in Workers PROVE Fits(row', local'[u])
      <3>1. local'[u] = NoLongerWaiting(local[u]) /\ Fits(row, local[u])
        BY <1>2 DEF Elapse, ControlInv
      <3>2. local[u] \in Locals
        BY HeldTypes
      <3>3. Fits(row', NoLongerWaiting(local[u]))
        BY <1>2, <3>1, <3>2, ElapseFields, StillFits
      <3>4. QED BY <3>1, <3>3
    <2>3. QED BY <2>1, <2>2 DEF ControlInv
  <1>3. ASSUME NEW w \in Workers, ElapseStale(w) PROVE ControlInv'
    <2>1. row' = row /\ local' = [local EXCEPT ![w] = NoLongerWaiting(local[w])]
      BY <1>3 DEF ElapseStale, Become
    <2>2. ASSUME NEW u \in Workers PROVE Fits(row', local'[u])
      <3>1. Fits(row, local[u]) /\ (local'[u] = local[u] \/ local'[u] = NoLongerWaiting(local[u]))
        BY <2>1 DEF ControlInv, TypeInv
      <3>2. local[u] \in Locals
        BY HeldTypes
      <3>3. Fits(row, NoLongerWaiting(local[u]))
        BY <3>1, <3>2, StillFits
      <3>4. QED BY <2>1, <3>1, <3>3
    <2>3. QED BY <2>1, <2>2 DEF ControlInv
  <1>4. CASE Stabilize
    BY <1>4 DEF Stabilize, ControlInv
  <1>5. CASE Crash
    BY <1>5, IdleFits DEF Crash, ControlInv
  <1>7. CASE FirstCreated
    BY <1>7 DEF FirstCreated, ControlInv
  <1>6. QED BY <1>1, <1>2, <1>3, <1>4, <1>5, <1>7 DEF Environment

LEMMA ControlInit == Init => ControlInv
  <1> SUFFICES ASSUME Init PROVE ControlInv
    OBVIOUS
  <1>1. Pristine(row) /\ Numbered(row)
    BY DEF Init, NoRow, NoDetails, Pristine, Numbered
  <1>2. QED BY <1>1, IdleFits DEF Init, ControlInv

LEMMA ControlStep ==
  ASSUME OneThread
  PROVE  TypeInv /\ ControlInv /\ [Next]_vars => ControlInv'
  <1> SUFFICES ASSUME TypeInv, ControlInv, [Next]_vars PROVE ControlInv'
    OBVIOUS
  <1>1. ASSUME NEW w \in Workers, Step(w) PROVE ControlInv'
    BY <1>1, ArriveControl, AssessControl, RecordControl, ActControl, SettleControl DEF Step
  <1>2. CASE UNCHANGED vars
    BY <1>2 DEF ControlInv, vars
  <1>3. QED BY <1>1, <1>2, EnvironmentControl DEF Next

LEMMA AlwaysControl ==
  ASSUME OneThread
  PROVE  Spec => []ControlInv
  BY ControlInit, ControlStep, AlwaysTyped, TypeInvInit, TypeInvStep, PTL DEF Spec

-----------------------------------------------------------------------------
(* A closed incident stays closed, and the current connector stays.        *)

\* A write of a row that was closed closes it again, with the same status.
LEMMA ClosedByControl ==
  ASSUME TypeInv, ControlInv, NEW w \in Workers, Step(w),
         row.status \in {"COMPLETED", "ESCALATED"}
  PROVE  row'.status = row.status
  <1> DEFINE l == local[w]
  <1>1. l.job \in Rows /\ row \in Rows /\ StatusFits(row, l)
    BY HeldTypes DEF ControlInv, Fits
  <1>2. ~IsOpen(row) /\ row.status # "NONE"
    BY DEF IsOpen, OpenStatuses
  <1>3. l.pc \in FreePcs \cup DoubtPcs /\ l.pc # "enqueue"
          /\ (l.pc \in DoubtPcs => row.status = "ESCALATED")
    BY <1>1, <1>2 DEF StatusFits
  <1>4. CASE Arrive(w)
    BY <1>2, <1>3, <1>4
    DEF Arrive, Notice, Enqueue, ListDue, Alerted, TryLock, Start, Finish, FreePcs, DoubtPcs
  <1>5. CASE Assess(w)
    BY <1>3, <1>5
    DEF Assess, CheckUnreachable, CheckNotCreated, CheckAdminStopped, CheckHealthy,
        CheckUnhealthy, Observe, Confirm, FreePcs, DoubtPcs
  <1>6. CASE Record(w)
    BY <1>3, <1>6 DEF Record, Audit, Rename, Close, FreePcs, DoubtPcs, AuditPcs
  <1>7. CASE Act(w)
    BY <1>7, ActMoves
  <1>8. CASE Settle(w)
    <2>1. ASSUME NEW e \in {"HEALING_ESCALATED", "STATE_MACHINE_ERROR"}
          PROVE  Logged(row, e, NoDetails).status = row.status
      BY <1>1, NoRowType, LoggedFields DEF EventTypes, TerminalEvents
    <2>2. CASE Quarantine(w)
      <3>1. row' \in {row, Logged(row, "HEALING_ESCALATED", NoDetails)}
        BY <2>2 DEF Quarantine, Write, Wrote, DbFault
      <3>2. QED BY <2>1, <3>1
    <2>3. CASE LogError(w)
      <3>1. row' \in {row, Logged(row, "STATE_MACHINE_ERROR", NoDetails)}
        BY <2>3 DEF LogError, Write, Wrote, DbFault
      <3>2. QED BY <2>1, <3>1
    <2>4. CASE QuarantineClose(w)
      <3>1. row' \in {row, Closed(row, "ESCALATED")} /\ l.pc \in DoubtPcs
        BY <2>4 DEF QuarantineClose, Wrote, DbFault, DoubtPcs
      <3>2. Closed(row, "ESCALATED").status = "ESCALATED"
        BY <1>1, ClosedFields
      <3>3. QED BY <1>3, <3>1, <3>2
    <2>5. CASE Refresh(w)
      BY <2>5 DEF Refresh
    <2>6. CASE DeleteSuperseded(w) \/ LogRecovered(w) \/ CloseRecovered(w) \/ Defer(w)
      BY <1>3, <2>6 DEF DeleteSuperseded, LogRecovered, CloseRecovered, Defer, FreePcs, DoubtPcs
    <2>7. QED BY <1>8, <2>2, <2>3, <2>4, <2>5, <2>6 DEF Settle
  <1>9. QED BY <1>4, <1>5, <1>6, <1>7, <1>8 DEF Step

LEMMA ClosedStep ==
  TypeInv /\ ControlInv /\ [Next]_vars =>
    (row.status \in {"COMPLETED", "ESCALATED"} => UNCHANGED row.status)
  <1> SUFFICES ASSUME TypeInv, ControlInv, [Next]_vars,
                      row.status \in {"COMPLETED", "ESCALATED"}
               PROVE  row'.status = row.status
    OBVIOUS
  <1>1. CASE Environment
    BY <1>1, ElapseFields
    DEF Environment, ConnectorFails, ConnectorRecovers, OperatorStops, FirstCreated, ElapseStale,
        Stabilize, Crash
  <1>2. CASE UNCHANGED vars
    BY <1>2 DEF vars
  <1>3. QED BY <1>1, <1>2, ClosedByControl DEF Next

\* complete() of the one thread that works on an incident is final, whatever
\* crashed, raised or was read before; not so with two threads, where the
\* other one's start_processing or wait_for_next_attempt may come later.
THEOREM ClosedIsFinal ==
  ASSUME OneThread
  PROVE  Spec => ClosedStaysClosed
  <1>1. Spec => [](TypeInv /\ ControlInv)
    BY AlwaysTyped, AlwaysControl, PTL
  <1>2. QED BY <1>1, ClosedStep, PTL DEF Spec, ClosedStaysClosed

LEMMA CurrentStep ==
  TypeInv /\ ControlInv /\ [Next]_vars =>
    (kc[row.name] # "ABSENT" => kc'[row.name] # "ABSENT")
  <1> SUFFICES ASSUME TypeInv, ControlInv, [Next]_vars, kc[row.name] # "ABSENT"
               PROVE  kc'[row.name] # "ABSENT"
    OBVIOUS
  <1>1. row.name \in Versions
    BY DEF TypeInv, Rows
  <1>2. ASSUME NEW w \in Workers, DropOld(w) PROVE kc'[row.name] # "ABSENT"
    <2> DEFINE job == local[w].job
               names == IF IsVersioned(job.name) THEN {job.name} \ Kept(job) ELSE {}
    <2>1. Deletes(names)
      BY <1>2 DEF DropOld
    <2>2. row.name # job.name
      BY <1>2 DEF DropOld, ControlInv, Fits, InSync
    <2>3. row.name \notin names
      BY <2>2
    <2> HIDE DEF names
    <2>4. QED BY <1>1, <2>1, <2>3, DeletesOnly
  <1>3. ASSUME NEW w \in Workers, DeleteSuperseded(w) PROVE kc'[row.name] # "ABSENT"
    <2> DEFINE job == local[w].job
               names == Superseded(job) \ Kept(job)
    <2>1. Deletes(names)
      BY <1>3 DEF DeleteSuperseded
    <2>2. row.name = job.name
      BY <1>3
      DEF DeleteSuperseded, ControlInv, Fits, InSync, SpentPcs, NewNamePcs, FreePcs, DoubtPcs
    <2>3. row.name \notin names
      BY <2>2 DEF Superseded
    <2> HIDE DEF names
    <2>4. QED BY <1>1, <2>1, <2>3, DeletesOnly
  <1>4. ASSUME NEW w \in Workers, Step(w) PROVE kc'[row.name] # "ABSENT"
    BY <1>1, <1>2, <1>3, <1>4, ClusterTouched, ActSpares DEF cluster
  <1>5. CASE UNCHANGED vars
    BY <1>5 DEF vars
  <1>6. QED BY <1>1, <1>4, <1>5, EnvironmentSpares DEF Next

\* Neither _delete_failed_versioned_connector nor
\* _delete_superseded_connector_if_needed deletes the connector that the queue
\* row names when they are called: what the one thread read is what the row says.
THEOREM CurrentConnectorKept ==
  ASSUME OneThread
  PROVE  Spec => CurrentNeverDeleted
  <1>1. Spec => [](TypeInv /\ ControlInv)
    BY AlwaysTyped, AlwaysControl, PTL
  <1>2. QED BY <1>1, CurrentStep, PTL DEF Spec, CurrentNeverDeleted

-----------------------------------------------------------------------------
(* What each step of the one thread leaves behind: the row, and the job.   *)

\* Only the status, the level and the due time differ.
SameLog(r, n) ==
  /\ n.count = r.count /\ n.latest = r.latest /\ n.details = r.details
  /\ n.name = r.name /\ n.wait = r.wait

\* The thread goes on with the job it holds; the check result may be new.
Carried(w, pc) == local'[w].pc = pc /\ local'[w].job = local[w].job

Quiet == UNCHANGED <<cluster, history>>

Arrived(w) ==
  LET l == local[w]
      m == local'[w]
  IN  \/ l.pc = "idle" /\ row' = row /\ row.status = "NONE" /\ Carried(w, "enqueue")
      \/ /\ l.pc = "idle" /\ row' = row /\ IsOpen(row) /\ (w \in Pollers => ~row.deferred)
         /\ m.pc = "acquire" /\ m.job = Read(row)
      \/ /\ l.pc = "enqueue" /\ row.status = "NONE" /\ row'.status = "PENDING"
         /\ \/ m = Idle
            \/ /\ m.pc = "acquire" /\ m.job.name = row.name /\ m.job.count = NoCounts
               /\ m.job.latest = "NONE" /\ m.job.details = NoDetails /\ m.job.wait = FALSE
      \/ l.pc = "acquire" /\ row' = row /\ (m = Idle \/ Went(w, "start"))
      \/ /\ l.pc = "start" /\ row'.status = "PROCESSING"
         /\ \/ uncertain /\ Went(w, "quarantine")
            \/ ~uncertain /\ l.job.latest \in TerminalEvents /\ Went(w, "finish")
            \/ ~uncertain /\ l.job.latest \notin TerminalEvents /\ l.job.wait /\ Left(w)
            \/ ~uncertain /\ l.job.latest \notin TerminalEvents /\ ~l.job.wait /\ Went(w, "check")
      \/ l.pc = "finish" /\ row'.status = "ESCALATED" /\ m = Idle

LEMMA ArriveEffect ==
  ASSUME TypeInv, ControlInv, NEW w \in Workers, Arrive(w)
  PROVE  /\ Quiet /\ UNCHANGED since /\ SameLog(row, row')
         /\ \/ Arrived(w) /\ UNCHANGED uncertain /\ UNCHANGED budget.db
            \/ /\ local[w].pc = "enqueue" /\ row'.status \in {"NONE", "PENDING"} /\ Raised(w)
               /\ row.status = "NONE"
               /\ budget.db > 0 /\ budget'.db = budget.db - 1
            \/ /\ local[w].pc = "start" /\ row'.status \in {row.status, "PROCESSING"} /\ Raised(w)
               /\ budget.db > 0 /\ budget'.db = budget.db - 1
            \/ /\ local[w].pc = "finish" /\ row'.status \in {row.status, "ESCALATED"} /\ Raised(w)
               /\ budget.db > 0 /\ budget'.db = budget.db - 1
  <1> DEFINE l == local[w]
  <1>1. /\ l \in Locals /\ l.job \in Rows /\ row \in Rows /\ Fits(row, l)
        /\ Pristine(row) /\ budget \in Budgets
    BY HeldTypes DEF ControlInv, TypeInv
  <1>2. SameLog(row, row)
    BY DEF SameLog
  <1>3. Quiet /\ UNCHANGED since
    BY DEF Arrive, Notice, Enqueue, ListDue, Alerted, TryLock, Start, Finish, Quiet
  <1>4. \A b : budget' = [budget EXCEPT !.alerts = b] => UNCHANGED budget.db
    BY <1>1 DEF Budgets
  <1>5. budget' = [budget EXCEPT !.db = @ - 1] => budget'.db = budget.db - 1
    BY <1>1 DEF Budgets
  <1>6. CASE Notice(w)
    <2>1. PICK alert \in BOOLEAN : Become(w, [l EXCEPT !.pc = "enqueue", !.alert = alert])
      BY <1>6 DEF Notice
    <2> DEFINE m == [l EXCEPT !.pc = "enqueue", !.alert = alert]
    <2>2. m.pc = "enqueue" /\ m.job = l.job
      BY <1>1 DEF Locals
    <2>3. local'[w] = m
      BY <2>1, BecomeEffect
    <2> HIDE DEF m
    <2>4. UNCHANGED budget.db
      BY <1>4, <1>6 DEF Notice, Taken
    <2>5. QED BY <1>2, <1>3, <1>6, <2>2, <2>3, <2>4 DEF Notice, Arrived, Carried
  <1>7. CASE Enqueue(w)
    <2>1. PICK lvl \in QueueLevels :
            LET r == IF row.status = "NONE"
                     THEN [row EXCEPT !.status = "PENDING", !.level = lvl] ELSE row
                job == [Read(r) EXCEPT !.level = 1, !.latest = "NONE", !.details = NoDetails,
                                       !.count = NoCounts, !.wait = FALSE]
            IN  Write(w, r, IF w \in Webhooks /\ IsOpen(r)
                            THEN [local[w] EXCEPT !.pc = "acquire", !.job = job] ELSE Idle)
      BY <1>7 DEF Enqueue
    <2> DEFINE r == [row EXCEPT !.status = "PENDING", !.level = lvl]
               job == [Read(r) EXCEPT !.level = 1, !.latest = "NONE", !.details = NoDetails,
                                      !.count = NoCounts, !.wait = FALSE]
               m == [l EXCEPT !.pc = "acquire", !.job = job]
               next == IF w \in Webhooks /\ IsOpen(r) THEN m ELSE Idle
    <2>2. row.status = "NONE" /\ l.pc = "enqueue"
      BY <1>1, <1>7 DEF Enqueue, Fits, StatusFits
    <2>3. Write(w, r, next)
      BY <2>1, <2>2
    <2>4. r \in Rows /\ r.status = "PENDING" /\ SameLog(row, r)
      BY <1>1, IncidentAssumption DEF Rows, Statuses, OpenStatuses, IncidentAssumption, SameLog
    <2> HIDE DEF r
    <2>5. /\ job.name = r.name /\ job.count = NoCounts /\ job.latest = "NONE"
          /\ job.details = NoDetails /\ job.wait = FALSE
      BY <2>4 DEF Read, Rows
    <2> HIDE DEF job
    <2>6. m.pc = "acquire" /\ m.job = job
      BY <1>1 DEF Locals
    <2> HIDE DEF m
    <2>7. \/ row' = r /\ local'[w] = next /\ UNCHANGED <<uncertain, budget>>
          \/ /\ row' \in {row, r} /\ Raised(w)
             /\ budget.db > 0 /\ budget' = [budget EXCEPT !.db = @ - 1]
      BY <2>3, WriteEffect
    <2>8. r.name = row.name /\ (next = m \/ next = Idle)
      BY <2>4 DEF SameLog
    <2> HIDE DEF next
    <2>9. row' = r /\ local'[w] = next => Arrived(w)
      BY <2>2, <2>4, <2>5, <2>6, <2>8 DEF Arrived
    <2>10. QED BY <1>2, <1>3, <1>5, <2>2, <2>4, <2>7, <2>9
  <1>8. CASE ListDue(w)
    <2> DEFINE m == [l EXCEPT !.pc = "acquire", !.job = Read(row)]
    <2>1. m.pc = "acquire" /\ m.job = Read(row)
      BY <1>1 DEF Locals
    <2>2. local'[w] = m
      BY <1>8, BecomeEffect DEF ListDue
    <2> HIDE DEF m
    <2>3. QED BY <1>2, <1>3, <1>8, <2>1, <2>2 DEF ListDue, Arrived
  <1>9. CASE Alerted(w)
    <2>1. PICK alert \in BOOLEAN :
            Become(w, [l EXCEPT !.pc = "acquire", !.job = Read(row), !.alert = alert])
      BY <1>9 DEF Alerted
    <2> DEFINE m == [l EXCEPT !.pc = "acquire", !.job = Read(row), !.alert = alert]
    <2>2. m.pc = "acquire" /\ m.job = Read(row)
      BY <1>1 DEF Locals
    <2>3. local'[w] = m
      BY <2>1, BecomeEffect
    <2> HIDE DEF m
    <2>4. UNCHANGED budget.db /\ w \notin Pollers
      BY <1>4, <1>9, IncidentAssumption DEF Alerted, Taken, IncidentAssumption
    <2>5. QED BY <1>2, <1>3, <1>9, <2>2, <2>3, <2>4 DEF Alerted, Arrived
  <1>10. CASE TryLock(w)
    <2>1. local'[w] = Idle \/ Went(w, "start")
      BY <1>10, BecomeEffect, GotoEffect DEF TryLock
    <2>2. QED BY <1>2, <1>3, <1>10, <2>1 DEF TryLock, Arrived
  <1>11. CASE Start(w)
    <2> DEFINE r == [row EXCEPT !.status = "PROCESSING"]
               next == IF uncertain THEN [l EXCEPT !.pc = "quarantine"]
                       ELSE IF l.job.latest \in TerminalEvents THEN [l EXCEPT !.pc = "finish"]
                       ELSE IF l.job.wait THEN Leave(l, FailedCount(l.job) > 0)
                       ELSE [l EXCEPT !.pc = "check"]
    <2>1. r.status = "PROCESSING" /\ SameLog(row, r)
      BY <1>1 DEF Rows, SameLog
    <2>2. Write(w, r, next) /\ l.pc = "start"
      BY <1>11 DEF Start
    <2>3. ASSUME local'[w] = next
          PROVE  \/ uncertain /\ Went(w, "quarantine")
                 \/ ~uncertain /\ l.job.latest \in TerminalEvents /\ Went(w, "finish")
                 \/ ~uncertain /\ l.job.latest \notin TerminalEvents /\ l.job.wait /\ Left(w)
                 \/ /\ ~uncertain /\ l.job.latest \notin TerminalEvents /\ ~l.job.wait
                    /\ Went(w, "check")
      BY <1>1, <2>3 DEF Leave, Left, Went, Locals
    <2> HIDE DEF r, next
    <2>4. \/ row' = r /\ local'[w] = next /\ UNCHANGED <<uncertain, budget>>
          \/ /\ row' \in {row, r} /\ Raised(w)
             /\ budget.db > 0 /\ budget' = [budget EXCEPT !.db = @ - 1]
      BY <2>2, WriteEffect
    <2>5. row' = r /\ local'[w] = next => Arrived(w)
      BY <2>1, <2>2, <2>3 DEF Arrived
    <2>6. QED BY <1>2, <1>3, <1>5, <2>1, <2>2, <2>4, <2>5
  <1>12. CASE Finish(w)
    <2> DEFINE r == Closed(row, "ESCALATED")
    <2>1. r.status = "ESCALATED" /\ SameLog(row, r)
      BY <1>1, ClosedFields DEF SameLog
    <2>2. Write(w, r, Idle) /\ l.pc = "finish"
      BY <1>12 DEF Finish
    <2> HIDE DEF r
    <2>3. \/ row' = r /\ local'[w] = Idle /\ UNCHANGED <<uncertain, budget>>
          \/ /\ row' \in {row, r} /\ Raised(w)
             /\ budget.db > 0 /\ budget' = [budget EXCEPT !.db = @ - 1]
      BY <2>2, WriteEffect
    <2>4. row' = r /\ local'[w] = Idle => Arrived(w)
      BY <2>1, <2>2 DEF Arrived
    <2>5. QED BY <1>2, <1>3, <1>5, <2>1, <2>2, <2>3, <2>4
  <1>13. QED
    BY <1>6, <1>7, <1>8, <1>9, <1>10, <1>11, <1>12 DEF Arrive

\* The check as far as it does not touch the log.
Checked(w) ==
  LET l == local[w]
      m == local'[w]
  IN  \/ m = Idle \/ Carried(w, "refresh")
      \/ /\ kc[l.job.name] = "ABSENT" /\ l.job.latest \in WithOffsetRetryEvents
         /\ Carried(w, FirstStep(l, DecideMissingReplacement(l.job))) /\ UNCHANGED since
      \/ /\ kc[l.job.name] = "RUNNING" /\ UNCHANGED since
         /\ Carried(w, IF ActionCount(l.job) = 0 THEN "closeRecovered" ELSE "supersede")
      \/ /\ \/ kc[l.job.name] \in Live /\ m.res # "STOPPED"
            \/ kc[l.job.name] = "STOPPED" /\ IsManagedStopped(l.job) /\ m.res = "STOPPED"
         /\ \/ DecideUnhealthy(l.job, m.res = "TASKS") = "STOP" /\ Carried(w, "finish")
            \/ DecideUnhealthy(l.job, m.res = "TASKS") # "STOP" /\ Carried(w, "observe")

\* The observation, or the confirmation, e is in the log and in the job.
HealthLogged(w, e) ==
  LET l == local[w]
      m == local'[w]
  IN  /\ m.job.name = l.job.name /\ m.job.latest = l.job.latest
      /\ m.job.details = l.job.details /\ m.job.level = l.job.level
      /\ m.job.status = l.job.status /\ m.job.wait = l.job.wait
      /\ m.job.count = Counted(l.job.count, e) /\ m.res = l.res

DecidedPc(m) == m.pc = FirstStep(m, DecideUnhealthy(m.job, m.res = "TASKS"))

LEMMA FirstStepSame ==
  ASSUME NEW l, NEW m, NEW action, m.job.level = l.job.level
  PROVE  FirstStep(l, action) = FirstStep(m, action)
  BY DEF FirstStep

LEMMA CheckEffect ==
  ASSUME TypeInv, NEW w \in Workers, Assess(w), ~Observe(w), ~Confirm(w)
  PROVE  /\ local[w].pc = "check" /\ row' = row /\ Checked(w)
         /\ UNCHANGED uncertain /\ Quiet /\ UNCHANGED budget.db
  <1> DEFINE l == local[w]
  <1>1. l \in Locals /\ l.job \in Rows /\ budget \in Budgets
    BY HeldTypes DEF TypeInv
  <1>2. /\ local[w].pc = "check" /\ row' = row /\ UNCHANGED uncertain /\ Quiet
    BY DEF Assess, CheckUnreachable, CheckNotCreated, CheckAdminStopped, CheckHealthy,
       CheckUnhealthy, Quiet
  <1>3. UNCHANGED budget.db
    BY <1>1
    DEF Assess, CheckUnreachable, CheckNotCreated, CheckAdminStopped, CheckHealthy,
        CheckUnhealthy, ConnectFault, Budgets
  <1>4. CASE CheckUnreachable(w)
    <2> DEFINE b == FailedCount(l.job) > 0
    <2>1. Become(w, Leave(l, b))
      BY <1>4 DEF CheckUnreachable
    <2> HIDE DEF b
    <2>2. Left(w)
      BY <2>1, LeaveEffect
    <2>3. Checked(w)
      BY <2>2 DEF Left, Went, Checked, Carried
    <2>4. QED BY <1>2, <1>3, <2>3
  <1>5. CASE CheckNotCreated(w)
    <2> DEFINE seen == [l EXCEPT !.res = "NOT_CREATED"]
               pc == FirstStep(l, DecideMissingReplacement(l.job))
               m == [seen EXCEPT !.pc = pc]
               b == FailedCount(l.job) > 0
    <2>1. /\ kc[l.job.name] = "ABSENT"
          /\ \/ Become(w, m) /\ l.job.latest \in WithOffsetRetryEvents /\ UNCHANGED since
             \/ Become(w, Leave(seen, b))
      BY <1>5 DEF CheckNotCreated
    <2> HIDE DEF pc, b
    <2>2. /\ m.pc = pc /\ m.job = l.job
          /\ [seen EXCEPT !.pc = "refresh"].pc = "refresh"
          /\ [seen EXCEPT !.pc = "refresh"].job = l.job
      BY <1>1 DEF Locals
    <2> HIDE DEF m, seen
    <2>3. \/ local'[w] = m /\ l.job.latest \in WithOffsetRetryEvents /\ UNCHANGED since
          \/ local'[w] = Idle
          \/ local'[w] = [seen EXCEPT !.pc = "refresh"]
      BY <2>1, BecomeEffect DEF Leave
    <2>4. Checked(w)
      BY <2>1, <2>2, <2>3 DEF Checked, Carried, pc
    <2>5. QED BY <1>2, <1>3, <2>4
  <1>6. CASE CheckAdminStopped(w)
    BY <1>2, <1>3, <1>6, BecomeEffect DEF CheckAdminStopped, Checked
  <1>7. CASE CheckHealthy(w)
    <2> DEFINE pc == IF ActionCount(l.job) = 0 THEN "closeRecovered" ELSE "supersede"
               m == [l EXCEPT !.res = "HEALTHY", !.pc = pc]
               b == FailedCount(l.job) > 0
    <2>1. /\ kc[l.job.name] = "RUNNING"
          /\ \/ Become(w, Leave(l, b))
             \/ Become(w, m) /\ UNCHANGED since
      BY <1>7 DEF CheckHealthy
    <2> HIDE DEF pc, b
    <2>2. m.pc = pc /\ m.job = l.job
      BY <1>1 DEF Locals
    <2> HIDE DEF m
    <2>3. Left(w) \/ (local'[w] = m /\ UNCHANGED since)
      BY <2>1, LeaveEffect, BecomeEffect
    <2>4. Checked(w)
      BY <2>1, <2>2, <2>3 DEF Checked, Carried, Left, Went, pc
    <2>5. QED BY <1>2, <1>3, <2>4
  <1>8. CASE CheckUnhealthy(w)
    <2> DEFINE res == CASE kc[l.job.name] = "TASK_FAILED" -> "TASKS"
                        [] kc[l.job.name] = "FAILED" -> "CONNECTOR"
                        [] OTHER -> "STOPPED"
               alert == l.alert /\ res # "STOPPED"
               stop == DecideUnhealthy(l.job, res = "TASKS") = "STOP"
               pc == IF stop THEN "finish" ELSE "observe"
               m == [l EXCEPT !.res = res, !.alert = alert, !.pc = pc]
    <2>1. /\ Become(w, m)
          /\ \/ kc[l.job.name] \in {"TASK_FAILED", "FAILED"}
             \/ kc[l.job.name] = "STOPPED" /\ IsManagedStopped(l.job)
      BY <1>8 DEF CheckUnhealthy
    <2>2. \/ stop /\ pc = "finish"
          \/ ~stop /\ pc = "observe"
      OBVIOUS
    <2>3. \/ kc[l.job.name] \in Live /\ res # "STOPPED"
          \/ kc[l.job.name] = "STOPPED" /\ IsManagedStopped(l.job) /\ res = "STOPPED"
      BY <2>1 DEF Live
    <2> HIDE DEF res, alert, pc
    <2>4. m.pc = pc /\ m.job = l.job /\ m.res = res
      BY <1>1 DEF Locals
    <2> HIDE DEF m
    <2>5. local'[w] = m
      BY <2>1, BecomeEffect
    <2>6. Checked(w)
      BY <2>2, <2>3, <2>4, <2>5 DEF Checked, Carried
    <2>7. QED BY <1>2, <1>3, <2>6
  <1>9. QED
    BY <1>2, <1>3, <1>4, <1>5, <1>6, <1>7, <1>8 DEF Assess

\* The row after an observation, or the confirmation, e.
HealthRow(e) == Logged(row, e, NoDetails)

LEMMA ObserveEffect ==
  ASSUME TypeInv, NEW w \in Workers, Observe(w)
  PROVE  LET e == "HEALTH_FAILURE_OBSERVED"
             m == local'[w]
         IN  /\ Quiet /\ local[w].pc = "observe"
             /\ \/ /\ row' = HealthRow(e) /\ HealthLogged(w, e) /\ UNCHANGED <<uncertain, budget>>
                   /\ \/ m.pc = "confirm" /\ ~FailureConfirmed(m.job)
                      \/ ~NeedsConfirmation(m.job, m.alert) /\ DecidedPc(m)
                \/ /\ row' \in {row, HealthRow(e)} /\ Raised(w)
                   /\ budget.db > 0 /\ budget' = [budget EXCEPT !.db = @ - 1]
  <1> DEFINE l == local[w]
             e == "HEALTH_FAILURE_OBSERVED"
             seen == WithEvent(l, e)
             confirms == NeedsConfirmation(seen.job, seen.alert)
             d == [seen EXCEPT !.pc = "confirm"]
             next == IF confirms THEN d ELSE Decided(seen)
  <1>1. /\ Quiet /\ l.pc = "observe" /\ Write(w, HealthRow(e), next)
    BY DEF Observe, HealthRow, Quiet
  <1>2. l \in Locals
    BY HeldTypes
  <1>3. /\ seen \in Locals /\ seen.res = l.res
        /\ seen.job.name = l.job.name /\ seen.job.latest = l.job.latest
        /\ seen.job.details = l.job.details /\ seen.job.level = l.job.level
        /\ seen.job.status = l.job.status /\ seen.job.wait = l.job.wait
        /\ seen.job.count = Counted(l.job.count, e)
    BY <1>2, WithEventFields
  <1> HIDE DEF seen
  <1>4. d.pc = "confirm" /\ d.job = seen.job /\ d.res = seen.res /\ d.alert = seen.alert
    BY <1>3 DEF Locals
  <1>5. /\ Decided(seen).pc = FirstStep(seen, DecideUnhealthy(seen.job, seen.res = "TASKS"))
        /\ Decided(seen).job = seen.job /\ Decided(seen).res = seen.res
        /\ Decided(seen).alert = seen.alert
    BY <1>3, DecidedFields
  <1>6. DecidedPc(Decided(seen))
    BY <1>5, FirstStepSame DEF DecidedPc
  <1> HIDE DEF d
  <1>7. /\ next.job = seen.job /\ next.res = seen.res
        /\ \/ next.pc = "confirm" /\ ~FailureConfirmed(next.job)
           \/ ~NeedsConfirmation(next.job, next.alert) /\ DecidedPc(next)
    BY <1>4, <1>5, <1>6 DEF NeedsConfirmation
  <1> HIDE DEF next
  <1>8. local'[w] = next => HealthLogged(w, e)
    BY <1>3, <1>7 DEF HealthLogged
  <1>9. \/ row' = HealthRow(e) /\ local'[w] = next /\ UNCHANGED <<uncertain, budget>>
        \/ /\ row' \in {row, HealthRow(e)} /\ Raised(w)
           /\ budget.db > 0 /\ budget' = [budget EXCEPT !.db = @ - 1]
    BY <1>1, WriteEffect
  <1>10. QED BY <1>1, <1>7, <1>8, <1>9

LEMMA ConfirmEffect ==
  ASSUME TypeInv, NEW w \in Workers, Confirm(w)
  PROVE  LET e == "HEALTH_FAILED_CONFIRMED"
             m == local'[w]
         IN  /\ Quiet /\ local[w].pc = "confirm"
             /\ \/ /\ row' = HealthRow(e) /\ HealthLogged(w, e) /\ UNCHANGED <<uncertain, budget>>
                   /\ DecidedPc(m)
                \/ /\ row' \in {row, HealthRow(e)} /\ Raised(w)
                   /\ budget.db > 0 /\ budget' = [budget EXCEPT !.db = @ - 1]
  <1> DEFINE l == local[w]
             e == "HEALTH_FAILED_CONFIRMED"
             seen == WithEvent(l, e)
             next == Decided(seen)
  <1>1. /\ Quiet /\ l.pc = "confirm" /\ Write(w, HealthRow(e), next)
    BY DEF Confirm, HealthRow, Quiet
  <1>2. l \in Locals
    BY HeldTypes
  <1>3. /\ seen \in Locals /\ seen.res = l.res
        /\ seen.job.name = l.job.name /\ seen.job.latest = l.job.latest
        /\ seen.job.details = l.job.details /\ seen.job.level = l.job.level
        /\ seen.job.status = l.job.status /\ seen.job.wait = l.job.wait
        /\ seen.job.count = Counted(l.job.count, e)
    BY <1>2, WithEventFields
  <1> HIDE DEF seen
  <1>4. /\ next.pc = FirstStep(seen, DecideUnhealthy(seen.job, seen.res = "TASKS"))
        /\ next.job = seen.job /\ next.res = seen.res
    BY <1>3, DecidedFields
  <1> HIDE DEF next
  <1>5. DecidedPc(next)
    BY <1>4, FirstStepSame DEF DecidedPc
  <1>6. local'[w] = next => HealthLogged(w, e)
    BY <1>3, <1>4 DEF HealthLogged
  <1>7. \/ row' = HealthRow(e) /\ local'[w] = next /\ UNCHANGED <<uncertain, budget>>
        \/ /\ row' \in {row, HealthRow(e)} /\ Raised(w)
           /\ budget.db > 0 /\ budget' = [budget EXCEPT !.db = @ - 1]
    BY <1>1, WriteEffect
  <1>8. QED BY <1>1, <1>5, <1>6, <1>7

\* The row with one more event that closes nothing and renames nothing.
EventRow(r, n, e) ==
  /\ n.count = Counted(r.count, e) /\ n.latest = e
  /\ n.name = r.name /\ n.status = r.status /\ n.level = r.level /\ n.deferred = r.deferred
  /\ n.wait <=> e \in WaitEvents

\* What the last steps of an attempt write, and where they lead.
SettleWrite(l, n) ==
  \/ l.pc = "logRecovered" /\ EventRow(row, n, "HEALING_RECOVERED")
  \/ l.pc = "closeRecovered" /\ SameLog(row, n) /\ n.status = "COMPLETED"
  \/ l.pc = "quarantine" /\ EventRow(row, n, "HEALING_ESCALATED")
  \/ l.pc = "quarantineClose" /\ SameLog(row, n) /\ n.status = "ESCALATED"
  \/ l.pc = "error" /\ EventRow(row, n, "STATE_MACHINE_ERROR")
  \/ /\ l.pc = "defer" /\ SameLog(row, n) /\ n.status = "WAITING"
     /\ n.deferred = l.job.wait
SettleMove(w) ==
  LET l == local[w] IN
  \/ l.pc = "logRecovered" /\ Went(w, "closeRecovered") /\ UNCHANGED uncertain
  \/ l.pc = "closeRecovered" /\ Left(w) /\ UNCHANGED uncertain
  \/ l.pc = "quarantine" /\ Went(w, "quarantineClose") /\ UNCHANGED uncertain
  \/ l.pc = "quarantineClose" /\ Left(w) /\ uncertain' = FALSE
  \/ l.pc \in {"error", "defer"} /\ local'[w] = Idle /\ UNCHANGED uncertain
Reread(w) ==
  /\ local[w].pc = "refresh" /\ row' = row /\ UNCHANGED uncertain
  /\ \/ ~IsOpen(row) /\ local'[w] = Idle
     \/ IsOpen(row) /\ local'[w].pc = "defer" /\ local'[w].job = Read(row)
DbFailed == budget.db > 0 /\ budget'.db = budget.db - 1

LEMMA DbFailedFields ==
  ASSUME TypeInv, budget.db > 0, budget' = [budget EXCEPT !.db = @ - 1]
  PROVE  DbFailed
  BY DEF TypeInv, Budgets, DbFailed

LEMMA LoggedEvent ==
  ASSUME NEW r \in Rows, NEW e \in EventTypes, NEW d \in Details,
         e = "HEALTH_FAILED_CONFIRMED" => r.count[e] = 0
  PROVE  EventRow(r, Logged(r, e, d), e)
  BY LoggedFields DEF EventRow

LEMMA SettleEffect ==
  ASSUME TypeInv, NEW w \in Workers, Settle(w), ~DeleteSuperseded(w)
  PROVE  /\ Quiet
         /\ \/ SettleWrite(local[w], row') /\ SettleMove(w) /\ UNCHANGED budget
            \/ (row' = row \/ SettleWrite(local[w], row')) /\ Raised(w) /\ DbFailed
               /\ local[w].pc \in {"logRecovered", "closeRecovered", "quarantine",
                                   "quarantineClose", "error", "defer"}
            \/ Reread(w) /\ UNCHANGED budget
  <1> DEFINE l == local[w]
  <1>1. l \in Locals /\ l.job \in Rows /\ row \in Rows
    BY HeldTypes
  <1>2. Quiet
    BY DEF Settle, LogRecovered, CloseRecovered, Quarantine, QuarantineClose, LogError, Refresh,
       Defer, Quiet
  <1>3. {"HEALING_RECOVERED", "HEALING_ESCALATED", "STATE_MACHINE_ERROR"} \subseteq EventTypes
    BY DEF EventTypes, TerminalEvents
  <1>4. NoDetails \in Details
    BY NoRowType
  <1>5. CASE LogRecovered(w)
    <2> DEFINE d == [old |-> l.job.details.old, original |-> OriginalName(l.job),
                     new |-> NoName]
               r == Logged(row, "HEALING_RECOVERED", d)
               m == [l EXCEPT !.pc = "closeRecovered"]
    <2>1. Write(w, r, m) /\ l.pc = "logRecovered"
      BY <1>5 DEF LogRecovered
    <2>2. d \in Details
      <3>1. NoName \in Names /\ l.job.details \in Details /\ l.job.name \in Names
        BY <1>1 DEF Rows, Names
      <3>2. OriginalName(l.job) \in Names
        BY <3>1 DEF OriginalName, Details
      <3>3. QED BY <3>1, <3>2 DEF Details
    <2> HIDE DEF d
    <2>3. EventRow(row, r, "HEALING_RECOVERED")
      BY <1>1, <1>3, <2>2, LoggedEvent
    <2>4. local'[w] = m => Went(w, "closeRecovered")
      BY <1>1 DEF Went, Locals
    <2> HIDE DEF r, m
    <2>5. \/ row' = r /\ local'[w] = m /\ UNCHANGED <<uncertain, budget>>
          \/ row' \in {row, r} /\ Raised(w) /\ DbFailed
      BY <2>1, WriteEffect, DbFailedFields
    <2>6. SettleWrite(l, r) /\ (local'[w] = m /\ UNCHANGED uncertain => SettleMove(w))
      BY <2>1, <2>3, <2>4 DEF SettleWrite, SettleMove
    <2>7. QED BY <1>2, <2>1, <2>5, <2>6
  <1>6. CASE CloseRecovered(w)
    <2> DEFINE r == Closed(row, "COMPLETED")
               b == FailedCount(l.job) > 0
    <2>1. r.status = "COMPLETED" /\ SameLog(row, r)
      BY <1>1, ClosedFields DEF SameLog
    <2>2. /\ l.pc = "closeRecovered"
          /\ \/ Wrote(w, r, Leave(l, b)) /\ UNCHANGED uncertain
             \/ DbFault(w, r)
      BY <1>6 DEF CloseRecovered
    <2> HIDE DEF r, b
    <2>3. \/ row' = r /\ Left(w) /\ UNCHANGED <<uncertain, budget>>
          \/ row' \in {row, r} /\ Raised(w) /\ DbFailed
      BY <2>2, LeaveEffect, RaiseEffect, DbFailedFields DEF Wrote, DbFault
    <2>4. SettleWrite(l, r) /\ (Left(w) /\ UNCHANGED uncertain => SettleMove(w))
      BY <2>1, <2>2 DEF SettleWrite, SettleMove
    <2>5. QED BY <1>2, <2>2, <2>3, <2>4
  <1>7. CASE Quarantine(w)
    <2> DEFINE r == Logged(row, "HEALING_ESCALATED", NoDetails)
               m == [l EXCEPT !.pc = "quarantineClose"]
    <2>1. Write(w, r, m) /\ l.pc = "quarantine"
      BY <1>7 DEF Quarantine
    <2>2. EventRow(row, r, "HEALING_ESCALATED")
      BY <1>1, <1>3, <1>4, LoggedEvent
    <2>3. local'[w] = m => Went(w, "quarantineClose")
      BY <1>1 DEF Went, Locals
    <2> HIDE DEF r, m
    <2>4. \/ row' = r /\ local'[w] = m /\ UNCHANGED <<uncertain, budget>>
          \/ row' \in {row, r} /\ Raised(w) /\ DbFailed
      BY <2>1, WriteEffect, DbFailedFields
    <2>5. SettleWrite(l, r) /\ (local'[w] = m /\ UNCHANGED uncertain => SettleMove(w))
      BY <2>1, <2>2, <2>3 DEF SettleWrite, SettleMove
    <2>6. QED BY <1>2, <2>1, <2>4, <2>5
  <1>8. CASE QuarantineClose(w)
    <2> DEFINE r == Closed(row, "ESCALATED")
               b == l.res # "NONE"
    <2>1. r.status = "ESCALATED" /\ SameLog(row, r)
      BY <1>1, ClosedFields DEF SameLog
    <2>2. /\ l.pc = "quarantineClose"
          /\ \/ Wrote(w, r, Leave(l, b)) /\ uncertain' = FALSE
             \/ DbFault(w, r)
      BY <1>8 DEF QuarantineClose
    <2> HIDE DEF r, b
    <2>3. \/ row' = r /\ Left(w) /\ uncertain' = FALSE /\ UNCHANGED budget
          \/ row' \in {row, r} /\ Raised(w) /\ DbFailed
      BY <2>2, LeaveEffect, RaiseEffect, DbFailedFields DEF Wrote, DbFault
    <2>4. SettleWrite(l, r) /\ (Left(w) /\ uncertain' = FALSE => SettleMove(w))
      BY <2>1, <2>2 DEF SettleWrite, SettleMove
    <2>5. QED BY <1>2, <2>2, <2>3, <2>4
  <1>9. CASE LogError(w)
    <2> DEFINE r == Logged(row, "STATE_MACHINE_ERROR", NoDetails)
    <2>1. Write(w, r, Idle) /\ l.pc = "error"
      BY <1>9 DEF LogError
    <2>2. EventRow(row, r, "STATE_MACHINE_ERROR")
      BY <1>1, <1>3, <1>4, LoggedEvent
    <2> HIDE DEF r
    <2>3. \/ row' = r /\ local'[w] = Idle /\ UNCHANGED <<uncertain, budget>>
          \/ row' \in {row, r} /\ Raised(w) /\ DbFailed
      BY <2>1, WriteEffect, DbFailedFields
    <2>4. SettleWrite(l, r) /\ (local'[w] = Idle /\ UNCHANGED uncertain => SettleMove(w))
      BY <2>1, <2>2 DEF SettleWrite, SettleMove
    <2>5. QED BY <1>2, <2>1, <2>3, <2>4
  <1>10. CASE Refresh(w)
    <2> DEFINE m == [l EXCEPT !.pc = "defer", !.job = Read(row)]
    <2>1. /\ l.pc = "refresh" /\ row' = row /\ UNCHANGED <<uncertain, budget>>
          /\ \/ IsOpen(row) /\ Become(w, m)
             \/ ~IsOpen(row) /\ Become(w, Idle)
      BY <1>10 DEF Refresh
    <2>2. m.pc = "defer" /\ m.job = Read(row)
      BY <1>1 DEF Locals
    <2> HIDE DEF m
    <2>3. QED BY <1>2, <2>1, <2>2, BecomeEffect DEF Reread
  <1>11. CASE Defer(w)
    <2> DEFINE b == l.job.wait
               r == [row EXCEPT !.status = "WAITING", !.deferred = b]
    <2>1. Write(w, r, Idle) /\ l.pc = "defer"
      BY <1>11 DEF Defer
    <2>2. b \in BOOLEAN
      BY <1>1 DEF Rows
    <2> HIDE DEF b
    <2>3. r.status = "WAITING" /\ SameLog(row, r) /\ r.deferred = b
      BY <1>1, <2>2, DeferredFields DEF SameLog
    <2> HIDE DEF r
    <2>4. \/ row' = r /\ local'[w] = Idle /\ UNCHANGED <<uncertain, budget>>
          \/ row' \in {row, r} /\ Raised(w) /\ DbFailed
      BY <2>1, WriteEffect, DbFailedFields
    <2>5. SettleWrite(l, r) /\ (local'[w] = Idle /\ UNCHANGED uncertain => SettleMove(w))
      BY <2>1, <2>3 DEF SettleWrite, SettleMove, b
    <2>6. QED BY <1>2, <2>1, <2>4, <2>5
  <1>12. QED
    BY <1>5, <1>6, <1>7, <1>8, <1>9, <1>10, <1>11 DEF Settle

\* The queue row is renamed, and where that leads.
RenameLine(pc, next) ==
  \/ pc = "renameTimeout" /\ next = "logTimeout"
  \/ pc = "renamePatch" /\ next = "logPatch"
  \/ pc = "renameResume" /\ next = "logResume"
  \/ pc \in {"renameWith", "renameWithout"} /\ next = "dropOld"
RenamedRow(r, n, job) ==
  /\ n.name = Replacement(job) /\ n.count = r.count /\ n.latest = r.latest
  /\ n.details = r.details /\ n.wait = r.wait /\ n.status = r.status /\ n.level = r.level
  /\ n.deferred = r.deferred

LEMMA RenameEffect ==
  ASSUME TypeInv, NEW w \in Workers, Rename(w)
  PROVE  \E next :
           /\ RenameLine(local[w].pc, next) /\ Quiet
           /\ \/ /\ RenamedRow(row, row', local[w].job) /\ Went(w, next)
                 /\ UNCHANGED <<uncertain, budget>>
              \/ /\ row' = row \/ RenamedRow(row, row', local[w].job)
                 /\ Raised(w) /\ DbFailed
  <1> DEFINE l == local[w]
             next == CASE l.pc = "renameTimeout" -> "logTimeout"
                       [] l.pc = "renamePatch" -> "logPatch"
                       [] l.pc = "renameResume" -> "logResume"
                       [] OTHER -> "dropOld"
             r == Renamed(row, l.job)
             m == [l EXCEPT !.pc = next]
  <1>1. /\ Write(w, r, m) /\ Quiet
        /\ l.pc \in {"renameTimeout", "renamePatch", "renameResume", "renameWith",
                     "renameWithout"}
    BY DEF Rename, Quiet
  <1>2. RenameLine(l.pc, next)
    <2>1. l.pc \in {"renameTimeout", "renamePatch", "renameResume", "renameWith",
                   "renameWithout"}
      BY <1>1
    <2>2. QED BY <2>1 DEF RenameLine
  <1> HIDE DEF next
  <1>3. local'[w] = m => Went(w, next)
    BY HeldTypes DEF Locals, Went
  <1>4. RenamedRow(row, r, l.job)
    BY HeldTypes DEF Renamed, Rows, RenamedRow
  <1> HIDE DEF r, m
  <1>5. \/ row' = r /\ local'[w] = m /\ UNCHANGED <<uncertain, budget>>
        \/ row' \in {row, r} /\ Raised(w) /\ DbFailed
    BY <1>1, WriteEffect, DbFailedFields
  <1>6. QED BY <1>1, <1>2, <1>3, <1>4, <1>5

LEMMA CloseEffect ==
  ASSUME TypeInv, NEW w \in Workers, Close(w)
  PROVE  /\ Quiet /\ local[w].pc = "close"
         /\ \/ /\ SameLog(row, row') /\ row'.status = "ESCALATED" /\ Went(w, "refresh")
               /\ UNCHANGED <<uncertain, budget>>
            \/ /\ SameLog(row, row') /\ row'.status \in {row.status, "ESCALATED"}
               /\ Raised(w) /\ DbFailed
  <1> DEFINE l == local[w]
             r == Closed(row, "ESCALATED")
             m == [l EXCEPT !.pc = "refresh"]
  <1>1. Write(w, r, m) /\ Quiet /\ l.pc = "close"
    BY DEF Close, Quiet
  <1>2. r.status = "ESCALATED" /\ SameLog(row, r) /\ SameLog(row, row)
    BY HeldTypes, ClosedFields DEF SameLog
  <1>3. local'[w] = m => Went(w, "refresh")
    BY HeldTypes DEF Locals, Went
  <1> HIDE DEF r, m
  <1>4. \/ row' = r /\ local'[w] = m /\ UNCHANGED <<uncertain, budget>>
        \/ row' \in {row, r} /\ Raised(w) /\ DbFailed
    BY <1>1, WriteEffect, DbFailedFields
  <1>5. QED BY <1>1, <1>2, <1>3, <1>4

-----------------------------------------------------------------------------
(* A replacement runs from restored offsets, or on purpose from none.      *)

ResumesKnown(l) ==
  /\ l.pc = "resume" => offsets[Replacement(l.job)] # "none"
  /\ l.pc = "retryResume" => offsets[l.job.name] # "none"
OffsetsInv == RunsFromKnownOffsets /\ \A w \in Workers : ResumesKnown(local[w])

LEMMA RestingPcs ==
  /\ Idle.pc = "idle"
  /\ \A w \in Workers : Raised(w) => local'[w].pc \in {"idle", "quarantine", "error"}
  /\ \A w \in Workers : Left(w) => local'[w].pc \in {"idle", "refresh"}
  BY IdleType DEF Raised, Left, Went

\* Only patch_offsets leads to a resume.
LEMMA OnlyActResumes ==
  ASSUME TypeInv, ControlInv, NEW w \in Workers, Step(w), ~Act(w)
  PROVE  local'[w].pc \notin {"resume", "retryResume"}
  <1> DEFINE m == local'[w]
  <1>1. CASE Arrive(w)
    BY <1>1, ArriveEffect, RestingPcs DEF Arrived, Carried, Went
  <1>2. CASE Assess(w)
    <2>1. CASE Observe(w)
      BY <2>1, ObserveEffect, FirstStepPcs, RestingPcs DEF DecidedPc
    <2>2. CASE Confirm(w)
      BY <2>2, ConfirmEffect, FirstStepPcs, RestingPcs DEF DecidedPc
    <2>3. CASE ~Observe(w) /\ ~Confirm(w)
      <3>1. Checked(w)
        BY <1>2, <2>3, CheckEffect
      <3>2. QED BY <3>1, FirstStepPcs, RestingPcs DEF Checked, Carried
    <2>4. QED BY <2>1, <2>2, <2>3
  <1>3. CASE Record(w)
    <2>1. CASE Audit(w)
      <3>1. \/ Raised(w)
            \/ \E e, next : Went(w, next) /\ AuditLine(local[w].pc, e, next)
        BY <2>1, AuditEffect
      <3>2. QED BY <3>1, RestingPcs DEF Went, AuditLine
    <2>2. CASE Rename(w)
      BY <2>2, RenameEffect, RestingPcs DEF RenameLine, Went
    <2>3. CASE Close(w)
      BY <2>3, CloseEffect, RestingPcs DEF Went
    <2>4. QED BY <1>3, <2>1, <2>2, <2>3 DEF Record
  <1>4. CASE Settle(w)
    <2>1. CASE DeleteSuperseded(w)
      BY <2>1, GotoEffect DEF DeleteSuperseded, Went
    <2>2. CASE ~DeleteSuperseded(w)
      BY <1>4, <2>2, SettleEffect, RestingPcs DEF SettleMove, Reread, Went
    <2>3. QED BY <2>1, <2>2
  <1>5. QED BY <1>1, <1>2, <1>3, <1>4 DEF Step

LEMMA OffsetsKept ==
  ASSUME OneThread, OffsetsInv, NEW w \in Workers, offsets' = offsets,
         local'[w].pc \notin {"resume", "retryResume"},
         \A v \in Versions : kc'[v] \in Live => kc[v] \in Live
  PROVE  OffsetsInv'
  BY DEF OffsetsInv, RunsFromKnownOffsets, ResumesKnown, OneThread

LEMMA ActOffsets ==
  ASSUME TypeInv, OneThread, OffsetsInv, NEW w \in Workers, Act(w)
  PROVE  OffsetsInv'
  <1> DEFINE l == local[w]
             m == local'[w]
  <1>1. /\ kc \in [Versions -> ConnectorStates] /\ offsets \in [Versions -> Origins]
        /\ l \in NamedLocals /\ ResumesKnown(l) /\ l.job.name \in Versions
    BY HeldTypes DEF TypeInv, OffsetsInv, Rows
  <1>2. \/ m.pc \notin {"resume", "retryResume"}
        \/ l.pc = "patch" /\ Went(w, "resume")
        \/ l.pc = "retryPatch" /\ Went(w, "retryResume")
    <2>1. Raised(w) \/ \E next \in Pcs : Went(w, next) /\ ActLine(l.pc, next)
      BY ActLines
    <2>2. QED BY <2>1, RestingPcs DEF Went, ActLine
  <1>3. CASE Restart(w) \/ LoadConfig(w) \/ Capture(w) \/ RetryProbe(w)
    <2>1. offsets' = offsets /\ l.pc \notin {"patch", "retryPatch"}
      BY <1>3 DEF Restart, LoadConfig, Capture, RetryProbe, cluster
    <2>2. kc' = kc \/ \E u : kc' = [kc EXCEPT ![u] = "RUNNING"] /\ kc[u] \in Live
      BY <1>3 DEF Restart, LoadConfig, Capture, RetryProbe, cluster
    <2>3. \A v \in Versions : kc'[v] \in Live => kc[v] \in Live
      BY <1>1, <2>2
    <2>4. QED BY <1>2, <2>1, <2>3, OffsetsKept
  <1>4. CASE StopConnector(w)
    <2>1. offsets' = offsets /\ l.pc \notin {"patch", "retryPatch"}
      BY <1>4 DEF StopConnector
    <2>2. kc' = kc \/ \E u : kc' = [kc EXCEPT ![u] = "STOPPED"]
      BY <1>4 DEF StopConnector
    <2>3. \A v \in Versions : kc'[v] \in Live => kc[v] \in Live
      BY <1>1, <2>2 DEF Live
    <2>4. QED BY <1>2, <2>1, <2>3, OffsetsKept
  <1>5. CASE CreateStopped(w)
    <2>1. /\ l.pc \notin {"patch", "retryPatch"}
          /\ \/ UNCHANGED cluster
             \/ \E u : Created(u, "STOPPED", "none")
      BY <1>5 DEF CreateStopped
    <2>2. CASE UNCHANGED cluster
      BY <1>2, <2>1, <2>2, OffsetsKept DEF cluster
    <2>3. CASE \E u : Created(u, "STOPPED", "none")
      <3>1. \A v \in Versions : kc'[v] \in Live => kc[v] \in Live /\ offsets'[v] = offsets[v]
        BY <1>1, <2>3 DEF Created, Live
      <3>2. QED
        BY <1>2, <2>1, <3>1 DEF OffsetsInv, RunsFromKnownOffsets, ResumesKnown, OneThread
    <2>4. QED BY <2>1, <2>2, <2>3
  <1>6. CASE PatchOffsets(w)
    <2> DEFINE v == IF l.pc = "retryPatch" THEN l.job.name ELSE Replacement(l.job)
    <2>1. /\ kc' = kc /\ l.pc \in {"patch", "retryPatch"}
          /\ offsets' \in {offsets, [offsets EXCEPT ![v] = "restored"]}
      BY <1>6 DEF PatchOffsets
    <2>2. l.pc = "patch" => Replacement(l.job) \in Versions
      BY <1>1, ActPcs DEF NamedLocals
    <2>3. v \in Versions
      BY <1>1, <2>1, <2>2
    <2>4. \A u \in Versions : offsets[u] # "none" => offsets'[u] # "none"
      BY <1>1, <2>1
    <2>5. m.pc \in {"resume", "retryResume"} => offsets' = [offsets EXCEPT ![v] = "restored"]
      BY <1>2, <1>6, GotoEffect DEF PatchOffsets, Answered, FailedTo, Went
    <2>6. /\ m.pc = "resume" => offsets'[Replacement(m.job)] # "none"
          /\ m.pc = "retryResume" => offsets'[m.job.name] # "none"
      BY <1>1, <1>2, <2>1, <2>3, <2>5 DEF Went
    <2>7. QED BY <2>1, <2>4, <2>6 DEF OffsetsInv, RunsFromKnownOffsets, ResumesKnown, OneThread
  <1>7. CASE ResumeConnector(w)
    <2> DEFINE v == IF l.pc = "retryResume" THEN l.job.name ELSE Replacement(l.job)
    <2>1. /\ offsets' = offsets /\ l.pc \in {"resume", "retryResume"}
          /\ kc' \in {kc, [kc EXCEPT ![v] = "RUNNING"]}
      BY <1>7 DEF ResumeConnector
    <2>2. offsets[v] # "none"
      BY <1>1, <2>1 DEF ResumesKnown
    <2>3. \A u \in Versions : kc'[u] \in Live => offsets[u] # "none"
      BY <1>1, <2>1, <2>2 DEF OffsetsInv, RunsFromKnownOffsets
    <2>4. QED
      BY <1>2, <2>1, <2>3 DEF OffsetsInv, RunsFromKnownOffsets, ResumesKnown, OneThread
  <1>8. CASE CreateFresh(w)
    <2>1. /\ l.pc \notin {"patch", "retryPatch"}
          /\ \/ UNCHANGED cluster
             \/ Created(Replacement(l.job), "RUNNING", "new")
      BY <1>8 DEF CreateFresh
    <2>2. CASE UNCHANGED cluster
      BY <1>2, <2>1, <2>2, OffsetsKept DEF cluster
    <2>3. CASE Created(Replacement(l.job), "RUNNING", "new")
      <3>1. \A v \in Versions : kc'[v] \in Live => offsets'[v] # "none"
        BY <1>1, <2>3 DEF Created, OffsetsInv, RunsFromKnownOffsets
      <3>2. QED
        BY <1>2, <2>1, <3>1 DEF OffsetsInv, RunsFromKnownOffsets, ResumesKnown, OneThread
    <2>4. QED BY <2>1, <2>2, <2>3
  <1>9. CASE DropOld(w)
    <2>1. offsets' = offsets /\ l.pc \notin {"patch", "retryPatch"}
          /\ \E names : Deletes(names)
      BY <1>9 DEF DropOld
    <2>2. \A v \in Versions : kc'[v] \in Live => kc[v] \in Live
      BY <2>1 DEF Deletes, Live
    <2>3. QED BY <1>2, <2>1, <2>2, OffsetsKept
  <1>10. QED
    BY <1>3, <1>4, <1>5, <1>6, <1>7, <1>8, <1>9 DEF Act

LEMMA SameResume ==
  ASSUME NEW l \in Locals, ResumesKnown(l)
  PROVE  ResumesKnown(NoLongerWaiting(l))
  <1> DEFINE m == NoLongerWaiting(l)
  <1>1. m.pc = l.pc /\ m.job.name = l.job.name /\ m.job.details = l.job.details
    BY NoLongerWaitingFields
  <1> HIDE DEF m
  <1>2. ResumesKnown(m)
    BY <1>1 DEF ResumesKnown, Replacement
  <1>3. QED BY <1>2 DEF m

LEMMA EnvironmentOffsets ==
  ASSUME TypeInv, OffsetsInv, Environment
  PROVE  OffsetsInv'
  <1>1. kc \in [Versions -> ConnectorStates]
    BY DEF TypeInv
  <1>2. ASSUME NEW v \in Versions, ConnectorFails(v) \/ ConnectorRecovers(v) \/ OperatorStops(v)
        PROVE  OffsetsInv'
    <2>1. UNCHANGED <<offsets, local>> /\ kc[v] \in Live
      BY <1>2 DEF ConnectorFails, ConnectorRecovers, OperatorStops, Live
    <2>2. \E s : kc' = [kc EXCEPT ![v] = s]
      BY <1>2 DEF ConnectorFails, ConnectorRecovers, OperatorStops
    <2>3. \A u \in Versions : kc'[u] \in Live => kc[u] \in Live
      BY <1>1, <2>1, <2>2
    <2>4. QED BY <2>1, <2>3 DEF OffsetsInv, RunsFromKnownOffsets, ResumesKnown
  <1>3. CASE Elapse
    <2>1. ASSUME NEW w \in Workers PROVE ResumesKnown(local'[w])
      <3>1. local'[w] = NoLongerWaiting(local[w]) /\ ResumesKnown(local[w])
        BY <1>3 DEF Elapse, OffsetsInv
      <3>2. QED BY <3>1, HeldTypes, SameResume
    <2>2. UNCHANGED cluster
      BY <1>3 DEF Elapse
    <2>3. QED BY <2>1, <2>2 DEF OffsetsInv, RunsFromKnownOffsets, ResumesKnown, cluster
  <1>4. ASSUME NEW u \in Workers, ElapseStale(u) PROVE OffsetsInv'
    <2>1. ASSUME NEW w \in Workers PROVE ResumesKnown(local'[w])
      <3>1. /\ local'[w] = local[w] \/ local'[w] = NoLongerWaiting(local[w])
            /\ ResumesKnown(local[w])
        BY <1>4 DEF ElapseStale, Become, OffsetsInv, TypeInv
      <3>2. QED BY <3>1, HeldTypes, SameResume
    <2>2. UNCHANGED cluster
      BY <1>4 DEF ElapseStale
    <2>3. QED BY <2>1, <2>2 DEF OffsetsInv, RunsFromKnownOffsets, ResumesKnown, cluster
  <1>5. CASE Stabilize
    BY <1>5 DEF Stabilize, OffsetsInv, RunsFromKnownOffsets, ResumesKnown, cluster
  <1>6. CASE Crash
    BY <1>5, <1>6, RestingPcs DEF Crash, OffsetsInv, RunsFromKnownOffsets, ResumesKnown, cluster
  <1>8. CASE FirstCreated
    BY <1>1, <1>8 DEF FirstCreated, OffsetsInv, RunsFromKnownOffsets, ResumesKnown, TypeInv
  <1>7. QED BY <1>2, <1>3, <1>4, <1>5, <1>6, <1>8 DEF Environment

LEMMA OffsetsInit == Init => OffsetsInv
  BY RestingPcs DEF Init, OffsetsInv, RunsFromKnownOffsets, ResumesKnown, Live, Versions

LEMMA OffsetsStep ==
  ASSUME OneThread
  PROVE  TypeInv /\ ControlInv /\ OffsetsInv /\ [Next]_vars => OffsetsInv'
  <1> SUFFICES ASSUME TypeInv, ControlInv, OffsetsInv, [Next]_vars PROVE OffsetsInv'
    OBVIOUS
  <1>1. ASSUME NEW w \in Workers, Step(w) PROVE OffsetsInv'
    <2>1. CASE Act(w)
      BY <2>1, ActOffsets
    <2>2. CASE DeleteSuperseded(w)
      <3>1. offsets' = offsets /\ Went(w, "logRecovered") /\ \E names : Deletes(names)
        BY <2>2, GotoEffect DEF DeleteSuperseded
      <3>2. \A v \in Versions : kc'[v] \in Live => kc[v] \in Live
        BY <3>1 DEF Deletes, Live
      <3>3. QED BY <3>1, <3>2, OffsetsKept DEF Went
    <2>3. CASE ~Act(w) /\ ~DeleteSuperseded(w)
      <3>1. UNCHANGED cluster /\ local'[w].pc \notin {"resume", "retryResume"}
        BY <1>1, <2>3, ClusterTouched, OnlyActResumes
      <3>2. QED BY <3>1, OffsetsKept DEF cluster
    <2>4. QED BY <2>1, <2>2, <2>3
  <1>2. CASE UNCHANGED vars
    BY <1>2 DEF OffsetsInv, RunsFromKnownOffsets, ResumesKnown, vars
  <1>3. QED BY <1>1, <1>2, EnvironmentOffsets DEF Next

\* recreate_with_offset and its retry resume a replacement only after the
\* captured offsets were patched in, whatever fails or crashes between.
THEOREM KnownOffsets ==
  ASSUME OneThread
  PROVE  Spec => []RunsFromKnownOffsets
  <1>1. OffsetsInv => RunsFromKnownOffsets
    BY DEF OffsetsInv
  <1>2. QED
    BY <1>1, AlwaysTyped, AlwaysControl, OffsetsInit, OffsetsStep, PTL DEF Spec

-----------------------------------------------------------------------------
(* What the job allowed when the step was decided.                         *)

Earned(l) ==
  /\ l.pc \in {"restartTasks", "logTaskRestart"} => TaskRestartCount(l.job) < TaskRestartMax
  /\ l.pc \in {"restartConnector", "logConnectorRestart"} => ConnectorRestartCount(l.job) = 0
  /\ l.pc \in WithOffsetPcs =>
       /\ WithOffsetCount(l.job) = 0 /\ l.job.latest \notin ManagedStoppedEvents
       /\ ConnectorRestartCount(l.job) > 0
  /\ l.pc \in WithoutOffsetPcs =>
       /\ WithoutOffsetCount(l.job) = 0
       /\ ConnectorRestartCount(l.job) > 0 \/ l.job.latest \in ManagedStoppedEvents
  /\ l.pc \in RetryPcs =>
       l.job.latest \in WithOffsetRetryEvents /\ TimeoutCount(l.job) < WithOffsetTimeoutMax
  /\ l.pc \in {"observe", "confirm"} /\ l.res = "STOPPED" =>
       l.job.latest \in ManagedStoppedEvents

EarnedInv == \A w \in Workers : Earned(local[w])

\* Pcs at which Earned demands nothing.
PlainPcs ==
  {"idle", "enqueue", "acquire", "start", "finish", "check", "supersede", "logRecovered",
   "closeRecovered", "quarantine", "quarantineClose", "error", "refresh", "defer",
   "levelLimit", "escalate", "close", "dropOld"}

LEMMA PlainEarned ==
  ASSUME NEW l, l.pc \in PlainPcs
  PROVE  Earned(l)
  BY DEF Earned, PlainPcs, WithOffsetPcs, WithoutOffsetPcs, RetryPcs

LEMMA RestingEarned ==
  ASSUME NEW w \in Workers, Raised(w) \/ Left(w) \/ local'[w] = Idle
  PROVE  Earned(local'[w])
  BY RestingPcs, PlainEarned DEF PlainPcs

\* The counts the policy looks at are numbers.
LEMMA PolicyCounts ==
  ASSUME NEW r \in Rows
  PROVE  /\ TaskRestartCount(r) \in 0..CountCap /\ ConnectorRestartCount(r) \in 0..CountCap
         /\ TimeoutCount(r) \in 0..CountCap /\ FailedCount(r) \in 0..CountCap
         /\ WithOffsetCount(r) \in Nat /\ WithoutOffsetCount(r) \in Nat
         /\ r.count \in [CountedEvents -> 0..CountCap]
  <1>1. r.count \in [CountedEvents -> 0..CountCap]
    BY DEF Rows
  <1>2. /\ "CONNECTOR_RECREATE_WITH_OFFSET" \in CountedEvents
        /\ "CONNECTOR_RECREATE_WITH_OFFSET_FAILED" \in CountedEvents
        /\ "CONNECTOR_RECREATE_WITHOUT_OFFSET" \in CountedEvents
        /\ "CONNECTOR_RECREATE_WITHOUT_OFFSET_FAILED" \in CountedEvents
        /\ "TASK_RESTART" \in CountedEvents /\ "CONNECTOR_RESTART" \in CountedEvents
        /\ "CONNECTOR_RECREATE_WITH_OFFSET_TIMEOUT" \in CountedEvents
        /\ "HEALTH_FAILURE_OBSERVED" \in CountedEvents
    BY DEF CountedEvents, WaitAfterRestartEvents, WaitAfterRecreateEvents, WithOffsetRetryEvents,
       WithoutOffsetEvents
  <1> HIDE DEF CountedEvents
  <1>3. QED
    BY <1>1, <1>2, Caps
    DEF TaskRestartCount, ConnectorRestartCount, TimeoutCount, FailedCount, WithOffsetCount,
        WithoutOffsetCount

\* A decision is what the policy says, or a stop at the level gate.
LEMMA FirstStepCases ==
  ASSUME NEW l, NEW action
  PROVE  LET pc == FirstStep(l, action)
         IN  \/ pc \in {"refresh", "levelLimit", "escalate"}
             \/ pc = "restartTasks" /\ action = "RESTART_TASKS"
             \/ pc = "restartConnector" /\ action = "RESTART_CONNECTOR"
             \/ pc = "configWith" /\ action = "RECREATE_WITH_OFFSET"
             \/ pc = "configRetry" /\ action = "RETRY_RECREATE_WITH_OFFSET"
             \/ pc = "configWithout" /\ action = "RECREATE_WITHOUT_OFFSET"
  BY DEF FirstStep

\* The table, read backwards.
LEMMA DecisionReasons ==
  ASSUME NEW job \in Rows, NEW failedTask,
         FailureConfirmed(job) \/ FailedCount(job) < FailureConfirmChecks
  PROVE  LET action == DecideUnhealthy(job, failedTask)
         IN  /\ action = "RESTART_TASKS" => TaskRestartCount(job) < TaskRestartMax
             /\ action = "RESTART_CONNECTOR" => ConnectorRestartCount(job) = 0
             /\ action = "RECREATE_WITH_OFFSET" =>
                  /\ WithOffsetCount(job) = 0 /\ job.latest \notin ManagedStoppedEvents
                  /\ ConnectorRestartCount(job) > 0
             /\ action = "RECREATE_WITHOUT_OFFSET" =>
                  /\ WithoutOffsetCount(job) = 0
                  /\ ConnectorRestartCount(job) > 0 \/ job.latest \in ManagedStoppedEvents
             /\ action = "RETRY_RECREATE_WITH_OFFSET" =>
                  /\ job.latest \in WithOffsetRetryEvents
                  /\ TimeoutCount(job) < WithOffsetTimeoutMax
  <1> DEFINE action == DecideUnhealthy(job, failedTask)
  <1>1. /\ TaskRestartCount(job) \in Nat /\ ConnectorRestartCount(job) \in Nat
        /\ WithoutOffsetCount(job) \in Nat /\ FailedCount(job) \in Nat
    BY PolicyCounts, Caps
  <1>2. FailureConfirmChecks \in Nat /\ TaskRestartMax \in Nat
    BY PolicyAssumption DEF PolicyAssumption
  <1>3. WithoutOffsetOrEscalate(job) \in {"RECREATE_WITHOUT_OFFSET", "ESCALATE"}
          /\ (WithoutOffsetOrEscalate(job) = "RECREATE_WITHOUT_OFFSET" =>
                WithoutOffsetCount(job) = 0)
    BY <1>1 DEF WithoutOffsetOrEscalate, WithoutOffsetMax
  <1>4. CASE job.latest \in ManagedStoppedEvents
    BY <1>3, <1>4 DEF DecideUnhealthy, RecreateFollowUp
  <1>5. CASE job.latest \notin ManagedStoppedEvents /\ ShouldRestartConnector(job, failedTask)
    <2>1. ConnectorRestartCount(job) = 0
      BY <1>1, <1>5 DEF ShouldRestartConnector, ConnectorRestartMax
    <2>2. action \in {"ESCALATE", "STOP", "DEBOUNCE", "RESTART_CONNECTOR"}
            \/ (action = "RESTART_TASKS" /\ TaskRestartCount(job) < TaskRestartMax)
      BY <1>5 DEF DecideUnhealthy
    <2>3. QED BY <2>1, <2>2
  <1>6. CASE job.latest \notin ManagedStoppedEvents /\ ~ShouldRestartConnector(job, failedTask)
    <2>1. \/ action \in {"ESCALATE", "STOP", "DEBOUNCE"}
          \/ action = "RESTART_TASKS" /\ TaskRestartCount(job) < TaskRestartMax
          \/ /\ FailureConfirmed(job) /\ (failedTask => TaskRestartCount(job) >= TaskRestartMax)
             /\ \/ action = "RECREATE_WITH_OFFSET" /\ WithOffsetCount(job) = 0
                \/ action = WithoutOffsetOrEscalate(job)
      BY <1>1, <1>2, <1>6 DEF DecideUnhealthy
    <2>2. FailureConfirmed(job) /\ (failedTask => TaskRestartCount(job) >= TaskRestartMax)
            => ConnectorRestartCount(job) > 0
      BY <1>1, <1>6 DEF ShouldRestartConnector, ConnectorRestartMax
    <2>3. QED BY <1>3, <1>6, <2>1, <2>2
  <1>7. QED BY <1>4, <1>5, <1>6

LEMMA FirstStepEarned ==
  ASSUME NEW l, NEW action, NEW m, m.pc = FirstStep(l, action),
         /\ action = "RESTART_TASKS" => TaskRestartCount(m.job) < TaskRestartMax
         /\ action = "RESTART_CONNECTOR" => ConnectorRestartCount(m.job) = 0
         /\ action = "RECREATE_WITH_OFFSET" =>
              /\ WithOffsetCount(m.job) = 0 /\ m.job.latest \notin ManagedStoppedEvents
              /\ ConnectorRestartCount(m.job) > 0
         /\ action = "RECREATE_WITHOUT_OFFSET" =>
              /\ WithoutOffsetCount(m.job) = 0
              /\ ConnectorRestartCount(m.job) > 0 \/ m.job.latest \in ManagedStoppedEvents
         /\ action = "RETRY_RECREATE_WITH_OFFSET" =>
              /\ m.job.latest \in WithOffsetRetryEvents
              /\ TimeoutCount(m.job) < WithOffsetTimeoutMax
  PROVE  Earned(m)
  <1>1. CASE m.pc \in {"refresh", "levelLimit", "escalate"}
    BY <1>1, PlainEarned DEF PlainPcs
  <1>2. CASE m.pc \in {"restartTasks", "restartConnector"}
    BY <1>2, FirstStepCases DEF Earned, WithOffsetPcs, WithoutOffsetPcs, RetryPcs
  <1>3. CASE m.pc = "configWith"
    BY <1>3, FirstStepCases DEF Earned, WithoutOffsetPcs, RetryPcs
  <1>4. CASE m.pc = "configRetry"
    BY <1>4, FirstStepCases DEF Earned, WithOffsetPcs, WithoutOffsetPcs
  <1>5. CASE m.pc = "configWithout"
    BY <1>5, FirstStepCases DEF Earned, WithOffsetPcs, RetryPcs
  <1>6. QED BY <1>1, <1>2, <1>3, <1>4, <1>5, FirstStepPcs

LEMMA DecidedEarned ==
  ASSUME NEW m, m.job \in Rows, DecidedPc(m),
         FailureConfirmed(m.job) \/ FailedCount(m.job) < FailureConfirmChecks
  PROVE  Earned(m)
  <1> DEFINE failedTask == m.res = "TASKS"
             action == DecideUnhealthy(m.job, failedTask)
  <1>1. m.pc = FirstStep(m, action)
    BY DEF DecidedPc
  <1> HIDE DEF failedTask
  <1>2. /\ action = "RESTART_TASKS" => TaskRestartCount(m.job) < TaskRestartMax
        /\ action = "RESTART_CONNECTOR" => ConnectorRestartCount(m.job) = 0
        /\ action = "RECREATE_WITH_OFFSET" =>
             /\ WithOffsetCount(m.job) = 0 /\ m.job.latest \notin ManagedStoppedEvents
             /\ ConnectorRestartCount(m.job) > 0
        /\ action = "RECREATE_WITHOUT_OFFSET" =>
             /\ WithoutOffsetCount(m.job) = 0
             /\ ConnectorRestartCount(m.job) > 0 \/ m.job.latest \in ManagedStoppedEvents
        /\ action = "RETRY_RECREATE_WITH_OFFSET" =>
             /\ m.job.latest \in WithOffsetRetryEvents
             /\ TimeoutCount(m.job) < WithOffsetTimeoutMax
    BY DecisionReasons
  <1> HIDE DEF action
  <1>3. QED BY <1>1, <1>2, FirstStepEarned

\* One executor's steps go on with what its first step had.
LEMMA SameFamily ==
  ASSUME NEW pc, NEW next,
         ActLine(pc, next) \/ RenameLine(pc, next) \/ (\E e : AuditLine(pc, e, next))
  PROVE  \/ next \in {"refresh", "escalate", "close", "dropOld"}
         \/ pc = "restartTasks" /\ next = "logTaskRestart"
         \/ pc = "restartConnector" /\ next = "logConnectorRestart"
         \/ pc \in WithOffsetPcs /\ next \in WithOffsetPcs
         \/ pc \in WithoutOffsetPcs /\ next \in WithoutOffsetPcs
         \/ pc \in RetryPcs /\ next \in RetryPcs
  BY DEF ActLine, RenameLine, AuditLine, WithOffsetPcs, WithoutOffsetPcs, RetryPcs

LEMMA FamilyEarned ==
  ASSUME NEW w \in Workers, NEW next, Went(w, next), Earned(local[w]),
         \/ ActLine(local[w].pc, next) \/ RenameLine(local[w].pc, next)
         \/ \E e : AuditLine(local[w].pc, e, next)
  PROVE  Earned(local'[w])
  <1> DEFINE l == local[w]
             m == local'[w]
  <1>1. m.pc = next /\ m.job = l.job
    BY DEF Went
  <1>2. CASE next \in {"refresh", "escalate", "close", "dropOld"}
    BY <1>1, <1>2, PlainEarned DEF PlainPcs
  <1>3. CASE next \in {"logTaskRestart", "logConnectorRestart"}
    BY SMTT(30), <1>1, <1>3, SameFamily DEF Earned, WithOffsetPcs, WithoutOffsetPcs, RetryPcs
  <1>4. next \in WithOffsetPcs \cup WithoutOffsetPcs \cup RetryPcs =>
          next \notin {"restartTasks", "logTaskRestart", "restartConnector",
                       "logConnectorRestart", "observe", "confirm"}
    BY DEF WithOffsetPcs, WithoutOffsetPcs, RetryPcs
  <1>5. CASE l.pc \in WithOffsetPcs /\ next \in WithOffsetPcs
    <2>1. next \notin WithoutOffsetPcs /\ next \notin RetryPcs
      BY <1>5, PcFamilies
    <2>2. QED BY <1>1, <1>4, <1>5, <2>1 DEF Earned
  <1>6. CASE l.pc \in WithoutOffsetPcs /\ next \in WithoutOffsetPcs
    <2>1. next \notin WithOffsetPcs /\ next \notin RetryPcs
      BY <1>6, PcFamilies
    <2>2. QED BY <1>1, <1>4, <1>6, <2>1 DEF Earned
  <1>7. CASE l.pc \in RetryPcs /\ next \in RetryPcs
    <2>1. next \notin WithoutOffsetPcs /\ next \notin WithOffsetPcs
      BY <1>7, PcFamilies
    <2>2. QED BY <1>1, <1>4, <1>7, <2>1 DEF Earned
  <1>8. QED BY <1>2, <1>3, <1>5, <1>6, <1>7, SameFamily

LEMMA NextHeldTypes ==
  ASSUME TypeInv', NEW w \in Workers
  PROVE  /\ local'[w] \in Locals /\ local'[w].job \in Rows /\ row' \in Rows
         /\ local'[w].pc \in Pcs
  BY DEF TypeInv, NamedLocals, Locals

\* The job with the confirmation added is confirmed.
LEMMA ConfirmedCount ==
  ASSUME NEW c \in [CountedEvents -> 0..CountCap], NEW job,
         job.count = Counted(c, "HEALTH_FAILED_CONFIRMED")
  PROVE  FailureConfirmed(job)
  <1>1. "HEALTH_FAILED_CONFIRMED" \in CountedEvents
    BY EventsCounted
  <1>2. c["HEALTH_FAILED_CONFIRMED"] \in 0..CountCap
    BY <1>1
  <1>3. job.count["HEALTH_FAILED_CONFIRMED"] = Bump(c["HEALTH_FAILED_CONFIRMED"])
    BY <1>1 DEF Counted
  <1>4. QED BY <1>2, <1>3, Caps DEF Bump, FailureConfirmed

LEMMA StepEarned ==
  ASSUME TypeInv, ControlInv, TypeInv', NEW w \in Workers, Earned(local[w]), Step(w)
  PROVE  Earned(local'[w])
  <1> DEFINE l == local[w]
             m == local'[w]
  <1>1. l.job \in Rows /\ m.job \in Rows
    BY HeldTypes, NextHeldTypes
  <1>2. CASE Arrive(w)
    <2>1. Raised(w) \/ Left(w) \/ m = Idle \/ m.pc \in PlainPcs
      BY <1>2, ArriveEffect DEF Arrived, Carried, Went, PlainPcs
    <2>2. QED BY <2>1, RestingEarned, PlainEarned
  <1>3. CASE Observe(w)
    <2> DEFINE e == "HEALTH_FAILURE_OBSERVED"
    <2>1. \/ Raised(w)
          \/ HealthLogged(w, e) /\ m.pc = "confirm"
          \/ ~NeedsConfirmation(m.job, m.alert) /\ DecidedPc(m)
      BY <1>3, ObserveEffect
    <2>2. l.pc = "observe"
      BY <1>3, ObserveEffect
    <2>3. CASE HealthLogged(w, e) /\ m.pc = "confirm"
      BY <2>2, <2>3
      DEF Earned, HealthLogged, WithOffsetPcs, WithoutOffsetPcs, RetryPcs
    <2>4. CASE ~NeedsConfirmation(m.job, m.alert) /\ DecidedPc(m)
      <3>1. FailureConfirmed(m.job) \/ FailedCount(m.job) < FailureConfirmChecks
        BY <1>1, <2>4, PolicyCounts, PolicyAssumption, Caps
        DEF NeedsConfirmation, PolicyAssumption
      <3>2. QED BY <1>1, <2>4, <3>1, DecidedEarned
    <2>5. QED BY <2>1, <2>3, <2>4, RestingEarned
  <1>4. CASE Confirm(w)
    <2> DEFINE e == "HEALTH_FAILED_CONFIRMED"
    <2>1. Raised(w) \/ (HealthLogged(w, e) /\ DecidedPc(m))
      BY <1>4, ConfirmEffect
    <2>2. HealthLogged(w, e) => FailureConfirmed(m.job)
      BY <1>1, PolicyCounts, ConfirmedCount DEF HealthLogged
    <2>3. QED BY <1>1, <2>1, <2>2, RestingEarned, DecidedEarned
  <1>5. CASE Assess(w) /\ ~Observe(w) /\ ~Confirm(w)
    <2>1. Checked(w)
      BY <1>5, CheckEffect
    <2>2. CASE m.pc = "observe"
      <3>1. m.res = "STOPPED" => m.job.latest \in ManagedStoppedEvents
        BY <2>1, <2>2, RestingPcs, FirstStepPcs DEF Checked, Carried, IsManagedStopped
      <3>2. QED BY <2>2, <3>1 DEF Earned, WithOffsetPcs, WithoutOffsetPcs, RetryPcs
    <2>3. CASE Carried(w, FirstStep(l, DecideMissingReplacement(l.job)))
                 /\ l.job.latest \in WithOffsetRetryEvents
      <3> DEFINE action == DecideMissingReplacement(l.job)
      <3>1. \/ action = "RETRY_RECREATE_WITH_OFFSET" /\ TimeoutCount(l.job) < WithOffsetTimeoutMax
            \/ action = "ESCALATE"
        BY DEF DecideMissingReplacement
      <3>2. m.pc = FirstStep(l, action) /\ m.job = l.job
        BY <2>3 DEF Carried
      <3> HIDE DEF action
      <3>3. QED BY <2>3, <3>1, <3>2, FirstStepEarned
    <2>4. QED BY <2>1, <2>2, <2>3, RestingEarned, PlainEarned DEF Checked, Carried, PlainPcs
  <1>6. CASE Audit(w)
    <2>1. \/ Raised(w)
          \/ \E e, next : Went(w, next) /\ AuditLine(l.pc, e, next)
      BY <1>6, AuditEffect
    <2>2. QED BY <2>1, RestingEarned, FamilyEarned
  <1>7. CASE Rename(w)
    BY <1>7, RenameEffect, RestingEarned, FamilyEarned
  <1>8. CASE Close(w)
    BY <1>8, CloseEffect, RestingEarned, PlainEarned DEF Went, PlainPcs
  <1>9. CASE Act(w)
    BY <1>9, ActLines, RestingEarned, FamilyEarned
  <1>10. CASE DeleteSuperseded(w)
    BY <1>10, GotoEffect, PlainEarned DEF DeleteSuperseded, Went, PlainPcs
  <1>11. CASE Settle(w) /\ ~DeleteSuperseded(w)
    <2>1. Raised(w) \/ SettleMove(w) \/ Reread(w)
      BY <1>11, SettleEffect
    <2>2. Raised(w) \/ Left(w) \/ m = Idle \/ m.pc \in PlainPcs
      BY <2>1 DEF SettleMove, Reread, Went, PlainPcs
    <2>3. QED BY <2>2, RestingEarned, PlainEarned
  <1>12. QED
    BY <1>2, <1>3, <1>4, <1>5, <1>6, <1>7, <1>8, <1>9, <1>10, <1>11 DEF Step, Record

LEMMA SameEarned ==
  ASSUME NEW l \in Locals, Earned(l)
  PROVE  Earned(NoLongerWaiting(l))
  <1> DEFINE m == NoLongerWaiting(l)
  <1>1. /\ m.pc = l.pc /\ m.res = l.res /\ m.job.latest = l.job.latest
        /\ m.job.count = l.job.count
    BY NoLongerWaitingFields
  <1> HIDE DEF m
  <1>2. Earned(m)
    BY <1>1
    DEF Earned, TaskRestartCount, ConnectorRestartCount, WithOffsetCount, WithoutOffsetCount,
        TimeoutCount
  <1>3. QED BY <1>2 DEF m

LEMMA EarnedInit == Init => EarnedInv
  BY RestingPcs, PlainEarned DEF Init, EarnedInv, PlainPcs

\* What the environment does to the threads.
LEMMA EnvironmentLocals ==
  ASSUME TypeInv, Environment, NEW w \in Workers
  PROVE  \/ local'[w] = local[w] \/ local'[w] = NoLongerWaiting(local[w])
         \/ local'[w] = Idle
  BY DEF Environment, ConnectorFails, ConnectorRecovers, OperatorStops, FirstCreated, Elapse,
     ElapseStale, Become, Stabilize, Crash, TypeInv

LEMMA EarnedStep ==
  ASSUME OneThread
  PROVE  TypeInv /\ TypeInv' /\ ControlInv /\ EarnedInv /\ [Next]_vars => EarnedInv'
  <1> SUFFICES ASSUME TypeInv, TypeInv', ControlInv, EarnedInv, [Next]_vars PROVE EarnedInv'
    OBVIOUS
  <1>1. ASSUME NEW w \in Workers, Step(w) PROVE EarnedInv'
    BY <1>1, StepEarned DEF EarnedInv, OneThread
  <1>2. CASE Environment
    <2>1. ASSUME NEW w \in Workers PROVE Earned(local'[w])
      <3>1. Earned(local[w]) /\ local[w] \in Locals
        BY HeldTypes DEF EarnedInv
      <3>2. CASE local'[w] = NoLongerWaiting(local[w])
        BY <3>1, <3>2, SameEarned
      <3>3. QED BY <1>2, <3>1, <3>2, EnvironmentLocals, RestingEarned
    <2>2. QED BY <2>1 DEF EarnedInv
  <1>3. CASE UNCHANGED vars
    BY <1>3 DEF EarnedInv, vars
  <1>4. QED BY <1>1, <1>2, <1>3 DEF Next

LEMMA AlwaysEarned ==
  ASSUME OneThread
  PROVE  Spec => []EarnedInv
  BY AlwaysTyped, AlwaysControl, EarnedInit, EarnedStep, PTL DEF Spec

-----------------------------------------------------------------------------
(* A doubtful outcome stops everything but the quarantine.                 *)

HeldBackPcs == {"idle", "acquire", "start", "quarantine", "quarantineClose"}
UncertainInv ==
  uncertain => row.status # "NONE" /\ \A w \in Workers : local[w].pc \in HeldBackPcs

\* The log and the status after each step, as far as every invariant needs them.
LEMMA AuditRows ==
  ASSUME TypeInv, NEW w \in Workers, Audit(w)
  PROVE  \E e \in EventTypes, next \in Pcs :
           /\ AuditLine(local[w].pc, e, next) /\ local[w].pc \in AuditPcs /\ Quiet
           /\ \/ /\ EventRow(row, row', e) /\ Went(w, next) /\ UNCHANGED <<uncertain, budget>>
                 /\ row'.details = AuditDetails(local[w])
              \/ (row' = row \/ EventRow(row, row', e)) /\ Raised(w) /\ DbFailed
  <1>1. PICK e \in EventTypes, next \in Pcs :
           LET r == Logged(row, e, AuditDetails(local[w]))
           IN  /\ AuditLine(local[w].pc, e, next) /\ local[w].pc \in AuditPcs
               /\ r \in Rows
               /\ \/ row' = r /\ Went(w, next) /\ UNCHANGED <<uncertain, budget>>
                  \/ /\ row' \in {row, r} /\ Raised(w)
                     /\ budget.db > 0 /\ budget' = [budget EXCEPT !.db = @ - 1]
               /\ UNCHANGED <<cluster, since, history>>
    BY AuditEffect
  <1> DEFINE r == Logged(row, e, AuditDetails(local[w]))
  <1>2. EventRow(row, r, e) /\ r.details = AuditDetails(local[w])
    BY <1>1, HeldTypes, AuditLineEvents, AuditDetailsType, LoggedFields DEF EventRow
  <1> HIDE DEF r
  <1>3. QED BY <1>1, <1>2, DbFailedFields DEF Quiet, r

LEMMA HealthRows ==
  ASSUME TypeInv, ControlInv, NEW w \in Workers, Observe(w) \/ Confirm(w)
  PROVE  LET e == IF local[w].pc = "observe"
                  THEN "HEALTH_FAILURE_OBSERVED" ELSE "HEALTH_FAILED_CONFIRMED"
             m == local'[w]
         IN  /\ Quiet /\ local[w].pc \in {"observe", "confirm"}
             /\ \/ /\ EventRow(row, row', e) /\ HealthLogged(w, e)
                   /\ UNCHANGED <<uncertain, budget>>
                   /\ \/ m.pc = "confirm" /\ local[w].pc = "observe" /\ ~FailureConfirmed(m.job)
                      \/ DecidedPc(m)
                \/ (row' = row \/ EventRow(row, row', e)) /\ Raised(w) /\ DbFailed
  <1> DEFINE l == local[w]
  <1>1. /\ row \in Rows /\ l.job \in Rows /\ Fits(row, l)
        /\ row.count \in [CountedEvents -> 0..CountCap]
    BY HeldTypes DEF ControlInv, Rows
  <1>2. /\ "HEALTH_FAILURE_OBSERVED" \in EventTypes /\ "HEALTH_FAILED_CONFIRMED" \in EventTypes
        /\ NoDetails \in Details
    BY NoRowType DEF EventTypes
  <1>3. CASE Observe(w)
    <2>1. EventRow(row, HealthRow("HEALTH_FAILURE_OBSERVED"), "HEALTH_FAILURE_OBSERVED")
      BY <1>1, <1>2, LoggedEvent DEF HealthRow
    <2>2. QED BY <1>3, <2>1, ObserveEffect, DbFailedFields
  <1>4. CASE Confirm(w)
    <2>1. l.pc = "confirm" /\ ~FailureConfirmed(row)
      BY <1>1, <1>4, ConfirmEffect
      DEF Fits, InSync, FailureConfirmed, SpentPcs, NewCountPcs, FreePcs, DoubtPcs
    <2>2. row.count["HEALTH_FAILED_CONFIRMED"] = 0
      BY <1>1, <2>1, EventsCounted, Caps DEF FailureConfirmed
    <2>3. EventRow(row, HealthRow("HEALTH_FAILED_CONFIRMED"), "HEALTH_FAILED_CONFIRMED")
      BY <1>1, <1>2, <2>2, LoggedEvent DEF HealthRow
    <2>4. QED BY <1>4, <2>1, <2>3, ConfirmEffect, DbFailedFields
  <1>5. QED BY <1>3, <1>4

\* An enqueued incident stays in the queue.
LEMMA StaysQueued ==
  ASSUME TypeInv, ControlInv, NEW w \in Workers, Step(w), row.status # "NONE"
  PROVE  row'.status # "NONE"
  <1>1. CASE Arrive(w)
    BY <1>1, ArriveEffect DEF Arrived
  <1>2. CASE Assess(w) /\ ~Observe(w) /\ ~Confirm(w)
    BY <1>2, CheckEffect
  <1>3. CASE Observe(w) \/ Confirm(w)
    BY <1>3, HealthRows DEF EventRow
  <1>4. CASE Audit(w)
    BY <1>4, AuditRows DEF EventRow
  <1>5. CASE Rename(w)
    BY <1>5, RenameEffect DEF RenamedRow
  <1>6. CASE Close(w)
    BY <1>6, CloseEffect
  <1>7. CASE Act(w)
    BY <1>7, ActLines
  <1>8. CASE DeleteSuperseded(w)
    BY <1>8 DEF DeleteSuperseded
  <1>9. CASE Settle(w) /\ ~DeleteSuperseded(w)
    <2>1. row' = row \/ SettleWrite(local[w], row')
      BY <1>9, SettleEffect DEF Reread
    <2>2. QED BY <2>1 DEF SettleWrite, EventRow
  <1>10. QED
    BY <1>1, <1>2, <1>3, <1>4, <1>5, <1>6, <1>7, <1>8, <1>9 DEF Step, Assess, Record

LEMMA RaisedDoubt ==
  ASSUME TypeInv, OneThread, ControlInv, UncertainInv, NEW w \in Workers, Step(w), Raised(w)
  PROVE  UncertainInv'
  <1>1. local[w].pc \in DispatchPcs => row.status # "NONE"
    BY DispatchOpen DEF ControlInv, Fits, IsOpen, OpenStatuses
  <1>2. uncertain' => row.status # "NONE"
    BY <1>1 DEF Raised, UncertainInv
  <1>3. uncertain' => local'[w].pc \in HeldBackPcs
    BY RestingPcs DEF Raised, HeldBackPcs, Went
  <1>4. QED BY <1>2, <1>3, StaysQueued DEF UncertainInv, OneThread

LEMMA CalmDoubt ==
  ASSUME TypeInv, OneThread, ControlInv, UncertainInv, NEW w \in Workers, Step(w),
         uncertain' => uncertain,
         uncertain => local'[w].pc \in HeldBackPcs
  PROVE  UncertainInv'
  BY StaysQueued DEF UncertainInv, OneThread

LEMMA StepDoubt ==
  ASSUME TypeInv, OneThread, ControlInv, UncertainInv, NEW w \in Workers, Step(w)
  PROVE  UncertainInv'
  <1> DEFINE l == local[w]
             m == local'[w]
  <1>1. uncertain => row.status # "NONE" /\ l.pc \in HeldBackPcs
    BY DEF UncertainInv
  <1>2. CASE Raised(w)
    BY <1>2, RaisedDoubt
  <1>3. CASE Arrive(w) /\ ~Raised(w)
    <2>1. Arrived(w) /\ UNCHANGED uncertain
      BY <1>3, ArriveEffect
    <2>2. uncertain => m.pc \in HeldBackPcs
      BY <1>1, <2>1, RestingPcs DEF Arrived, HeldBackPcs, Went, Carried
    <2>3. QED BY <2>1, <2>2, CalmDoubt
  <1>4. ASSUME ~uncertain, ~uncertain' PROVE UncertainInv'
    BY <1>4 DEF UncertainInv
  <1>5. CASE Assess(w) /\ ~Observe(w) /\ ~Confirm(w)
    BY <1>1, <1>4, <1>5, CheckEffect DEF HeldBackPcs
  <1>6. CASE (Observe(w) \/ Confirm(w)) /\ ~Raised(w)
    BY <1>1, <1>4, <1>6, HealthRows DEF HeldBackPcs
  <1>7. CASE Audit(w) /\ ~Raised(w)
    BY <1>1, <1>4, <1>7, AuditRows DEF HeldBackPcs, AuditPcs
  <1>8. CASE Rename(w) /\ ~Raised(w)
    BY <1>1, <1>4, <1>8, RenameEffect DEF HeldBackPcs, RenameLine
  <1>9. CASE Close(w) /\ ~Raised(w)
    BY <1>1, <1>4, <1>9, CloseEffect DEF HeldBackPcs
  <1>10. CASE Act(w) /\ ~Raised(w)
    <2>1. UNCHANGED uncertain
      <3>1. ~Raise(w)
        BY <1>10, RaiseEffect
      <3>2. QED
        BY <1>10, <3>1
        DEF Act, Restart, LoadConfig, Capture, StopConnector, RetryProbe, CreateStopped,
            PatchOffsets, ResumeConnector, CreateFresh, DropOld, Answered, FailedTo
    <2>2. l.pc \notin HeldBackPcs
      <3>1. \E next : ActLine(l.pc, next)
        BY <1>10, ActLines
      <3>2. QED BY <3>1 DEF ActLine, HeldBackPcs
    <2>3. QED BY <1>1, <1>4, <2>1, <2>2
  <1>11. CASE DeleteSuperseded(w)
    BY <1>1, <1>4, <1>11 DEF DeleteSuperseded, HeldBackPcs
  <1>12. CASE Settle(w) /\ ~DeleteSuperseded(w) /\ ~Raised(w)
    <2>1. SettleMove(w) \/ Reread(w)
      BY <1>12, SettleEffect
    <2>2. uncertain' => uncertain
      BY <2>1 DEF SettleMove, Reread
    <2>3. uncertain => m.pc \in HeldBackPcs \/ ~uncertain'
      BY <1>1, <2>1, RestingPcs DEF SettleMove, Reread, HeldBackPcs, Went
    <2>4. QED BY <2>2, <2>3, CalmDoubt DEF UncertainInv
  <1>13. QED
    BY <1>2, <1>3, <1>5, <1>6, <1>7, <1>8, <1>9, <1>10, <1>11, <1>12 DEF Step, Assess, Record

LEMMA UncertainStep ==
  ASSUME OneThread
  PROVE  TypeInv /\ ControlInv /\ UncertainInv /\ [Next]_vars => UncertainInv'
  <1> SUFFICES ASSUME TypeInv, ControlInv, UncertainInv, [Next]_vars PROVE UncertainInv'
    OBVIOUS
  <1>1. ASSUME NEW w \in Workers, Step(w) PROVE UncertainInv'
    BY <1>1, StepDoubt
  <1>2. CASE Environment
    <2>1. row'.status = row.status /\ (uncertain' => uncertain)
      <3>1. CASE Elapse
        <4>1. row'.status = row.status
          BY <3>1, ElapseFields
        <4>2. QED BY <3>1, <4>1 DEF Elapse
      <3>2. CASE ~Elapse
        BY <1>2, <3>2
        DEF Environment, ConnectorFails, ConnectorRecovers, OperatorStops, FirstCreated,
            ElapseStale, Stabilize, Crash
      <3>3. QED BY <3>1, <3>2
    <2>2. ASSUME NEW w \in Workers PROVE local'[w].pc \in {local[w].pc, "idle"}
      BY <1>2, EnvironmentLocals, HeldTypes, NoLongerWaitingFields, RestingPcs
    <2>3. QED BY <2>1, <2>2 DEF UncertainInv, HeldBackPcs
  <1>3. CASE UNCHANGED vars
    BY <1>3 DEF UncertainInv, vars
  <1>4. QED BY <1>1, <1>2, <1>3 DEF Next

LEMMA AlwaysUncertain ==
  ASSUME OneThread
  PROVE  Spec => []UncertainInv
  <1>1. Init => UncertainInv
    BY DEF Init, UncertainInv
  <1>2. QED BY <1>1, AlwaysTyped, AlwaysControl, UncertainStep, PTL DEF Spec

-----------------------------------------------------------------------------
(* The kinds of step of the one thread, as the invariants below see them.  *)

\* The rung that a request of the step at pc is counted on.
Requests(pc, rung) ==
  \/ pc = "restartTasks" /\ rung = "TASKS"
  \/ pc = "restartConnector" /\ rung = "CONNECTOR"
  \/ pc = "stopOld" /\ rung = "WITH_OFFSET"
  \/ pc \in {"retryStop", "retryCreate"} /\ rung = "RETRY"
  \/ pc = "stopForFresh" /\ rung = "WITHOUT_OFFSET"
Spent(pc) ==
  \A r \in Rungs : issued'[r] = IF Requests(pc, r) THEN Bump(issued[r]) ELSE issued[r]

\* No connector comes alive, but those an executor may bring up at pc.
Raises(l, v) ==
  \/ l.pc \in {"resume", "createFresh"} /\ v = Replacement(l.job)
  \/ l.pc = "retryResume" /\ v = l.job.name
Revives(l) == \A v \in Versions : kc'[v] \in Live => kc[v] \in Live \/ Raises(l, v)
NoneRevives == \A v \in Versions : kc'[v] \in Live => kc[v] \in Live

LEMMA CountSpends ==
  ASSUME TypeInv, NEW pc, NEW rung \in Rungs, Requests(pc, rung), Count(rung)
  PROVE  Spent(pc)
  BY DEF TypeInv, Count, Spent, Requests, Rungs

LEMMA NothingSpent ==
  ASSUME NEW pc, issued' = issued, \A r \in Rungs : ~Requests(pc, r)
  PROVE  Spent(pc)
  BY DEF Spent

LEMMA ActSpends ==
  ASSUME TypeInv, NEW w \in Workers, Act(w)
  PROVE  Spent(local[w].pc)
  <1> DEFINE l == local[w]
  <1>1. {"TASKS", "CONNECTOR", "WITH_OFFSET", "RETRY", "WITHOUT_OFFSET"} \subseteq Rungs
    BY DEF Rungs
  <1>2. CASE Restart(w)
    BY <1>1, <1>2, CountSpends DEF Restart, Requests
  <1>3. CASE LoadConfig(w) \/ Capture(w) \/ RetryProbe(w) \/ PatchOffsets(w) \/ DropOld(w)
    BY <1>3, NothingSpent
    DEF LoadConfig, Capture, RetryProbe, PatchOffsets, DropOld, history, Requests
  <1>4. CASE StopConnector(w)
    BY <1>1, <1>4, CountSpends DEF StopConnector, Requests
  <1>5. CASE CreateStopped(w)
    <2>1. CASE l.pc = "retryCreate"
      BY <1>1, <1>5, <2>1, CountSpends DEF CreateStopped, Requests
    <2>2. CASE l.pc = "create"
      BY <1>5, <2>2, NothingSpent DEF CreateStopped, Requests
    <2>3. QED BY <1>5, <2>1, <2>2 DEF CreateStopped
  <1>6. CASE ResumeConnector(w)
    BY <1>6, NothingSpent DEF ResumeConnector, Requests
  <1>7. CASE CreateFresh(w)
    BY <1>7, NothingSpent DEF CreateFresh, Requests
  <1>8. QED BY <1>2, <1>3, <1>4, <1>5, <1>6, <1>7 DEF Act

LEMMA ActRevives ==
  ASSUME TypeInv, NEW w \in Workers, Act(w)
  PROVE  Revives(local[w])
  <1> DEFINE l == local[w]
  <1>1. kc \in [Versions -> ConnectorStates] /\ l.job.name \in Versions
    BY HeldTypes DEF TypeInv, Rows
  <1>2. NoneRevives => Revives(l)
    BY DEF NoneRevives, Revives
  <1>3. CASE Restart(w) \/ LoadConfig(w) \/ Capture(w) \/ RetryProbe(w)
    <2>1. kc' = kc \/ \E u : kc' = [kc EXCEPT ![u] = "RUNNING"] /\ kc[u] \in Live
      BY <1>3 DEF Restart, LoadConfig, Capture, RetryProbe, cluster
    <2>2. QED BY <1>1, <1>2, <2>1 DEF NoneRevives
  <1>4. CASE StopConnector(w)
    <2>1. kc' = kc \/ \E u : kc' = [kc EXCEPT ![u] = "STOPPED"]
      BY <1>4 DEF StopConnector
    <2>2. QED BY <1>1, <1>2, <2>1 DEF NoneRevives, Live
  <1>5. CASE CreateStopped(w)
    <2>1. kc' = kc \/ \E u : kc' = [kc EXCEPT ![u] = "STOPPED"]
      BY <1>5 DEF CreateStopped, Created, cluster
    <2>2. QED BY <1>1, <1>2, <2>1 DEF NoneRevives, Live
  <1>6. CASE PatchOffsets(w)
    BY <1>2, <1>6 DEF PatchOffsets, NoneRevives
  <1>7. CASE ResumeConnector(w)
    <2> DEFINE v == IF l.pc = "retryResume" THEN l.job.name ELSE Replacement(l.job)
    <2>1. l.pc \in {"resume", "retryResume"} /\ kc' \in {kc, [kc EXCEPT ![v] = "RUNNING"]}
      BY <1>7 DEF ResumeConnector
    <2>2. QED BY <1>1, <2>1 DEF Revives, Raises
  <1>8. CASE CreateFresh(w)
    <2> DEFINE v == Replacement(l.job)
    <2>1. l.pc = "createFresh" /\ kc' \in {kc, [kc EXCEPT ![v] = "RUNNING"]}
      BY <1>8 DEF CreateFresh, Created, cluster
    <2>2. QED BY <1>1, <2>1 DEF Revives, Raises
  <1>9. CASE DropOld(w)
    <2>1. \E names : Deletes(names)
      BY <1>9 DEF DropOld
    <2>2. QED BY <1>2, <2>1 DEF Deletes, Live, NoneRevives
  <1>10. QED
    BY <1>3, <1>4, <1>5, <1>6, <1>7, <1>8, <1>9 DEF Act

\* The connector to be replaced is stopped when its replacement is created.
LEMMA ActStops ==
  ASSUME TypeInv, NEW w \in Workers, Act(w), local'[w].pc \in {"create", "createFresh"}
  PROVE  kc'[local[w].job.name] \notin Live
  <1> DEFINE l == local[w]
  <1>1. kc \in [Versions -> ConnectorStates] /\ l.job.name \in Versions
    BY HeldTypes DEF TypeInv, Rows
  <1>2. l.pc \in {"stopOld", "stopForFresh"}
    BY ActLines, RestingPcs DEF ActLine, Went
  <1>3. StopConnector(w)
    BY <1>2
    DEF Act, Restart, LoadConfig, Capture, RetryProbe, CreateStopped, PatchOffsets,
        ResumeConnector, CreateFresh, DropOld
  <1>4. kc' = IF kc[l.job.name] = "ABSENT" THEN kc ELSE [kc EXCEPT ![l.job.name] = "STOPPED"]
    BY <1>2, <1>3, GotoEffect DEF StopConnector, FailedTo, Went
  <1>5. QED BY <1>1, <1>4 DEF Live

\* What a thread does outside the executors: nothing is requested, nothing comes
\* alive, and what it logs is no action.
QuietEvents ==
  {"HEALTH_FAILURE_OBSERVED", "HEALTH_FAILED_CONFIRMED", "HEALING_RECOVERED",
   "HEALING_ESCALATED", "STATE_MACHINE_ERROR"}
LoosePcs ==
  {"idle", "enqueue", "acquire", "start", "finish", "check", "observe", "confirm", "supersede",
   "logRecovered", "closeRecovered", "quarantine", "quarantineClose", "error", "refresh",
   "defer", "close"}
RestPcs == PlainPcs \ {"dropOld", "close"}
QuietRow == SameLog(row, row') \/ \E e \in QuietEvents : EventRow(row, row', e)
Roaming(w) ==
  /\ local[w].pc \in LoosePcs /\ local'[w].pc \in RestPcs /\ QuietRow
  /\ issued' = issued /\ NoneRevives
  /\ local[w].pc = "close" => row'.status = "ESCALATED" \/ uncertain'
\* The check finds a failure, or finds the replacement of a timed-out create missing.
Noticed(w) ==
  LET l == local[w]
      m == local'[w]
  IN  /\ l.pc = "check" /\ row' = row /\ Quiet /\ Carried(w, "observe")
      /\ \/ kc[l.job.name] \in Live /\ m.res # "STOPPED"
         \/ kc[l.job.name] = "STOPPED" /\ IsManagedStopped(l.job) /\ m.res = "STOPPED"
Missed(w) ==
  LET l == local[w]
  IN  /\ l.pc = "check" /\ row' = row /\ Quiet /\ Carried(w, "configRetry")
      /\ kc[l.job.name] = "ABSENT" /\ l.job.latest \in WithOffsetRetryEvents
      /\ TimeoutCount(l.job) < WithOffsetTimeoutMax
\* The observation, or the confirmation, is in the log, and the policy has decided.
Deciding(w) ==
  LET l == local[w]
      m == local'[w]
      e == IF l.pc = "observe" THEN "HEALTH_FAILURE_OBSERVED" ELSE "HEALTH_FAILED_CONFIRMED"
  IN  /\ l.pc \in {"observe", "confirm"} /\ Quiet
      /\ EventRow(row, row', e) /\ HealthLogged(w, e)
      /\ (m.pc = "confirm" /\ l.pc = "observe" /\ ~FailureConfirmed(m.job)) \/ DecidedPc(m)
\* An executor's event, the row's new name, or a request.
Logging(w) ==
  /\ Audit(w)
  /\ \E e \in EventTypes, next \in Pcs :
       /\ AuditLine(local[w].pc, e, next) /\ local[w].pc \in AuditPcs /\ Quiet
       /\ \/ EventRow(row, row', e) /\ Went(w, next) /\ row'.details = AuditDetails(local[w])
          \/ (row' = row \/ EventRow(row, row', e)) /\ Raised(w)
Renaming(w) ==
  \E next :
    /\ RenameLine(local[w].pc, next) /\ Quiet
    /\ \/ RenamedRow(row, row', local[w].job) /\ Went(w, next)
       \/ (row' = row \/ RenamedRow(row, row', local[w].job)) /\ Raised(w)
Acting(w) ==
  /\ row' = row /\ Spent(local[w].pc) /\ Revives(local[w])
  /\ \/ Raised(w) /\ local[w].pc \in DispatchPcs
     \/ \E next \in Pcs : Went(w, next) /\ ActLine(local[w].pc, next)
  /\ local'[w].pc \in {"create", "createFresh"} => kc'[local[w].job.name] \notin Live

LEMMA RestfulPcs ==
  ASSUME NEW w \in Workers, Raised(w) \/ Left(w) \/ local'[w] = Idle
  PROVE  local'[w].pc \in RestPcs
  BY RestingPcs DEF RestPcs, PlainPcs

LEMMA QuietRoams ==
  ASSUME NEW w \in Workers, Quiet, local[w].pc \in LoosePcs \ {"close"},
         local'[w].pc \in RestPcs, QuietRow
  PROVE  Roaming(w)
  BY DEF Quiet, Roaming, cluster, history, NoneRevives

LEMMA ArriveRoams ==
  ASSUME TypeInv, ControlInv, NEW w \in Workers, Arrive(w)
  PROVE  Roaming(w)
  <1>1. Quiet /\ QuietRow
    BY ArriveEffect DEF QuietRow
  <1>2. Raised(w) \/ Left(w) \/ local'[w] = Idle \/ local'[w].pc \in RestPcs
    BY ArriveEffect DEF Arrived, Carried, Went, RestPcs, PlainPcs
  <1>3. local[w].pc \in LoosePcs \ {"close"}
    BY ArriveEffect DEF Arrived, LoosePcs
  <1>4. QED BY <1>1, <1>2, <1>3, RestfulPcs, QuietRoams

LEMMA SameRowQuiet ==
  ASSUME row' = row
  PROVE  QuietRow
  BY DEF QuietRow, SameLog

LEMMA CheckKinds ==
  ASSUME TypeInv, NEW w \in Workers, Assess(w), ~Observe(w), ~Confirm(w)
  PROVE  Roaming(w) \/ Noticed(w) \/ Missed(w)
  <1> DEFINE l == local[w]
             m == local'[w]
  <1>1. l.pc = "check" /\ row' = row /\ Checked(w) /\ Quiet
    BY CheckEffect
  <1>2. ASSUME m.pc \in RestPcs PROVE Roaming(w)
    BY <1>1, <1>2, SameRowQuiet, QuietRoams DEF LoosePcs
  <1>3. CASE m.pc = "observe"
    BY <1>1, <1>3, RestingPcs, FirstStepPcs DEF Checked, Carried, Noticed
  <1>4. CASE /\ kc[l.job.name] = "ABSENT" /\ l.job.latest \in WithOffsetRetryEvents
             /\ Carried(w, FirstStep(l, DecideMissingReplacement(l.job)))
    <2> DEFINE action == DecideMissingReplacement(l.job)
    <2>1. \/ action = "RETRY_RECREATE_WITH_OFFSET" /\ TimeoutCount(l.job) < WithOffsetTimeoutMax
          \/ action = "ESCALATE"
      BY DEF DecideMissingReplacement
    <2>2. Carried(w, FirstStep(l, action))
      BY <1>4
    <2> HIDE DEF action
    <2>3. \/ m.pc \in {"refresh", "levelLimit", "escalate"}
          \/ m.pc = "configRetry" /\ action = "RETRY_RECREATE_WITH_OFFSET"
      BY <2>1, <2>2, FirstStepCases DEF Carried
    <2>4. QED BY <1>1, <1>2, <1>4, <2>1, <2>2, <2>3 DEF RestPcs, PlainPcs, Missed, Carried
  <1>5. QED
    BY <1>1, <1>2, <1>3, <1>4, RestfulPcs DEF Checked, Carried, RestPcs, PlainPcs

LEMMA HealthKinds ==
  ASSUME TypeInv, ControlInv, NEW w \in Workers, Observe(w) \/ Confirm(w)
  PROVE  Roaming(w) \/ Deciding(w)
  <1>1. CASE Raised(w)
    <2>1. Quiet /\ local[w].pc \in LoosePcs \ {"close"} /\ QuietRow
      BY HealthRows, SameRowQuiet DEF QuietRow, QuietEvents, LoosePcs
    <2>2. QED BY <1>1, <2>1, RestfulPcs, QuietRoams
  <1>2. CASE ~Raised(w)
    BY <1>2, HealthRows DEF Deciding
  <1>3. QED BY <1>1, <1>2

LEMMA SettleRoams ==
  ASSUME TypeInv, NEW w \in Workers, Settle(w)
  PROVE  Roaming(w)
  <1>1. CASE DeleteSuperseded(w)
    <2>1. /\ local[w].pc = "supersede" /\ row' = row /\ issued' = issued
          /\ local'[w].pc = "logRecovered"
      BY <1>1, GotoEffect DEF DeleteSuperseded, history, Went
    <2>2. NoneRevives
      <3>1. \E names : Deletes(names)
        BY <1>1 DEF DeleteSuperseded
      <3>2. QED BY <3>1 DEF Deletes, Live, NoneRevives
    <2>3. QED BY <2>1, <2>2, SameRowQuiet DEF Roaming, LoosePcs, RestPcs, PlainPcs
  <1>2. CASE ~DeleteSuperseded(w)
    <2>1. Quiet /\ (row' = row \/ SettleWrite(local[w], row'))
      BY <1>2, SettleEffect DEF Reread
    <2>2. QuietRow
      BY <2>1, SameRowQuiet DEF SettleWrite, QuietRow, QuietEvents
    <2>3. Raised(w) \/ SettleMove(w) \/ Reread(w)
      BY <1>2, SettleEffect
    <2>4. Raised(w) \/ Left(w) \/ local'[w] = Idle \/ local'[w].pc \in RestPcs
      BY <2>3 DEF SettleMove, Reread, Went, RestPcs, PlainPcs
    <2>5. local[w].pc \in LoosePcs \ {"close"}
      BY <1>2, SettleEffect DEF SettleMove, Reread, LoosePcs
    <2>6. QED BY <2>1, <2>2, <2>4, <2>5, RestfulPcs, QuietRoams
  <1>3. QED BY <1>1, <1>2

LEMMA CloseRoams ==
  ASSUME TypeInv, NEW w \in Workers, Close(w)
  PROVE  Roaming(w)
  <1>1. Quiet /\ local[w].pc = "close" /\ QuietRow /\ (Went(w, "refresh") \/ Raised(w))
    BY CloseEffect DEF QuietRow
  <1>2. row'.status = "ESCALATED" \/ Raised(w)
    BY CloseEffect
  <1>3. Raised(w) => uncertain'
    BY <1>1, PcKinds DEF Raised, GuardedPcs
  <1>4. local'[w].pc \in RestPcs
    BY <1>1, RestfulPcs DEF Went, RestPcs, PlainPcs
  <1>5. QED
    BY <1>1, <1>2, <1>3, <1>4 DEF Roaming, Quiet, cluster, history, NoneRevives, LoosePcs

LEMMA StepKinds ==
  ASSUME TypeInv, ControlInv, NEW w \in Workers, Step(w)
  PROVE  \/ Roaming(w) \/ Noticed(w) \/ Missed(w) \/ Deciding(w)
         \/ Logging(w) \/ Renaming(w) \/ Acting(w)
  <1>1. CASE Arrive(w)
    BY <1>1, ArriveRoams
  <1>2. CASE Assess(w) /\ ~Observe(w) /\ ~Confirm(w)
    BY <1>2, CheckKinds
  <1>3. CASE Observe(w) \/ Confirm(w)
    BY <1>3, HealthKinds
  <1>4. CASE Audit(w)
    BY <1>4, AuditRows DEF Logging
  <1>5. CASE Rename(w)
    BY <1>5, RenameEffect DEF Renaming
  <1>6. CASE Close(w)
    BY <1>6, CloseRoams
  <1>7. CASE Act(w)
    <2>1. local[w].pc \in DispatchPcs
      BY <1>7, PcKinds
      DEF Act, Restart, LoadConfig, Capture, StopConnector, RetryProbe, CreateStopped,
          PatchOffsets, ResumeConnector, CreateFresh, DropOld, RestartPcs, WithOffsetPcs,
          RetryPcs, WithoutOffsetPcs
    <2>2. QED BY <1>7, <2>1, ActLines, ActSpends, ActRevives, ActStops DEF Acting
  <1>8. CASE Settle(w)
    BY <1>8, SettleRoams
  <1>9. QED
    BY <1>1, <1>2, <1>3, <1>4, <1>5, <1>6, <1>7, <1>8 DEF Step, Assess, Record

\* Somebody creates the incident's first connector.
Arises ==
  /\ Uncreated /\ ~Uncreated' /\ kc' = [kc EXCEPT ![0] = "RUNNING"]
  /\ UNCHANGED <<row, local, uncertain, issued, budget>>

\* The environment leaves the log alone; it may let time pass, or crash the process.
SameThread(l, m) ==
  /\ m.pc = l.pc /\ m.res = l.res /\ m.job.name = l.job.name /\ m.job.count = l.job.count
  /\ m.job.latest = l.job.latest /\ m.job.details = l.job.details
Weathered ==
  /\ issued' = issued /\ (NoneRevives \/ Arises)
  /\ row'.status = row.status /\ row'.name = row.name /\ row'.count = row.count
  /\ row'.latest = row.latest /\ row'.details = row.details
  /\ \/ /\ Crashes' = Crashes /\ uncertain' = uncertain
        /\ \A w \in Workers : SameThread(local[w], local'[w])
     \/ Crashes' = Crashes + 1 /\ ~uncertain' /\ \A w \in Workers : local'[w] = Idle

LEMMA CrashCount ==
  ASSUME TypeInv
  PROVE  Crashes \in Nat /\ budget.crash \in 0..MaxCrashes /\ MaxCrashes \in Nat
  BY IncidentAssumption DEF TypeInv, Budgets, Crashes, IncidentAssumption

LEMMA SameCrashes ==
  ASSUME budget'.crash = budget.crash
  PROVE  Crashes' = Crashes
  BY DEF Crashes

LEMMA OtherWeather ==
  ASSUME TypeInv, Environment, ~Elapse, ~Crash, ~FirstCreated
  PROVE  Weathered
  <1>1. /\ issued' = issued /\ row' = row /\ uncertain' = uncertain
        /\ budget' = budget \/ \E n : budget' = [budget EXCEPT !.stop = n]
    BY DEF Environment, ConnectorFails, ConnectorRecovers, OperatorStops, ElapseStale,
           Stabilize, history
  <1>2. budget'.crash = budget.crash
    BY <1>1 DEF TypeInv, Budgets
  <1>3. ASSUME NEW w \in Workers PROVE SameThread(local[w], local'[w])
    <2>1. local'[w] = local[w] \/ local'[w] = NoLongerWaiting(local[w])
      BY DEF Environment, ConnectorFails, ConnectorRecovers, OperatorStops, ElapseStale,
             Become, Stabilize, TypeInv
    <2>2. QED BY <2>1, HeldTypes, NoLongerWaitingFields DEF SameThread
  <1>4. NoneRevives
    <2>1. \/ kc' = kc
          \/ \E v \in Versions : \E s :
               kc' = [kc EXCEPT ![v] = s] /\ (kc[v] \in Live \/ s = "STOPPED")
      BY DEF Environment, ConnectorFails, ConnectorRecovers, OperatorStops, ElapseStale,
             Stabilize, cluster, Live
    <2>2. QED BY <2>1 DEF NoneRevives, Live, TypeInv
  <1>5. QED BY <1>1, <1>2, <1>3, <1>4, SameCrashes DEF Weathered

LEMMA EnvironmentWeather ==
  ASSUME TypeInv, Environment
  PROVE  Weathered
  <1>1. CASE Elapse
    <2>1. /\ issued' = issued /\ kc' = kc /\ uncertain' = uncertain /\ budget' = budget
          /\ local' = [w \in Workers |-> NoLongerWaiting(local[w])]
      BY <1>1 DEF Elapse, cluster
    <2>2. ASSUME NEW w \in Workers PROVE SameThread(local[w], local'[w])
      BY <2>1, HeldTypes, NoLongerWaitingFields DEF SameThread
    <2>3. QED BY <1>1, <2>1, <2>2, ElapseFields, SameCrashes DEF Weathered, NoneRevives
  <1>2. CASE Crash
    <2>1. /\ issued' = issued /\ kc' = kc /\ row' = row /\ ~uncertain'
          /\ \A w \in Workers : local'[w] = Idle
      BY <1>2 DEF Crash, cluster, history
    <2>2. budget.crash > 0 /\ budget'.crash = budget.crash - 1
      BY <1>2 DEF Crash, TypeInv, Budgets
    <2>3. Crashes' = Crashes + 1
      BY <2>2, CrashCount DEF Crashes
    <2>4. QED BY <2>1, <2>3 DEF Weathered, NoneRevives
  <1>3. CASE FirstCreated
    <2>1. 0 \in Versions
      BY IncidentAssumption DEF Versions
    <2>2. ~Uncreated'
      BY <1>3, <2>1 DEF FirstCreated, Uncreated, TypeInv
    <2>3. Arises
      BY <1>3, <2>2 DEF FirstCreated, Arises, history
    <2>4. Crashes' = Crashes
      BY <2>3 DEF Arises, Crashes
    <2>5. \A w \in Workers : SameThread(local[w], local'[w])
      BY <2>3 DEF Arises, SameThread
    <2>6. QED BY <2>3, <2>4, <2>5 DEF Weathered, Arises
  <1>4. QED BY <1>1, <1>2, <1>3, OtherWeather

\* Only Crash takes from the crash budget.
LEMMA StepCrashes ==
  ASSUME TypeInv, NEW w \in Workers, Step(w)
  PROVE  Crashes' = Crashes
  <1>1. \/ budget' = budget \/ \E n : budget' = [budget EXCEPT !.db = n]
        \/ \E n : budget' = [budget EXCEPT !.connect = n]
        \/ \E n : budget' = [budget EXCEPT !.alerts = n]
    <2>1. CASE Arrive(w)
      BY <2>1
      DEF Arrive, Notice, Enqueue, ListDue, Alerted, TryLock, Start, Finish, Taken, Write, Wrote,
          DbFault
    <2>2. CASE Assess(w)
      BY <2>2
      DEF Assess, CheckUnreachable, CheckNotCreated, CheckAdminStopped, CheckHealthy,
          CheckUnhealthy, Observe, Confirm, Write, Wrote, DbFault, ConnectFault
    <2>3. CASE Record(w)
      BY <2>3 DEF Record, Audit, Rename, Close, Write, Wrote, DbFault
    <2>4. CASE Act(w)
      <3>1. UNCHANGED budget \/ ConnectFault
        <4>1. CASE Restart(w) \/ LoadConfig(w) \/ Capture(w) \/ RetryProbe(w)
          BY <4>1 DEF Restart, LoadConfig, Capture, RetryProbe, Answered, FailedTo
        <4>2. CASE StopConnector(w) \/ PatchOffsets(w) \/ DropOld(w)
          BY <4>2 DEF StopConnector, PatchOffsets, DropOld, Deletes, Answered, FailedTo
        <4>3. CASE CreateStopped(w)
          BY <4>3 DEF CreateStopped, Answered, FailedTo
        <4>4. CASE ResumeConnector(w) \/ CreateFresh(w)
          BY <4>4 DEF ResumeConnector, CreateFresh, Answered, FailedTo
        <4>5. QED BY <2>4, <4>1, <4>2, <4>3, <4>4 DEF Act
      <3>2. QED BY <3>1 DEF ConnectFault
    <2>5. CASE Settle(w)
      BY <2>5
      DEF Settle, DeleteSuperseded, LogRecovered, CloseRecovered, Quarantine, QuarantineClose,
          LogError, Refresh, Defer, Deletes, ConnectFault, Write, Wrote, DbFault
    <2>6. QED BY <2>1, <2>2, <2>3, <2>4, <2>5 DEF Step
  <1>2. budget'.crash = budget.crash
    BY <1>1 DEF TypeInv, Budgets
  <1>3. QED BY <1>2, SameCrashes

\* The incident is open, or not yet opened, and no outcome is in doubt.
Calm == row.status \notin {"COMPLETED", "ESCALATED"} /\ ~uncertain

\* The doubt ends with the incident, or with the process.
LEMMA DoubtEnds ==
  ASSUME TypeInv, ControlInv, UncertainInv, NEW w \in Workers, Step(w), uncertain
  PROVE  uncertain' \/ row'.status = "ESCALATED"
  <1>1. local[w].pc \in HeldBackPcs
    BY DEF UncertainInv
  <1>2. CASE Arrive(w)
    BY <1>2, ArriveEffect DEF Raised
  <1>3. CASE Assess(w)
    BY <1>1, <1>3
    DEF HeldBackPcs, Assess, CheckUnreachable, CheckNotCreated, CheckAdminStopped, CheckHealthy,
        CheckUnhealthy, Observe, Confirm
  <1>4. CASE Record(w)
    BY <1>1, <1>4 DEF HeldBackPcs, Record, Audit, Rename, Close, AuditPcs
  <1>5. CASE Act(w)
    BY <1>1, <1>5
    DEF HeldBackPcs, Act, Restart, LoadConfig, Capture, StopConnector, RetryProbe,
        CreateStopped, PatchOffsets, ResumeConnector, CreateFresh, DropOld
  <1>6. CASE Settle(w)
    <2>1. ~DeleteSuperseded(w)
      BY <1>1 DEF HeldBackPcs, DeleteSuperseded
    <2>2. CASE Raised(w)
      BY <2>2 DEF Raised
    <2>3. CASE ~Raised(w)
      BY <1>6, <2>1, <2>3, SettleEffect DEF SettleMove, SettleWrite, Reread
    <2>4. QED BY <2>2, <2>3
  <1>7. QED BY <1>2, <1>3, <1>4, <1>5, <1>6 DEF Step

LEMMA CalmBefore ==
  ASSUME TypeInv, ControlInv, UncertainInv, NEW w \in Workers, Step(w), Calm'
  PROVE  Calm
  BY DoubtEnds, ClosedByControl DEF Calm

-----------------------------------------------------------------------------
(* Before the incident's first connector is created nothing else runs, and *)
(* the threads get no further than the check.                              *)

UnbornPcs == LoosePcs \ {"observe", "confirm", "close"}
UnbornInv ==
  Uncreated =>
    /\ \A v \in Versions : kc[v] \notin Live
    /\ row.name = 0 /\ row.latest \notin ManagedStoppedEvents /\ TimeoutCount(row) = 0
    /\ \A w \in Workers : local[w].pc \in UnbornPcs

\* The healer writes other origins than this one.
LEMMA StaysCreated ==
  ASSUME TypeInv, NEW w \in Workers, Step(w), Uncreated'
  PROVE  Uncreated
  <1>1. \/ offsets' = offsets
        \/ \E v : \E o \in {"none", "restored", "new"} : offsets' = [offsets EXCEPT ![v] = o]
    <2>1. CASE Act(w)
      BY <2>1
      DEF Act, Restart, LoadConfig, Capture, StopConnector, RetryProbe, CreateStopped,
          PatchOffsets, ResumeConnector, CreateFresh, DropOld, Created, cluster
    <2>2. CASE ~Act(w)
      BY <2>2, ClusterTouched DEF DeleteSuperseded, cluster
    <2>3. QED BY <2>1, <2>2
  <1>2. offsets \in [Versions -> Origins] /\ 0 \in Versions
    BY Caps DEF TypeInv, Versions
  <1>3. ASSUME NEW v, NEW o \in {"none", "restored", "new"}, offsets' = [offsets EXCEPT ![v] = o]
        PROVE  offsets[0] = "uncreated"
    BY <1>2, <1>3 DEF Uncreated
  <1>4. QED BY <1>1, <1>3 DEF Uncreated

LEMMA UnbornMoves ==
  ASSUME TypeInv, OneThread, ControlInv, UnbornInv, NEW w \in Workers, Step(w), Uncreated
  PROVE  Roaming(w) /\ local'[w].pc \in UnbornPcs
  <1> DEFINE l == local[w]
  <1>1. /\ l.pc \in UnbornPcs /\ kc[l.job.name] \notin Live
        /\ l.pc = "check" => l.job.latest \notin ManagedStoppedEvents \cup WithOffsetRetryEvents
    <2>1. l.pc \in UnbornPcs /\ kc[l.job.name] \notin Live
      BY HeldTypes DEF UnbornInv, Rows
    <2>2. l.pc = "check" => l.job.latest = row.latest
      BY DEF ControlInv, Fits, InSync, FreshPcs
    <2>3. WithOffsetRetryEvents \subseteq ManagedStoppedEvents
      BY DEF WithOffsetRetryEvents, ManagedStoppedEvents, WithOffsetFailureEvents
    <2>4. QED BY <2>1, <2>2, <2>3 DEF UnbornInv
  <1>2. ~Noticed(w) /\ ~Missed(w)
    BY <1>1 DEF Noticed, Missed, IsManagedStopped
  <1>3. ~Deciding(w) /\ ~Logging(w)
    BY <1>1 DEF Deciding, Logging, UnbornPcs, LoosePcs, AuditPcs
  <1>4. l.pc \notin DispatchPcs
    BY <1>1 DEF UnbornPcs, LoosePcs, DispatchPcs, RestartPcs, WithOffsetPcs, RetryPcs,
           WithoutOffsetPcs
  <1>5. ~Renaming(w) /\ ~Acting(w)
    BY <1>1, <1>4 DEF Renaming, RenameLine, Acting, ActLine, UnbornPcs, LoosePcs
  <1>6. Roaming(w)
    BY <1>2, <1>3, <1>5, StepKinds
  <1>7. local'[w].pc \in UnbornPcs
    <2>1. CASE Raised(w) \/ Left(w) \/ local'[w] = Idle
      BY <1>4, <2>1, RestingPcs DEF Raised, Left, Went, UnbornPcs, LoosePcs
    <2>2. CASE Arrive(w)
      BY <2>1, <2>2, ArriveEffect DEF Arrived, Carried, Went, UnbornPcs, LoosePcs
    <2>3. CASE Assess(w)
      <3>1. ~Observe(w) /\ ~Confirm(w)
        BY <1>1 DEF Observe, Confirm, UnbornPcs
      <3>2. l.pc = "check" /\ Checked(w)
        BY <2>3, <3>1, CheckEffect
      <3>3. local'[w] = Idle \/ Carried(w, "refresh")
        BY <1>1, <3>2 DEF Checked, Live, IsManagedStopped
      <3>4. QED BY <2>1, <3>3 DEF Carried, UnbornPcs, LoosePcs
    <2>4. CASE Record(w)
      BY <1>1, <2>4
      DEF Record, Audit, Rename, Close, AuditPcs, UnbornPcs, LoosePcs
    <2>5. CASE Act(w)
      BY <1>4, <2>5
      DEF Act, Restart, LoadConfig, Capture, StopConnector, RetryProbe, CreateStopped,
          PatchOffsets, ResumeConnector, CreateFresh, DropOld, DispatchPcs, RestartPcs,
          WithOffsetPcs, RetryPcs, WithoutOffsetPcs
    <2>6. CASE DeleteSuperseded(w)
      BY <2>6, GotoEffect DEF DeleteSuperseded, Went, UnbornPcs, LoosePcs
    <2>7. CASE Settle(w) /\ ~DeleteSuperseded(w)
      BY <2>1, <2>7, SettleEffect DEF SettleMove, Reread, Went, UnbornPcs, LoosePcs
    <2>8. QED BY <2>2, <2>3, <2>4, <2>5, <2>6, <2>7 DEF Step
  <1>8. QED BY <1>6, <1>7

LEMMA UnbornStep ==
  ASSUME OneThread
  PROVE  TypeInv /\ TypeInv' /\ ControlInv /\ UnbornInv /\ [Next]_vars => UnbornInv'
  <1> SUFFICES ASSUME TypeInv, TypeInv', ControlInv, UnbornInv, [Next]_vars, Uncreated'
               PROVE  UnbornInv'
    BY DEF UnbornInv
  <1>1. ASSUME NEW w \in Workers, Step(w) PROVE UnbornInv'
    <2>1. Uncreated
      BY <1>1, StaysCreated
    <2>2. Roaming(w) /\ local'[w].pc \in UnbornPcs
      BY <1>1, <2>1, UnbornMoves
    <2>3. \A v \in Versions : kc'[v] \notin Live
      BY <2>1, <2>2 DEF Roaming, NoneRevives, UnbornInv
    <2>4. row'.name = 0 /\ row'.latest \notin ManagedStoppedEvents /\ TimeoutCount(row') = 0
      <3>1. CASE SameLog(row, row')
        BY <2>1, <3>1 DEF SameLog, UnbornInv, TimeoutCount
      <3>2. CASE \E e \in QuietEvents : EventRow(row, row', e)
        <4>1. PICK e \in QuietEvents : EventRow(row, row', e)
          BY <3>2
        <4>2. e \notin ManagedStoppedEvents /\ e # "CONNECTOR_RECREATE_WITH_OFFSET_TIMEOUT"
          BY <4>1 DEF QuietEvents, ManagedStoppedEvents, WithOffsetRetryEvents,
                      WithOffsetFailureEvents
        <4>3. TimeoutCount(row') = TimeoutCount(row)
          BY <4>1, <4>2, HeldTypes DEF EventRow, Counted, TimeoutCount, Rows
        <4>4. QED BY <2>1, <4>1, <4>2, <4>3 DEF EventRow, UnbornInv
      <3>3. QED BY <2>2, <3>1, <3>2 DEF Roaming, QuietRow
    <2>5. QED BY <2>2, <2>3, <2>4 DEF UnbornInv, OneThread
  <1>2. CASE Environment
    <2>1. Weathered /\ ~Arises
      BY <1>2, EnvironmentWeather DEF Arises
    <2>2. Uncreated
      BY <1>2
      DEF Environment, ConnectorFails, ConnectorRecovers, OperatorStops, FirstCreated, Elapse,
          ElapseStale, Stabilize, Crash, cluster, Uncreated, TypeInv, Versions
    <2>3. QED
      BY <2>1, <2>2, RestingPcs
      DEF Weathered, NoneRevives, SameThread, UnbornInv, UnbornPcs, LoosePcs, TimeoutCount
  <1>3. CASE UNCHANGED vars
    BY <1>3 DEF UnbornInv, Uncreated, vars
  <1>4. QED BY <1>1, <1>2, <1>3 DEF Next

LEMMA UnbornInit == Init => UnbornInv
  <1> SUFFICES ASSUME Init, Uncreated PROVE UnbornInv
    BY DEF UnbornInv
  <1>1. row = NoRow /\ \A v \in Versions : kc[v] \notin Live
    BY Caps DEF Init, Uncreated, Live, Versions
  <1>2. "NONE" \notin ManagedStoppedEvents
    BY DEF ManagedStoppedEvents, WithOffsetFailureEvents, WithOffsetRetryEvents
  <1>3. \A w \in Workers : local[w].pc \in UnbornPcs
    BY RestingPcs DEF Init, UnbornPcs, LoosePcs
  <1>4. TimeoutCount(row) = 0
    BY <1>1 DEF NoRow, NoCounts, TimeoutCount, CountedEvents, WithOffsetRetryEvents
  <1>5. QED BY <1>1, <1>2, <1>3, <1>4 DEF UnbornInv, NoRow

LEMMA AlwaysUnborn ==
  ASSUME OneThread
  PROVE  Spec => []UnbornInv
  BY UnbornInit, AlwaysTyped, AlwaysControl, UnbornStep, PTL DEF Spec
=============================================================================
