# Formal model of the self-healing Kafka Connect service

This directory holds TLA+ specifications of the service under `src/`, the TLC
configurations that check them on small instances, and TLAPS proofs of what
matters most for every instance. Paths below are relative to
`src/src/self_healthy_kafka/` unless they start with `src/`.

## 1. The system

| Component | Code | State | Operations | Correct when |
|---|---|---|---|---|
| Healing state machine | `healing/db_state_machine.py` | `_healthy_since`, `_uncertain_actions`, one lock per connector name | `tick` (reconciliation), `process_connector` (alert or follow-up), the handlers of each health result | an incident is acted on at most as often as the policy allows, never inside a wait, never after its end, and ends |
| Transition policy | `healing/policy.py`, `domain/healing.py`, `healing/phases.py` | none | `decide_unhealthy` | the ladder is climbed in order and each rung is bounded |
| Executors | `healing/actions.py`, `healing/action_services/` | none | restart tasks, restart connector, recreate with offset, its retry, recreate without offset, escalate, level limit | two versions of a connector are never live together, a replacement never runs without the offsets it should have, what was done is in the log |
| Queue and log | `storage/`, `src/sql/.../sp*ConnectorHealing*.sql` | `ConnectorHealingQueue`, `ConnectorHealingLogs` | enqueue, get, update, insert log | one open row per root connector, log append-only, one confirmation per row |
| Kafka Connect client and checker | `connect/client.py`, `health/checker.py` | status circuit breaker | the REST calls, classification of a status | every failure is told as what it is |
| Scheduler and process | `main.py`, `container.py`, `startup.py`, `config.py` | periodic thread | run a pass, start, stop | passes go on after an exception |
| Webhook intake | `webhook/grafana.py`, `webhook/security.py` | bounded queue, dedup claims, follow-up timers | `submit`, worker loop, timers, `close` | an alert is processed once, a follow-up is not lost silently |
| Analytics chat | `webhook/analytics_chat.py`, `storage/conversation.py`, `semantic/outcome.py`, `semantic/jev.py` | the context of each conversation, in memory or in Redis; slots and queue of the shadow comparison | `ask`, delete a conversation, `close` | a follow-up is read against the last answer; an answer is called verified only if its queries came back whole; slots are conserved |
| Planner and SQL | `semantic/planner.py`, `webhook/analytics.py`, `semantic/tsql.py`, `semantic/presentation.py`, `semantic/evidence.py` | none | question to plan, plan to query, query to facts, facts to words | the query asks what the question says; a ranking shows the best; an answer shows what it claims |
| Runbook retrieval | `rag/`, `src/scripts/index_runbooks.py`, `promote_qdrant_collection.py`, `manage_qdrant_alias.py` | files, Qdrant collections and alias; queue of the shadow search | synchronize, promote, switch; retrieve; compose guidance; compare searches | searches miss nothing while a collection is written; guidance is supported by what it cites |
| Read-only chat API, evaluation, UI, dbt, runbooks | `webhook/chat_api.py`, `evaluation/`, `src/apps`, `src/dbt`, ... | none at run time | read-only answering and offline tools | not modelled, section 5 |

How they interact. The poller thread and the webhook workers live in one process
and call the same state machine. Each reads a *job* (a row with counters derived
from its log) with one stored procedure, tries the lock of the name in that job,
and then works on the job in memory: it writes the row and the log by further
calls and drives Kafka Connect by REST requests. SQL Server and Kafka Connect
are the only memory that survives a crash, and no transaction spans the two.
All of these threads share one Kafka Connect client and its status circuit. The
chat service runs in the HTTP threads of the webhook server and only reads the
healer's tables; it shares with other requests the context store, the slots of the
shadow comparison and the diagnostics of the searches. Collections are written by
scripts in processes of their own while the service searches them.

What is hard: jobs that are stale by the time they are used; locks named after a
name that changes; a request whose answer is lost; a crash or an exception
between a request, its log entry and the update of the row; decisions taken from
the *latest* log event, which any other entry replaces; contexts read before an answer
is made and written after it; sources that change between two snapshots of them; the
output of a language model, which may be anything and must be checked piece by
piece against the data. `PROJECT.json` lists each
of these hazards at its line with the properties that look at it.

## 2. Modules

| Module | What it is |
|---|---|
| `RecoveryPolicy` | `policy.py` and the counters of `spGetConnectorHealingQueue`, as pure operators on a job |
| `HealingIncident` | one incident: the row and its log, all versions of the connector in Kafka Connect, and any number of threads executing the state machine and the executors; its properties at the end |
| `RecoveryLadder` | the abstract promise: an incident opens once, is confirmed, climbs a bounded ladder in order, ends once |
| `HealingIncidentProofs` | any number of threads: the typing invariant, the ledger invariant, what stays true of a job while the row moves on, and the six theorems they give |
| `HealingIncidentSolo` | one thread: what it has read still describes the row; the end of an incident, the current connector and the offsets |
| `HealingIncidentLadder` | one thread: the ladder, the audit of recoveries, the live connector, the wait, and that `HealingIncident` implements `RecoveryLadder` |
| `WebhookIntake` | the webhook service: HTTP threads, deduplicator, bounded queue, workers, follow-up timers, close; its properties at the end |
| `StatusCircuit` | the circuit breaker of the Kafka Connect client, shared by any number of threads |
| `SharedStateProofs` | the proofs of the four invariants of `WebhookIntake` and of those of `StatusCircuit` |
| `AnalyticsChat` | requests of the chat service side by side, the store of conversation contexts, how an answer gets its outcome |
| `ShadowComparison` | the comparison of the legacy view with the dbt models: slots, executor, verdict, close |
| `SemanticPlanner` | from a question and any proposal of a language model to a compiled query |
| `IncidentAnalytics` | from a compiled query to facts, by the database or by the service; extends `SemanticPlanner` |
| `GroundedAnswer` | the answer in words: the backend's checks of a model's reply and its own rendering |
| `RunbookLibrary` | files, collections and alias under the indexing, promotion and alias scripts |
| `RunbookGuidance` | retrieval of sections and the checks of guidance written from them |
| `ShadowRetrieval` | the comparison of two searches: per-thread diagnostics, bounded queue, worker, close |
| `OrderLemmas` | least and greatest numbers, and the places of the members of a finite set in a strict order: what the proofs about rankings, chunks and keys share |
| `AnalyticsProofs` | the proofs of `AnalyticsChat`, `GroundedAnswer`, `ShadowComparison`, `SemanticPlanner` and `IncidentAnalytics` |
| `RunbookProofs` | the proofs of `RunbookLibrary`, `ShadowRetrieval` and `RunbookGuidance` |
| `MCHealingLive` | `HealingIncident` and `StatusCircuit` as the two parts of one run about liveness |
| `MCAnswers` | questions, proposals and tables for `IncidentAnalytics` |
| `MCServices` | the seven parts behind the chat endpoint as one run |
| `ServicesProofs` | the types and bounds of all of them, in that run |

The properties are stated in the module they are about; configurations
instantiate `HealingIncident` and `WebhookIntake` directly and the others through the
`MC` modules. There a behaviour is one of a single part, chosen at the start: the parts
share no variable, so interleaving two of them reaches no state of either that it does
not reach alone, and their sum is checked in place of their product. A definition marked `Slip` is a plausible
bug of the definition after it; it is used by no behaviour, only to confirm that
a property can fail (`mutants` in `PROJECT.json`).

### HealingIncident and the code

* `row` is the queue row together with what is derived from its log: status,
  current name (a version number, 0 for the root), level, latest event and the
  connector names in its details, a counter per event type, `wait` (the wait
  after the latest event has not passed), `deferred` (`NextAttemptAt` is ahead).
* `kc`, `offsets`: per version, the state of the connector and where it reads from.
* `local[w]`: the program counter of a thread, its copy of the job, the result
  of its check and whether an alert confirmed the failure.
* `since`, `uncertain`: `_healthy_since` and `_uncertain_actions` of the incident.
* `issued`, `cooling`: history variables for the properties; no guard reads them,
  except that `Elapse` may also fire to end `cooling`.

One action is one external call plus the in-memory work up to the next call:
`Notice`/`Enqueue` (discovery), `ListDue`, `Alerted`, `TryLock`, `Start`, the five
`Check...` actions for the five outcomes of the health check, `Observe` and
`Confirm` (`_handle_unhealthy`), `Restart`, the nine steps of the recreates, and
`Quarantine`, `LogError`, `Refresh`, `Defer` for what follows. All steps that only
write an audit entry are the one action `Audit`, driven by the tables
`RestartAudit` ... `EscalationAudit` that say which event each step logs and
where it continues. A call that raises goes through `Raise`: inside
`_dispatch_decision` it leaves the outcome uncertain and quarantines, elsewhere it
is logged as `STATE_MACHINE_ERROR`. A failing SQL call (`DbFault`) may have committed.

Abstractions. Time is two flags per wait ("has not passed yet"), so any delay
is possible; the wait of a stale job passes no later than the wait of the newer
action (`ElapseStale`). Saved offsets are captured or not. PAUSED and UNASSIGNED
are RUNNING, as for the checker. Messages, traces, SCNs and configs are left out.
A later incident of the same root is another instance. Discovery also enqueues a
connector that Connect does not have (404, `Uncreated`): its incident waits, without an
action, until somebody creates it (`FirstCreated`). One alert at a time
discovers the connector; a webhook worker that finds no open row and a healthy
connector does nothing and is not modelled.

### WebhookIntake and the code

* `claims` are the keys in `EventDeduplicator`. `Claim`, `PutAlert` and `Release`
  are the three steps of `submit`, since other HTTP threads, workers and timers run
  between them; request threads are daemons and may still claim while `close` runs. A claim may expire whenever `claim` purges, except while its
  alert is being submitted: the TTL is longer than one call of `submit`.
* `timer[n]` is the entry of `_followup_timers`: `armed`, or `fired` when its thread
  has started but has not yet removed the entry. `Arm` is `_schedule_followup`, one
  step because it holds the lock; `Untrack` is `_clear_followup`.
  `callback[c]` is a timer thread inside `_enqueue_followup`, which removes the
  entry of its connector *by name*, looks at `_stopping` and puts the event.
* `worker[w]` follows `_run_worker`: the test of `_stopping`, the `get` with its
  timeout, the removal of the timer, `process_connector`, the follow-up for the
  returned name, which may differ from the alert's.
* `closing` follows `close`: `_stopping` is set, the timers are cancelled, the
  server is shut down, sentinels are put until the queue is full.
* `puts` and `owed` are history variables: the events queued under the claim in
  force, and the follow-up the state machine asked for. No guard reads them.

Left out: authentication and framing of requests, the fields of an event that
identify it only for the log, the five-second limit of the joins (the model lets
workers take any time). What `process_connector` does is `HealingIncident`.
A process that dies loses queue, claims and timers; the row in SQL Server is what
reconciliation comes back to.

### StatusCircuit and the code

`openUntil` and `halfOpen` are `_circuit_open_until` and `_circuit_half_open`;
`client[t]` is a thread in `get_status`, whose request is answered at one moment
(`Reach`) and whose answer is handled at a later one (`ClosesCircuit`, `OpensCircuit`),
with other threads in between; an answer with an error status closes the circuit a second
time, in its handler (`ClosesAgain`), by when another thread may have opened it. `Raises` is an exception that is neither
`RequestError` nor `HTTPStatusError`: it passes both handlers and leaves `halfOpen`.
`probes` is history.

### AnalyticsChat and the code

`stored`, `expired` and `recent` are the context store: in memory an `OrderedDict` with
a bound and expiry, in Redis keys with a TTL. `req[r]` is `ask` of one HTTP thread: read the
context (`ReadMemory`, `ReadRedis`, `DropExpired`, `ReadFails`), pass the relevance gate,
plan, execute, ask the runbooks, and write the context back (`Remember`, `Clear`,
`Finish`). A result is its outcome and the classes of the queries it rests on.
A call of the store that raises may have been carried out or not (`MayRaise`), a deletion
included. `settled` is history: the turn a follow-up has to find, -1 while requests of one
conversation overlap or after a failed write, when the code promises nothing.

### ShadowComparison and the code

`free`, `holds`, `jobs` and `running` follow a slot of `_shadow_slots` from
`_schedule_shadow_comparison` through the executor to the `finally` that gives it back.
`source` is what the query returns from the legacy view now, `built` what it returned when
the dbt models were last built, `seen` the rows an answer was made from, as values that may
return to what they were: the code compares fingerprints of rows. `faithful` is whether the
models compute what the view does; those that do not may return anything, the right rows of a
query that does not touch the difference too. `changes` and `moves` count for the properties. `closing` follows `close`, in which the
executor drops what it has not started.

### SemanticPlanner, IncidentAnalytics and GroundedAnswer

A question is the set of constraints its words state: `Cues` is
`semantic_cue_contract` on what was matched. A proposal is a right plan with up to two
fields changed or a mistake of form, so that each check of `parse_semantic_plan`,
`enforce_semantic_cues` and `_validate_inheritance` is at some time the one that
refuses. `Compile` is `compile_analytics_request` and `parse_plan`.
`RunStatement` is the statement that `tsql.py` compiles with the loop that turns its rows
into facts, `RunProcedure` the stored procedure with the ranking in Python;
`FallbackAgrees` compares the two on the same table. Each side has its own rules where the
code has: the order of names (`NameOrder` is the collation, `ServiceOrder` Python's), rounding
(`Metric` averages rounded durations, `ServiceMetric` rounds the average) and when a group has
one severity (`OneSeverity`, `UniqueSeverity`). In `GroundedAnswer` a text is the
set of its sentences, a sentence the set of its tokens, and `Inside` says which name is a
part of which, since the code looks for names among the letters of a text; `Accepted` is a reply that
passes every `_validate_...` of `evidence.py`, `Render` the backend's own answer.

### RunbookLibrary, RunbookGuidance and ShadowRetrieval

`points[k]` is what a collection holds, `files` what is approved, `script[s]` a
process in `index`, `promote` or `switch`, one action per request to Qdrant, which may
end with an exception at each (`Fails`). `kept` and `exact` are history: what no
script since the last undisturbed synchronization wanted removed, and what was approved then.
`RunbookGuidance` chooses scores freely, follows `retrieve` (gate, diversification,
section coverage, context budget) and the checks of `answer_composer.py`.
`ShadowRetrieval` follows `rag/shadow.py` access by access.

## 3. Runs

Bounds common to the healing side: `MaxVersion` 2 to 4 is enough for every recreate an
incident can attempt (with offset, its retry on the same version, without
offset; after a crash one more of each, a recreate with offset on top of one without
included). `CountCap` 3 or 4 is above every threshold the
policy compares with, so saturation is never observable by the code
(`IncidentAssumption` states it). One incident and at most two threads are enough
since threads interact only through one incident's row, connectors and locks.

| Run | Bounds | Shows |
|---|---|---|
| `incident_faults` | poller; 2 Connect faults, 2 SQL faults, 1 operator stop; 2 confirmations | type, debounce, one live connector, offsets, audit of recoveries, no request inside a wait, refinement of `RecoveryLadder` |
| `incident_crash` | poller; 1 crash, 2 Connect faults, 1 SQL fault; kept base with a versioned name | attempts bounded (one more per crash, and what `Regained` allows), base kept, escalations audited, restart-only, closed stays closed, current connector never deleted |
| `incident_race` | poller and webhook worker, 1 alert, 1 Connect fault | nothing is done unconfirmed and no replacement runs without offsets, even on stale jobs |
| `incident_live` | poller; 2 Connect faults; 3 clients, 2 outages and 1 other exception for the circuit; fairness | every incident of a connector that exists ends, if no SQL call fails, no operator stops it, there is no webhook and Connect fails finitely often; one probe admitted per opening, a half-open circuit has its probe, the circuit closes again |
| `race_attempts` | two webhook workers | violated: a rung is climbed twice |
| `crash_name` | 1 crash | violated: the row names the replaced connector |
| `alert_level` | poller and webhook worker | violated: an Oracle incident hits the level limit |
| `stranded` | 1 fault of each kind; fairness | violated: an incident stays open forever |
| `webhook_intake` | 1 connector, 2 HTTP threads, 2 workers, 1 timer thread, queue of 1, 3 deliveries; fairness | type, one event per claim, no follow-up forgotten, no timer after close, alerts processed, workers stop |
| `confirmation_lost` | 1 delivery, 1 worker | violated: the follow-up of a firing alert loses its confirmation to one of the reconciliation |
| `services` | `Services.cfg`, below | the fifteen properties of the parts behind the chat endpoint |
| `plan_compiles` | the questions of `MCAnswers` | violated: "top 1 today" is accepted without a dimension and does not compile |

The six violations are disagreements between the code and its documents, comments or
tests; each is a finding in `PROJECT.json` with both lines quoted. They delimit the passing
runs: `NoActionInsideWait` is stated while fewer than two SQL calls have failed, since the
second can hide that the first logged the action, and a webhook worker gets around the wait
with one; `AttemptsBounded` allows one more attempt per crash, and where a crash hid how a
recreate ended, one WITH_OFFSET for each WITHOUT_OFFSET (`Regained`); with a crash and no kept base `OneLiveConnector` fails, with two threads `AttemptsBounded`,
`RecoveryAudited`, `ClosedStaysClosed` and `OneLiveConnector` fail, with one SQL
fault `EventuallyClosed` fails. On the chat's side the passing runs check what the code does
promise: `VerdictSound` blames faithful models only after two changes, `ClaimsShown` takes a name as
shown where no other name of the evidence contains it, `NoticeExact` counts the ties of the data
whether or not the result has them, and `FallbackAgrees` speaks of groups that rounding leaves
alone. That is why each property is checked under the
faults it withstands.

Bounds of `services`, part by part:

* chat: two requests, two conversations, three turns, a store of one entry, one failing
  store call, in two deployments that between them have every option. Two conversations
  over one entry make each save an eviction; three turns let an answer be verified,
  forgotten and asked about again.
* comparison: two answers, two slots, two sets of rows, two changes of the source and any
  number of dbt builds: the least with which rows return to what they were. The theorems of
  section 4 hold for any number.
* answer: results with a tie inside, across and after the limit of two, whole and ended within
  a rank by `exact_limit`, and one of a connector and its replacement, whose name contains the connector's; the
  right replies and every reply with one token, claim or sentence changed.
* library: two scripts at work at once (two begun in all), two collections, two chunks, one
  edit, one script that ends half way. `OneOfEachKind` and the symmetry of scripts leave
  out initial states that differ in names alone; the proofs need none of these bounds.
* guidance: five chunks of two runbooks, one section cut in two, three places and two per
  runbook, all scores up to two, a context of four lines, which is spent before, inside and
  after the last chunk selected.
* shadow: two retrievals, a queue of one, four rankings.
* facts: six kinds of questions, three plans of the turn before, every table of four incidents
  chosen so that ties, missing codes, severities and averages and the two names of a recreated
  connector occur, one table whose averages differ by seconds, two orders of names, a
  result bound of two.

`webhook_intake` uses one connector because connectors meet only in the queue and in
the name a worker returns; the three-delivery bound lets one alert be sent again
after its claim has expired while another is queued, a queue of one place makes every
put race for it, and alerts are all resolved ones since the confirmed flag matters
only to `ConfirmationKept`, which `confirmation_lost` checks with firing alerts.
That several connectors and renames change nothing is proved (section 4).

Deadlock checking is off: an incident that is closed, with nothing failing any more,
a webhook service that was closed, an answer that was published and scripts and
requests that have all run really stop.

Fairness (`FairSpec`): weak fairness of each poller's steps, because the
periodic thread survives exceptions and every call has a timeout
(`main.py:38-57`, `connect/client.py`), and of the passing of time (`Elapse`,
`Stabilize`). Nothing is assumed of webhooks, faults, or connectors: in
particular a connector may fail and recover forever. In `WebhookIntake` weak fairness
of every thread that has started a step (each is a loop or a call that returns:
`get` has a timeout, `put_nowait` never blocks, requests to Kafka Connect and SQL
Server have timeouts), and of `close` once called; deliveries, timers' intervals, the
reconciliation and the decision to stop are not fair. In `StatusCircuit` each thread's
request ends (`httpx` timeouts) and is handled, each thread asks again in its next pass,
and the cooldown passes; Kafka Connect owes nothing, so `CircuitRecovers` speaks of behaviours
where it stays reachable in the end and no request ended in another exception. The
services have no liveness property: a request that is not answered is a thread that
does not return.

## 4. Proofs

`HealingIncidentProofs` proves `TypeCorrect`: `Spec => []TypeOK`, for every value of
the constants allowed by `PolicyAssumption` and `IncidentAssumption`: any number of
threads, versions, crashes and faults. `TypeOK` alone is not inductive: a rename
takes the row to `Replacement(job)`, which is a version only because `LoadConfig`
checked it. `TypeInv` adds that a thread whose step replaces a connector has a
replacement within `Versions`; each action is one lemma.

From `LedgerInv`, of the same generality, follow three more. Its parts relate a thread's
program counter and its stale job to the row's log: past the confirmation step the confirmation
is in the log (counters never decrease, `Counted`), a step that closes as ESCALATED has a
terminal event in the log, and a job's level never exceeds the row's (the row's
level never changes; a job made by `Enqueue` has level 1):

* `ActionsConfirmed`: `ActsOnConfirmed`, no request before the confirmation is logged;
* `EscalationsAudited`: `EscalationAudited`, no ESCALATED row without its reason;
* `RestartOnlyRespected`: `RestartOnlyNotRecreated`.

And two from `ReadsInv`, which says what a job keeps of the row it was read from:

* `BaseConnectorKept`: `BaseKept`. `FirstKnown`: whoever names version 0, as the connector
  it works on or as the one it replaced, knows it as the incident's first, so that `Kept`
  protects it. It holds of every job because it holds of the row, and of the row although a
  stale thread may log the names of its own job: a job that names a replacement was read
  after the row had left version 0, to which no rename returns.
* `ConfirmedByObservations`: `Debounced`, if there are no webhook workers. A job counts at
  most the observations of the row, its own included once it is logged.

All six hold although threads race on stale jobs, so they are theorems without
any assumption on the number of threads.

`HealingIncidentSolo` and `HealingIncidentLadder` assume `OneThread`: one poller, or one
webhook worker, at work on the incident, with any number of crashes, faults, versions and
confirmations unless more is said. The hypothesis is not for convenience: with two threads
`race_attempts` and the sentences after the table above show these properties fail.
The argument has one foundation, `ControlInv`: a thread that is past its read holds a job that
still describes the row (`Fits`), because nobody else writes it; everything else says which log
entries and which connectors belong to each program counter.

* `ClosedIsFinal` (`ClosedStaysClosed`) and `CurrentConnectorKept` (`CurrentNeverDeleted`)
  follow from `ControlInv` step by step.
* `KnownOffsets` (`RunsFromKnownOffsets`) from `OffsetsInv`: a thread that is about to start a
  replacement has offsets for it or has given them up for good.
* `LadderBounded` (`AttemptsBounded`). `OrderInv` says that a rung is entered after the one
  before; `RungInv` compares the requests of the counted rungs with the counters of the log,
  one request ahead while its entry is not written; `WithInv` and `RetryInv` do the
  same for the recreate with offset and its retry, which are counted by the latest event
  and are therefore forgotten when another entry replaces it. `EarnedInv` and `UncertainInv` say
  when a rung may be taken and what an uncertain outcome holds back.
* `RecoveriesAudited` (`RecoveryAudited`) from `RecoveryInv`, and `NeverTwoLive`
  (`OneLiveConnector`) from `HeadInv` (versions above the row's name exist only while a recreate is
  at work on them) and `LiveInv`. Both speak of behaviours up to the first crash: `crash_name`
  shows what a crash between two requests leaves behind.
* `LadderImplemented` (`ImplementsLadder`), without crashes: the initial state maps to one of
  `RecoveryLadder` and every step to a step of it or to a stutter. `VerdictInv`: once a terminal
  event is logged, the attempt that logged it closes the incident or leaves its outcome in doubt.
* `WaitKept` (`NoActionInsideWait`), without crashes and without webhook workers: `WaitInv`
  follows the wait from the entry that starts it to the read that finds it passed.

`SharedStateProofs` proves the four invariants of `WebhookIntake` for any number of
connectors, threads and places in the queue:

* `IntakeTypeCorrect`: `TypeOK`, which is inductive;
* `ClaimsStandForOneEvent`: `OneEventPerClaim`, from `ClaimInv`, which adds who holds a
  claim: two threads never hold the same alert, and a held claim has no event yet;
* `FollowupsNotForgotten`: `FollowupNotForgotten`, inductive given the types: each step
  hands a follow-up from one of its places (timer, callback, queue, worker) to the next;
* `TimersStayCancelled`: `NoTimerAfterCancel`, inductive given the types.

The liveness of workers and alerts is model-checked only.

and, of `StatusCircuit`, for any number of threads, outages and other exceptions:
`CircuitTypeCorrect`; `ProbesBounded` (`OneProbePerOpening`) from `ProbeInv`, in which
the half-open flag and the count of requests since the opening say the same: it bounds the
requests admitted since the circuit last opened, while those admitted before may still be in
flight; and `ProbesEnd` (`ProbeInFlight`).

`AnalyticsProofs`, of `AnalyticsChat`, for any number of request threads, conversations,
turns, entries and failing calls of the store:

* `FollowupsFindLastAnswer` (`ContextIsLastAnswer`) and `VerifiedAnswersComplete`
  (`VerifiedMeansComplete`), both from `ChatInv`. It adds to the second that whoever is served
  has a conversation and a turn (`Begun`), and to the first that what the store would return
  agrees with `settled` while requests are being served too (`FoundIsSettled`): the write that
  makes a context uncertain is the step that says so. Which entry the store in memory evicts
  plays no part in either proof.
* `ChatTypesStay` (`ChatTypeOK`), where it does: `StoreInv` says that the order of the store
  lists what is stored, each context once (`Enumerates`), within the bound. Taking keys out,
  appending one and cutting at the bound keep that (`WithoutLists`, `AppendLists`, `KeptLists`),
  and a list without repetition is as long as its set is large (`ListLength`), so that what an
  insertion evicts is exactly what is no longer listed (`PutStore`).

Of `GroundedAnswer`: `ModelClaimsShown` (`ClaimsShown`), for any results and any
replies and any names: what `_validate_...` accepts has each claimed value in its fact and in a
sentence in which its connector is found, as a word of its own if no other name of the
evidence contains it (`UnmistakableStands`); and `NoticesExact` (`NoticeExact`) from `NoticeInv`,
for any results, those that `exact_limit` ends within a rank included: what the notice counts are
groups of the data.

Of `SemanticPlanner` and `IncidentAnalytics`, for any questions, plans before, proposals of a model, tables of
incidents, orders of names, moments and bounds:

* `QueriesAnswerQuestion` (`QueryAnswersQuestion`) from `PlanningInv`: an accepted plan is one
  of `Plans`, and whatever passes validation and enforcement compiles to a query that
  asks what the question says (`AnswersTo`) and ranks by names of the catalog (`Rankable`).
* `RankingsShowTheBest` (`TopIsTop`) from `AnsweredInv`: a verified answer of the database is
  what the statement returned. The order of ROW_NUMBER is a strict total one on the groups
  (`PrecedesOrders`, down to the names of columns), in any such order the places are a bijection
  with 1..n (`PlaceBound`, `PlaceOrder`, `PlaceTaken`), both rank filters keep with a group all
  before it (`ChosenLeads`), and so what is shown is a beginning of the order; a tie it cuts has
  more members than are listed, which is what `MarkCut` compares.
* `ServiceRanksAsDatabase` (`FallbackAgrees`) from the same invariant: the loop's rank is the number
  of values met so far, which is DENSE_RANK (`RanksCounted`), its ties are COUNT
  (`TiesCounted`), and each of its cuts is the rank filter (`CutAtRows`, `CutAtRanks`). The two
  sides order names differently: their lists have the same values place by place
  (`SameValues`, `SamePlaces`), and the same groups except within a tie that is cut
  (`WholeInBoth`). Averages are only compared where both roundings agree, which is a
  hypothesis of the property (`unrounded`), not of the model; section 5 has the rest.

`AnalyticsAssumption` names what these need of the data: each side orders names without
repetition, the service all of them, tables are finite, and the bound is positive.

Of `ShadowComparison`, for any number of answers, slots and changes:
`SlotsAreConserved` (`SlotsConserved`) from `SlotInv`, which counts slots as free, in
hand, queued or running, by the cardinality theorems; `ComparisonTypesStay`
(`ComparisonTypeOK`), which needs that count for the bound on free slots; `VerdictsAreSound`
(`VerdictSound`) from `VerdictInv`: rows read before a change are those of the source as long as
nothing has changed since (`Since`), and where faithful models differ from them, the source has
changed since, and if just once, then it differs from them too (`JobSound`), which the second
legacy query sees.

`RunbookProofs`, of `ShadowRetrieval`, for any number of threads, places in the queue,
retrievals and rankings: `ShadowTypeCorrect`, and `SearchesComparedOnce` (`ComparedOnce`) from
`ShadowInv`, which says that each retrieval is once in one place (queue, worker or
telemetry), that a job is that of its own retrieval, and that what was offered is accounted
for until the service stops.

Of `RunbookLibrary`, for any number of scripts, collections, chunks, edits and scripts
that end half way: `LibraryTypeCorrect`, `NothingGoesMissing` (`NothingMissing`) and
`SyncIsExact` (`SyncedExactly`). Neither is inductive; `LibraryInv` adds `Placed` (a
script works on a collection it prepared), `AloneIsAlone` (whoever overlaps nobody is the only
one on its collection), `KeptIsDesired` (what counts as kept is wanted by every script
about to delete), `UnsureMeanwhile` (nothing is promised of a collection that is being written)
and `HalfWay` (what a script alone has written so far is what it wants, the rest what it
found). `LibraryInv` holds in the bounds of `services` too; there only its consequences are checked.

Of `RunbookGuidance`, for any shelf of chunks, scores, purposes, replies and bounds, from
`GuidanceInv`, in which the work is done by what a selection is rather than by how it is kept:

* `SectionsStayCovered` (`SectionsCovered`). The ranked chunks are distinct, and the first is of a
  best runbook (`RankedFine`). Covering a section keeps that, and a section once covered, or
  one whose place requested sections of others hold, stays so while the next is covered
  (`CoverKeeps`, `WithSectionsCover`): what is replaced is never a requested section. Reordering is a permutation
  (`SectionsFine`), and the context budget keeps a beginning of the order, all of it unless the
  budget is spent (`BudgetKeeps`). The proof found what the check had not: a chunk of the
  strongest runbook may stand behind the requested sections of others when the budget ends, so
  that `spent` belongs to both parts of the property. The run now has a budget at which that happens.
* `GuidanceStaysSupported` (`GuidanceSupported`): a reply that is accepted has its claims, quotes and
  identifiers in the chunks it cites (`ReplySupported`), and so have the words the backend puts
  together, all of whose lines are lines that were shown (`BackendSupported`).
* `GuidanceTypes` (`GuidanceTypeOK`): the selection stays within the number of chunks and the budget.

`ServicesProofs` is about `MCServices`: `ServicesTypesStay` (`ServicesTypeOK`), from the theorems
about the types of the parts. The lemma `PartsBehaveAlone` carries them over; it holds by the
construction of `MCServices`, in which a step of one part leaves the variables of the others
alone, and says nothing of the code. The theorem assumes nothing of the constants but what the parts do.

Left to TLC, because it is out of the prover's reach: everything under fairness
(`EventuallyClosed`, `CircuitRecovers`, `AlertAnswered`, `WorkersStop`) and ENABLED. Every
invariant and every action property that a passing run checks is a theorem; those about one
thread only, or without crashes, for the behaviours named above, which are also those
their runs explore.

## 5. Findings and limits

Each run that expects a violation is explained in `PROJECT.json`. What else the modelling
showed, none of it contradicted by a document strongly enough to be a run:

* An exception other than `RequestError` and `HTTPStatusError` in `get_status` leaves
  `half_open` set, and the circuit refuses every status request from then on. `ProbeInFlight`
  and `CircuitRecovers` are therefore stated for `raised = 0`.
* `_matches_any` (`planner.py:838`) looks for the second word of a two-word term only after the
  first and raises `ValueError` when the question has them the other way round; `ask` does not
  catch it. The planner's model takes a question as mentions, so no property can see it.
* A context that could not be saved leaves an older one in place
  (`analytics_chat.py:1255-1265`); a request in flight saves its context after a deletion.
  `ContextIsLastAnswer` says for which turns the code promises anything.
* An ungrouped query on an empty table is `verified_results` with one row of zero
  (`analytics_chat.py:943-948`), although `outcome.py:33-36` has `verified_empty` for it.
* The ranking in Python does not apply "exactly the same ranking semantics as the production
  T-SQL compiler" (`analytics_chat.py:1759-1761`). It rounds an average before it ranks (`:1732`),
  the statement ranks unrounded averages of rounded durations (`tsql.py:284-290`), so that groups
  apart by less than the rounding share a rank in the one and not in the other. It differs for
  missing averages, codes and severities and in the groups it takes of a tie it cuts, and it
  cuts lists to the limit where the statement does not. `FallbackAgrees` is about the other cases;
  without its `unrounded`, TLC finds the tables of `MCAnswers` in which a rank differs.
* Rows that change and change back between an answer and the second legacy query, with dbt
  models built from those in between, are reported as a mismatch of faithful models, because
  fingerprints of rows are compared (`fact_source.py:120-127`), although the docstring promises
  not to turn "a moving source into a mismatch" (`:112`). `VerdictSound` says that it takes two
  changes; without that exception TLC finds the behaviour.
* The checks of an answer look for a name among the letters of a sentence (`evidence.py:507-519`,
  `874-875`): a claim about `orders` is accepted in a sentence that names `orders_v2` only, although
  "every cited fact" is to "be visible" (`:490`). `ClaimsShown` asks for the name as a word only
  where no other name of the evidence contains it.
* With `exact_limit` the ties the notice counts (`evidence.py:844`, from a COUNT over all groups,
  `tsql.py:196-197`) include groups that the rows do not have, while its sentence says that the
  detail table has the whole list (`catalog.py:150`). `NoticeExact` is about the number only.
* `_ensure_section_coverage` (`retriever.py:234`) leaves a requested section out when the result
  is full of requested sections of other runbooks: the exception `full` in `SectionsCovered`.
* The requested sections are put first, then the context budget cuts (`retriever.py:69-87`,
  `297-310`): when sections of other runbooks spend it, what the strongest runbook has to say is
  left out altogether, although its sections were added on purpose. The exception `spent`.
* The alias is compared and swapped in two requests (`promote_qdrant_collection.py:164-198`,
  `manage_qdrant_alias.py:72-118`): of two scripts that expect the same collection both may
  succeed. Nothing in the code says what an alias must not point to, so this half of the model has no
  property. The preview and the indexing read the files separately.
* The checks of an answer do not notice a second, wrong value beside a right one when it
  makes no claim of it; those of guidance look at numbers in claims only. `ClaimsShown` and
  `GuidanceSupported` promise no more.
* In shadow mode a failed retrieval logs the diagnostics of an older one
  (`rag/workflow.py:157-163`).

An incident whose timed-out creation never happened is escalated when the retry cannot read
the config of the missing replacement. `BUSINESS_CONTEXT.md:95-96` documents that for any
missing config, so it is no finding.

Not modelled, with the reasons in `PROJECT.json`: the read-only chat API (handlers without
state), the evaluation harness and the notebooks (offline), the user interface, dbt models and
runbooks (data and declarations). Of the modelled parts: matching of words and languages,
rendering of text, dates and SQL syntax, similarity scores, authentication, logging and
telemetry fields, start-up validation. In detail: guidance the backend puts together is without its
first paragraph (title and identifier of the runbook) and excerpts are whole lines; a
synchronization reads files and collection in one step; keys are compared in one fixed order of
columns; names differ by more than upper and lower case; times are whole seconds, and the
service's floating averages are exact numbers of which a half is rounded to even. One hazard without a property, `_healthy_since`
against the last action, is in the model: a single thread resets it before every action, and
what a second thread's stale job leaves to be stated is the comparison in the code.

## 6. What could follow

1. The planner's reading of words (`_matches_any` and the cue patterns of `planner.py`), which
   needs a model of a question as a sequence of words.
2. The evaluation harness, should its reports come to decide what is deployed: today only
   `validate_promotion_report` does, which `RunbookLibrary` has as `Allows`.
3. The liveness properties as theorems, once the prover can reason about ENABLED.
