------------------------------- MODULE MCAnswers -------------------------------
(* Instance of IncidentAnalytics: questions of each kind, the plans a model may
   answer with, and small tables. *)
EXTENDS IncidentAnalytics

Plain == [scopes |-> {}, connector |-> "none", error_code |-> "none", outcomes |-> {},
          ranks |-> FALSE, number |-> 0, ties |-> FALSE, details |-> {},
          code_words |-> FALSE, names_subject |-> TRUE, healing_log |-> FALSE]

(* "top 1 today", "top 2 with ties, last week", "the most failed, this week or
   last", "the error code of A", "severity of E2", "the healing log". *)
MCMentioned ==
    {[Plain EXCEPT !.ranks = TRUE, !.number = 1, !.scopes = {"today"}],
     [Plain EXCEPT !.ranks = TRUE, !.number = 2, !.ties = TRUE, !.scopes = {"last_week"}],
     [Plain EXCEPT !.ranks = TRUE, !.outcomes = {"FAILED"}, !.scopes = {"this_week", "last_week"}],
     [Plain EXCEPT !.connector = "A", !.code_words = TRUE, !.names_subject = FALSE],
     [Plain EXCEPT !.error_code = "E2", !.details = {"severity"},
                   !.outcomes = {"FAILED", "RECOVERED"}],
     [Plain EXCEPT !.healing_log = TRUE]}

Request == [known_fields |-> TRUE, time_scope |-> "none", filter_scope |-> "none",
            origin |-> Absent, connector |-> "none", alias |-> "none",
            error_code |-> "none", outcome |-> {}, event_type |-> "none",
            subject |-> Absent, dimensions |-> {"root_connector"},
            metrics |-> {"incident_count"}, intent |-> Absent, limit |-> 1,
            ranking |-> "none", direction |-> "desc", sort |-> "incident_count",
            tie_policy |-> Absent, comparison |-> "none", details |-> {}]

(* A right answer to a question. *)
RightRequest(q) ==
    [Request EXCEPT !.time_scope = q.time_scope, !.filter_scope = q.time_scope,
        !.origin = IF q.time_scope = "none" THEN Absent ELSE "explicit",
        !.connector = q.connector, !.error_code = q.error_code,
        !.outcome = IF q.outcome = "none" THEN {} ELSE {q.outcome},
        !.limit = IF q.limit = 0 THEN 1 ELSE q.limit,
        !.ranking = IF q.limit = 0 THEN "none" ELSE "descending",
        !.details = q.details,
        !.dimensions = IF q.asks_code THEN {"error_code"} ELSE {"root_connector"}]

Plan(request) == [well_formed |-> TRUE, guidance |-> "none", request |-> request,
                  action |-> "none", clarification |-> FALSE, inherited |-> {}]

(* What else a model may write into one field of a request. *)
Edits ==
    [known_fields : {FALSE}] \cup
    [time_scope : {Absent, "today", "last_week", "bad"}] \cup
    [filter_scope : {"none", "today", "yesterday"}] \cup
    [origin : {"inherited", "default", "unspecified", "explicit"}] \cup
    [connector : {"B", "none", "bad"}] \cup [alias : {"A", "B"}] \cup
    [error_code : {"none", "E1", "bad"}] \cup
    [outcome : {{}, {"RECOVERED"}, {"FAILED", "OPEN"}}] \cup
    [event_type : {"bad"}] \cup
    [subject : {"connector", "error", "incident", "error_signature", "bad"}] \cup
    [dimensions : {{}, {"connector"}, {"error"}, {"error_code", "outcome"}, {"bad"}}] \cup
    [metrics : {{}, {"incident_count", "average_recovery_minutes"}, {"recovery_rate"}}] \cup
    [sort : {"average_recovery_minutes", "recovery_rate"}] \cup
    [intent : {"failed_connectors", "top_error_signature", "incidents", "recovery_rate", "bad"}] \cup
    [limit : {0, 2}] \cup [ranking : {"ascending", "descending", "none", "bad"}] \cup
    [direction : {"asc"}] \cup [tie_policy : {"include_ties", "exact_limit", "bad"}] \cup
    [comparison : {"previous_period", "bad"}] \cup [details : {{}, {"severity"}, {"bad"}}]

Edited(request, edit) == [f \in DOMAIN request |-> IF f \in DOMAIN edit THEN edit[f] ELSE request[f]]

(* Right in themselves: what one of these allows, another edit may spoil. *)
Variants ==
    [limit : {2}] \cup
    [dimensions : {{}, {"connector"}, {"error"}, {"error_code", "outcome"}}] \cup
    [metrics : {{"incident_count", "average_recovery_minutes"}}] \cup
    [sort : {"average_recovery_minutes"}] \cup [comparison : {"previous_period"}] \cup
    [subject : {"incident"}]

EditedRequests(q) ==
    {Edited(Edited(RightRequest(q), e), d) : e \in Edits, d \in Variants} \cup {RightRequest(q)}

Mistakes(plan) ==
    {[plan EXCEPT !.well_formed = FALSE], [plan EXCEPT !.guidance = "needed"],
     [plan EXCEPT !.guidance = "bad"], [plan EXCEPT !.clarification = TRUE],
     [plan EXCEPT !.action = "clear_context"],
     [plan EXCEPT !.action = "clear_context", !.request = NoPlan],
     [plan EXCEPT !.clarification = TRUE, !.request = NoPlan],
     [plan EXCEPT !.guidance = "needed", !.request = NoPlan],
     [plan EXCEPT !.request = NoPlan]}

Inherits(request, names) == [Plan(request) EXCEPT !.inherited = names]

MCProposals ==
    UNION {{Plan(request) : request \in EditedRequests(q)}
           \cup Mistakes(Plan(RightRequest(q)))
           \cup {Inherits([Edited(RightRequest(q), [time_scope |-> scope]) EXCEPT
                              !.filter_scope = scope, !.origin = "inherited"], names) :
                    scope \in {"today", "yesterday"},
                    names \in {{"time_scope"}, {"filters"}, {"metrics", "time_scope"}, {"dimensions"}}}
           : q \in Questions}

MCPriors ==
    {NoPlan, ParsedRequest([Request EXCEPT !.time_scope = "today", !.filter_scope = "today"]),
     ParsedRequest([Request EXCEPT !.connector = "A", !.dimensions = {"connector"}])}

(* It is noon of a Wednesday, the eleventh day. *)
MCNow == 21
MCWeekday == 2

(* Names of connectors in lower case come before the others by collation, and after
   them by code points: A and A_v2 stand for two of them. *)
MCNames == <<"none", "A", "A_v2", "B", "E1", "E2", "ESCALATED", "FAILED", "OPEN", "RECOVERED">>
MCServiceNames == <<"B", "none", "E1", "E2", "ESCALATED", "FAILED", "OPEN", "RECOVERED", "A", "A_v2">>

Row(id, root, current, at, result, seconds, code, mentions, severity) ==
    [id |-> id, root_connector |-> root, connector |-> current, at |-> at,
     outcome |-> result, seconds |-> seconds, error_code |-> code, mentions |-> mentions,
     severity |-> severity]

(* The last three incidents recovered after 600, 601 and 602 seconds. *)
MCTables ==
    SUBSET {Row(1, "A", "A_v2", 20, "FAILED", Null, "E2", "none", "high"),
            Row(2, "B", "B", 20, "FAILED", Null, "E1", "none", "high"),
            Row(3, "A", "A", 10, "RECOVERED", 600, "none", "E2", "low"),
            Row(4, "B", "B", 8, "RECOVERED", 1200, "E2", "none", "none")}
    \cup {{Row(5, "A", "A", 10, "RECOVERED", 600, "E2", "none", "low"),
           Row(6, "B", "B", 10, "RECOVERED", 601, "E2", "none", "low"),
           Row(7, "A", "A", 9, "RECOVERED", 602, "E2", "none", "low")}}
=============================================================================
