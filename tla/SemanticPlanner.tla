---------------------------- MODULE SemanticPlanner ----------------------------
(***************************************************************************)
(* How a question becomes a query (semantic/planner.py, webhook/           *)
(* analytics.py). A language model proposes a plan, any plan; the backend  *)
(* puts in the period the question states, validates the plan, compares it *)
(* with what the question says in so many words and with the plan before,  *)
(* and lets the model correct itself once. An accepted plan is compiled    *)
(* into the query language of analytics.py and its period into a window.   *)
(*                                                                         *)
(* A question is the constraints its words state (semantic_cue_contract).  *)
(* A proposal is a correct plan with up to two things changed, so that any *)
(* check can be the one that refuses it. Names of connectors, codes and    *)
(* fields are members of small sets; malformed texts are "bad".            *)
(***************************************************************************)
EXTENDS Integers, FiniteSets

CONSTANTS
    Mentioned,   \* questions asked, each as what it mentions: see Mentions
    Priors,      \* plans of the turn before, with NoPlan
    Proposals,   \* plans the model may answer with
    NoPlan

VARIABLES
    question,    \* the constraints of the question
    prior,       \* data request of the conversation's last plan, or NoPlan
    stage,       \* "ask", "retry", "planned", "refused", "raised"
    accepted,    \* the accepted plan, or NoPlan
    query        \* the compiled query, or NoPlan

plannerVars == <<question, prior, stage, accepted, query>>

Absent == "absent"
GoodScopes == {"today", "yesterday", "last_7_days", "this_week", "last_week"}
Dimensions == {"connector", "root_connector", "error", "error_code", "outcome"}
ConnectorDimensions == {"connector", "root_connector"}
ErrorDimensions == {"error", "error_code"}
DetailFields == {"error_message", "severity"}

(* What the vocabulary of a question mentions: periods, a connector and a code by
   name, outcomes, a superlative with a number or 0 and its ties, fields to show,
   the error code of something, one of the subjects, the healing log. *)
Mentions ==
    [scopes : SUBSET GoodScopes, connector : {"none", "A"}, error_code : {"none", "E1", "E2"},
     outcomes : SUBSET {"FAILED", "RECOVERED"}, ranks : BOOLEAN, number : 0..2,
     ties : BOOLEAN, details : SUBSET DetailFields, code_words : BOOLEAN,
     names_subject : BOOLEAN, healing_log : BOOLEAN]

(* What the model answers, read as JSON: fields it leaves out are Absent, the
   values of the others anything at all. *)
PlanFields == {"well_formed", "guidance", "request", "action", "clarification", "inherited"}
RequestFields ==
    {"known_fields", "time_scope", "filter_scope", "origin", "connector", "alias", "error_code",
     "outcome", "event_type", "subject", "dimensions", "metrics", "intent", "limit", "ranking",
     "direction", "sort", "tie_policy", "comparison", "details"}

IsProposal(value) ==
    /\ value = [f \in PlanFields |-> value[f]]
    /\ value.request # NoPlan => value.request = [f \in RequestFields |-> value.request[f]]

ASSUME PlannerAssumption ==
    /\ Mentioned \subseteq Mentions
    /\ \A value \in Proposals : IsProposal(value)

(* One of a kind states a constraint, several do not. *)
Only(mentioned) == IF Cardinality(mentioned) = 1 THEN CHOOSE x \in mentioned : TRUE ELSE "none"

(* semantic_cue_contract: the constraints those words state; the limit is that
   of a descending ranking, 0 without one. *)
Cues(said) ==
    LET asks_code == said.connector # "none" /\ said.code_words IN
    [time_scope |-> Only(said.scopes), connector |-> said.connector,
     error_code |-> said.error_code, outcome |-> Only(said.outcomes),
     limit |-> IF ~said.ranks THEN 0 ELSE IF said.number = 0 THEN 1 ELSE said.number,
     ties |-> said.ranks /\ said.ties,
     details |-> IF asks_code THEN said.details \ {"error_message"} ELSE said.details,
     asks_code |-> asks_code, names_subject |-> said.names_subject,
     healing_log |-> said.healing_log]

Questions == {Cues(said) : said \in Mentioned}

-----------------------------------------------------------------------------
(* The period *)

(* _model_scope_conflicts_with_explicit_scope: a well-formed other period. *)
Conflicting(scope, expected) == scope \in GoodScopes /\ scope # expected

(* _apply_explicit_time_scope: the period the question states replaces a
   malformed or missing one, not a different one. *)
WithScope(value, q) ==
    LET request == value.request
        raw == IF request.time_scope \in {Absent, "none"} THEN request.filter_scope
               ELSE request.time_scope
    IN  IF q.time_scope = "none" \/ request = NoPlan THEN value
        ELSE IF Conflicting(raw, q.time_scope) THEN value
        ELSE [value EXCEPT !.request.time_scope = q.time_scope,
                           !.request.filter_scope = q.time_scope,
                           !.request.origin = "explicit"]

(* The scope _parse_data_request keeps: an absent one is the filter's. *)
ScopeOf(request) ==
    IF request.time_scope = Absent THEN request.filter_scope ELSE request.time_scope

OriginOf(request) ==
    IF request.origin # Absent THEN request.origin
    ELSE IF ScopeOf(request) = "none" THEN "unspecified" ELSE "default"

ValidScope(request) ==
    /\ {ScopeOf(request), request.filter_scope} \subseteq GoodScopes \cup {"none"}
    /\ request.filter_scope \in {"none", ScopeOf(request)}
    /\ OriginOf(request) \in {"explicit", "inherited", "default", "unspecified"}
    /\ (OriginOf(request) = "unspecified") <=> (ScopeOf(request) = "none")

-----------------------------------------------------------------------------
(* The data request *)

(* _validate_filters, with the aliases of the connector filter. *)
ValidFilters(request) ==
    /\ "none" \in {request.connector, request.alias}
    /\ {request.connector, request.alias} \subseteq {"none", "A", "B"}
    /\ request.error_code \in {"none", "E1", "E2"}
    /\ request.outcome \in {{}, {"FAILED"}, {"RECOVERED"}, {"ESCALATED"}, {"OPEN"}}
    /\ request.event_type \in {"none", "HEALTH_FAILED_CONFIRMED"}

ConnectorOf(request) == IF request.alias = "none" THEN request.connector ELSE request.alias

(* _derive_subject *)
DeriveSubject(dimensions) ==
    LET connectors == dimensions \cap ConnectorDimensions
        errors == dimensions \cap ErrorDimensions
    IN  IF connectors # {} /\ errors # {} THEN "incident"
        ELSE IF "root_connector" \in connectors THEN "root_connector"
        ELSE IF connectors # {} THEN "current_connector"
        ELSE IF errors # {} THEN "error_signature" ELSE "incident"

(* The subject of a request: aliases, and a connector with an error dimension
   stands for incidents. *)
SubjectOf(request) ==
    LET dims == request.dimensions
        named == IF request.subject = "connector"
                 THEN IF "root_connector" \in dims THEN "root_connector" ELSE "current_connector"
                 ELSE IF request.subject \in ErrorDimensions THEN "error_signature"
                 ELSE request.subject
    IN  IF named = Absent THEN DeriveSubject(dims)
        ELSE IF named \in {"root_connector", "current_connector"} /\ dims \cap ErrorDimensions # {}
        THEN "incident" ELSE named

(* _validate_subject_dimensions *)
ValidSubject(request) ==
    LET allowed == [incident |-> Dimensions, root_connector |-> {"root_connector"},
                    current_connector |-> {"connector"}, error_signature |-> ErrorDimensions]
        subject == SubjectOf(request)
    IN  /\ subject \in DOMAIN allowed
        /\ request.dimensions \subseteq allowed[subject]
        /\ subject # "incident" => request.dimensions # {}

(* _infer_intent *)
IntentOf(request) ==
    IF request.intent # Absent THEN request.intent
    ELSE IF request.outcome = {"FAILED"} /\ request.dimensions \cap ConnectorDimensions # {}
    THEN "failed_connectors"
    ELSE IF "recovery_rate" \in request.metrics THEN "recovery_rate"
    ELSE IF request.dimensions \cap ErrorDimensions # {} /\ request.limit = 1
    THEN "top_error_signature" ELSE "incidents"

(* _validate_intent *)
ValidIntent(request) ==
    LET intent == IntentOf(request) IN
    /\ intent \in {"failed_connectors", "incidents", "top_error_signature", "recovery_rate"}
    /\ intent = "failed_connectors" =>
          /\ SubjectOf(request) \in {"root_connector", "current_connector"}
          /\ "incident_count" \in request.metrics
          /\ request.dimensions \cap ConnectorDimensions # {}
          /\ request.outcome = {"FAILED"}
    /\ intent = "top_error_signature" =>
          /\ SubjectOf(request) = "error_signature"
          /\ "incident_count" \in request.metrics
          /\ request.dimensions \cap ErrorDimensions # {}
          /\ request.limit = 1
    /\ intent = "recovery_rate" =>
          SubjectOf(request) = "incident" /\ request.metrics = {"recovery_rate"}

TieOf(request) ==
    IF request.tie_policy # Absent THEN request.tie_policy
    ELSE IF request.ranking # "none" THEN "exact_limit" ELSE "include_ties"

(* _parse_data_request accepts. *)
ValidRequest(request) ==
    /\ request.known_fields
    /\ request.metrics # {}
    /\ request.metrics \subseteq {"incident_count", "average_recovery_minutes", "recovery_rate"}
    /\ request.dimensions \subseteq Dimensions
    /\ request.details \subseteq DetailFields
    /\ request.sort \in request.metrics
    /\ request.limit \in 1..100
    /\ request.comparison \in {"none", "previous_period"}
    /\ ValidFilters(request)
    /\ ValidScope(request)
    /\ ValidSubject(request)
    /\ ValidIntent(request)
    /\ request.ranking \in {"none", "ascending", "descending"}
    /\ request.ranking # "none" =>
          request.direction = (IF request.ranking = "descending" THEN "desc" ELSE "asc")
    /\ TieOf(request) \in {"include_ties", "exact_limit"}
    /\ TieOf(request) = "exact_limit" => request.dimensions # {}

(* ... and returns the request in one normal form. *)
ParsedRequest(request) ==
    [request EXCEPT !.intent = IntentOf(request), !.subject = SubjectOf(request),
                    !.time_scope = ScopeOf(request), !.filter_scope = ScopeOf(request),
                    !.origin = OriginOf(request), !.connector = ConnectorOf(request),
                    !.alias = "none", !.event_type = "HEALTH_FAILED_CONFIRMED",
                    !.tie_policy = TieOf(request)]

-----------------------------------------------------------------------------
(* The plan *)

(* parse_semantic_plan: exactly one of a clearing, a clarification, or a request
   for data, guidance or both. A guidance request is "none", "needed" or "bad". *)
ValidPlan(value) ==
    LET executable == value.request # NoPlan \/ value.guidance = "needed" IN
    /\ value.well_formed
    /\ value.guidance # "bad"
    /\ value.request # NoPlan => ValidRequest(value.request)
    /\ value.action \in {"none", "clear_context"}
    /\ value.action = "clear_context" => ~executable /\ ~value.clarification
    /\ value.action = "none" => (executable <=> ~value.clarification)

ParsedPlan(value) ==
    IF value.request = NoPlan THEN value
    ELSE [value EXCEPT !.request = ParsedRequest(value.request)]

Inheritable == {"metrics", "dimensions", "filters", "time_scope", "detail_fields"}

Filters(request) ==
    <<request.filter_scope, request.connector, request.error_code, request.outcome>>

(* A field of a request as inherited_fields names it. *)
FieldOf(request, name) ==
    CASE name = "metrics" -> request.metrics
      [] name = "dimensions" -> request.dimensions
      [] name = "filters" -> Filters(request)
      [] name = "time_scope" -> request.time_scope
      [] name = "detail_fields" -> request.details

(* _validate_inheritance: what a plan says it inherits, the prior plan has. *)
ValidInheritance(plan, before) ==
    plan.inherited # {} =>
        /\ before # NoPlan
        /\ plan.request # NoPlan
        /\ \A name \in plan.inherited :
              FieldOf(plan.request, name) = FieldOf(before, name)

(* _valid_inherited_time_scope *)
InheritsScopeSlip(plan, before) == before # NoPlan

InheritsScope(plan, before) ==
    /\ plan.inherited \cap {"filters", "time_scope"} # {}
    /\ before # NoPlan
    /\ before.time_scope = plan.request.time_scope

(* enforce_semantic_cues accepts: the plan keeps what the question pins down, and
   has a period only if the question or the inheritance gives it one (there is
   no default period in the catalog). *)
KeepsCues(plan, q, before) ==
    LET request == plan.request IN
    IF request = NoPlan
    THEN (q.details # {} \/ q.asks_code) => ~q.names_subject /\ before = NoPlan
    ELSE /\ q.details \subseteq request.details
         /\ ~q.healing_log
         /\ q.connector # "none" => request.connector = q.connector
         /\ q.error_code # "none" => request.error_code = q.error_code
         /\ q.asks_code => "error_code" \in request.dimensions
         /\ q.outcome # "none" => request.outcome = {q.outcome}
         /\ q.limit # 0 => request.limit = q.limit /\ request.ranking = "descending"
         /\ IF q.time_scope # "none"
            THEN request.time_scope = q.time_scope /\ request.origin = "explicit"
            ELSE \/ request.time_scope = "none" /\ request.origin = "unspecified"
                 \/ request.origin = "inherited" /\ InheritsScope(plan, before)

(* ... and decides ranking and ties by itself. *)
Enforced(plan, q) ==
    IF plan.request = NoPlan THEN plan
    ELSE [plan EXCEPT !.request.ranking = IF q.limit = 0 THEN "none" ELSE "descending",
                      !.request.tie_policy = IF q.limit # 0 /\ ~q.ties THEN "exact_limit"
                                             ELSE "include_ties"]

-----------------------------------------------------------------------------
(* The query *)

(* compile_analytics_request, into the words of analytics.py. *)
CompiledRequest(request) ==
    [group_by |-> request.dimensions, metrics |-> request.metrics,
     time_range |-> request.filter_scope, connector |-> request.connector,
     error_code |-> request.error_code, outcome |-> request.outcome,
     order_by |-> request.sort, direction |-> request.direction, limit |-> request.limit,
     comparison |-> request.comparison, details |-> request.details,
     ranking |-> request.ranking,
     tie_policy |-> IF request.ranking = "none" THEN "none" ELSE request.tie_policy]

(* parse_plan accepts. *)
ValidQuery(compiled) ==
    /\ compiled.limit \in 1..100
    /\ compiled.order_by \in compiled.metrics
    /\ compiled.ranking # "none" => compiled.tie_policy # "none"
    /\ compiled.tie_policy = "exact_limit" => compiled.group_by # {}

(* resolve_canonical_time_range, in half days before and after the noon it is now;
   Weekday days have passed since Monday. *)
Window(scope, now, weekday) ==
    LET today == now - (now % 2) IN
    CASE scope = "none" -> [from |-> -1, to |-> -1]
      [] scope = "today" -> [from |-> today, to |-> now]
      [] scope = "yesterday" -> [from |-> today - 2, to |-> today]
      [] scope = "last_7_days" -> [from |-> today - 12, to |-> today + 2]
      [] scope = "this_week" -> [from |-> today - 2 * weekday, to |-> today - 2 * weekday + 14]
      [] scope = "last_week" -> [from |-> today - 2 * weekday - 14, to |-> today - 2 * weekday]

(* compile_incident_query serves every query but comparisons. *)
RunsAsSelect(compiled) == compiled.comparison = "none"

-----------------------------------------------------------------------------
(* Planning *)

PlannerInit ==
    /\ question \in Questions
    /\ prior \in Priors
    /\ stage = "ask"
    /\ accepted = NoPlan
    /\ query = NoPlan

(* The proposals that are plans once the stated period is in them. *)
Proposed(q) ==
    {ParsedPlan(v) : v \in {v \in {WithScope(p, q) : p \in Proposals} : ValidPlan(v)}}

(* The plans that may come of a question, by the plan before. *)
Plans ==
    [q \in Questions |->
        LET proposed == Proposed(q) IN
        [before \in Priors |->
            {Enforced(v, q) : v \in {v \in proposed : /\ ValidInheritance(v, before)
                                                     /\ KeepsCues(v, q, before)}}]]

(* One call of the model whose plan stands. *)
Accept ==
    /\ stage \in {"ask", "retry"}
    /\ accepted' \in Plans[question][prior]
    /\ stage' = "planned"
    /\ UNCHANGED <<question, prior, query>>

(* Any other answer, one that is no plan included, is sent back once, with the
   reason. *)
Correct ==
    /\ stage \in {"ask", "retry"}
    /\ stage' = IF stage = "ask" THEN "retry" ELSE "refused"
    /\ UNCHANGED <<question, prior, accepted, query>>

(* A model that does not answer ends the planning, without a second call. *)
ModelFails ==
    /\ stage \in {"ask", "retry"}
    /\ stage' = "refused"
    /\ UNCHANGED <<question, prior, accepted, query>>

(* _execute_analytics compiles the request; an error of parse_plan is not caught
   there and ends the request with 503. *)
Compile ==
    /\ stage = "planned"
    /\ query = NoPlan
    /\ accepted.request # NoPlan
    /\ LET compiled == CompiledRequest(accepted.request) IN
       IF ValidQuery(compiled) THEN query' = compiled /\ UNCHANGED stage
       ELSE stage' = "raised" /\ UNCHANGED query
    /\ UNCHANGED <<question, prior, accepted>>

PlannerNext == Accept \/ Correct \/ ModelFails \/ Compile

PlannerSpec == PlannerInit /\ [][PlannerNext]_plannerVars

-----------------------------------------------------------------------------
(* Properties *)

(* Whatever the model proposes, the query asks for what the question says: its
   connector, code, outcome, details, number and ties, and its period; a question
   without a period gets none, or that of the plan before
   (planner.py:694-789, 902-943, 1000-1047, analytics.py:120-208). *)
QueryAnswersQuestion ==
    query # NoPlan =>
        /\ question.connector # "none" => query.connector = question.connector
        /\ question.error_code # "none" => query.error_code = question.error_code
        /\ question.outcome # "none" => query.outcome = {question.outcome}
        /\ question.details \subseteq query.details
        /\ question.limit # 0 =>
              /\ query.limit = question.limit
              /\ query.ranking = "descending" /\ query.direction = "desc"
              /\ query.tie_policy = "include_ties" <=> question.ties
        /\ IF question.time_scope # "none" THEN query.time_range = question.time_scope
           ELSE query.time_range = "none" \/ (prior # NoPlan /\ query.time_range = prior.time_scope)

(* A plan that was accepted and enforced compiles into a query: the validation
   of the planner leaves parse_plan nothing to refuse (planner.py:907). *)
PlanCompiles == stage # "raised"

=============================================================================
