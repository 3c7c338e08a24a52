---------------------------- MODULE GroundedAnswer ----------------------------
(***************************************************************************)
(* The answer in words to a verified result (semantic/presentation.py,     *)
(* semantic/evidence.py). A model is given the first facts of the result   *)
(* and writes an answer with a claim for each fact it uses; the backend    *)
(* checks both against the evidence, lets the model correct itself once,   *)
(* and otherwise writes the answer itself. A notice tells of facts that    *)
(* are not in the answer.                                                  *)
(*                                                                         *)
(* A text is the set of its sentences, a sentence the set of the tokens    *)
(* that matter: names, codes, messages, numerals, statuses and the words   *)
(* of Words. The code looks for names and messages in the letters and      *)
(* digits of a text, so a name is also found inside a longer one (a        *)
(* replacement is called after the connector it replaces); numbers and     *)
(* statuses are whole words. Formatting, language and the dates of a       *)
(* period are left out.                                                    *)
(***************************************************************************)
EXTENDS Integers, FiniteSets, Sequences, TLC

CONSTANTS
    Presentations,  \* verified results with their question, see PresentationOK
    Replies,        \* what the model may reply
    NoReply,
    Inside,         \* pairs of names: the first is a part of the second
    SummaryLimit    \* summary_item_limit: facts an answer is about

VARIABLES
    presentation,
    attempt,        \* 1 or 2, 3 when the backend writes the answer
    answer          \* the published answer, or NoReply

groundedVars == <<presentation, attempt, answer>>

Missing == "none"
Connectors == {"A", "A_v2", "B", "C"}
Codes == {"E1", "E2"}
EntityNames == Connectors \cup Codes
Messages == {"disk full", "timed out"}
Statuses == {"FAILED", "RECOVERED"}
Numerals == {ToString(n) : n \in 0..9}
Words == {"incidents", "recovered", "error message", "error code", "connector", "no",
          "nothing found", "currently healthy"}
Metrics == {"failure_count", "recovered_count"}
Selectors == Metrics \cup {"detail:error_message", "entity:error_code", "entity:connector_name"}

(* An item of build_evidence; Missing where the query did not ask. rank and ties
   are 0 without a ranking. *)
Facts ==
    [connector : Connectors \cup {Missing}, error_code : Codes \cup {Missing},
     failure_count : Numerals, recovered_count : Numerals \cup {Missing},
     message : Messages \cup {Missing}, status : Statuses \cup {Missing},
     rank : 0..4, ties : 0..4]

(* groups has the ranks of all groups of the data, in the order of the rows: a
   result may end within a rank (exact_limit, or the bound on rows), and counts the
   ties of a rank in the data. *)
PresentationOK(p) ==
    /\ p.rows \in Seq(Facts) /\ p.rows # << >>
    /\ p.act \in {"existence", "list", "count", "error_detail", "error_code"}
    /\ p.ranked \in BOOLEAN
    /\ p.groups \in Seq(Nat) /\ (p.ranked => Len(p.rows) <= Len(p.groups))
    /\ \A n \in DOMAIN p.rows :
          IF p.ranked
          THEN /\ p.rows[n].rank = p.groups[n]
               /\ p.rows[n].ties = Cardinality({m \in DOMAIN p.groups : p.groups[m] = p.groups[n]})
          ELSE p.rows[n].ties = 0
    /\ p.connector \in Connectors \cup {Missing}
    /\ p.status \in Statuses \cup {Missing}

ASSUME GroundedAssumption ==
    /\ SummaryLimit \in Nat \ {0}
    /\ Inside \subseteq EntityNames \X EntityNames
    /\ \A a, b, c \in EntityNames : <<a, b>> \in Inside /\ <<b, c>> \in Inside => <<a, c>> \in Inside
    /\ \A p \in Presentations : PresentationOK(p)

-----------------------------------------------------------------------------
(* What is shown *)

Displayed(p) == IF Len(p.rows) < SummaryLimit THEN Len(p.rows) ELSE SummaryLimit
Remaining(p) == Len(p.rows) - Displayed(p)
Boundary(p) == p.rows[Displayed(p)]

(* Facts of the summary that share the rank of its last. *)
ShownAtBoundary(p) ==
    Cardinality({n \in 1..Displayed(p) : p.rows[n].rank = Boundary(p).rank})

(* build_presentation_facts: a tie is cut by the end of the summary. *)
BoundaryTieTruncatedSlip(p) == Displayed(p) < Len(p.rows) /\ Boundary(p).ties > 1

BoundaryTieTruncated(p) ==
    Displayed(p) < Len(p.rows) /\ Boundary(p).ties > ShownAtBoundary(p)

(* _summary_notice *)
Notice(p) ==
    IF Remaining(p) = 0 THEN [kind |-> Missing, count |-> 0]
    ELSE IF BoundaryTieTruncated(p)
    THEN [kind |-> "tied", count |-> Boundary(p).ties - ShownAtBoundary(p)]
    ELSE [kind |-> "more", count |-> Remaining(p)]

-----------------------------------------------------------------------------
(* Checking a reply *)

Said(segments) == UNION segments

(* _canonical(name) in _canonical(text) *)
HasName(text, name) == \E token \in text : token = name \/ <<name, token>> \in Inside

(* _value_in_text *)
Shows(text, value) == IF value \in Numerals THEN value \in text ELSE HasName(text, value)

(* The value a claim stands for, Missing when the fact has no such selector. *)
Value(fact, metric) ==
    CASE metric \in Metrics -> fact[metric]
      [] metric = "detail:error_message" -> fact.message
      [] metric = "entity:error_code" -> fact.error_code
      [] metric = "entity:connector_name" -> fact.connector

Label(metric) ==
    CASE metric = "failure_count" -> "incidents" [] metric = "recovered_count" -> "recovered"
      [] metric = "detail:error_message" -> "error message"
      [] metric = "entity:error_code" -> "error code"
      [] metric = "entity:connector_name" -> "connector"

Entity(fact) == {fact.connector, fact.error_code} \ {Missing}

(* _claim_entity_values: an error message is told of its connector alone. *)
ClaimEntity(fact, metric) ==
    IF metric = "detail:error_message" THEN {fact.connector} \ {Missing} ELSE Entity(fact)

(* _validate_claim_text *)
ValidText(text, fact, metric) ==
    /\ \A name \in text \cap EntityNames : HasName(Entity(fact), name)
    /\ \A name \in ClaimEntity(fact, metric) : HasName(text, name)
    /\ Label(metric) \in text /\ Shows(text, Value(fact, metric))
    /\ metric \in Metrics /\ Value(fact, metric) # "0" => "no" \notin text

(* One claim of _validate_response. *)
ValidClaim(claim, p) ==
    /\ claim.fact \in 1..Displayed(p)
    /\ LET fact == p.rows[claim.fact] IN
       /\ claim.metric \in Selectors
       /\ Value(fact, claim.metric) # Missing
       /\ ValidText(claim.text, fact, claim.metric)
    /\ p.act = "error_code" => claim.metric = "entity:error_code"
    /\ p.act = "error_detail" => claim.metric = "detail:error_message"

(* A text mentions what a claim is about and its value. *)
Tells(text, claim, p) ==
    LET fact == p.rows[claim.fact] IN
    /\ \A name \in ClaimEntity(fact, claim.metric) : HasName(text, name)
    /\ Shows(text, Value(fact, claim.metric))

(* _validate_answer_claim_coverage: what a claim is about and its value are in
   the answer, a number or a name together in one sentence, and of two claims
   that differ in the metric alone the metric is said. *)
CoveredSlip(segments, claim, claims, p) == Tells(Said(segments), claim, p)

Covered(segments, claim, claims, p) ==
    LET fact == p.rows[claim.fact]
        same == {c \in claims : /\ Entity(p.rows[c.fact]) = Entity(fact)
                                /\ Value(p.rows[c.fact], c.metric) = Value(fact, claim.metric)}
    IN  /\ Tells(Said(segments), claim, p)
        /\ ClaimEntity(fact, claim.metric) # {} /\ claim.metric # "detail:error_message" =>
              \E s \in segments : Tells(s, claim, p)
        /\ claim.metric \in Metrics /\ Cardinality(same) > 1 =>
              Label(claim.metric) \in Said(segments)

(* _validate_answer_numbers *)
AllowedNumbers(claims, p) ==
    {Value(p.rows[c.fact], c.metric) : c \in claims}
    \cup (IF p.act \in {"error_detail", "error_code"} THEN {}
          ELSE {ToString(Len(p.rows)), ToString(Displayed(p)), ToString(Remaining(p))})
    \cup (IF p.ranked THEN UNION {{ToString(p.rows[n].rank), ToString(p.rows[n].ties)} :
                                     n \in 1..Displayed(p)}
          ELSE {})

(* _validate_answer_statuses *)
AllowedStatuses(p) == {p.rows[n].status : n \in 1..Displayed(p)} \cup {p.status}

(* _validate_answer_identifiers: a name is a part of the evidence; one that follows
   the word "connector" is that of a fact, or the one asked about. *)
Evidenced(p) == UNION {Entity(p.rows[n]) : n \in 1..Displayed(p)} \cup ({p.connector} \ {Missing})

ValidNames(segments, p) ==
    /\ \A name \in Said(segments) \cap EntityNames : HasName(Evidenced(p), name)
    /\ \A s \in segments : "connector" \in s => s \cap Connectors \subseteq Evidenced(p)

(* _validate_response *)
ValidReply(reply, p) ==
    LET said == Said(reply.segments) IN
    /\ reply.well_formed
    /\ said \cap {"nothing found", "currently healthy"} = {}
    /\ reply.claims # {}
    /\ \A claim \in reply.claims : ValidClaim(claim, p)
    /\ \A c, d \in reply.claims : c.fact = d.fact /\ c.metric = d.metric => c = d
    /\ \A claim \in reply.claims : Covered(reply.segments, claim, reply.claims, p)
    /\ said \cap Numerals \subseteq AllowedNumbers(reply.claims, p)
    /\ said \cap Statuses \subseteq AllowedStatuses(p)
    /\ ValidNames(reply.segments, p)

-----------------------------------------------------------------------------
(* The backend's own answer *)

Measures(fact) == {fact.failure_count, fact.recovered_count} \ {Missing}

(* _fact_text *)
FactText(fact, p) ==
    Entity(fact) \cup Measures(fact) \cup {Label(m) : m \in {m \in Metrics : fact[m] # Missing}}
    \cup ({fact.message} \ {Missing}) \cup (IF p.ranked THEN {ToString(fact.rank)} ELSE {})

(* _population_lead: a list of connectors, without the metadata of a ranking. *)
IsPopulation(p) ==
    /\ ~p.ranked /\ p.connector = Missing
    /\ \A n \in 1..Displayed(p) :
          p.rows[n].connector # Missing /\ p.rows[n].error_code = Missing /\ p.rows[n].message = Missing

(* _connector_value: the connector of the fact, or the one asked about. *)
ConnectorValue(fact, p) == {IF fact.connector # Missing THEN fact.connector ELSE p.connector} \ {Missing}

(* render_evidence *)
Rendered(p) ==
    LET shown == {p.rows[n] : n \in 1..Displayed(p)}
        told == {f \in shown : IF p.act = "error_detail" THEN f.message # Missing
                               ELSE f.error_code # Missing}
    IN  CASE p.act = "count" -> {{p.rows[1].failure_count, "incidents"}}
          [] p.act = "error_detail" /\ told # {} ->
                {ConnectorValue(f, p) \cup {f.message} : f \in told}
          [] p.act = "error_code" /\ told # {} ->
                {ConnectorValue(f, p) \cup {f.error_code} : f \in told}
          [] OTHER ->
                IF IsPopulation(p)
                THEN {{ToString(Len(p.rows))}} \cup {Entity(f) \cup Measures(f) : f \in shown}
                ELSE {FactText(f, p) : f \in shown}
                     \cup (IF Displayed(p) > 1 THEN {{ToString(Displayed(p))}} ELSE {})

(* _deterministic_claims *)
RenderedClaims(p) ==
    LET selectors == CASE p.act = "error_code" -> {"entity:error_code"}
                       [] p.act = "error_detail" -> {"detail:error_message"}
                       [] OTHER -> Metrics \cup {"detail:error_message"}
    IN  {[fact |-> n, metric |-> m] : n \in 1..Displayed(p), m \in selectors}
        \cap {c \in [fact : 1..Displayed(p), metric : Selectors] :
                 Value(p.rows[c.fact], c.metric) # Missing}

-----------------------------------------------------------------------------
(* Composing *)

(* AnalyticsResponseComposer, with a model or without one. *)
GroundedInit ==
    /\ presentation \in Presentations
    /\ attempt \in {1, 3}
    /\ answer = NoReply

Accepted ==
    /\ attempt < 3 /\ answer = NoReply
    /\ \E reply \in Replies :
          /\ ValidReply(reply, presentation)
          /\ answer' = [by |-> "model", segments |-> reply.segments,
                        claims |-> {[fact |-> c.fact, metric |-> c.metric] : c \in reply.claims},
                        notice |-> Notice(presentation)]
    /\ UNCHANGED <<presentation, attempt>>

(* Any other reply, and a model that fails, count as an attempt. *)
Rejected ==
    /\ attempt < 3 /\ answer = NoReply
    /\ attempt' = attempt + 1
    /\ UNCHANGED <<presentation, answer>>

Render ==
    /\ attempt = 3 /\ answer = NoReply
    /\ answer' = [by |-> "backend", segments |-> Rendered(presentation),
                  claims |-> RenderedClaims(presentation), notice |-> Notice(presentation)]
    /\ UNCHANGED <<presentation, attempt>>

GroundedNext == Accepted \/ Rejected \/ Render

GroundedSpec == GroundedInit /\ [][GroundedNext]_groundedVars

-----------------------------------------------------------------------------
(* Properties *)

(* No other name of the evidence has this one for a part. *)
Unmistakable(name, p) == \A other \in Evidenced(p) : <<name, other>> \notin Inside

(* An answer the model writes claims only values the facts have, and each measure
   it claims stands in one sentence with the name of its connector: as a word of its
   own, unless another name of the evidence has it for a part (evidence.py:380-610). *)
ClaimsShown ==
    answer # NoReply /\ answer.by = "model" =>
        \A c \in answer.claims :
            LET fact == presentation.rows[c.fact] IN
            /\ Value(fact, c.metric) # Missing
            /\ c.metric \in Metrics /\ fact.connector # Missing =>
                  \E s \in answer.segments :
                      /\ fact[c.metric] \in s /\ HasName(s, fact.connector)
                      /\ Unmistakable(fact.connector, presentation) => fact.connector \in s

(* The groups of the data that share the last rank shown and are not shown. *)
TiedBeyond(p) ==
    {m \in DOMAIN p.groups :
        p.ranked /\ m > SummaryLimit /\ p.groups[m] = p.groups[SummaryLimit]}

(* The notice counts what the answer leaves out: when it cuts a tie, the groups of
   the data that share the last rank shown, whether the result has them or not;
   otherwise the results left (presentation.py:161-246, evidence.py:833-849). *)
NoticeExact ==
    answer # NoReply =>
        LET left == {n \in DOMAIN presentation.rows : n > SummaryLimit}
            tied == TiedBeyond(presentation)
        IN  answer.notice =
              IF left = {} THEN [kind |-> Missing, count |-> 0]
              ELSE IF tied # {} THEN [kind |-> "tied", count |-> Cardinality(tied)]
              ELSE [kind |-> "more", count |-> Cardinality(left)]

=============================================================================
