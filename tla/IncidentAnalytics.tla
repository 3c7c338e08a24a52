--------------------------- MODULE IncidentAnalytics ---------------------------
(***************************************************************************)
(* How a compiled query becomes facts (webhook/analytics_chat.py,          *)
(* semantic/tsql.py, semantic/outcome.py). A query is run as one statement *)
(* that groups and ranks in the database, or, when the compiler does not   *)
(* serve it, as a procedure that returns incidents which the service       *)
(* groups and ranks itself.                                                *)
(*                                                                         *)
(* A table is a set of incidents, timed in whole seconds. Averages are in  *)
(* millionths of a minute and rates in hundredths of a percent; Null,      *)
(* below every number as in T-SQL, stands for a missing one. The database  *)
(* and the service round differently, and each has its order of names.     *)
(***************************************************************************)
EXTENDS SemanticPlanner, FiniteSetsExt, SequencesExt

CONSTANTS
    Tables,      \* incident tables a query may meet
    Now,         \* half days since the epoch of the tables, an odd number
    Weekday,     \* days since Monday
    NameOrder,   \* the names of a column, in the order of the database's collation
    ServiceOrder,\* the same names, by code points
    ResultBound  \* _MAX_EXECUTED_RESULT_ROWS and _MAX_ANALYTICS_ROWS

VARIABLES
    table,       \* the incidents the query was run on
    facts,       \* the facts of the answer, in order
    outcome      \* classify_execution of them, or "none"

analyticsVars == <<table, facts, outcome>>
answeringVars == <<plannerVars, analyticsVars>>

Null == -1
DatabaseCodes == {"E1"}   \* ORA codes, which the procedure filters itself
FinalOutcomes == {"FAILED", "RECOVERED", "ESCALATED", "OPEN"}
Names == Range(NameOrder)

(* vConnectorIncidentFacts: one row for one confirmed incident. mentions is the
   code its error message spells out, seconds its duration if it has one. *)
Incidents ==
    [id : Nat, root_connector : Names, connector : Names, at : Nat, outcome : FinalOutcomes,
     seconds : {Null} \cup Nat, error_code : Names, mentions : Names,
     severity : {"none", "high", "low"}]

ASSUME AnalyticsAssumption ==
    /\ NameOrder \in Seq(Names) /\ IsInjective(NameOrder)
    /\ ServiceOrder \in Seq(Names) /\ IsInjective(ServiceOrder) /\ Range(ServiceOrder) = Names
    /\ FinalOutcomes \subseteq Names
    /\ \A t \in Tables : t \subseteq Incidents /\ IsFiniteSet(t)
    /\ ResultBound \in Nat \ {0}

-----------------------------------------------------------------------------
(* Selecting incidents *)

InWindow(incident, window) ==
    /\ window.from # Null => window.from <= incident.at
    /\ window.to # Null => incident.at < window.to

(* The predicates of the compiled statement and of the procedure. *)
Selected(incidents, q, window) ==
    {i \in incidents :
        /\ InWindow(i, window)
        /\ q.outcome # {} => i.outcome \in q.outcome
        /\ q.connector # "none" => q.connector \in {i.root_connector, i.connector}}

(* _failure_signature: the code of the row, or the one its message spells out. *)
Signature(incident) ==
    IF incident.error_code # "none" THEN incident.error_code ELSE incident.mentions

(* What the statement groups: a ranking of error signatures leaves out incidents
   without a code. *)
StatementRows(incidents, q, window) ==
    {i \in Selected(incidents, q, window) :
        /\ q.error_code # "none" => i.error_code = q.error_code
        /\ "error" \in q.group_by => i.error_code # "none"}

(* What the procedure selects; it filters codes of the database only. *)
ProcedureRows(incidents, q, window) ==
    {i \in Selected(incidents, q, window) :
        q.error_code \in DatabaseCodes => i.error_code = q.error_code}

(* _filter_failure_code, after the rows are cut: any other code is looked for in
   the signature. *)
WithSignature(rows, q) ==
    {i \in rows : q.error_code # "none" => Signature(i) = q.error_code}

-----------------------------------------------------------------------------
(* Grouping *)

(* The columns of a dimension, in the database and in the service. *)
Column(i, field) ==
    CASE field = "connector" -> i.connector
      [] field = "root_connector" -> i.root_connector
      [] field \in ErrorDimensions -> i.error_code
      [] field = "outcome" -> i.outcome

Attribute(i, field) == IF field = "error" THEN Signature(i) ELSE Column(i, field)

(* The groups GROUP BY makes: one of everything, empty or not, without a column. *)
Grouped(rows, group_by) ==
    IF group_by = {} THEN {[key |-> << >>, rows |-> rows]}
    ELSE LET key(i) == [f \in group_by |-> Column(i, f)] IN
         {[key |-> k, rows |-> {i \in rows : key(i) = k}] : k \in {key(i) : i \in rows}}

(* The groups _aggregate makes: rows without a code are skipped. *)
Collected(rows, group_by) ==
    LET key(i) == [f \in group_by |-> Attribute(i, f)]
        kept == {i \in rows : \A f \in group_by \cap ErrorDimensions : Attribute(i, f) # "none"}
    IN  {[key |-> k, rows |-> {i \in kept : key(i) = k}] : k \in {key(i) : i \in kept}}

Recovered(rows) == {i \in rows : i.outcome = "RECOVERED"}
Timed(rows) == {i \in Recovered(rows) : i.seconds # Null}

(* a / b rounded to a whole number, a half upwards or to the even neighbour (where
   Python's round sees a half: a fraction of the two that has a binary form). *)
Nearest(a, b) == (2 * a + b) \div (2 * b)
NearestEven(a, b) ==
    LET n == Nearest(a, b) IN IF (2 * a) % (2 * b) = b /\ n % 2 = 1 THEN n - 1 ELSE n

(* CAST(DATEDIFF_BIG(second, ..) / 60.0 AS decimal(18, 2)) *)
Hundredths(incident) == Nearest(100 * incident.seconds, 60)

(* _metric_expression: rounded durations are averaged, the average is not rounded. *)
Metric(name, rows) ==
    CASE name = "incident_count" -> Cardinality(rows)
      [] name = "average_recovery_minutes" ->
            IF Timed(rows) = {} THEN Null
            ELSE (10000 * MapThenSumSet(Hundredths, Timed(rows))) \div Cardinality(Timed(rows))
      [] name = "recovery_rate" ->
            IF rows = {} THEN Null
            ELSE Nearest(10000 * Cardinality(Recovered(rows)), Cardinality(rows))

(* The metrics of _aggregate: what is rounded is the average. *)
ServiceMetric(name, rows) ==
    CASE name = "incident_count" -> Cardinality(rows)
      [] name = "average_recovery_minutes" ->
            IF Timed(rows) = {} THEN Null
            ELSE 10000 * NearestEven(100 * MapThenSumSet(LAMBDA i : i.seconds, Timed(rows)),
                                     60 * Cardinality(Timed(rows)))
      [] name = "recovery_rate" ->
            IF rows = {} THEN Null
            ELSE NearestEven(10000 * Cardinality(Recovered(rows)), Cardinality(rows))

Severities(rows) == {i.severity : i \in rows}

(* The severity the statement gives a group: that of all its incidents. *)
OneSeverity(rows) == Cardinality(Severities(rows)) = 1 /\ "none" \notin Severities(rows)

(* _unique_values looks at the incidents that have one. *)
UniqueSeverity(rows) == Cardinality(Severities(rows) \ {"none"}) = 1

Measured(groups, q) ==
    {[key |-> g.key, value |-> Metric(q.order_by, g.rows),
      count |-> Cardinality(g.rows)] : g \in groups}

MeasuredByService(groups, q) ==
    {[key |-> g.key, value |-> ServiceMetric(q.order_by, g.rows),
      count |-> Cardinality(g.rows)] : g \in groups}

-----------------------------------------------------------------------------
(* Ranking *)

Better(x, y, direction) == IF direction = "desc" THEN x > y ELSE x < y

Before(names, x, y) ==
    \E i, j \in DOMAIN names : i < j /\ names[i] = x /\ names[j] = y

ColumnOrder == <<"root_connector", "connector", "error", "error_code", "outcome">>

(* Keys in the order of their names, column by column. *)
KeyBefore(names, k, l) ==
    \E n \in DOMAIN ColumnOrder :
        /\ ColumnOrder[n] \in DOMAIN k /\ Before(names, k[ColumnOrder[n]], l[ColumnOrder[n]])
        /\ \A m \in 1..(n - 1) :
              ColumnOrder[m] \in DOMAIN k => k[ColumnOrder[m]] = l[ColumnOrder[m]]

(* The members of a set in a strict order. *)
Ordered(set, Less(_, _)) ==
    [n \in 1..Cardinality(set) |->
        CHOOSE g \in set : Cardinality({h \in set : Less(h, g)}) = n - 1]

Ranked(g, rank, ties, row) ==
    [key |-> g.key, value |-> g.value, count |-> g.count, rank |-> rank, ties |-> ties,
     row |-> row, cut |-> FALSE]

(* The window functions of the statement: DENSE_RANK over the values,
   COUNT over the equal ones, ROW_NUMBER over values and names. *)
WindowRanked(groups, direction, names) ==
    LET better(g) == {h \in groups : Better(h.value, g.value, direction)}
        equal(g) == {h \in groups : h.value = g.value}
        before(g) == better(g) \cup {h \in equal(g) : h.key # g.key /\ KeyBefore(names, h.key, g.key)}
    IN  {Ranked(g, 1 + Cardinality({h.value : h \in better(g)}), Cardinality(equal(g)),
                1 + Cardinality(before(g))) : g \in groups}

InRowOrder(ranked) == [n \in 1..Cardinality(ranked) |-> CHOOSE g \in ranked : g.row = n]

(* tie_truncated: the last value shown is shared by groups that are not. *)
MarkCutSlip(shown) == shown

MarkCut(shown) ==
    IF shown = << >> THEN shown
    ELSE LET boundary == Last(shown).value
             kept == Cardinality({i \in DOMAIN shown : shown[i].value = boundary})
         IN  [i \in DOMAIN shown |->
                [shown[i] EXCEPT !.cut = @ \/ (shown[i].value = boundary /\ shown[i].ties > kept)]]

(* The rank filter: a number of rows, or of ranks with all their ties. *)
Within(g, q) == IF q.tie_policy = "exact_limit" THEN g.row <= q.limit ELSE g.rank <= q.limit

Leading(seq, n) == SubSeq(seq, 1, IF n < Len(seq) THEN n ELSE Len(seq))

IsRanking(q) == q.group_by # {} /\ q.ranking # "none"

(* compile_incident_query, run, and _compiled_result_facts: the number of rows the
   statement returns, one more than the bound at most, and the facts of those up
   to the bound: none when one of them has no severity to tell. *)
StatementResult(incidents, q, window) ==
    LET groups == Grouped(StatementRows(incidents, q, window), q.group_by)
        ranked == WindowRanked(Measured(groups, q), q.direction, NameOrder)
        chosen == InRowOrder({g \in ranked : IsRanking(q) => Within(g, q)})
        shown == Leading(chosen, ResultBound)
        told == {g \in groups : \E n \in DOMAIN shown : shown[n].key = g.key}
        evident == "severity" \in q.details => \A g \in told : OneSeverity(g.rows)
    IN  [rows |-> Len(chosen), truncated |-> Len(chosen) > ResultBound,
         facts |-> IF ~evident THEN << >>
                   ELSE IF IsRanking(q) /\ q.tie_policy = "exact_limit" THEN MarkCut(shown)
                   ELSE shown]

(* The loop of _aggregate over the groups in order: a rank for each new value, so
   that those within a number of ranks lead; ties are counted among the groups that
   have a value. *)
LoopRanked(ordered) ==
    LET ties(v) == IF v = Null THEN 1
                   ELSE Cardinality({i \in DOMAIN ordered : ordered[i].value = v})
        rank(i) == Cardinality({j \in 1..i : j = 1 \/ ordered[j].value # ordered[j - 1].value})
    IN  [i \in DOMAIN ordered |-> Ranked(ordered[i], rank(i), ties(ordered[i].value), i)]

(* Its order: by value, then by name; groups without a value come last, and keep
   the order of the rows there. *)
ListedBefore(g, h, direction) ==
    IF g.value = Null \/ h.value = Null
    THEN g.value # Null \/ (h.value = Null /\ KeyBefore(ServiceOrder, g.key, h.key))
    ELSE Better(g.value, h.value, direction) \/ (g.value = h.value /\ KeyBefore(ServiceOrder, g.key, h.key))

(* _aggregate *)
AggregatedSlip(rows, q) ==
    LET groups == Collected(rows, q.group_by)
        listed == Ordered(MeasuredByService(groups, q),
                          LAMBDA g, h : ListedBefore(g, h, q.direction))
        ranked == LoopRanked(listed)
        evident == "severity" \in q.details => \A g \in groups : UniqueSeverity(g.rows)
    IN  IF ~evident THEN << >>
        ELSE IF ~IsRanking(q) THEN ranked
        ELSE SelectSeq(ranked, LAMBDA g : g.rank <= q.limit)

Aggregated(rows, q) ==
    LET groups == Collected(rows, q.group_by)
        listed == Ordered(MeasuredByService(groups, q),
                          LAMBDA g, h : ListedBefore(g, h, q.direction))
        ranked == LoopRanked(listed)
        evident == "severity" \in q.details => \A g \in groups : UniqueSeverity(g.rows)
    IN  IF ~evident THEN << >>
        ELSE IF ~IsRanking(q) THEN Leading(ranked, q.limit)
        ELSE IF q.tie_policy = "exact_limit" THEN MarkCut(Leading(ranked, q.limit))
        ELSE Leading(ranked, Cardinality({n \in DOMAIN ranked : Within(ranked[n], q)}))

(* The newest incidents up to the bound, and whether there were more. *)
Fetched(rows) ==
    LET newest(i) == Cardinality({j \in rows : j.at > i.at \/ (j.at = i.at /\ j.id > i.id)})
    IN  {i \in rows : newest(i) < ResultBound}

(* classify_execution *)
Classified(rows, count, truncated) ==
    IF truncated THEN "cannot_verify"
    ELSE IF rows = 0 THEN "verified_empty"
    ELSE IF count = 0 THEN "cannot_verify" ELSE "verified_results"

-----------------------------------------------------------------------------
(* Answering *)

AnalyticsInit ==
    /\ PlannerInit
    /\ table = {}
    /\ facts = << >>
    /\ outcome = "none"

Ready == query # NoPlan /\ outcome = "none"

QueryWindow == Window(query.time_range, Now, Weekday)

(* _execute_compiled_analytics *)
RunStatement ==
    /\ Ready
    /\ RunsAsSelect(query)
    /\ table' \in Tables
    /\ LET result == StatementResult(table', query, QueryWindow) IN
       /\ outcome' = Classified(result.rows, Len(result.facts), result.truncated)
       /\ facts' = result.facts
    /\ UNCHANGED plannerVars

(* The procedure, for what is compared with the period before; the period before
   is asked for and cut in the same way, and its rows only add to truncated. *)
RunProcedure ==
    /\ Ready
    /\ ~RunsAsSelect(query)
    /\ table' \in Tables
    /\ LET selected(window) == ProcedureRows(table', query, window)
           earlier == [from |-> 2 * QueryWindow.from - QueryWindow.to, to |-> QueryWindow.from]
           kept == WithSignature(Fetched(selected(QueryWindow)), query)
           cut == \/ Cardinality(selected(QueryWindow)) > ResultBound
                  \/ query.time_range # "none" /\ Cardinality(selected(earlier)) > ResultBound
       IN  /\ facts' = Aggregated(kept, query)
           /\ outcome' = Classified(Cardinality(kept), Len(Aggregated(kept, query)), cut)
    /\ UNCHANGED plannerVars

(* The source fails: the answer is degraded. *)
RunFails ==
    /\ Ready
    /\ outcome' = "degraded"
    /\ UNCHANGED <<plannerVars, table, facts>>

AnalyticsNext ==
    \/ Accept /\ UNCHANGED analyticsVars
    \/ Correct /\ UNCHANGED analyticsVars
    \/ ModelFails /\ UNCHANGED analyticsVars
    \/ Compile /\ UNCHANGED analyticsVars
    \/ RunStatement \/ RunProcedure \/ RunFails

AnalyticsSpec == AnalyticsInit /\ [][AnalyticsNext]_answeringVars

-----------------------------------------------------------------------------
(* Properties *)

(* A verified ranking shows the best groups of the incidents asked about: no
   more than the question's number, or as many ranks; no group left out is
   better than one shown, and one as good as the last shown is left out only
   when that one says so (tsql.py:93-245, analytics_chat.py:1553-1633). *)
TopIsTop ==
    outcome = "verified_results" /\ RunsAsSelect(query) /\ IsRanking(query) =>
        LET all == Measured(Grouped(StatementRows(table, query, QueryWindow), query.group_by), query)
            shown == {facts[n].key : n \in DOMAIN facts}
            In(k) == CHOOSE g \in all : g.key = k
        IN  /\ IF question.ties
               THEN Cardinality({In(k).value : k \in shown}) <= question.limit
               ELSE Cardinality(shown) <= question.limit
            /\ \A g \in all, n \in DOMAIN facts :
                  g.key \notin shown =>
                      /\ g.value <= facts[n].value
                      /\ g.value = facts[n].value => facts[n].cut /\ ~question.ties

(* What a ranking tells place by place, and the groups no tie of which is cut. *)
ByPlace(ranking) ==
    [n \in DOMAIN ranking |-> [value |-> ranking[n].value, rank |-> ranking[n].rank,
                               ties |-> ranking[n].ties, cut |-> ranking[n].cut]]
Whole(ranking) == {ranking[n].key : n \in {n \in DOMAIN ranking : ~ranking[n].cut}}

(* Both sides have all they need: codes, severities if asked for, and values. *)
Sufficient(rows, q) ==
    /\ IsRanking(q)
    /\ \A i \in rows : i.error_code # "none"
    /\ \A g \in Grouped(rows, q.group_by) :
          /\ "severity" \in q.details => OneSeverity(g.rows)
          /\ Metric(q.order_by, g.rows) # Null /\ ServiceMetric(q.order_by, g.rows) # Null

(* Groups that rounding does not set apart the service ranks as the database does:
   the same values, ranks, ties and cuts place by place, and the same groups,
   except for those of a cut tie, where each side takes the first by its own order
   of names (analytics_chat.py:1712-1784, tsql.py:173-245). *)
FallbackAgrees ==
    outcome # "none" =>
        LET rows == StatementRows(table, query, QueryWindow)
            result == StatementResult(table, query, QueryWindow)
            service == Aggregated(rows, query)
            unrounded == \A g \in Grouped(rows, query.group_by) :
                            Metric(query.order_by, g.rows) = ServiceMetric(query.order_by, g.rows)
        IN  Sufficient(rows, query) /\ unrounded /\ ~result.truncated =>
                /\ ByPlace(service) = ByPlace(result.facts)
                /\ Whole(service) = Whole(result.facts)

=============================================================================
