----------------------------- MODULE MCServices -----------------------------
(* Instance of the parts behind the chat endpoint that share no state with each
   other: the chat service, the way of a question to facts, the comparison of
   fact sources, the answers in words, the collections of runbooks, the guidance
   drawn from them and the comparison of two ways to search them. A behaviour is
   one of one part: side by side they show nothing more. *)
EXTENDS AnalyticsChat, ShadowComparison, GroundedAnswer, RunbookLibrary, RunbookGuidance,
        ShadowRetrieval, MCAnswers

VARIABLE part

Parts == {"chat", "comparison", "answer", "library", "guidance", "shadow", "facts"}

services == <<part, chatVars, comparisonVars, groundedVars, libraryVars, guidanceVars,
              shadowVars, answeringVars>>

-----------------------------------------------------------------------------
(* Chat service: deployments in which every option appears *)

MCConfigs ==
    {[store |-> "memory", jev |-> "enforce", source |-> "legacy", rag |-> TRUE],
     [store |-> "redis", jev |-> "off", source |-> "dbt", rag |-> FALSE]}

-----------------------------------------------------------------------------
(* Answers in words: results with and without a tie, cut and whole, and of a
   connector with its replacement; replies that are right and replies with one
   thing changed *)

Fact(connector, count, rank, ties) ==
    [connector |-> connector, error_code |-> Missing, failure_count |-> count,
     recovered_count |-> Missing, message |-> Missing, status |-> Missing, rank |-> rank, ties |-> ties]

Result(rows, act, groups) ==
    [rows |-> rows, act |-> act, ranked |-> groups # << >>, groups |-> groups,
     connector |-> Missing, status |-> Missing]

MCPresentations ==
    LET told == [Fact("A", "1", 0, 0) EXCEPT !.error_code = "E1", !.message = "disk full"] IN
    {Result(<<Fact("A", "3", 1, 1), Fact("B", "2", 2, 2), Fact("C", "2", 2, 2)>>, "list", <<1, 2, 2>>),
     Result(<<Fact("A", "3", 1, 1), Fact("B", "2", 2, 3), Fact("C", "2", 2, 3)>>, "list",
            <<1, 2, 2, 2, 3>>),
     Result(<<Fact("A", "2", 1, 2), Fact("B", "2", 1, 2), Fact("C", "1", 2, 1)>>, "list", <<1, 1, 2>>),
     Result(<<Fact("A", "3", 0, 0), Fact("A_v2", "2", 0, 0), Fact("C", "1", 0, 0)>>, "existence", << >>),
     Result(<<[Fact("A", "2", 0, 0) EXCEPT !.recovered_count = "2", !.status = "RECOVERED"]>>,
           "list", << >>),
     [Result(<<Fact(Missing, "3", 0, 0)>>, "count", << >>) EXCEPT !.connector = "B", !.status = "FAILED"],
     [Result(<<told>>, "error_detail", << >>) EXCEPT !.connector = "A"],
     Result(<<[told EXCEPT !.message = Missing]>>, "error_code", << >>)}

MCInside == {<<"A", "A_v2">>}

Tokens == Connectors \cup Codes \cup Messages \cup Statuses \cup Words \cup {"1", "2", "3", "7"}
Toggle(set, token) == IF token \in set THEN set \ {token} ELSE set \cup {token}

Right(p, n, metric) ==
    ClaimEntity(p.rows[n], metric) \cup {Value(p.rows[n], metric), Label(metric)}

RightReply(p, chosen, metrics) ==
    [well_formed |-> TRUE,
     claims |-> {[fact |-> n, metric |-> m, text |-> Right(p, n, m)] : n \in chosen, m \in metrics},
     segments |-> {Right(p, n, m) : n \in chosen, m \in metrics}]

Renamed(set) == {(set \ {a}) \cup {b} : a \in set \cap Connectors, b \in Connectors}

(* Replies with one thing changed in a sentence, or in a claim. *)
Changed(reply) ==
    UNION {{[reply EXCEPT !.segments = (@ \ {s}) \cup {t}] : t \in Renamed(s)} : s \in reply.segments}
    \cup {[reply EXCEPT !.segments = (@ \ {s}) \cup {Toggle(s, t)}] : s \in reply.segments, t \in Tokens}
    \cup {[reply EXCEPT !.claims = (@ \ {c}) \cup {[c EXCEPT !.text = Toggle(@, t)]}] :
             c \in reply.claims, t \in Tokens}
    \cup {[reply EXCEPT !.claims = @ \cup {[c EXCEPT !.fact = 3 - @]}] : c \in reply.claims}
    \cup {[reply EXCEPT !.segments = {{t} : t \in Said(@)}], [reply EXCEPT !.claims = {}],
          [reply EXCEPT !.well_formed = FALSE], reply}

MCReplies ==
    UNION {UNION {Changed(RightReply(p, chosen, metrics)) :
                     chosen \in SUBSET (1..Displayed(p)) \ {{}},
                     metrics \in {m \in SUBSET Selectors : m # {} /\ (Cardinality(m) = 1 \/ m = Metrics)}}
           : p \in MCPresentations}

-----------------------------------------------------------------------------
(* Guidance: two runbooks, a section cut into two chunks *)

MCShelf ==
    LET Section(runbook, section, lines, codes) ==
            [runbook |-> runbook, section |-> section, lines |-> lines, codes |-> codes]
    IN  <<Section(2, "recovery_steps", <<{"restart", "30", "E2"}>>, {"E1"}),
          Section(1, "symptoms", <<{"E1"}>>, {"E1"}),
          Section(2, "diagnostic_steps", <<{"inspect"}>>, {}),
          Section(1, "diagnostic_steps", <<{"inspect", "E1"}, {"30"}>>, {"E1"}),
          Section(1, "diagnostic_steps", <<{"inspect"}, {"restart"}>>, {"E1"})>>

OtherTokens == {"E1", "E2", "30", "restarted"}

Quote(i, n) ==
    [key |-> Key(MCShelf[i]), excerpt |-> MCShelf[i].lines[n], text |-> MCShelf[i].lines[n]]

MCDrafts ==
    LET quotes == UNION {{Quote(i, n) : n \in DOMAIN MCShelf[i].lines} : i \in DOMAIN MCShelf}
        good == {[citations |-> {q.key}, claims |-> {q}, answer |-> q.text] : q \in quotes}
    IN  good \cup {[r EXCEPT !.answer = Toggle(@, t)] : r \in good, t \in OtherTokens}
        \cup {[r EXCEPT !.citations = @ \cup {key}] : r \in good, key \in {Key(MCShelf[1]), Key(MCShelf[5])}}
        \cup {[citations |-> {q.key}, claims |-> {[q EXCEPT !.text = Toggle(@, t)]},
               answer |-> Toggle(q.text, t)] : q \in quotes, t \in OtherTokens}

-----------------------------------------------------------------------------

(* Shadow search: two runbooks *)

MCRankings == {<< >>, <<1>>, <<1, 2>>, <<2, 1>>}

-----------------------------------------------------------------------------

(* Chunks are interchangeable, and so are collections: initial states that
   differ in their names alone stand for each other. *)
OneOfEachKind ==
    LET first == CHOOSE k \in Collections : TRUE
        chunk == CHOOSE c \in Chunks : TRUE
    IN  /\ Held(files) # {} => chunk \in Held(files)
        /\ indexed # {} => first \in indexed
        /\ alias \in {first, Nowhere}

(* The parts a behaviour is not about stay in one of their initial states. *)
ServicesInit ==
    /\ part \in Parts
    /\ ChatInit /\ (part # "chat" => config = CHOOSE c \in Configs : TRUE)
    /\ ComparisonInit /\ (part # "comparison" => ~snapshot /\ faithful /\ source = CHOOSE r \in RowSets : TRUE)
    /\ GroundedInit
    /\ part # "answer" => attempt = 3 /\ presentation = CHOOSE p \in Presentations : TRUE
    /\ LibraryInit /\ OneOfEachKind
    /\ part # "library" => files = Empty /\ indexed = {}
    /\ GuidanceInit
    /\ part # "guidance" => ~careful /\ inquiry.purpose = "none" /\ inquiry.codes = {}
    /\ ShadowInit
    /\ AnalyticsInit
    /\ part # "facts" => question = (CHOOSE q \in Questions : TRUE) /\ prior = NoPlan

InChat ==
    /\ part = "chat"
    /\ UNCHANGED <<part, comparisonVars, groundedVars, libraryVars, guidanceVars,
                    shadowVars, answeringVars>>
InComparison ==
    /\ part = "comparison"
    /\ UNCHANGED <<part, chatVars, groundedVars, libraryVars, guidanceVars,
                    shadowVars, answeringVars>>
InAnswer ==
    /\ part = "answer"
    /\ UNCHANGED <<part, chatVars, comparisonVars, libraryVars, guidanceVars,
                    shadowVars, answeringVars>>
InLibrary ==
    /\ part = "library"
    /\ UNCHANGED <<part, chatVars, comparisonVars, groundedVars, guidanceVars, shadowVars,
                    answeringVars>>
InGuidance ==
    /\ part = "guidance"
    /\ UNCHANGED <<part, chatVars, comparisonVars, groundedVars, libraryVars, shadowVars,
                    answeringVars>>

InShadow ==
    /\ part = "shadow"
    /\ UNCHANGED <<part, chatVars, comparisonVars, groundedVars, libraryVars, guidanceVars,
                    answeringVars>>

InFacts ==
    /\ part = "facts"
    /\ UNCHANGED <<part, chatVars, comparisonVars, groundedVars, libraryVars, guidanceVars,
                    shadowVars>>

(* The next-state relations of the parts, action by action. *)
ServicesNext ==
    \/ \E r \in Requests :
          \/ InChat /\ Begin(r)
          \/ InChat /\ ReadMemory(r)
          \/ InChat /\ ReadRedis(r)
          \/ InChat /\ DropExpired(r)
          \/ InChat /\ ReadFails(r)
          \/ InChat /\ Gate(r)
          \/ InChat /\ AskWhich(r)
          \/ InChat /\ Unplanned(r)
          \/ InChat /\ PlanClear(r)
          \/ InChat /\ Execute(r)
          \/ InChat /\ Guide(r)
          \/ InChat /\ Clear(r)
          \/ InChat /\ AskRaises(r)
          \/ InChat /\ Remember(r)
          \/ InChat /\ Finish(r)
    \/ \E c \in Conversations :
          \/ InChat /\ Expire(c)
          \/ InChat /\ RedisDrops(c)
          \/ InChat /\ DeleteEndpoint(c)
    \/ \E a \in Answerers :
          \/ InComparison /\ Schedule(a)
          \/ InComparison /\ Submit(a)
          \/ InComparison /\ AnswerFromLegacy(a)
    \/ InComparison /\ StartComparison
    \/ InComparison /\ QueryDbt
    \/ InComparison /\ Recheck
    \/ InComparison /\ SourceChanges
    \/ InComparison /\ DbtBuild
    \/ InComparison /\ CloseService
    \/ InComparison /\ ShutExecutor
    \/ InAnswer /\ Accepted
    \/ InAnswer /\ Rejected
    \/ InAnswer /\ Render
    \/ InLibrary /\ EditFiles
    \/ \E s \in Scripts :
          \/ InLibrary /\ BeginSync(s)
          \/ InLibrary /\ BeginSwitch(s)
          \/ InLibrary /\ Preview(s)
          \/ InLibrary /\ Scan(s)
          \/ InLibrary /\ Upsert(s)
          \/ InLibrary /\ DeleteStale(s)
          \/ InLibrary /\ CheckPoints(s)
          \/ InLibrary /\ CheckAlias(s)
          \/ InLibrary /\ SwapAlias(s)
          \/ InLibrary /\ Fails(s)
    \/ InGuidance /\ Search
    \/ InGuidance /\ SearchFails
    \/ InGuidance /\ Retrieve
    \/ InGuidance /\ ReplyAccepted
    \/ InGuidance /\ ReplyRejected
    \/ InGuidance /\ PutTogetherAnswer
    \/ \E c \in Callers :
          \/ InShadow /\ PrimarySearch(c)
          \/ InShadow /\ SearchReturns(c)
          \/ InShadow /\ Offer(c)
    \/ InShadow /\ LoopChecks
    \/ InShadow /\ TakeJob
    \/ InShadow /\ FindsNone
    \/ InShadow /\ StartJob
    \/ InShadow /\ RunJob
    \/ InShadow /\ BeginClose
    \/ InShadow /\ EndClose
    \/ InFacts /\ Accept /\ UNCHANGED analyticsVars
    \/ InFacts /\ Correct /\ UNCHANGED analyticsVars
    \/ InFacts /\ ModelFails /\ UNCHANGED analyticsVars
    \/ InFacts /\ Compile /\ UNCHANGED analyticsVars
    \/ InFacts /\ RunStatement
    \/ InFacts /\ RunProcedure
    \/ InFacts /\ RunFails

ServicesSpec == ServicesInit /\ [][ServicesNext]_services

(* So are the threads and conversations of the chat service, answers and scripts. *)
Interchangeable ==
    UNION {Permutations(Requests), Permutations(Conversations), Permutations(Answerers),
           Permutations(Scripts)}

(* Side by side the store of contexts, the slots of the comparison, the
   collections of runbooks, the shadow queue and the selection of chunks keep
   their types and their bounds (analytics_chat.py:1192-1273, 1037-1161,
   qdrant_store.py:164-207, shadow.py:99-118, retriever.py:69-87). *)
ServicesTypeOK ==
    ChatTypeOK /\ ComparisonTypeOK /\ LibraryTypeOK /\ ShadowTypeOK /\ GuidanceTypeOK

=============================================================================
