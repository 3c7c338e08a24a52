----------------------------- MODULE AnalyticsProofs -----------------------------
(***************************************************************************)
(* Proofs about the analytics chat service. AnalyticsChat, for any number  *)
(* of request threads, conversations, turns, entries and failing calls of  *)
(* the store: what a follow-up finds, what an answer on its way to the     *)
(* store rests on, and what the store in memory holds. GroundedAnswer, for *)
(* any results and any replies of a model: what the published words claim. *)
(* ShadowComparison, for any number of request threads, slots and changes  *)
(* of the facts: what a comparison blames and which slots are free.        *)
(* IncidentAnalytics, for any questions, any plans a model proposes and    *)
(* any tables of incidents: what the query asks, which groups a ranking    *)
(* shows, and that the service ranks as the database does.                 *)
(***************************************************************************)
EXTENDS AnalyticsChat, GroundedAnswer, ShadowComparison, IncidentAnalytics, OrderLemmas,
        SequenceTheorems

-----------------------------------------------------------------------------
(* AnalyticsChat *)

Serving ==
    [pc : RequestStates, conv : Conversations \cup {None}, turn : 0..MaxTurns,
     followup : BOOLEAN, prior : Contexts \cup {None}, result : Results, alone : BOOLEAN]

(* The types of ChatTypeOK that the proofs need. *)
ChatTypes ==
    /\ stored \in [Conversations -> Contexts \cup {None}]
    /\ expired \subseteq Conversations
    /\ req \in [Requests -> Serving]
    /\ turn \in 0..MaxTurns
    /\ settled \in [Conversations -> -1..MaxTurns]

(* Whoever serves a request has its conversation and its turn. *)
Begun ==
    \A r \in Requests :
        ~At(r, "idle") => req[r].conv \in Conversations /\ req[r].turn \in 1..MaxTurns

(* What the next question of conversation c finds. *)
FoundIn(c) == IF c \in expired THEN None ELSE stored[c]

(* ContextIsLastAnswer, while requests are served too: it is the writes that
   make a context uncertain, in the step in which they make it. *)
FoundIsSettled ==
    \A c \in Conversations :
        settled[c] # -1 =>
            IF FoundIn(c) = None THEN settled[c] = 0 ELSE FoundIn(c).turn = settled[c]

ChatInv ==
    /\ ChatTypes
    /\ Begun
    /\ FoundIsSettled
    /\ VerifiedMeansComplete

-----------------------------------------------------------------------------
(* Results *)

LEMMA NothingIsResult ==
    /\ Nothing \in Results
    /\ Idle \in Serving
    /\ Idle.pc = "idle"
BY ChatAssumption DEF Nothing, Results, Outcomes, Idle, Serving, RequestStates

(* classify_execution: verified only with no query cut, and empty only with no
   row. *)
LEMMA ExecutionSound ==
    ASSUME NEW result \in ExecutionResults
    PROVE  /\ result \in Results
           /\ result.outcome \in Verified => result.queries \cap Overflowing = {}
           /\ result.outcome = "verified_empty" => "empty" \in result.queries
<1> USE DEF Results, RowClasses, Complete, Overflowing, Outcomes, Verified, Unverified
<1>1. CASE result \in CompiledResults
  <2>1. PICK rows \in RowClasses \ {"hidden"} :
            result = [outcome |-> ClassifyExecution(rows, rows \in Overflowing),
                      queries |-> {rows}, single |-> rows = "single"]
    BY <1>1 DEF CompiledResults
  <2>2. CASE rows \in Overflowing
    BY <2>1, <2>2 DEF ClassifyExecution
  <2>3. CASE rows \notin Overflowing
    BY <2>1, <2>3 DEF ClassifyExecution
  <2> QED BY <2>2, <2>3
<1>2. CASE result \in ComparisonResults
  <2>1. PICK rows \in RowClasses, previous \in RowClasses :
            result = [outcome |-> ClassifyExecution(rows, Overflowing \cap {rows, previous} # {}),
                      queries |-> {rows, previous}, single |-> rows = "single"]
    BY <1>2 DEF ComparisonResults
  <2>2. CASE Overflowing \cap {rows, previous} # {}
    BY <2>1, <2>2 DEF ClassifyExecution
  <2>3. CASE Overflowing \cap {rows, previous} = {}
    BY <2>1, <2>3 DEF ClassifyExecution
  <2> QED BY <2>2, <2>3
<1>3. CASE result \in NoData(Unverified)
  BY <1>3 DEF NoData, Nothing
<1> QED
  BY <1>1, <1>2, <1>3 DEF ExecutionResults

LEMMA NoDataResult ==
    ASSUME NEW outcomes \in SUBSET Outcomes, NEW result \in NoData(outcomes)
    PROVE  result \in Results
BY DEF NoData, Nothing, Results

-----------------------------------------------------------------------------
(* Steps of a request that write no context *)

(* A request moves on, with a new result perhaps; contexts stay. *)
LEMMA Moves ==
    ASSUME ChatInv,
           NEW r \in Requests,
           ~At(r, "idle"),
           NEW next \in Serving,
           next.conv = req[r].conv, next.turn = req[r].turn,
           next.pc = "remember" =>
               /\ next.result.outcome \in Verified => next.result.queries \cap Overflowing = {}
               /\ next.result.outcome = "verified_empty" => "empty" \in next.result.queries,
           req' = [req EXCEPT ![r] = next],
           UNCHANGED turn
    PROVE  req' \in [Requests -> Serving] /\ Begun' /\ VerifiedMeansComplete'
<1>1. \A q \in Requests : req'[q] = IF q = r THEN next ELSE req[q]
  BY DEF ChatInv, ChatTypes
<1>2. req' \in [Requests -> Serving]
  BY DEF ChatInv, ChatTypes
<1>3. Begun'
  BY <1>1 DEF ChatInv, Begun, At
<1>4. VerifiedMeansComplete'
  BY <1>1 DEF ChatInv, VerifiedMeansComplete, At
<1> QED
  BY <1>2, <1>3, <1>4

(* A request ends. *)
LEMMA Leaves ==
    ASSUME ChatInv, NEW r \in Requests, Leave(r)
    PROVE  req' \in [Requests -> Serving] /\ Begun' /\ VerifiedMeansComplete'
<1>1. \A q \in Requests : req'[q] = IF q = r THEN Idle ELSE req[q]
  BY DEF ChatInv, ChatTypes, Leave
<1>2. req' \in [Requests -> Serving]
  BY NothingIsResult DEF ChatInv, ChatTypes, Leave
<1>3. Begun'
  BY <1>1, NothingIsResult DEF ChatInv, Begun, At
<1>4. VerifiedMeansComplete'
  BY <1>1, NothingIsResult DEF ChatInv, VerifiedMeansComplete, At
<1> QED
  BY <1>2, <1>3, <1>4

(* Nothing of a context changes. *)
LEMMA Untouched ==
    ASSUME ChatInv, UNCHANGED <<stored, expired, settled>>
    PROVE  /\ stored' \in [Conversations -> Contexts \cup {None}]
           /\ expired' \subseteq Conversations
           /\ settled' \in [Conversations -> -1..MaxTurns]
           /\ FoundIsSettled'
BY DEF ChatInv, ChatTypes, FoundIsSettled, FoundIn

(* The store forgets the context of c, which becomes what is settled. *)
LEMMA Deleted ==
    ASSUME ChatInv, NEW c \in Conversations, Delete(c),
           NEW n \in {-1, 0},
           settled' = [settled EXCEPT ![c] = n]
    PROVE  /\ stored' \in [Conversations -> Contexts \cup {None}]
           /\ expired' \subseteq Conversations
           /\ settled' \in [Conversations -> -1..MaxTurns]
           /\ FoundIsSettled'
<1> USE DEF ChatInv, ChatTypes, Delete
<1>1. settled' \in [Conversations -> -1..MaxTurns]
  BY ChatAssumption
<1>2. FoundIsSettled'
  <2> SUFFICES ASSUME NEW d \in Conversations, settled'[d] # -1
               PROVE  IF FoundIn(d)' = None THEN settled'[d] = 0 ELSE FoundIn(d)'.turn = settled'[d]
    BY DEF FoundIsSettled
  <2>1. CASE d = c
    BY <2>1 DEF FoundIn
  <2>2. CASE d # c
    <3>1. FoundIn(d)' = FoundIn(d) /\ settled'[d] = settled[d]
      BY <2>2 DEF FoundIn
    <3> QED BY <3>1 DEF FoundIsSettled
  <2> QED BY <2>1, <2>2
<1> QED
  BY <1>1, <1>2

-----------------------------------------------------------------------------
(* The steps of a request *)

LEMMA BeginKeeps ==
    ASSUME ChatInv, NEW r \in Requests, Begin(r)
    PROVE  ChatInv'
<1>1. PICK c \in Conversations, followup \in BOOLEAN :
        req' = [q \in Requests |->
                  IF q = r THEN [Idle EXCEPT !.pc = "read", !.conv = c, !.turn = turn + 1,
                                             !.followup = followup,
                                             !.alone = (InConversation(c) = {})]
                  ELSE IF q \in InConversation(c) THEN [req[q] EXCEPT !.alone = FALSE]
                  ELSE req[q]]
  BY DEF Begin
<1>2. turn + 1 \in 1..MaxTurns /\ turn' = turn + 1
  <2>1. turn < MaxTurns /\ turn' = turn + 1
    BY Zenon DEF Begin
  <2>2. turn \in 0..MaxTurns /\ MaxTurns \in Nat
    BY ChatAssumption DEF ChatInv, ChatTypes
  <2> QED BY <2>1, <2>2
<1> DEFINE new == [Idle EXCEPT !.pc = "read", !.conv = c, !.turn = turn + 1,
                               !.followup = followup, !.alone = (InConversation(c) = {})]
<1>3. new \in Serving /\ new.conv = c /\ new.turn = turn + 1 /\ new.pc = "read"
  <2>1. Idle \in Serving /\ turn + 1 \in 0..MaxTurns /\ (InConversation(c) = {}) \in BOOLEAN
    BY <1>2, NothingIsResult, ChatAssumption
  <2> QED BY <2>1 DEF Serving, RequestStates
<1>4. ASSUME NEW q \in Requests, q # r
      PROVE  /\ req'[q] \in Serving
             /\ req'[q].pc = req[q].pc /\ req'[q].conv = req[q].conv
             /\ req'[q].turn = req[q].turn /\ req'[q].result = req[q].result
  <2>1. req[q] \in Serving
    BY DEF ChatInv, ChatTypes
  <2>2. req'[q] = req[q] \/ req'[q] = [req[q] EXCEPT !.alone = FALSE]
    BY <1>1, <1>4
  <2> QED BY <2>1, <2>2 DEF Serving
<1>5. req'[r] = new
  BY <1>1, Zenon
<1> HIDE DEF new
<1>6. req' \in [Requests -> Serving]
  BY <1>1, <1>3, <1>4, <1>5
<1>7. Begun'
  BY <1>2, <1>3, <1>4, <1>5 DEF ChatInv, Begun, At
<1>8. VerifiedMeansComplete'
  BY <1>3, <1>4, <1>5 DEF ChatInv, VerifiedMeansComplete, At
<1>9. turn' \in 0..MaxTurns
  BY <1>2, ChatAssumption
<1> QED
  BY <1>6, <1>7, <1>8, <1>9, Untouched DEF ChatInv, ChatTypes, Begin, storeVars

LEMMA ReadMemoryKeeps ==
    ASSUME ChatInv, NEW r \in Requests, ReadMemory(r)
    PROVE  ChatInv'
<1> DEFINE context == IF req[r].conv \in expired THEN None ELSE stored[req[r].conv]
           next == [req[r] EXCEPT !.pc = "work", !.prior = context]
<1>1. req[r] \in Serving /\ req[r].conv \in Conversations /\ ~At(r, "idle")
  BY DEF ReadMemory, ChatInv, ChatTypes, Begun, At
<1>2. context \in Contexts \cup {None}
  BY <1>1 DEF ChatInv, ChatTypes
<1>3. req' = [req EXCEPT ![r].pc = "work", ![r].prior = context]
  BY DEF ReadMemory
<1>4. req' = [req EXCEPT ![r] = next]
  BY <1>3 DEF ChatInv, ChatTypes
<1> HIDE DEF context
<1>5. next \in Serving /\ next.conv = req[r].conv /\ next.turn = req[r].turn /\ next.pc # "remember"
  BY <1>1, <1>2 DEF Serving, RequestStates
<1> HIDE DEF next
<1>6. req' \in [Requests -> Serving] /\ Begun' /\ VerifiedMeansComplete'
  BY <1>1, <1>4, <1>5, Moves DEF ReadMemory
<1>7. stored' = [d \in Conversations |-> IF d \in expired THEN None ELSE stored[d]] /\ expired' = {}
  BY DEF ReadMemory
<1>8. \A d \in Conversations : FoundIn(d)' = FoundIn(d)
  BY <1>7 DEF FoundIn
<1>9. FoundIsSettled'
  BY <1>8 DEF FoundIsSettled, ChatInv, ReadMemory
<1>10. stored' \in [Conversations -> Contexts \cup {None}]
  BY <1>7 DEF ChatInv, ChatTypes
<1> QED
  BY <1>6, <1>7, <1>9, <1>10 DEF ChatInv, ChatTypes, ReadMemory

LEMMA ReadRedisKeeps ==
    ASSUME ChatInv, NEW r \in Requests, ReadRedis(r)
    PROVE  ChatInv'
<1>1. req[r] \in Serving /\ req[r].conv \in Conversations /\ ~At(r, "idle")
  BY DEF ReadRedis, ChatInv, ChatTypes, Begun, At
<1> DEFINE next == IF req[r].conv \in expired THEN [req[r] EXCEPT !.pc = "drop"]
                   ELSE [req[r] EXCEPT !.pc = "work", !.prior = stored[req[r].conv]]
<1>2. req' = [req EXCEPT ![r] = next]
  BY DEF ReadRedis, ChatInv, ChatTypes
<1>3. next \in Serving /\ next.conv = req[r].conv /\ next.turn = req[r].turn /\ next.pc # "remember"
  BY <1>1 DEF Serving, RequestStates, ChatInv, ChatTypes
<1> HIDE DEF next
<1>4. req' \in [Requests -> Serving] /\ Begun' /\ VerifiedMeansComplete'
  BY <1>1, <1>2, <1>3, Moves DEF ReadRedis
<1> QED
  BY <1>4, Untouched DEF ChatInv, ChatTypes, ReadRedis, storeVars

LEMMA DropExpiredKeeps ==
    ASSUME ChatInv, NEW r \in Requests, DropExpired(r)
    PROVE  ChatInv'
<1>1. req[r] \in Serving /\ req[r].conv \in Conversations /\ ~At(r, "idle")
  BY DEF DropExpired, ChatInv, ChatTypes, Begun, At
<1> DEFINE next == [req[r] EXCEPT !.pc = "work"]
           n == IF req[r].alone THEN 0 ELSE -1
<1>2. req' = [req EXCEPT ![r] = next]
  BY DEF DropExpired, Go, ChatInv, ChatTypes
<1>3. next \in Serving /\ next.conv = req[r].conv /\ next.turn = req[r].turn /\ next.pc # "remember"
  BY <1>1 DEF Serving, RequestStates
<1>4. req' \in [Requests -> Serving] /\ Begun' /\ VerifiedMeansComplete'
  <2> HIDE DEF next
  <2> QED BY <1>1, <1>2, <1>3, Moves DEF DropExpired
<1>5. n \in {-1, 0} /\ Delete(req[r].conv) /\ settled' = [settled EXCEPT ![req[r].conv] = n]
  BY DEF DropExpired, Forget
<1> HIDE DEF n
<1> QED
  BY <1>1, <1>4, <1>5, Deleted DEF ChatInv, ChatTypes, DropExpired

(* The steps that end the work of a request with an answer. *)
LEMMA AnswersKeeps ==
    ASSUME ChatInv, NEW r \in Requests, NEW pc \in RequestStates, NEW results,
           Answers(r, pc, results),
           \A result \in results :
               /\ result \in Results
               /\ pc = "remember" =>
                    /\ result.outcome \in Verified => result.queries \cap Overflowing = {}
                    /\ result.outcome = "verified_empty" => "empty" \in result.queries
    PROVE  ChatInv'
<1>1. req[r] \in Serving /\ ~At(r, "idle")
  BY DEF Answers, ChatInv, ChatTypes, At
<1>2. PICK result \in results :
        req' = [req EXCEPT ![r].pc = pc, ![r].prior = None, ![r].followup = FALSE,
                           ![r].result = result]
  BY DEF Answers
<1> DEFINE next == [req[r] EXCEPT !.pc = pc, !.prior = None, !.followup = FALSE, !.result = result]
<1>3. req' = [req EXCEPT ![r] = next]
  BY <1>2 DEF ChatInv, ChatTypes
<1>4. /\ next \in Serving /\ next.conv = req[r].conv /\ next.turn = req[r].turn
      /\ next.pc = pc /\ next.result = result
  BY <1>1 DEF Serving
<1> HIDE DEF next
<1>5. req' \in [Requests -> Serving] /\ Begun' /\ VerifiedMeansComplete'
  BY <1>1, <1>3, <1>4, Moves DEF Answers
<1> QED
  BY <1>5, Untouched DEF ChatInv, ChatTypes, Answers, storeVars

LEMMA WorkKeeps ==
    ASSUME ChatInv, NEW r \in Requests,
           Gate(r) \/ AskWhich(r) \/ Unplanned(r) \/ PlanClear(r) \/ Execute(r) \/ Guide(r)
    PROVE  ChatInv'
<1>0. {"clear", "remember", "finish"} \subseteq RequestStates
  BY DEF RequestStates
<1>1. CASE Gate(r)
  <2> DEFINE decisions == {Decision(reply) : reply \in RelevanceReplies} \ {"in_scope"}
             outcomes == {RelevanceOutcome(d) : d \in decisions}
  <2>1. \A d \in decisions : d \in {"error", "out_of_scope", "needs_clarification"}
    BY DEF Decision, Classes
  <2>2. outcomes \in SUBSET Outcomes
    BY <2>1 DEF RelevanceOutcome, Outcomes, Unverified
  <2>3. Answers(r, "finish", NoData(outcomes))
    BY <1>1 DEF Gate
  <2> HIDE DEF outcomes
  <2> QED BY <1>0, <2>2, <2>3, NoDataResult, AnswersKeeps
<1>2. CASE AskWhich(r) \/ Unplanned(r) \/ PlanClear(r) \/ Guide(r)
  <2>1. GuidanceOutcomes \in SUBSET Outcomes
    BY DEF GuidanceOutcomes, WithoutRunbooks, Nothing, Outcomes, Unverified
  <2>2. PICK pc \in {"finish", "clear"}, outcomes \in SUBSET Outcomes :
           Answers(r, pc, NoData(outcomes))
    <3>1. CASE AskWhich(r)
      BY <3>1 DEF AskWhich, Outcomes
    <3>2. CASE Unplanned(r)
      BY <3>2 DEF Unplanned, Outcomes, Unverified
    <3>3. CASE PlanClear(r)
      BY <3>3 DEF PlanClear, Outcomes
    <3>4. CASE Guide(r)
      BY <3>4, <2>1 DEF Guide
    <3> QED BY <1>2, <3>1, <3>2, <3>3, <3>4
  <2> QED BY <1>0, <2>2, NoDataResult, AnswersKeeps
<1>3. CASE Execute(r)
  <2> DEFINE results == ExecutionResults \cup {WithoutRunbooks(data) : data \in ExecutionResults}
  <2>1. ASSUME NEW result \in results
        PROVE  /\ result \in Results
               /\ result.outcome \in Verified => result.queries \cap Overflowing = {}
               /\ result.outcome = "verified_empty" => "empty" \in result.queries
    <3>1. CASE result \in ExecutionResults
      BY <3>1, ExecutionSound
    <3>2. CASE result \notin ExecutionResults
      <4>1. PICK data \in ExecutionResults : result = WithoutRunbooks(data)
        BY <2>1, <3>2
      <4>2. data \in Results
        BY ExecutionSound
      <4>3. CASE data.outcome = "none"
        BY <4>1, <4>2, <4>3 DEF WithoutRunbooks, Results, Outcomes, Verified, Unverified
      <4>4. CASE data.outcome # "none"
        BY <3>2, <4>1, <4>4 DEF WithoutRunbooks
      <4> QED BY <4>3, <4>4
    <3> QED BY <3>1, <3>2
  <2>2. Answers(r, "remember", results)
    BY <1>3 DEF Execute
  <2> HIDE DEF results
  <2> QED BY <1>0, <2>1, <2>2, AnswersKeeps
<1> QED
  BY <1>1, <1>2, <1>3

(* A request that ends before it has an answer. *)
LEMMA EndsKeeps ==
    ASSUME ChatInv, NEW r \in Requests, ReadFails(r) \/ AskRaises(r)
    PROVE  ChatInv'
<1>1. req' \in [Requests -> Serving] /\ Begun' /\ VerifiedMeansComplete'
  BY Leaves DEF ReadFails, AskRaises
<1>2. CASE UNCHANGED <<storeVars, settled>>
  BY <1>1, <1>2, Untouched DEF ChatInv, ChatTypes, ReadFails, AskRaises, storeVars
<1>3. CASE At(r, "drop") /\ Forget(r) /\ ReadFails(r)
  <2> DEFINE n == IF req[r].alone THEN 0 ELSE -1
  <2>1. req[r].conv \in Conversations
    BY <1>3 DEF ChatInv, Begun, At
  <2>2. n \in {-1, 0} /\ Delete(req[r].conv) /\ settled' = [settled EXCEPT ![req[r].conv] = n]
    BY <1>3 DEF Forget
  <2> HIDE DEF n
  <2> QED BY <1>1, <1>3, <2>1, <2>2, Deleted DEF ChatInv, ChatTypes, ReadFails
<1> QED
  BY <1>2, <1>3 DEF ReadFails, AskRaises

LEMMA ClearKeeps ==
    ASSUME ChatInv, NEW r \in Requests, Clear(r)
    PROVE  ChatInv'
<1>1. req[r].conv \in Conversations
  BY DEF Clear, ChatInv, Begun, At
<1>2. req' \in [Requests -> Serving] /\ Begun' /\ VerifiedMeansComplete'
  BY Leaves DEF Clear
<1> DEFINE n == IF req[r].alone THEN 0 ELSE -1
<1>3. CASE Delete(req[r].conv) /\ settled' = [settled EXCEPT ![req[r].conv] = n]
  <2>1. n \in {-1, 0}
    OBVIOUS
  <2> HIDE DEF n
  <2> QED BY <1>1, <1>2, <1>3, <2>1, Deleted DEF ChatInv, ChatTypes, Clear
<1>4. CASE UNCHANGED <<storeVars, settled>>
  BY <1>2, <1>4, Untouched DEF ChatInv, ChatTypes, Clear, storeVars
<1> QED
  BY <1>3, <1>4 DEF Clear, Forget

LEMMA FinishKeeps ==
    ASSUME ChatInv, NEW r \in Requests, Finish(r)
    PROVE  ChatInv'
<1>1. req[r].conv \in Conversations
  BY DEF Finish, ChatInv, Begun, At
<1>2. req' \in [Requests -> Serving] /\ Begun' /\ VerifiedMeansComplete'
  BY Leaves DEF Finish
<1> DEFINE n == IF req[r].alone THEN 0 ELSE -1
<1>3. CASE Delete(req[r].conv) /\ settled' = [settled EXCEPT ![req[r].conv] = n]
  <2>1. n \in {-1, 0}
    OBVIOUS
  <2> HIDE DEF n
  <2> QED BY <1>1, <1>2, <1>3, <2>1, Deleted DEF ChatInv, ChatTypes, Finish
<1>4. CASE UNCHANGED storeVars /\ settled' = [settled EXCEPT ![req[r].conv] = -1]
  <2>1. settled' \in [Conversations -> -1..MaxTurns]
    BY <1>1, <1>4, ChatAssumption DEF ChatInv, ChatTypes
  <2>2. FoundIsSettled'
    BY <1>1, <1>4 DEF ChatInv, ChatTypes, FoundIsSettled, FoundIn, storeVars
  <2> QED BY <1>2, <1>4, <2>1, <2>2 DEF ChatInv, ChatTypes, Finish, storeVars
<1>5. CASE UNCHANGED <<storeVars, faults, settled>>
  BY <1>2, <1>5, Untouched DEF ChatInv, ChatTypes, Finish, storeVars
<1> QED
  BY <1>3, <1>4, <1>5 DEF Finish, Forget

LEMMA RememberKeeps ==
    ASSUME ChatInv, NEW r \in Requests, Remember(r)
    PROVE  ChatInv'
<1> DEFINE c == req[r].conv
           context == ContextOf(r)
           next == [req[r] EXCEPT !.pc = "finish",
                                  !.result = [Nothing EXCEPT !.outcome = req[r].result.outcome]]
<1>1. /\ req[r] \in Serving /\ ~At(r, "idle")
      /\ c \in Conversations /\ req[r].turn \in 1..MaxTurns
  BY DEF Remember, ChatInv, ChatTypes, Begun, At
<1>2. context \in Contexts /\ context.turn = req[r].turn
  BY <1>1 DEF ContextOf, Contexts, Serving, Results
<1>3. req' = [req EXCEPT ![r] = next]
  BY DEF Remember, ChatInv, ChatTypes
<1>4. next \in Serving /\ next.conv = c /\ next.turn = req[r].turn /\ next.pc = "finish"
  BY <1>1 DEF Serving, RequestStates, Results, Nothing
<1>5. req' \in [Requests -> Serving] /\ Begun' /\ VerifiedMeansComplete'
  <2> HIDE DEF next
  <2> QED BY <1>1, <1>3, <1>4, Moves DEF Remember
<1> DEFINE lost == Evicted(c)
           latest == IF req[r].alone THEN req[r].turn ELSE -1
<1>6. CASE /\ Put(c, context)
           /\ settled' = [d \in Conversations |->
                            IF d = c THEN latest ELSE IF d \in lost THEN 0 ELSE settled[d]]
  <2>1. /\ stored' = [d \in Conversations |->
                        IF d \in lost THEN None ELSE IF d = c THEN context ELSE stored[d]]
        /\ expired' = expired \ (lost \cup {c})
        /\ c \notin lost
    BY <1>6 DEF Put, Evicted
  <2>2. latest \in -1..MaxTurns
    BY <1>1, ChatAssumption
  <2> HIDE DEF lost, context
  <2>3. stored' \in [Conversations -> Contexts \cup {None}]
    BY <1>2, <2>1 DEF ChatInv, ChatTypes
  <2>4. settled' \in [Conversations -> -1..MaxTurns]
    BY <1>6, <2>2, ChatAssumption DEF ChatInv, ChatTypes
  <2>5. FoundIsSettled'
    <3> SUFFICES ASSUME NEW d \in Conversations, settled'[d] # -1
                 PROVE  IF FoundIn(d)' = None THEN settled'[d] = 0
                        ELSE FoundIn(d)'.turn = settled'[d]
      BY DEF FoundIsSettled
    <3>1. CASE d = c
      <4>1. FoundIn(d)' = context /\ settled'[d] = latest
        BY <1>1, <1>6, <2>1, <3>1 DEF FoundIn
      <4>2. context # None /\ latest = req[r].turn
        BY <1>2, <3>1, <4>1, ChatAssumption
      <4> QED BY <1>2, <4>1, <4>2
    <3>2. CASE d # c /\ d \in lost
      BY <1>6, <2>1, <3>2 DEF FoundIn
    <3>3. CASE d # c /\ d \notin lost
      <4>1. FoundIn(d)' = FoundIn(d) /\ settled'[d] = settled[d]
        BY <1>6, <2>1, <3>3 DEF FoundIn
      <4> QED BY <4>1 DEF FoundIsSettled, ChatInv
    <3> QED BY <3>1, <3>2, <3>3
  <2> QED BY <1>5, <2>1, <2>3, <2>4, <2>5 DEF ChatInv, ChatTypes, Remember
<1>7. CASE UNCHANGED storeVars /\ settled' = [settled EXCEPT ![c] = -1]
  <2>1. settled' \in [Conversations -> -1..MaxTurns]
    BY <1>1, <1>7, ChatAssumption DEF ChatInv, ChatTypes
  <2>2. FoundIsSettled'
    BY <1>1, <1>7 DEF ChatInv, ChatTypes, FoundIsSettled, FoundIn, storeVars
  <2> QED BY <1>5, <1>7, <2>1, <2>2 DEF ChatInv, ChatTypes, Remember, storeVars
<1>8. CASE UNCHANGED <<storeVars, faults, settled>>
  BY <1>5, <1>8, Untouched DEF ChatInv, ChatTypes, Remember, storeVars
<1> QED
  BY <1>6, <1>7, <1>8 DEF Remember

-----------------------------------------------------------------------------
(* Steps of a conversation *)

LEMMA ExpireKeeps ==
    ASSUME ChatInv, NEW c \in Conversations, Expire(c)
    PROVE  ChatInv'
<1>1. settled' \in [Conversations -> -1..MaxTurns]
  BY ChatAssumption DEF Expire, ChatInv, ChatTypes
<1>2. FoundIsSettled'
  BY DEF Expire, ChatInv, ChatTypes, FoundIsSettled, FoundIn
<1> QED
  BY <1>1, <1>2 DEF Expire, ChatInv, ChatTypes, Begun, VerifiedMeansComplete, At

LEMMA RedisDropsKeeps ==
    ASSUME ChatInv, NEW c \in Conversations, RedisDrops(c)
    PROVE  ChatInv'
<1>1. /\ stored' = [stored EXCEPT ![c] = None]
      /\ expired' = expired \ {c}
      /\ c \in expired
  BY DEF RedisDrops, Delete
<1>2. \A d \in Conversations : FoundIn(d)' = FoundIn(d)
  BY <1>1 DEF FoundIn, ChatInv, ChatTypes
<1>3. FoundIsSettled'
  BY <1>2 DEF RedisDrops, ChatInv, FoundIsSettled
<1>4. ChatTypes'
  BY <1>1 DEF RedisDrops, ChatInv, ChatTypes
<1> QED
  BY <1>3, <1>4 DEF RedisDrops, ChatInv, Begun, VerifiedMeansComplete, At

LEMMA DeleteEndpointKeeps ==
    ASSUME ChatInv, NEW c \in Conversations, DeleteEndpoint(c)
    PROVE  ChatInv'
<1> DEFINE n == IF InConversation(c) = {} THEN 0 ELSE -1
<1>1. n \in {-1, 0} /\ Delete(c) /\ settled' = [settled EXCEPT ![c] = n]
  BY DEF DeleteEndpoint
<1> HIDE DEF n
<1>2. /\ stored' \in [Conversations -> Contexts \cup {None}]
      /\ expired' \subseteq Conversations
      /\ settled' \in [Conversations -> -1..MaxTurns]
      /\ FoundIsSettled'
  BY <1>1, Deleted
<1>3. ASSUME NEW q \in Requests
      PROVE  /\ req'[q] \in Serving
             /\ req'[q].pc = req[q].pc /\ req'[q].conv = req[q].conv
             /\ req'[q].turn = req[q].turn /\ req'[q].result = req[q].result
  <2>1. req[q] \in Serving
    BY DEF ChatInv, ChatTypes
  <2>2. req'[q] = req[q] \/ req'[q] = [req[q] EXCEPT !.alone = FALSE]
    BY DEF DeleteEndpoint
  <2> QED BY <2>1, <2>2 DEF Serving
<1>4. req' \in [Requests -> Serving]
  BY <1>3 DEF DeleteEndpoint
<1>5. Begun' /\ VerifiedMeansComplete'
  BY <1>3 DEF ChatInv, Begun, VerifiedMeansComplete, At
<1> QED
  BY <1>2, <1>4, <1>5 DEF ChatInv, ChatTypes, DeleteEndpoint

-----------------------------------------------------------------------------

LEMMA ChatStep == ChatInv /\ [ChatNext]_chatVars => ChatInv'
<1> SUFFICES ASSUME ChatInv, [ChatNext]_chatVars PROVE ChatInv'
  OBVIOUS
<1>1. CASE UNCHANGED chatVars
  BY <1>1 DEF chatVars, ChatInv, ChatTypes, Begun, FoundIsSettled, FoundIn,
              VerifiedMeansComplete, At
<1>2. ASSUME NEW r \in Requests, RequestStep(r) PROVE ChatInv'
  BY <1>2, BeginKeeps, ReadMemoryKeeps, ReadRedisKeeps, DropExpiredKeeps, EndsKeeps, WorkKeeps,
     ClearKeeps, RememberKeeps, FinishKeeps DEF RequestStep
<1>3. ASSUME NEW c \in Conversations, Expire(c) \/ RedisDrops(c) \/ DeleteEndpoint(c)
      PROVE  ChatInv'
  BY <1>3, ExpireKeeps, RedisDropsKeeps, DeleteEndpointKeeps
<1> QED
  BY <1>1, <1>2, <1>3 DEF ChatNext

LEMMA InitChat == ChatInit => ChatInv
<1> SUFFICES ASSUME ChatInit PROVE ChatInv
  OBVIOUS
<1>1. ChatTypes
  BY NothingIsResult, ChatAssumption DEF ChatInit, ChatTypes
<1>2. Begun /\ VerifiedMeansComplete
  BY NothingIsResult DEF ChatInit, Begun, VerifiedMeansComplete, At
<1>3. FoundIsSettled
  BY DEF ChatInit, FoundIsSettled, FoundIn
<1> QED
  BY <1>1, <1>2, <1>3 DEF ChatInv

LEMMA ChatInvariant == ChatSpec => []ChatInv
BY InitChat, ChatStep, PTL DEF ChatSpec

(* Whatever requests, deletions, expiry and failures of the store interleave, a
   follow-up never finds an older answer than the last, nor one that was not
   verified (analytics_chat.py:1163-1273). *)
THEOREM FollowupsFindLastAnswer == ChatSpec => []ContextIsLastAnswer
<1>1. ChatInv => ContextIsLastAnswer
  BY DEF ChatInv, FoundIsSettled, FoundIn, ContextIsLastAnswer
<1> QED
  BY <1>1, ChatInvariant, PTL

(* No answer is verified that rests on a query cut at its bound, and none is
   empty that did not look at everything (semantic/outcome.py:118-134). *)
THEOREM VerifiedAnswersComplete == ChatSpec => []VerifiedMeansComplete
<1>1. ChatInv => VerifiedMeansComplete
  BY DEF ChatInv
<1> QED
  BY <1>1, ChatInvariant, PTL

-----------------------------------------------------------------------------
(* Lists of the members of a set *)

(* A list without repetition of the members of a set. *)
Enumerates(list, set) ==
    /\ list \in Seq(set)
    /\ \A i, j \in 1..Len(list) : list[i] = list[j] => i = j
    /\ \A c \in set : \E i \in 1..Len(list) : list[i] = c

LEMMA ListLength ==
    ASSUME NEW set, NEW list, Enumerates(list, set)
    PROVE  IsFiniteSet(set) /\ Cardinality(set) = Len(list)
<1> DEFINE place == [i \in 1..Len(list) |-> list[i]]
<1>1. Len(list) \in Nat
  BY DEF Enumerates
<1>2. place \in Bijection(1..Len(list), set)
  <2>1. \A i \in 1..Len(list) : list[i] \in set
    BY DEF Enumerates
  <2>2. place \in [1..Len(list) -> set]
    BY <2>1
  <2>3. \A i \in 1..Len(list) : place[i] = list[i]
    OBVIOUS
  <2> HIDE DEF place
  <2>4. place \in Injection(1..Len(list), set)
    BY <2>2, <2>3 DEF Enumerates, Injection, IsInjective
  <2>5. place \in Surjection(1..Len(list), set)
    BY <2>2, <2>3 DEF Enumerates, Surjection
  <2> QED BY <2>4, <2>5 DEF Bijection
<1> HIDE DEF place
<1>3. IsFiniteSet(1..Len(list)) /\ Cardinality(1..Len(list)) = Len(list)
  <2>1. 1 \in Int /\ Len(list) \in Int
    BY <1>1
  <2>2. /\ IsFiniteSet(1..Len(list))
        /\ Cardinality(1..Len(list)) = IF 1 > Len(list) THEN 0 ELSE Len(list) - 1 + 1
    BY <2>1, FS_Interval
  <2>3. (IF 1 > Len(list) THEN 0 ELSE Len(list) - 1 + 1) = Len(list)
    BY <1>1
  <2> QED BY <2>2, <2>3
<1>4. ExistsBijection(1..Len(list), set)
  BY <1>2 DEF ExistsBijection
<1> QED
  BY <1>1, <1>3, <1>4, FS_Bijection

(* Taking members out leaves a list of the others. *)
LEMMA WithoutLists ==
    ASSUME NEW set, NEW list, Enumerates(list, set), NEW gone
    PROVE  Enumerates(Without(list, gone), set \ gone)
<1> DEFINE left == {i \in DOMAIN list : list[i] \notin gone}
           rel == {p \in left \X left : p[1] < p[2]}
           before(i) == {j \in left : j < i}
           at(n) == CHOOSE i \in left : Cardinality(before(i)) = n - 1
           rest == Without(list, gone)
<1>1. Len(list) \in Nat /\ DOMAIN list = 1..Len(list) /\ \A i \in 1..Len(list) : list[i] \in set
  BY DEF Enumerates
<1>2. left \in SUBSET (1..Len(list)) /\ \A i \in left : i \in Nat
  BY <1>1
<1>3. IsFiniteSet(left) /\ Cardinality(left) \in Nat
  <2> HIDE DEF left
  <2>1. IsFiniteSet(1..Len(list))
    BY <1>1, FS_Interval
  <2>2. IsFiniteSet(left)
    BY <1>2, <2>1, FS_Subset
  <2> QED BY <2>2, FS_CardinalityType
<1>4. StrictOrder(left, rel)
  BY <1>2 DEF StrictOrder
<1>5. \A i \in left : Ahead(left, rel, i) = before(i)
  BY DEF Ahead
<1>6. rest = [n \in 1..Cardinality(left) |-> list[at(n)]]
  BY DEF Without
<1>7. ASSUME NEW n \in 1..Cardinality(left)
      PROVE  at(n) \in left /\ Place(left, rel, at(n)) = n
  <2> HIDE DEF left, rel
  <2>1. PICK i \in left : Place(left, rel, i) = n
    BY <1>3, <1>4, PlaceTaken
  <2>2. Cardinality(before(i)) \in Nat /\ 1 + Cardinality(before(i)) = n
    BY <2>1, <1>3, <1>4, <1>5, PlaceBound DEF Place
  <2>3. Cardinality(before(i)) = n - 1
    BY <2>2
  <2>4. at(n) \in left /\ Cardinality(before(at(n))) = n - 1
    <3> HIDE DEF before
    <3> QED BY <2>3
  <2>5. 1 + Cardinality(before(at(n))) = n
    BY <2>4, <1>3
  <2> QED BY <2>4, <2>5, <1>5 DEF Place
<1>8. ASSUME NEW i \in left
      PROVE  \E n \in 1..Cardinality(left) : at(n) = i
  <2> HIDE DEF left, rel, at
  <2>1. Place(left, rel, i) \in 1..Cardinality(left)
    BY <1>3, <1>4, PlaceBound
  <2> DEFINE j == at(Place(left, rel, i))
  <2>2. j \in left /\ Place(left, rel, j) = Place(left, rel, i)
    BY <2>1, <1>7
  <2>3. ~(<<i, j>> \in rel) /\ ~(<<j, i>> \in rel)
    <3> HIDE DEF j
    <3>1. Place(left, rel, i) \in Int
      BY <2>1
    <3> QED BY <2>2, <3>1, <1>3, <1>4, PlaceOrder
  <2>4. j = i
    BY <2>2, <2>3, <1>4 DEF StrictOrder
  <2> QED BY <2>1, <2>4
<1>9. rest \in Seq(set \ gone) /\ Len(rest) = Cardinality(left)
  <2>1. \A n \in 1..Cardinality(left) : list[at(n)] \in set \ gone
    <3> HIDE DEF at
    <3> QED BY <1>1, <1>2, <1>7
  <2> HIDE DEF at, left, rest
  <2> QED BY <1>3, <1>6, <2>1
<1>10. \A m, n \in 1..Len(rest) : rest[m] = rest[n] => m = n
  <2> SUFFICES ASSUME NEW m \in 1..Len(rest), NEW n \in 1..Len(rest), rest[m] = rest[n]
               PROVE  m = n
    OBVIOUS
  <2> HIDE DEF at, rest, rel
  <2>1. list[at(m)] = list[at(n)] /\ at(m) \in left /\ at(n) \in left
    BY <1>6, <1>7, <1>9
  <2>2. at(m) = at(n)
    BY <2>1, <1>2 DEF Enumerates
  <2> QED BY <2>2, <1>7, <1>9
<1>11. \A c \in set \ gone : \E n \in 1..Len(rest) : rest[n] = c
  <2> SUFFICES ASSUME NEW c \in set \ gone PROVE \E n \in 1..Len(rest) : rest[n] = c
    OBVIOUS
  <2>1. PICK i \in 1..Len(list) : list[i] = c
    BY DEF Enumerates
  <2>2. i \in left
    BY <2>1, <1>1
  <2> HIDE DEF at, rest, rel, left
  <2>3. PICK n \in 1..Cardinality(left) : at(n) = i
    BY <2>2, <1>8
  <2> QED BY <2>1, <2>3, <1>6, <1>9
<1> QED
  BY <1>9, <1>10, <1>11 DEF Enumerates

(* A new member comes last. *)
LEMMA AppendLists ==
    ASSUME NEW set, NEW list, Enumerates(list, set), NEW c, c \notin set
    PROVE  Enumerates(Append(list, c), set \cup {c})
<1> DEFINE longer == Append(list, c)
<1>1. list \in Seq(set) /\ list \in Seq(set \cup {c}) /\ Len(list) \in Nat
  BY DEF Enumerates
<1>2. longer \in Seq(set \cup {c}) /\ Len(longer) = Len(list) + 1
  BY <1>1
<1>3. \A i \in 1..Len(longer) : longer[i] = IF i = Len(list) + 1 THEN c ELSE list[i]
  BY <1>1
<1>4. \A i \in 1..Len(list) : list[i] \in set
  BY <1>1
<1>5. \A i, j \in 1..Len(longer) : longer[i] = longer[j] => i = j
  <2> SUFFICES ASSUME NEW i \in 1..Len(longer), NEW j \in 1..Len(longer), longer[i] = longer[j]
               PROVE  i = j
    OBVIOUS
  <2> HIDE DEF longer
  <2>1. CASE i = Len(list) + 1 \/ j = Len(list) + 1
    <3>1. \A k \in 1..Len(longer) : k # Len(list) + 1 => longer[k] \in set
      BY <1>1, <1>2, <1>3, <1>4
    <3> QED BY <2>1, <3>1, <1>3
  <2>2. CASE i # Len(list) + 1 /\ j # Len(list) + 1
    <3>1. i \in 1..Len(list) /\ j \in 1..Len(list) /\ list[i] = list[j]
      BY <2>2, <1>1, <1>2, <1>3
    <3> QED BY <3>1 DEF Enumerates
  <2> QED BY <2>1, <2>2
<1>6. \A d \in set \cup {c} : \E i \in 1..Len(longer) : longer[i] = d
  <2> SUFFICES ASSUME NEW d \in set \cup {c} PROVE \E i \in 1..Len(longer) : longer[i] = d
    OBVIOUS
  <2> HIDE DEF longer
  <2>1. CASE d = c
    <3>1. Len(list) + 1 \in 1..Len(longer) /\ longer[Len(list) + 1] = c
      BY <1>1, <1>2, <1>3
    <3> QED BY <3>1, <2>1
  <2>2. CASE d # c
    <3>1. PICK i \in 1..Len(list) : list[i] = d
      BY <2>2 DEF Enumerates
    <3>2. i \in 1..Len(longer) /\ longer[i] = d
      BY <1>1, <1>2, <1>3, <3>1
    <3> QED BY <3>2
  <2> QED BY <2>1, <2>2
<1> QED
  BY <1>2, <1>5, <1>6 DEF Enumerates

(* The bound keeps the newest members. *)
LEMMA KeptLists ==
    ASSUME NEW set, NEW list, Enumerates(list, set), Len(list) > 0
    PROVE  \E kept \in SUBSET set :
              /\ Enumerates(Kept(list), kept)
              /\ list[Len(list)] \in kept
              /\ Len(Kept(list)) <= MaxEntries
<1>1. list \in Seq(set) /\ Len(list) \in Nat /\ MaxEntries \in Nat \ {0}
  BY ChatAssumption DEF Enumerates
<1>2. CASE Len(list) <= MaxEntries
  <2>1. Kept(list) = list /\ list[Len(list)] \in set
    BY <1>1, <1>2 DEF Kept
  <2> QED BY <1>2, <2>1
<1>3. CASE Len(list) > MaxEntries
  <2> DEFINE first == Len(list) - MaxEntries + 1
             tail == SubSeq(list, first, Len(list))
             kept == {list[i] : i \in first..Len(list)}
  <2>1. first \in 1..Len(list) /\ Len(list) \in 1..Len(list)
    BY <1>1, <1>3
  <2>2. Kept(list) = tail
    BY <1>3 DEF Kept
  <2>3. tail = [i \in 1..MaxEntries |-> list[i + first - 1]]
    <3>1. Len(list) - first + 1 = MaxEntries
      BY <1>1
    <3>2. tail = [i \in 1..(Len(list) - first + 1) |-> list[i + first - 1]]
      <4> HIDE DEF first
      <4> QED BY <1>1, <2>1
    <3> QED BY <3>1, <3>2
  <2>4. \A i \in 1..MaxEntries : i + first - 1 \in first..Len(list) /\ i + first - 1 \in 1..Len(list)
    BY <1>1, <1>3
  <2> HIDE DEF tail
  <2>5. tail \in Seq(kept) /\ Len(tail) = MaxEntries
    <3>1. \A i \in 1..MaxEntries : list[i + first - 1] \in kept
      BY <2>4
    <3> HIDE DEF kept, first
    <3> QED BY <1>1, <2>3, <3>1
  <2>6. \A i, j \in 1..Len(tail) : tail[i] = tail[j] => i = j
    <3> SUFFICES ASSUME NEW i \in 1..Len(tail), NEW j \in 1..Len(tail), tail[i] = tail[j]
                 PROVE  i = j
      OBVIOUS
    <3>1. list[i + first - 1] = list[j + first - 1]
      <4> HIDE DEF first
      <4> QED BY <2>3, <2>5
    <3>2. i + first - 1 = j + first - 1
      <4> HIDE DEF first
      <4> QED BY <3>1, <2>4, <2>5 DEF Enumerates
    <3> QED BY <3>2, <2>1, <1>1
  <2>7. \A c \in kept : \E i \in 1..Len(tail) : tail[i] = c
    <3> SUFFICES ASSUME NEW c \in kept PROVE \E i \in 1..Len(tail) : tail[i] = c
      OBVIOUS
    <3>1. PICK j \in first..Len(list) : list[j] = c
      OBVIOUS
    <3>2. j - first + 1 \in 1..MaxEntries /\ (j - first + 1) + first - 1 = j
      BY <1>1, <3>1
    <3>3. tail[j - first + 1] = c
      BY <2>3, <3>1, <3>2
    <3> QED BY <2>5, <3>2, <3>3
  <2>8. kept \in SUBSET set /\ list[Len(list)] \in kept
    <3>1. \A i \in first..Len(list) : i \in 1..Len(list)
      BY <1>1, <1>3
    <3>2. Len(list) \in first..Len(list)
      BY <1>1, <2>1
    <3> HIDE DEF first
    <3> QED BY <1>1, <3>1, <3>2
  <2>9. Enumerates(tail, kept)
    <3> HIDE DEF kept
    <3> QED BY <2>5, <2>6, <2>7 DEF Enumerates
  <2> HIDE DEF kept
  <2> QED BY <2>2, <2>5, <2>8, <2>9, <1>1
<1> QED
  BY <1>1, <1>2, <1>3

-----------------------------------------------------------------------------
(* The store *)

HeldNow == {c \in Conversations : stored[c] # None}

(* In memory the order lists what the store holds, within its bound; with Redis
   there is no order. *)
StoreInv ==
    /\ config \in Configs
    /\ faults \in 0..MaxStoreFaults
    /\ expired \subseteq HeldNow
    /\ Memory => Enumerates(recent, HeldNow) /\ Len(recent) <= MaxEntries
    /\ ~Memory => recent = << >>

LEMMA EmptyWithout == \A gone : Without(<< >>, gone) = << >>
<1> SUFFICES ASSUME NEW gone PROVE Without(<< >>, gone) = << >>
  OBVIOUS
<1> DEFINE left == {i \in DOMAIN << >> : << >>[i] \notin gone}
<1>1. left = {}
  OBVIOUS
<1>2. Cardinality(left) = 0
  BY <1>1, FS_EmptySet
<1>3. Without(<< >>, gone)
        = [n \in 1..0 |-> << >>[CHOOSE i \in left : Cardinality({j \in left : j < i}) = n - 1]]
  <2>1. Without(<< >>, gone) = [n \in 1..Cardinality(left) |->
           << >>[CHOOSE i \in left : Cardinality({j \in left : j < i}) = n - 1]]
    BY DEF Without
  <2> HIDE DEF left
  <2> QED BY <1>2, <2>1
<1> HIDE DEF left
<1> QED
  BY <1>3

LEMMA ConfigStays ==
    ASSUME config' = config
    PROVE  Memory' = Memory
BY DEF Memory

(* Steps that do not touch the store. *)
LEMMA StoreStays ==
    ASSUME StoreInv, config' = config, UNCHANGED storeVars, faults' \in 0..MaxStoreFaults
    PROVE  StoreInv'
<1>1. HeldNow' = HeldNow
  BY DEF storeVars, HeldNow
<1> QED
  BY <1>1, ConfigStays DEF StoreInv, storeVars, Enumerates

(* What is listed without some of its members is no longer than before. *)
LEMMA ListWithout ==
    ASSUME NEW set, NEW list, Enumerates(list, set), NEW gone
    PROVE  /\ Enumerates(Without(list, gone), set \ gone)
           /\ Len(Without(list, gone)) <= Len(list)
<1>1. Enumerates(Without(list, gone), set \ gone)
  BY WithoutLists
<1>2. Cardinality(set) = Len(list) /\ IsFiniteSet(set)
  BY ListLength
<1>3. Cardinality(set \ gone) = Len(Without(list, gone))
  BY <1>1, ListLength
<1>4. set \ gone \in SUBSET set
  OBVIOUS
<1>5. Cardinality(set \ gone) <= Cardinality(set)
  BY <1>2, <1>4, FS_Subset
<1> QED
  BY <1>1, <1>2, <1>3, <1>5

(* delete of either store. *)
LEMMA DeleteStore ==
    ASSUME StoreInv, ChatInv, NEW c \in Conversations, Delete(c), config' = config,
           faults' \in 0..MaxStoreFaults
    PROVE  StoreInv'
<1>1. HeldNow' = HeldNow \ {c}
  <2>1. \A d \in Conversations : stored'[d] = IF d = c THEN None ELSE stored[d]
    BY DEF Delete, ChatInv, ChatTypes
  <2> QED BY <2>1 DEF HeldNow
<1>2. expired' \subseteq HeldNow'
  BY <1>1 DEF StoreInv, Delete
<1>3. CASE Memory
  <2>1. Enumerates(recent, HeldNow) /\ Len(recent) <= MaxEntries
    BY <1>3 DEF StoreInv
  <2>2. /\ Enumerates(Without(recent, {c}), HeldNow \ {c})
        /\ Len(Without(recent, {c})) <= Len(recent)
    BY <2>1, ListWithout
  <2>3. Len(recent) \in Nat /\ Len(Without(recent, {c})) \in Nat /\ MaxEntries \in Nat
    BY <2>1, <2>2, ChatAssumption DEF Enumerates
  <2>4. recent' = Without(recent, {c})
    BY DEF Delete
  <2>5. Enumerates(recent', HeldNow') /\ Len(recent') <= MaxEntries
    BY <2>1, <2>2, <2>3, <2>4, <1>1
  <2> QED
    BY <1>2, <1>3, <2>5, ConfigStays DEF StoreInv
<1>4. CASE ~Memory
  <2>1. recent' = << >>
    BY <1>4, EmptyWithout DEF StoreInv, Delete
  <2> QED BY <1>2, <1>4, <2>1, ConfigStays DEF StoreInv
<1> QED
  BY <1>3, <1>4

(* setex, or the bounded insertion. *)
LEMMA PutStore ==
    ASSUME StoreInv, ChatInv, NEW c \in Conversations, NEW ctx \in Contexts, Put(c, ctx),
           config' = config, faults' \in 0..MaxStoreFaults
    PROVE  StoreInv'
<1>1. \A d \in Conversations :
         stored'[d] = IF d \in Evicted(c) THEN None ELSE IF d = c THEN ctx ELSE stored[d]
  BY DEF Put
<1>2. ctx # None /\ c \notin Evicted(c)
  BY ChatAssumption DEF Evicted
<1>3. CASE Memory
  <2> DEFINE queue == QueueWith(c)
             rest == Without(recent, expired \cup {c})
  <2>1. Enumerates(recent, HeldNow)
    BY <1>3 DEF StoreInv
  <2>2. Enumerates(rest, HeldNow \ (expired \cup {c}))
    BY <2>1, WithoutLists
  <2>3. queue = Append(rest, c)
    BY DEF QueueWith
  <2>4. Enumerates(queue, (HeldNow \ (expired \cup {c})) \cup {c})
    <3> HIDE DEF rest, queue
    <3> QED BY <2>2, <2>3, AppendLists
  <2>5. Len(queue) > 0 /\ queue[Len(queue)] = c
    <3> HIDE DEF rest, queue
    <3>1. rest \in Seq(HeldNow \ (expired \cup {c}))
      BY <2>2 DEF Enumerates
    <3> QED BY <2>3, <3>1
  <2>6. PICK kept \in SUBSET ((HeldNow \ (expired \cup {c})) \cup {c}) :
            Enumerates(Kept(queue), kept) /\ c \in kept /\ Len(Kept(queue)) <= MaxEntries
    <3> HIDE DEF queue
    <3> QED BY SMTT(30), <2>4, <2>5, KeptLists
  <2>7. Evicted(c) = {d \in Conversations \ {c} : d \notin kept}
    <3>1. Evicted(c) = {d \in Conversations \ {c} : \A i \in 1..Len(Kept(queue)) : Kept(queue)[i] # d}
      BY <1>3 DEF Evicted
    <3>2. \A i \in 1..Len(Kept(queue)) : Kept(queue)[i] \in kept
      <4> HIDE DEF queue
      <4> QED BY <2>6 DEF Enumerates
    <3>3. \A d \in kept : \E i \in 1..Len(Kept(queue)) : Kept(queue)[i] = d
      <4> HIDE DEF queue
      <4> QED BY <2>6 DEF Enumerates
    <3> HIDE DEF queue
    <3> QED BY <3>1, <3>2, <3>3
  <2>8. HeldNow' = kept
    <3>1. HeldNow' = {d \in Conversations : stored'[d] # None}
      BY DEF HeldNow
    <3>2. HeldNow \subseteq Conversations /\ \A d \in HeldNow : stored[d] # None
      BY DEF HeldNow
    <3> QED BY <3>1, <3>2, <1>1, <1>2, <2>6, <2>7
  <2>9. recent' = Kept(queue)
    BY <1>3 DEF Put
  <2>10. expired' \subseteq kept
    <3>1. expired \subseteq Conversations
      BY DEF ChatInv, ChatTypes
    <3>2. expired' = expired \ (Evicted(c) \cup {c})
      BY DEF Put
    <3> QED BY <3>1, <3>2, <2>7
  <2>11. Enumerates(recent', HeldNow') /\ Len(recent') <= MaxEntries
    BY <2>6, <2>8, <2>9
  <2> QED
    BY <1>3, <2>8, <2>10, <2>11, ConfigStays DEF StoreInv
<1>4. CASE ~Memory
  <2>1. Evicted(c) = {} /\ recent' = << >> /\ expired' = expired \ {c}
    BY <1>4 DEF Evicted, Put
  <2>2. HeldNow \subseteq HeldNow'
    BY <1>1, <1>2, <2>1 DEF HeldNow
  <2> QED
    BY <1>4, <2>1, <2>2, ConfigStays DEF StoreInv
<1> QED
  BY <1>3, <1>4

(* The context of c is moved to the newest place, or dropped with all that are
   past their time. *)
LEMMA ReadStore ==
    ASSUME StoreInv, ChatInv, NEW r \in Requests, ReadMemory(r)
    PROVE  StoreInv'
<1> DEFINE c == req[r].conv
           live == Without(recent, expired)
<1>1. c \in Conversations
  BY DEF ReadMemory, ChatInv, Begun, At
<1>2. Memory /\ config' = config /\ faults' = faults /\ expired' = {}
  BY DEF ReadMemory
<1>3. \A d \in Conversations : stored'[d] = IF d \in expired THEN None ELSE stored[d]
  BY DEF ReadMemory
<1>4. HeldNow' = HeldNow \ expired
  BY <1>3 DEF HeldNow
<1>5. Enumerates(recent, HeldNow) /\ Len(recent) <= MaxEntries
  BY <1>2 DEF StoreInv
<1>6. Enumerates(live, HeldNow \ expired) /\ Len(live) <= Len(recent)
  BY <1>5, ListWithout
<1> DEFINE prior_ == IF c \in expired THEN None ELSE stored[c]
<1>7. recent' = IF prior_ = None THEN live ELSE Append(Without(live, {c}), c)
  BY DEF ReadMemory
<1>8. Enumerates(recent', HeldNow \ expired)
  <2> HIDE DEF live, c
  <2>1. CASE prior_ = None
    BY <1>6, <1>7, <2>1
  <2>2. CASE prior_ # None
    <3>1. c \in HeldNow \ expired
      BY <2>2, <1>1 DEF HeldNow
    <3>2. Enumerates(Without(live, {c}), (HeldNow \ expired) \ {c})
      BY <1>6, WithoutLists
    <3>3. Enumerates(Append(Without(live, {c}), c), ((HeldNow \ expired) \ {c}) \cup {c})
      BY <3>2, AppendLists
    <3>4. ((HeldNow \ expired) \ {c}) \cup {c} = HeldNow \ expired
      BY <3>1
    <3> QED BY <2>2, <3>3, <3>4, <1>7
  <2> QED BY <2>1, <2>2
<1>9. Len(recent') <= MaxEntries
  <2> HIDE DEF live
  <2>1. Len(recent') = Len(live)
    BY <1>6, <1>8, ListLength
  <2>2. Len(live) \in Nat /\ Len(recent) \in Nat /\ MaxEntries \in Nat
    BY <1>5, <1>6, ChatAssumption DEF Enumerates
  <2> QED BY <1>5, <1>6, <2>1, <2>2
<1> QED
  BY <1>2, <1>4, <1>8, <1>9, ConfigStays DEF StoreInv

LEMMA StoreStep == ChatInv /\ StoreInv /\ [ChatNext]_chatVars => StoreInv'
<1> SUFFICES ASSUME ChatInv, StoreInv, [ChatNext]_chatVars PROVE StoreInv'
  OBVIOUS
<1>1. faults \in 0..MaxStoreFaults /\ MaxStoreFaults \in Nat
  BY ChatAssumption DEF StoreInv
<1>2. StoreFault => faults' \in 0..MaxStoreFaults
  BY <1>1 DEF StoreFault
<1>3. ASSUME NEW r \in Requests, ~At(r, "idle")
      PROVE  req[r].conv \in Conversations
  BY <1>3 DEF ChatInv, Begun
<1>4. ASSUME NEW r \in Requests, RequestStep(r)
      PROVE  StoreInv'
  <2>1. CASE Begin(r)
    BY <2>1, <1>1, StoreStays DEF Begin
  <2>2. CASE ReadMemory(r)
    BY <2>2, ReadStore
  <2>3. CASE ReadRedis(r)
    BY <2>3, <1>1, StoreStays DEF ReadRedis
  <2>4. CASE DropExpired(r)
    <3>1. ~At(r, "idle") /\ Delete(req[r].conv) /\ config' = config /\ faults' = faults
      BY <2>4 DEF DropExpired, Forget, At
    <3> QED BY <3>1, <1>1, <1>3, DeleteStore
  <2>5. CASE ReadFails(r)
    <3>1. ~At(r, "idle") /\ config' = config /\ faults' \in 0..MaxStoreFaults
      BY <2>5, <1>2 DEF ReadFails, At
    <3>2. CASE UNCHANGED storeVars
      BY <3>1, <3>2, StoreStays
    <3>3. CASE Forget(r)
      BY <3>1, <3>3, <1>3, DeleteStore DEF Forget
    <3> QED BY <2>5, <3>2, <3>3 DEF ReadFails
  <2>6. CASE \/ Gate(r) \/ AskWhich(r) \/ Unplanned(r) \/ PlanClear(r) \/ Execute(r) \/ Guide(r)
             \/ AskRaises(r)
    <3>1. config' = config /\ UNCHANGED storeVars /\ faults' = faults
      BY <2>6 DEF Gate, AskWhich, Unplanned, PlanClear, Execute, Guide, AskRaises, Answers
    <3> QED BY <3>1, <1>1, StoreStays
  <2>7. CASE Clear(r)
    <3>1. ~At(r, "idle") /\ config' = config
      BY <2>7 DEF Clear, At
    <3>2. CASE Forget(r) /\ MayRaise
      BY <3>1, <3>2, <1>1, <1>2, <1>3, DeleteStore DEF Forget, MayRaise
    <3>3. CASE StoreFault /\ UNCHANGED storeVars
      BY <3>1, <3>3, <1>2, StoreStays
    <3> QED BY <2>7, <3>2, <3>3 DEF Clear
  <2>8. CASE Remember(r)
    <3>1. ~At(r, "idle") /\ config' = config
      BY <2>8 DEF Remember, At
    <3>2. CASE Put(req[r].conv, ContextOf(r)) /\ MayRaise
      <4>1. ContextOf(r) \in Contexts
        <5>1. req[r].turn \in 1..MaxTurns
          BY <3>1 DEF ChatInv, Begun
        <5>2. req[r].result.single \in BOOLEAN
          BY DEF ChatInv, ChatTypes, Serving, Results
        <5> QED BY <5>1, <5>2 DEF ContextOf, Contexts
      <4>2. faults' \in 0..MaxStoreFaults
        BY <3>2, <1>1, <1>2 DEF MayRaise
      <4> QED BY <3>1, <3>2, <4>1, <4>2, <1>1, <1>3, PutStore
    <3>3. CASE StoreFault /\ UNCHANGED storeVars
      BY <3>1, <3>3, <1>2, StoreStays
    <3>4. CASE UNCHANGED <<storeVars, faults>>
      BY <3>1, <3>4, <1>1, StoreStays
    <3> QED BY <2>8, <3>2, <3>3, <3>4 DEF Remember
  <2>9. CASE Finish(r)
    <3>1. ~At(r, "idle") /\ config' = config
      BY <2>9 DEF Finish, At
    <3>2. CASE Forget(r) /\ MayRaise
      BY <3>1, <3>2, <1>1, <1>2, <1>3, DeleteStore DEF Forget, MayRaise
    <3>3. CASE StoreFault /\ UNCHANGED storeVars
      BY <3>1, <3>3, <1>2, StoreStays
    <3>4. CASE UNCHANGED <<storeVars, faults>>
      BY <3>1, <3>4, <1>1, StoreStays
    <3> QED BY <2>9, <3>2, <3>3, <3>4 DEF Finish
  <2> QED
    BY <1>4, <2>1, <2>2, <2>3, <2>4, <2>5, <2>6, <2>7, <2>8, <2>9 DEF RequestStep
<1>5. ASSUME NEW c \in Conversations, Expire(c)
      PROVE  StoreInv'
  <2>1. config' = config /\ faults' = faults /\ stored' = stored /\ recent' = recent
    BY <1>5 DEF Expire
  <2>2. HeldNow' = HeldNow
    BY <2>1 DEF HeldNow
  <2>3. expired' \subseteq HeldNow
    BY <1>5 DEF Expire, StoreInv, HeldNow
  <2> QED BY <2>1, <2>2, <2>3, ConfigStays DEF StoreInv, Enumerates
<1>6. ASSUME NEW c \in Conversations, RedisDrops(c) \/ DeleteEndpoint(c)
      PROVE  StoreInv'
  <2>1. Delete(c) /\ config' = config /\ faults' = faults
    BY <1>6 DEF RedisDrops, DeleteEndpoint
  <2> QED BY <2>1, <1>1, DeleteStore
<1>7. CASE UNCHANGED chatVars
  BY <1>7, <1>1, StoreStays DEF chatVars, storeVars
<1> QED
  BY <1>4, <1>5, <1>6, <1>7 DEF ChatNext

LEMMA StoreInit == ChatInit => StoreInv
<1> SUFFICES ASSUME ChatInit PROVE StoreInv
  OBVIOUS
<1>1. HeldNow = {}
  BY DEF ChatInit, HeldNow
<1>2. Enumerates(<< >>, {})
  BY DEF Enumerates
<1>3. Len(<< >>) <= MaxEntries /\ MaxStoreFaults \in Nat
  BY ChatAssumption
<1> QED
  BY <1>1, <1>2, <1>3 DEF ChatInit, StoreInv

LEMMA ChatTyped == ChatInv /\ StoreInv => ChatTypeOK
<1> SUFFICES ASSUME ChatInv, StoreInv PROVE ChatTypeOK
  OBVIOUS
<1> DEFINE kept == {c \in Conversations : stored[c] # None}
<1>1. kept = HeldNow
  BY DEF HeldNow
<1>2. recent \in Seq(Conversations)
  <2>1. CASE Memory
    <3>1. recent \in Seq(HeldNow) /\ HeldNow \subseteq Conversations
      BY <2>1 DEF StoreInv, Enumerates, HeldNow
    <3> QED BY <3>1
  <2>2. CASE ~Memory
    BY <2>2 DEF StoreInv
  <2> QED BY <2>1, <2>2
<1>3. ASSUME Memory
      PROVE  /\ Len(recent) = Cardinality(kept)
             /\ Len(recent) <= MaxEntries
             /\ {recent[i] : i \in 1..Len(recent)} = kept
  <2> HIDE DEF kept
  <2>1. Enumerates(recent, kept) /\ Len(recent) <= MaxEntries
    BY <1>1, <1>3 DEF StoreInv
  <2>2. Len(recent) = Cardinality(kept)
    BY <2>1, ListLength
  <2>3. {recent[i] : i \in 1..Len(recent)} = kept
    BY <2>1 DEF Enumerates
  <2> QED BY <2>1, <2>2, <2>3
<1>4. /\ config \in Configs
      /\ expired \subseteq kept
      /\ faults \in 0..MaxStoreFaults
  BY <1>1 DEF StoreInv
<1> QED
  BY <1>2, <1>3, <1>4 DEF ChatTypeOK, ChatInv, ChatTypes, Serving

(* Every variable of the chat service keeps its type, for any number of threads
   and conversations, and in memory the store stays within its bound whatever
   is read, written, deleted or past its time: its order lists each context it
   holds once (analytics_chat.py:1192-1273). *)
THEOREM ChatTypesStay == ChatSpec => []ChatTypeOK
<1>1. ChatInit => ChatInv /\ StoreInv
  BY InitChat, StoreInit
<1>2. ChatInv /\ StoreInv /\ [ChatNext]_chatVars => (ChatInv /\ StoreInv)'
  BY ChatStep, StoreStep
<1>3. ChatInv /\ StoreInv => ChatTypeOK
  BY ChatTyped
<1> QED
  BY <1>1, <1>2, <1>3, PTL DEF ChatSpec

-----------------------------------------------------------------------------
(* From facts to words: what the backend lets a model claim *)

\* The count of a fact is a numeral.
LEMMA MeasureIsNumeral ==
  ASSUME NEW p \in Presentations, NEW n \in 1..Displayed(p), NEW metric \in Metrics,
         Value(p.rows[n], metric) # Missing
  PROVE  p.rows[n][metric] = Value(p.rows[n], metric) /\ p.rows[n][metric] \in Numerals
  <1>1. p.rows \in Seq(Facts) /\ SummaryLimit \in Nat
    BY GroundedAssumption DEF PresentationOK
  <1>2. Len(p.rows) \in Nat /\ DOMAIN p.rows = 1..Len(p.rows)
    BY <1>1
  <1>3. n \in DOMAIN p.rows
    BY <1>1, <1>2 DEF Displayed
  <1>4. p.rows[n] \in Facts
    BY <1>1, <1>3
  <1>5. Value(p.rows[n], metric) = p.rows[n][metric]
    BY DEF Value, Metrics
  <1>6. p.rows[n].failure_count \in Numerals /\ p.rows[n].recovered_count \in Numerals \cup {Missing}
    BY <1>4 DEF Facts
  <1>7. QED BY <1>5, <1>6 DEF Metrics

\* A name that no other of the evidence contains is found in a reply's sentence only
\* where it stands itself.
LEMMA UnmistakableStands ==
  ASSUME NEW p, NEW segments, ValidNames(segments, p), NEW s \in segments,
         NEW name, HasName(s, name), Unmistakable(name, p)
  PROVE  name \in s
  <1> SUFFICES ASSUME name \notin s PROVE FALSE
    OBVIOUS
  <1>1. PICK token \in s : <<name, token>> \in Inside
    BY DEF HasName
  <1>2. name \in EntityNames /\ token \in EntityNames
    BY <1>1, GroundedAssumption
  <1>3. token \in Said(segments)
    BY DEF Said
  <1>4. PICK other \in Evidenced(p) : token = other \/ <<token, other>> \in Inside
    BY <1>2, <1>3 DEF ValidNames, HasName
  <1>5. CASE token = other
    BY <1>1, <1>4, <1>5 DEF Unmistakable
  <1>6. CASE <<token, other>> \in Inside
    <2>1. other \in EntityNames
      BY <1>6, GroundedAssumption
    <2>2. <<name, other>> \in Inside
      BY <1>1, <1>2, <1>6, <2>1, GroundedAssumption
    <2>3. QED BY <1>4, <2>2 DEF Unmistakable
  <1>7. QED BY <1>4, <1>5, <1>6

\* What ClaimsShown asks of a claim and the sentences of an answer.
ClaimShown(c, segments, p) ==
    LET fact == p.rows[c.fact] IN
    /\ Value(fact, c.metric) # Missing
    /\ c.metric \in Metrics /\ fact.connector # Missing =>
          \E s \in segments :
              /\ fact[c.metric] \in s /\ HasName(s, fact.connector)
              /\ Unmistakable(fact.connector, p) => fact.connector \in s

\* A reply that passes _validate_response has, for each of its claims, the value
\* in the fact and, of a measure, connector and number in one sentence.
LEMMA ValidReplyShows ==
  ASSUME NEW p \in Presentations, NEW reply, ValidReply(reply, p), NEW claim \in reply.claims
  PROVE  ClaimShown(claim, reply.segments, p)
  <1> DEFINE fact == p.rows[claim.fact]
             value == Value(fact, claim.metric)
  <1>1. value # Missing /\ claim.fact \in 1..Displayed(p)
    BY DEF ValidReply, ValidClaim
  <1>2. ASSUME claim.metric \in Metrics, fact.connector # Missing
        PROVE  \E s \in reply.segments :
                  /\ fact[claim.metric] \in s /\ HasName(s, fact.connector)
                  /\ Unmistakable(fact.connector, p) => fact.connector \in s
    <2>1. claim.metric # "detail:error_message"
      BY <1>2 DEF Metrics
    <2>2. ClaimEntity(fact, claim.metric) = Entity(fact) /\ fact.connector \in Entity(fact)
      BY <1>2, <2>1 DEF ClaimEntity, Entity
    <2>3. value = fact[claim.metric] /\ value \in Numerals
      BY <1>1, <1>2, MeasureIsNumeral
    <2>4. Covered(reply.segments, claim, reply.claims, p)
      BY DEF ValidReply
    <2>5. PICK s \in reply.segments : Tells(s, claim, p)
      BY <2>1, <2>2, <2>4 DEF Covered
    <2>6. HasName(s, fact.connector) /\ Shows(s, value)
      BY <2>2, <2>5 DEF Tells
    <2>7. fact[claim.metric] \in s
      BY <2>3, <2>6 DEF Shows
    <2>8. ValidNames(reply.segments, p)
      BY DEF ValidReply
    <2>9. Unmistakable(fact.connector, p) => fact.connector \in s
      BY <2>6, <2>8, UnmistakableStands
    <2>10. QED BY <2>6, <2>7, <2>9
  <1>3. QED BY <1>1, <1>2 DEF ClaimShown

GroundedInv == presentation \in Presentations /\ ClaimsShown

LEMMA ClaimsShownStep == GroundedInv /\ [GroundedNext]_groundedVars => GroundedInv'
  <1> SUFFICES ASSUME GroundedInv, [GroundedNext]_groundedVars PROVE GroundedInv'
    OBVIOUS
  <1> USE DEF GroundedInv
  <1>1. CASE Accepted
    <2>1. PICK reply \in Replies :
             /\ ValidReply(reply, presentation)
             /\ answer' = [by |-> "model", segments |-> reply.segments,
                           claims |-> {[fact |-> c.fact, metric |-> c.metric] : c \in reply.claims},
                           notice |-> Notice(presentation)]
      BY <1>1 DEF Accepted
    <2>2. presentation' = presentation
      BY <1>1 DEF Accepted
    <2>3. /\ answer'.segments = reply.segments
          /\ answer'.claims = {[fact |-> c.fact, metric |-> c.metric] : c \in reply.claims}
      BY <2>1
    <2>4. ASSUME NEW c \in answer'.claims
          PROVE  ClaimShown(c, answer'.segments, presentation)
      <3>1. PICK claim \in reply.claims : c = [fact |-> claim.fact, metric |-> claim.metric]
        BY <2>3, <2>4
      <3>2. c.fact = claim.fact /\ c.metric = claim.metric
        BY <3>1
      <3>3. ClaimShown(claim, reply.segments, presentation)
        BY <2>1, ValidReplyShows
      <3>4. QED BY <2>3, <3>2, <3>3 DEF ClaimShown
    <2>5. ClaimsShown'
      BY <2>2, <2>4 DEF ClaimsShown, ClaimShown, Unmistakable, Evidenced
    <2>6. QED BY <2>2, <2>5
  <1>2. CASE Rejected \/ UNCHANGED groundedVars
    BY <1>2 DEF Rejected, groundedVars, ClaimsShown
  <1>3. CASE Render
    BY <1>3 DEF Render, ClaimsShown
  <1>4. QED BY <1>1, <1>2, <1>3 DEF GroundedNext

\* Whatever the model writes, an answer of it that is published claims only values
\* the facts have, and each measure stands in one sentence with the name of its
\* connector, as a word unless another name of the evidence contains it
\* (_validate_response of semantic/evidence.py).
THEOREM ModelClaimsShown == GroundedSpec => []ClaimsShown
  <1>1. GroundedInit => GroundedInv
    BY DEF GroundedInit, GroundedInv, ClaimsShown
  <1>2. GroundedInv => ClaimsShown
    BY DEF GroundedInv
  <1>3. QED BY <1>1, <1>2, ClaimsShownStep, PTL DEF GroundedSpec

\* The notice that is due to a result, as NoticeExact has it.
Due(p) ==
    LET left == {n \in DOMAIN p.rows : n > SummaryLimit}
        tied == TiedBeyond(p)
    IN  IF left = {} THEN [kind |-> Missing, count |-> 0]
        ELSE IF tied # {} THEN [kind |-> "tied", count |-> Cardinality(tied)]
        ELSE [kind |-> "more", count |-> Cardinality(left)]

LEMMA NoticeIsDue ==
  ASSUME NEW p \in Presentations
  PROVE  Notice(p) = Due(p)
  <1> DEFINE rows == p.rows
             groups == p.groups
             limit == SummaryLimit
             left == {n \in DOMAIN rows : n > limit}
             tied == TiedBeyond(p)
             shown == {n \in 1..limit : rows[n].rank = rows[limit].rank}
             all == {n \in DOMAIN groups : groups[n] = groups[limit]}
  <1>1. rows \in Seq(Facts) /\ groups \in Seq(Nat) /\ limit \in Nat /\ limit >= 1
    BY GroundedAssumption DEF PresentationOK
  <1>2. /\ Len(rows) \in Nat /\ DOMAIN rows = 1..Len(rows)
        /\ Len(groups) \in Nat /\ DOMAIN groups = 1..Len(groups)
    BY <1>1
  <1>3. CASE Len(rows) <= limit
    <2>1. Displayed(p) = Len(rows) /\ Remaining(p) = 0
      BY <1>1, <1>2, <1>3 DEF Displayed, Remaining
    <2>2. left = {}
      BY <1>1, <1>2, <1>3
    <2>3. QED BY <2>1, <2>2 DEF Notice, Due
  <1>4. CASE Len(rows) > limit
    <2>1. ~(Len(rows) < limit) /\ Len(rows) - limit # 0
      BY <1>1, <1>2, <1>4
    <2>2. Displayed(p) = limit /\ Remaining(p) = Len(rows) - limit /\ Remaining(p) # 0
      BY <2>1 DEF Displayed, Remaining
    <2>3. left = limit + 1..Len(rows) /\ left # {} /\ limit \in DOMAIN rows
      BY <1>1, <1>2, <1>4
    <2>4. IsFiniteSet(left) /\ Cardinality(left) = Len(rows) - limit
      <3> DEFINE last == Len(rows)
      <3>1. last \in Nat /\ limit + 1 \in Nat /\ last > limit
        BY <1>1, <1>2, <1>4
      <3>2. left = limit + 1..last
        BY <2>3
      <3> HIDE DEF last, left
      <3>3. IsFiniteSet(limit + 1..last) /\ Cardinality(limit + 1..last) = last - limit
        BY <1>1, <3>1, FS_Interval
      <3>4. QED BY <3>2, <3>3 DEF last
    <2>5. IsFiniteSet(tied) /\ IsFiniteSet(shown) /\ IsFiniteSet(1..limit)
      <3>1. IsFiniteSet(1..limit) /\ IsFiniteSet(1..Len(groups))
        BY <1>1, <1>2, FS_Interval
      <3>2. tied \subseteq 1..Len(groups) /\ shown \subseteq 1..limit
        BY <1>2 DEF TiedBeyond
      <3> HIDE DEF tied, shown
      <3>3. QED BY <3>1, <3>2, FS_Subset
    <2>6. /\ Cardinality(tied) \in Nat /\ Cardinality(shown) \in Nat
          /\ Cardinality(tied) = 0 <=> tied = {}
      BY <2>5, FS_CardinalityType, FS_EmptySet
    <2>7. ShownAtBoundary(p) = Cardinality(shown) /\ Boundary(p) = rows[limit]
      BY <2>2 DEF ShownAtBoundary, Boundary
    <2>8. CASE p.ranked
      <3>1. /\ Len(rows) <= Len(groups)
            /\ \A n \in DOMAIN rows :
                  /\ rows[n].rank = groups[n]
                  /\ rows[n].ties = Cardinality({m \in DOMAIN groups : groups[m] = groups[n]})
        BY <2>8, GroundedAssumption DEF PresentationOK
      <3>2. rows[limit].ties = Cardinality(all)
        BY <2>3, <3>1
      <3>3. 1..limit \subseteq DOMAIN rows /\ limit < Len(groups)
        BY <1>1, <1>2, <1>4, <3>1
      <3>4. shown = {n \in 1..limit : groups[n] = groups[limit]}
        BY <2>3, <3>1, <3>3
      <3>5. tied = {n \in DOMAIN groups : n > limit /\ groups[n] = groups[limit]}
        BY <2>8 DEF TiedBeyond
      <3>6. all = shown \cup tied /\ shown \cap tied = {}
        BY <1>1, <1>2, <3>3, <3>4, <3>5
      <3>7. Cardinality(shown \cap tied) = 0
        BY <3>6, FS_EmptySet
      <3>8. Cardinality(all) = Cardinality(shown) + Cardinality(tied)
        <4> HIDE DEF tied, shown, all
        <4>1. Cardinality(shown \cup tied)
                = Cardinality(shown) + Cardinality(tied) - Cardinality(shown \cap tied)
          BY <2>5, FS_Union
        <4>2. QED BY <2>6, <3>6, <3>7, <4>1
      <3> HIDE DEF tied, shown, all
      <3>9. BoundaryTieTruncated(p) <=> tied # {}
        BY <1>4, <1>1, <1>2, <2>2, <2>6, <2>7, <3>2, <3>8 DEF BoundaryTieTruncated
      <3>10. Boundary(p).ties - ShownAtBoundary(p) = Cardinality(tied)
        BY <2>6, <2>7, <3>2, <3>8
      <3> HIDE DEF left
      <3>11. Due(p) = IF tied # {} THEN [kind |-> "tied", count |-> Cardinality(tied)]
                      ELSE [kind |-> "more", count |-> Cardinality(left)]
        BY <2>3 DEF Due, left, tied
      <3>12. QED BY <2>2, <2>4, <3>9, <3>10, <3>11 DEF Notice
    <2>9. CASE ~p.ranked
      <3>1. rows[limit].ties = 0 /\ tied = {}
        BY <2>3, <2>9, GroundedAssumption DEF PresentationOK, TiedBeyond
      <3>2. ~BoundaryTieTruncated(p)
        BY <2>6, <2>7, <3>1 DEF BoundaryTieTruncated
      <3> HIDE DEF tied, shown, all, left
      <3>3. Due(p) = [kind |-> "more", count |-> Cardinality(left)]
        BY <2>3, <3>1 DEF Due, left, tied
      <3>4. QED BY <2>2, <2>4, <3>2, <3>3 DEF Notice
    <2>10. QED BY <2>8, <2>9
  <1>5. QED BY <1>1, <1>2, <1>3, <1>4

NoticeInv ==
    /\ presentation \in Presentations
    /\ answer # NoReply => answer.notice = Notice(presentation)

\* The notice under an answer, whoever wrote that, counts exactly what the answer
\* leaves out: the results left, or the groups of the data that share the last rank
\* shown, those beyond the end of the result among them (_summary_notice of
\* semantic/presentation.py and evidence.py).
THEOREM NoticesExact == GroundedSpec => []NoticeExact
  <1>1. GroundedInit => NoticeInv
    BY DEF GroundedInit, NoticeInv
  <1>2. NoticeInv /\ [GroundedNext]_groundedVars => NoticeInv'
    <2> SUFFICES ASSUME NoticeInv, [GroundedNext]_groundedVars PROVE NoticeInv'
      OBVIOUS
    <2>1. presentation' = presentation
      BY DEF GroundedNext, Accepted, Rejected, Render, groundedVars
    <2>2. answer' = answer \/ answer'.notice = Notice(presentation)
      BY DEF GroundedNext, Accepted, Rejected, Render, groundedVars
    <2>3. Notice(presentation)' = Notice(presentation)
      BY <2>1
    <2>4. QED BY <2>1, <2>2, <2>3 DEF NoticeInv
  <1>3. NoticeInv => NoticeExact
    BY NoticeIsDue DEF NoticeInv, NoticeExact, Due
  <1>4. QED BY <1>1, <1>2, <1>3, PTL DEF GroundedSpec

-----------------------------------------------------------------------------
(* ShadowComparison: slots *)

LEMMA ComparisonSteps ==
  ASSUME ComparisonNext
  PROVE  \/ \E a \in Answerers : AnswerFromLegacy(a)
         \/ \E a \in Answerers : Schedule(a)
         \/ \E a \in Answerers : Submit(a)
         \/ StartComparison
         \/ QueryDbt
         \/ Recheck
         \/ SourceChanges
         \/ DbtBuild
         \/ CloseService
         \/ ShutExecutor
  BY DEF ComparisonNext, ComparisonWorks

-----------------------------------------------------------------------------
(* Slots *)

Holders == {a \in Answerers : holds[a]}

(* The part of the types the count of slots needs. *)
SlotTypes ==
    /\ holds \in [Answerers -> BOOLEAN]
    /\ free \in Nat
    /\ jobs \in Seq(Job)
    /\ running \in Job \cup {NoJob}
    /\ seen \in [Answerers -> Readings]
    /\ source \in RowSets
    /\ built \in RowSets
    /\ changes \in 0..MaxChanges

Busy == IF running = NoJob THEN 0 ELSE 1

SlotInv ==
    /\ free + Len(jobs) + Cardinality(Holders) + Busy <= Slots
    /\ closing # "shut" => free + Len(jobs) + Cardinality(Holders) + Busy = Slots

LEMMA HoldersFinite ==
  IsFiniteSet(Holders) /\ Cardinality(Holders) \in Nat
  BY ComparisonAssumption, FS_Subset, FS_CardinalityType DEF Holders

(* A thread that takes a slot, or submits its job, is counted once. *)
LEMMA HolderAdded ==
  ASSUME SlotTypes, NEW a \in Answerers, ~holds[a], holds' = [holds EXCEPT ![a] = TRUE]
  PROVE  Cardinality(Holders') = Cardinality(Holders) + 1
<1>1. Holders' = Holders \cup {a}
  BY DEF Holders, SlotTypes
<1>2. a \notin Holders
  BY DEF Holders
<1> QED
  BY <1>1, <1>2, HoldersFinite, FS_AddElement

LEMMA HolderRemoved ==
  ASSUME SlotTypes, NEW a \in Answerers, holds[a], holds' = [holds EXCEPT ![a] = FALSE]
  PROVE  Cardinality(Holders') = Cardinality(Holders) - 1
<1>1. Holders' = Holders \ {a}
  BY DEF Holders, SlotTypes
<1>2. a \in Holders
  BY DEF Holders
<1> QED
  BY <1>1, <1>2, HoldersFinite, FS_RemoveElement

LEMMA ChosenJob ==
  ASSUME SlotTypes, jobs # << >>
  PROVE  /\ [Head(jobs) EXCEPT !.stage = "dbt"] \in Job
         /\ [Head(jobs) EXCEPT !.stage = "dbt"] # NoJob
         /\ Tail(jobs) \in Seq(Job)
         /\ Len(jobs) \in Nat
         /\ Len(Tail(jobs)) = Len(jobs) - 1
<1>1. Head(jobs) \in Job /\ Tail(jobs) \in Seq(Job) /\ Len(Tail(jobs)) = Len(jobs) - 1
  BY HeadTailProperties DEF SlotTypes
<1>2. [Head(jobs) EXCEPT !.stage = "dbt"] \in Job
  BY <1>1 DEF Job
<1>3. Len(jobs) \in Nat
  BY LenProperties DEF SlotTypes
<1> QED
  BY <1>1, <1>2, <1>3, ComparisonAssumption

LEMMA SubmittedJob ==
  ASSUME SlotTypes, NEW a \in Answerers,
         jobs' = Append(jobs, [stage |-> "queued", before |-> seen[a], dbt |-> NoRows])
  PROVE  jobs' \in Seq(Job) /\ Len(jobs') = Len(jobs) + 1
<1> DEFINE new == [stage |-> "queued", before |-> seen[a], dbt |-> NoRows]
<1>1. new \in Job
  <2>1. seen[a] \in Readings
    BY DEF SlotTypes
  <2> QED BY <2>1 DEF Job
<1> QED
  BY <1>1, AppendProperties DEF SlotTypes

LEMMA QueriedJob ==
  ASSUME SlotTypes, running # NoJob, NEW rows \in DbtShows
  PROVE  /\ rows \in RowSets
         /\ [running EXCEPT !.stage = "recheck", !.dbt = rows] \in Job
         /\ [running EXCEPT !.stage = "recheck", !.dbt = rows] # NoJob
<1>1. running \in Job
  BY DEF SlotTypes
<1>2. rows \in RowSets
  BY DEF SlotTypes, DbtShows
<1>3. [running EXCEPT !.stage = "recheck", !.dbt = rows] \in Job
  BY <1>1, <1>2 DEF Job
<1> QED
  BY <1>2, <1>3, ComparisonAssumption

LEMMA SlotTypesStep ==
  ASSUME SlotTypes, [ComparisonNext]_comparisonVars
  PROVE  SlotTypes'
<1>1. CASE UNCHANGED comparisonVars
  BY <1>1 DEF comparisonVars, SlotTypes
<1>11. ASSUME NEW a \in Answerers, AnswerFromLegacy(a) PROVE SlotTypes'
  <2>1. [rows |-> source, at |-> changes] \in Readings
    BY DEF SlotTypes, Readings
  <2>2. seen' \in [Answerers -> Readings]
    BY <1>11, <2>1 DEF AnswerFromLegacy, SlotTypes
  <2> QED BY <1>11, <2>2 DEF AnswerFromLegacy, SlotTypes, sourceVars
<1>2. ASSUME NEW a \in Answerers, Schedule(a) PROVE SlotTypes'
  <2>1. free' \in Nat
    BY <1>2 DEF Schedule, SlotTypes
  <2>2. holds' \in [Answerers -> BOOLEAN]
    BY <1>2 DEF Schedule, SlotTypes
  <2> QED BY <1>2, <2>1, <2>2 DEF Schedule, SlotTypes, sourceVars
<1>3. ASSUME NEW a \in Answerers, Submit(a) PROVE SlotTypes'
  <2>1. jobs' \in Seq(Job)
    BY <1>3, SubmittedJob DEF Submit, SlotTypes
  <2>2. free' \in Nat
    BY <1>3 DEF Submit, SlotTypes
  <2>3. holds' \in [Answerers -> BOOLEAN]
    BY <1>3 DEF Submit, SlotTypes
  <2> QED BY <1>3, <2>1, <2>2, <2>3 DEF Submit, SlotTypes, sourceVars
<1>4. CASE StartComparison
  BY <1>4, ChosenJob DEF StartComparison, SlotTypes, answerVars, sourceVars
<1>5. CASE QueryDbt
  <2>1. running' \in Job \cup {NoJob} /\ free' \in Nat
    <3>1. CASE Report("dbt_query_failed")
      BY <3>1 DEF Report, SlotTypes
    <3>2. ASSUME NEW rows \in DbtShows,
                 running' = [running EXCEPT !.stage = "recheck", !.dbt = rows], UNCHANGED free
          PROVE  running' \in Job /\ free' \in Nat
      BY <1>5, <3>2, QueriedJob DEF QueryDbt, SlotTypes
    <3> QED BY <1>5, <3>1, <3>2 DEF QueryDbt
  <2> QED BY <1>5, <2>1 DEF QueryDbt, SlotTypes, answerVars, sourceVars
<1>6. CASE Recheck
  BY <1>6 DEF Recheck, Report, SlotTypes, answerVars, sourceVars
<1>7. CASE SourceChanges
  BY <1>7, ComparisonAssumption DEF SourceChanges, SlotTypes, answerVars
<1>8. CASE DbtBuild
  BY <1>8 DEF DbtBuild, SlotTypes, answerVars
<1>9. CASE CloseService
  BY <1>9 DEF CloseService, SlotTypes, answerVars, sourceVars
<1>10. CASE ShutExecutor
  BY <1>10, EmptySeq DEF ShutExecutor, SlotTypes, answerVars, sourceVars
<1> QED
  BY <1>1, <1>2, <1>3, <1>4, <1>5, <1>6, <1>7, <1>8, <1>9, <1>10, <1>11, ComparisonSteps

LEMMA SlotStep ==
  ASSUME SlotTypes, SlotInv, [ComparisonNext]_comparisonVars
  PROVE  SlotInv'
<1>0. /\ Len(jobs) \in Nat /\ Cardinality(Holders) \in Nat /\ Busy \in 0..1
      /\ free \in Nat /\ Slots \in Nat
  BY HoldersFinite, LenProperties, ComparisonAssumption DEF SlotTypes, Busy
<1>1. CASE UNCHANGED comparisonVars
  BY <1>1 DEF comparisonVars, SlotInv, Holders, Busy
<1>11. ASSUME NEW a \in Answerers, AnswerFromLegacy(a) PROVE SlotInv'
  BY <1>11 DEF AnswerFromLegacy, SlotInv, Holders, Busy
<1>2. ASSUME NEW a \in Answerers, Schedule(a) PROVE SlotInv'
  <2>1. Cardinality(Holders') = Cardinality(Holders) + 1
    BY <1>2, HolderAdded DEF Schedule
  <2>2. free' = free - 1 /\ jobs' = jobs /\ Busy' = Busy /\ closing' = closing
    BY <1>2 DEF Schedule, Busy
  <2> QED BY <1>0, <2>1, <2>2 DEF SlotInv
<1>3. ASSUME NEW a \in Answerers, Submit(a) PROVE SlotInv'
  <2>1. Cardinality(Holders') = Cardinality(Holders) - 1
    BY <1>3, HolderRemoved DEF Submit
  <2>2. Busy' = Busy /\ closing' = closing
    BY <1>3 DEF Submit, Busy
  <2>3. free' + Len(jobs') = free + Len(jobs) + 1
    BY SMTT(30), <1>0, <1>3, SubmittedJob DEF Submit
  <2>4. free' \in Nat /\ Len(jobs') \in Nat
    BY <1>3, SlotTypesStep, LenProperties DEF SlotTypes, ComparisonNext
  <2>5. free' + Len(jobs') + Cardinality(Holders') + Busy'
        = free + Len(jobs) + Cardinality(Holders) + Busy
    BY <1>0, <2>1, <2>2, <2>3, <2>4
  <2> QED BY <2>2, <2>5 DEF SlotInv
<1>4. CASE StartComparison
  <2>1. Len(jobs') = Len(jobs) - 1 /\ Busy = 0 /\ Busy' = 1
    BY <1>4, ChosenJob DEF StartComparison, Busy
  <2>2. Holders' = Holders /\ free' = free /\ closing' = closing
    BY <1>4 DEF StartComparison, Holders, answerVars
  <2> QED BY <1>0, <2>1, <2>2 DEF SlotInv
<1>5. CASE QueryDbt
  <2>1. Holders' = Holders /\ jobs' = jobs /\ closing' = closing
    BY <1>5 DEF QueryDbt, Holders, answerVars
  <2>2. CASE Report("dbt_query_failed")
    <3>1. free' = free + 1 /\ Busy = 1 /\ Busy' = 0
      BY <1>5, <2>2 DEF QueryDbt, Report, Busy
    <3> QED BY <1>0, <2>1, <3>1 DEF SlotInv
  <2>3. CASE /\ \E rows \in DbtShows :
                   running' = [running EXCEPT !.stage = "recheck", !.dbt = rows]
             /\ UNCHANGED free
    <3>1. Busy = 1 /\ Busy' = 1 /\ free' = free
      BY <1>5, <2>3, QueriedJob DEF QueryDbt, Busy
    <3> QED BY <1>0, <2>1, <3>1 DEF SlotInv
  <2> QED BY <1>5, <2>2, <2>3 DEF QueryDbt
<1>6. CASE Recheck
  <2>1. Holders' = Holders /\ jobs' = jobs /\ closing' = closing
    BY <1>6 DEF Recheck, Holders, answerVars
  <2>2. free' = free + 1 /\ Busy = 1 /\ Busy' = 0
    BY <1>6 DEF Recheck, Report, Busy
  <2> QED BY <1>0, <2>1, <2>2 DEF SlotInv
<1>7. CASE SourceChanges
  BY <1>7 DEF SourceChanges, SlotInv, Holders, Busy, answerVars
<1>8. CASE DbtBuild
  BY <1>8 DEF DbtBuild, SlotInv, Holders, Busy, answerVars
<1>9. CASE CloseService
  BY <1>9 DEF CloseService, SlotInv, Holders, Busy, answerVars
<1>10. CASE ShutExecutor
  <2>1. Len(jobs') = 0
    BY <1>10, EmptySeq DEF ShutExecutor
  <2>2. Holders' = Holders /\ free' = free /\ Busy' = Busy /\ closing' = "shut"
    BY <1>10 DEF ShutExecutor, Holders, Busy, answerVars
  <2> QED BY <1>0, <2>1, <2>2 DEF SlotInv
<1> QED
  BY <1>1, <1>2, <1>3, <1>4, <1>5, <1>6, <1>7, <1>8, <1>9, <1>10, <1>11, ComparisonSteps

LEMMA SlotTypesInit == ComparisonInit => SlotTypes
<1> SUFFICES ASSUME ComparisonInit PROVE SlotTypes
  OBVIOUS
<1>1. changes \in 0..MaxChanges /\ source \in RowSets /\ built \in RowSets
  BY ComparisonAssumption DEF ComparisonInit
<1>2. [rows |-> source, at |-> 0] \in Readings
  BY <1>1, ComparisonAssumption DEF Readings
<1> QED
  BY <1>1, <1>2, ComparisonAssumption, EmptySeq DEF ComparisonInit, SlotTypes

LEMMA SlotInvInit == ComparisonInit => SlotInv
<1> SUFFICES ASSUME ComparisonInit PROVE SlotInv
  OBVIOUS
<1>1. Cardinality(Holders) = 0
  <2>1. Holders = {}
    BY DEF ComparisonInit, Holders
  <2> QED BY <2>1, FS_EmptySet
<1>2. Len(jobs) = 0 /\ Busy = 0 /\ free = Slots /\ Slots \in Nat
  BY ComparisonAssumption, EmptySeq DEF ComparisonInit, Busy
<1> QED
  BY <1>1, <1>2 DEF SlotInv

(* Every slot of the queue is free or held by one comparison on its way, and no
   slot is given back twice, until the executor drops what it has not started
   (analytics_chat.py:1037-1161, 1279-1293). *)
THEOREM SlotsAreConserved == ComparisonSpec => []SlotsConserved
<1>1. SlotTypes /\ SlotInv => SlotsConserved
  <2> SUFFICES ASSUME SlotTypes, SlotInv PROVE SlotsConserved
    OBVIOUS
  <2>1. Len(jobs) \in Nat /\ Cardinality(Holders) \in Nat /\ free \in Nat
    BY HoldersFinite, LenProperties DEF SlotTypes
  <2>2. Cardinality({a \in Answerers : holds[a]}) = Cardinality(Holders)
    BY DEF Holders
  <2> QED BY <2>1, <2>2, ComparisonAssumption DEF SlotInv, SlotsConserved, Busy
<1>2. ComparisonInit => SlotTypes /\ SlotInv
  BY SlotTypesInit, SlotInvInit
<1>3. SlotTypes /\ SlotInv /\ [ComparisonNext]_comparisonVars => (SlotTypes /\ SlotInv)'
  BY SlotTypesStep, SlotStep
<1> QED
  BY <1>1, <1>2, <1>3, PTL DEF ComparisonSpec

-----------------------------------------------------------------------------
(* The types of the comparison *)

(* The rest of the types: the configuration stays, the service closes once, and
   a verdict is one of those a comparison can report. *)
ReportTypes ==
    /\ snapshot \in BOOLEAN
    /\ faithful \in BOOLEAN
    /\ closing \in {"no", "closed", "shut"}
    /\ verdict \in Verdicts \cup {"none"}

LEMMA ReportTypesStep ==
  ASSUME ReportTypes, [ComparisonNext]_comparisonVars
  PROVE  ReportTypes'
<1> USE DEF ReportTypes, configVars
<1>1. CASE UNCHANGED comparisonVars
  BY <1>1 DEF comparisonVars
<1>2. ASSUME NEW a \in Answerers, AnswerFromLegacy(a) \/ Schedule(a) \/ Submit(a)
      PROVE  ReportTypes'
  BY <1>2 DEF AnswerFromLegacy, Schedule, Submit
<1>3. CASE StartComparison
  BY <1>3 DEF StartComparison
<1>4. CASE QueryDbt
  BY <1>4 DEF QueryDbt, Report, Verdicts
<1>5. CASE Recheck
  <2>1. ClassifyComparison(running, source) \in Verdicts
    BY DEF ClassifyComparison, Verdicts
  <2> QED BY <1>5, <2>1 DEF Recheck, Report, Verdicts
<1>6. CASE SourceChanges \/ DbtBuild
  BY <1>6 DEF SourceChanges, DbtBuild
<1>7. CASE CloseService \/ ShutExecutor
  BY <1>7 DEF CloseService, ShutExecutor
<1> QED
  BY <1>1, <1>2, <1>3, <1>4, <1>5, <1>6, <1>7, ComparisonSteps

-----------------------------------------------------------------------------
(* Verdicts *)

(* Rows read at a moment are the rows of now when nothing changed since. *)
Since(read) ==
    /\ read.at <= changes
    /\ read.at = changes => read.rows = source

(* When faithful dbt models with the common snapshot returned other rows than the
   answer was made from, the facts had changed, and changed again if the rows are
   now what they were. *)
JobSound(job) ==
    /\ Since(job.before)
    /\ job.stage = "recheck" /\ faithful /\ snapshot /\ job.dbt # job.before.rows =>
          /\ job.before.at < changes
          /\ job.before.at + 1 = changes => job.before.rows # source

VerdictInv ==
    /\ \A a \in Answerers : Since(seen[a])
    /\ \A i \in 1..Len(jobs) : Since(jobs[i].before) /\ jobs[i].stage = "queued"
    /\ running # NoJob => JobSound(running)
    /\ moves \in 0..MaxChanges
    /\ VerdictSound

LEMMA VerdictStep ==
  ASSUME SlotTypes, VerdictInv, [ComparisonNext]_comparisonVars
  PROVE  VerdictInv'
<1>0. /\ \A a \in Answerers : seen[a] \in Readings /\ seen[a].at \in 0..MaxChanges
      /\ Len(jobs) \in Nat
      /\ changes \in 0..MaxChanges /\ MaxChanges \in Nat
      /\ running # NoJob => running \in Job /\ running.before.at \in 0..MaxChanges
  BY LenProperties, ComparisonAssumption DEF SlotTypes, Readings, Job
<1>1. CASE UNCHANGED comparisonVars
  BY <1>1 DEF comparisonVars, VerdictInv, JobSound, Since, VerdictSound
<1>2. ASSUME NEW a \in Answerers, AnswerFromLegacy(a) PROVE VerdictInv'
  <2>1. \A b \in Answerers : Since(seen[b])'
    BY <1>0, <1>2 DEF AnswerFromLegacy, VerdictInv, Since, SlotTypes, sourceVars
  <2> QED
    BY <1>2, <2>1 DEF AnswerFromLegacy, VerdictInv, JobSound, Since, VerdictSound, sourceVars,
                      configVars
<1>11. ASSUME NEW a \in Answerers, Schedule(a) PROVE VerdictInv'
  BY <1>11 DEF Schedule, VerdictInv, JobSound, Since, VerdictSound, sourceVars, configVars
<1>3. ASSUME NEW a \in Answerers, Submit(a) PROVE VerdictInv'
  <2> DEFINE new == [stage |-> "queued", before |-> seen[a], dbt |-> NoRows]
  <2>0. UNCHANGED <<snapshot, faithful, seen, running, verdict, moves, source, changes>>
    BY <1>3 DEF Submit, configVars, sourceVars
  <2>1. \A i \in 1..Len(jobs') : Since(jobs'[i].before) /\ jobs'[i].stage = "queued"
    <3>1. CASE jobs' = Append(jobs, new)
      <4>1. Since(seen[a])
        BY DEF VerdictInv
      <4>2. /\ Len(jobs') = Len(jobs) + 1
            /\ \A i \in 1..Len(jobs) : jobs'[i] = jobs[i]
            /\ jobs'[Len(jobs) + 1] = new
        BY <3>1, AppendProperties, <1>0 DEF SlotTypes
      <4>3. \A i \in 1..Len(jobs') : i \in 1..Len(jobs) \/ i = Len(jobs) + 1
        BY <1>0, <4>2
      <4> QED BY <4>1, <4>2, <4>3 DEF VerdictInv
    <3>2. CASE jobs' = jobs
      BY <3>2 DEF VerdictInv
    <3> QED BY <1>3, <3>1, <3>2 DEF Submit
  <2> QED BY <2>0, <2>1 DEF VerdictInv, JobSound, Since, VerdictSound
<1>4. CASE StartComparison
  <2>1. /\ jobs # << >> /\ jobs' = Tail(jobs) /\ running' = [Head(jobs) EXCEPT !.stage = "dbt"]
        /\ UNCHANGED <<snapshot, faithful, seen, verdict, moves, source, changes>>
    BY <1>4 DEF StartComparison, configVars, answerVars, sourceVars
  <2>2. Len(jobs) >= 1 /\ Head(jobs) = jobs[1] /\ Head(jobs) \in Job
    BY <2>1, <1>0, HeadTailProperties, EmptySeq DEF SlotTypes
  <2>3. running'.stage = "dbt" /\ Since(running'.before)
    BY <1>0, <2>1, <2>2 DEF VerdictInv, Job
  <2>4. /\ Len(jobs') = Len(jobs) - 1
        /\ \A i \in 1..Len(jobs') : jobs'[i] = jobs[i + 1]
    BY <2>1, HeadTailProperties DEF SlotTypes
  <2>5. \A i \in 1..Len(jobs') : i + 1 \in 1..Len(jobs)
    BY <1>0, <2>4
  <2> QED BY <2>1, <2>3, <2>4, <2>5 DEF VerdictInv, JobSound, Since, VerdictSound
<1>5. CASE QueryDbt
  <2>1. UNCHANGED <<snapshot, faithful, seen, jobs, source, changes>>
    BY <1>5 DEF QueryDbt, configVars, answerVars, sourceVars
  <2>2. running \in Job /\ running # NoJob /\ Since(running.before)
    BY <1>5 DEF QueryDbt, SlotTypes, VerdictInv, JobSound
  <2>3. CASE Report("dbt_query_failed")
    <3>1. moves' \in 0..MaxChanges
      BY <1>0, <2>2, <2>3 DEF Report, Since
    <3> QED BY <2>1, <2>3, <3>1 DEF Report, VerdictInv, Since, VerdictSound
  <2>4. ASSUME NEW rows \in DbtShows,
               running' = [running EXCEPT !.stage = "recheck", !.dbt = rows],
               UNCHANGED <<verdict, moves>>
        PROVE  VerdictInv'
    <3>1. running'.before = running.before /\ running'.dbt = rows
      BY <2>2, <2>4 DEF Job
    <3>2. faithful /\ snapshot => rows = source
      BY DEF DbtShows
    <3>3. JobSound(running)'
      BY <1>0, <2>1, <2>2, <3>1, <3>2 DEF JobSound, Since
    <3> QED BY <2>1, <2>4, <3>3 DEF VerdictInv, Since, VerdictSound
  <2> QED BY <1>5, <2>3, <2>4 DEF QueryDbt
<1>6. CASE Recheck
  <2>1. UNCHANGED <<snapshot, faithful, seen, jobs, source, changes>>
    BY <1>6 DEF Recheck, configVars, answerVars, sourceVars
  <2>2. running \in Job /\ JobSound(running) /\ running.stage = "recheck" /\ running # NoJob
    BY <1>6 DEF Recheck, SlotTypes, VerdictInv
  <2>3. moves' = changes - running.before.at /\ moves' \in 0..MaxChanges /\ running' = NoJob
    BY <1>0, <1>6, <2>2 DEF Recheck, Report, JobSound, Since
  <2>4. CASE verdict' = "legacy_query_failed"
    BY <2>1, <2>3, <2>4 DEF VerdictInv, Since, VerdictSound
  <2>5. CASE verdict' = ClassifyComparison(running, source)
    <3>1. verdict' = "transformation_mismatch" =>
             source = running.before.rows /\ snapshot /\ running.dbt # running.before.rows
      BY <2>5 DEF ClassifyComparison
    <3>2. verdict' = "transformation_mismatch" /\ faithful => moves' >= 2
      BY <1>0, <2>2, <2>3, <3>1 DEF JobSound
    <3> QED BY <2>1, <2>3, <3>2 DEF VerdictInv, Since, VerdictSound
  <2> QED BY <1>6, <2>4, <2>5 DEF Recheck, Report
<1>7. CASE SourceChanges
  <2>1. changes' = changes + 1
        /\ UNCHANGED <<snapshot, faithful, seen, jobs, running, verdict, moves>>
    BY <1>7 DEF SourceChanges, configVars, answerVars
  <2>2. \A a \in Answerers : Since(seen[a])'
    BY <1>0, <2>1 DEF VerdictInv, Since
  <2>3. \A i \in 1..Len(jobs) : Since(jobs[i].before)'
    <3> SUFFICES ASSUME NEW i \in 1..Len(jobs) PROVE Since(jobs[i].before)'
      OBVIOUS
    <3>1. jobs[i] \in Job
      BY <1>0, ElementOfSeq DEF SlotTypes
    <3>2. jobs[i].before.at \in Int
      BY <1>0, <3>1 DEF Job, Readings
    <3> QED BY <1>0, <2>1, <3>2 DEF VerdictInv, Since
  <2>4. running # NoJob => JobSound(running)'
    <3> SUFFICES ASSUME running # NoJob PROVE JobSound(running)'
      OBVIOUS
    <3>1. JobSound(running)
      BY DEF VerdictInv
    <3>2. Since(running.before)'
      BY <1>0, <2>1, <3>1 DEF JobSound, Since
    <3> QED BY <1>0, <2>1, <3>1, <3>2 DEF JobSound
  <2> QED BY <2>1, <2>2, <2>3, <2>4 DEF VerdictInv, VerdictSound
<1>8. CASE DbtBuild
  BY <1>8 DEF DbtBuild, VerdictInv, JobSound, Since, VerdictSound, configVars, answerVars
<1>9. CASE CloseService
  BY <1>9 DEF CloseService, VerdictInv, JobSound, Since, VerdictSound, configVars, answerVars,
              sourceVars
<1>10. CASE ShutExecutor
  <2>1. jobs' = << >>
        /\ UNCHANGED <<snapshot, faithful, seen, running, verdict, moves, source, changes>>
    BY <1>10 DEF ShutExecutor, configVars, answerVars, sourceVars
  <2>2. (\A i \in 1..Len(jobs) : Since(jobs[i].before) /\ jobs[i].stage = "queued")'
    BY <2>1, EmptySeq
  <2> QED BY <2>1, <2>2 DEF VerdictInv, JobSound, Since, VerdictSound
<1> QED
  BY <1>1, <1>2, <1>3, <1>4, <1>5, <1>6, <1>7, <1>8, <1>9, <1>10, <1>11, ComparisonSteps

LEMMA VerdictInit == ComparisonInit => VerdictInv
  BY EmptySeq, ComparisonAssumption DEF ComparisonInit, VerdictInv, Since, VerdictSound

(* A comparison blames faithful dbt models only when the rows changed and changed
   back between the answer and the second legacy query, for any results and any
   number of changes, comparisons and builds (semantic/fact_source.py:104-127). *)
THEOREM VerdictsAreSound == ComparisonSpec => []VerdictSound
<1>1. SlotTypes /\ VerdictInv => VerdictSound
  BY DEF VerdictInv
<1>2. ComparisonInit => SlotTypes /\ VerdictInv
  BY SlotTypesInit, VerdictInit
<1>3. SlotTypes /\ VerdictInv /\ [ComparisonNext]_comparisonVars => (SlotTypes /\ VerdictInv)'
  BY SlotTypesStep, VerdictStep
<1> QED
  BY <1>1, <1>2, <1>3, PTL DEF ComparisonSpec

(* Every variable of the comparison keeps its type; that no more slots are free
   than there are rests on the count of those that are held, and that a comparison
   lasts no negative number of changes on what it was made from
   (analytics_chat.py:1037-1161). *)
THEOREM ComparisonTypesStay == ComparisonSpec => []ComparisonTypeOK
<1>1. ComparisonInit => SlotTypes /\ SlotInv /\ ReportTypes /\ VerdictInv
  BY SlotTypesInit, SlotInvInit, VerdictInit DEF ComparisonInit, ReportTypes
<1>2. SlotTypes /\ SlotInv /\ ReportTypes /\ VerdictInv /\ [ComparisonNext]_comparisonVars
        => (SlotTypes /\ SlotInv /\ ReportTypes /\ VerdictInv)'
  BY SlotTypesStep, SlotStep, ReportTypesStep, VerdictStep
<1>3. SlotTypes /\ SlotInv /\ ReportTypes /\ VerdictInv => ComparisonTypeOK
  <2> SUFFICES ASSUME SlotTypes, SlotInv, ReportTypes, VerdictInv PROVE ComparisonTypeOK
    OBVIOUS
  <2>1. Len(jobs) \in Nat /\ Cardinality(Holders) \in Nat /\ Busy \in 0..1 /\ free \in Nat
    BY HoldersFinite, LenProperties DEF SlotTypes, Busy
  <2>2. free \in 0..Slots
    BY <2>1, ComparisonAssumption DEF SlotInv
  <2> QED BY <2>2 DEF SlotTypes, ReportTypes, VerdictInv, ComparisonTypeOK
<1> QED
  BY <1>1, <1>2, <1>3, PTL DEF ComparisonSpec

-----------------------------------------------------------------------------
(* From a question to a query: what the planner lets a model propose *)

\* _apply_explicit_time_scope leaves a proposal a proposal.
LEMMA ScopedPlan ==
  ASSUME NEW value, IsProposal(value), NEW q
  PROVE  IsProposal(WithScope(value, q))
  <1>1. DOMAIN value = PlanFields /\ "request" \in PlanFields
    BY DEF IsProposal, PlanFields
  <1>2. CASE WithScope(value, q) = value
    BY <1>2
  <1>3. CASE /\ value.request # NoPlan
             /\ WithScope(value, q) =
                  [value EXCEPT !.request.time_scope = q.time_scope,
                                !.request.filter_scope = q.time_scope,
                                !.request.origin = "explicit"]
    <2>1. DOMAIN value.request = RequestFields
      BY <1>3 DEF IsProposal
    <2>2. IsProposal([value EXCEPT !.request.time_scope = q.time_scope,
                                   !.request.filter_scope = q.time_scope,
                                   !.request.origin = "explicit"])
      BY <1>1, <2>1 DEF IsProposal, PlanFields, RequestFields
    <2>3. QED BY <1>3, <2>2
  <1>4. QED BY <1>2, <1>3 DEF WithScope

\* The normal form of a request has one period; its number, its ranking and its
\* direction, and what it groups and sorts by, are those that were validated.
LEMMA ParsedFields ==
  ASSUME NEW request, request = [f \in RequestFields |-> request[f]]
  PROVE  LET parsed == ParsedRequest(request) IN
         /\ parsed = [f \in RequestFields |-> parsed[f]]
         /\ parsed.filter_scope = parsed.time_scope
         /\ \A f \in {"limit", "ranking", "direction", "dimensions", "sort"} :
               parsed[f] = request[f]
  <1>1. DOMAIN request = RequestFields
    OBVIOUS
  <1>2. QED BY ZenonT(40), <1>1 DEF ParsedRequest, RequestFields

\* The metrics of the catalog.
MetricNames == {"incident_count", "average_recovery_minutes", "recovery_rate"}

\* What _parse_data_request returns: a descending ranking sorts downwards, the
\* period of the filter is that of the request, and it groups and sorts by names
\* of the catalog.
WellParsed(v) ==
    /\ v = [f \in PlanFields |-> v[f]]
    /\ v.request # NoPlan =>
          /\ v.request = [f \in RequestFields |-> v.request[f]]
          /\ v.request.filter_scope = v.request.time_scope
          /\ v.request.ranking = "descending" => v.request.direction = "desc"
          /\ v.request.dimensions \in SUBSET Dimensions /\ v.request.sort \in MetricNames

\* What a proposal is parsed to is well parsed.
LEMMA ProposedWellParsed ==
  ASSUME NEW q, NEW v \in Proposed(q)
  PROVE  WellParsed(v)
  <1>1. PICK p \in Proposals : /\ ValidPlan(WithScope(p, q))
                               /\ v = ParsedPlan(WithScope(p, q))
    BY DEF Proposed
  <1> DEFINE w == WithScope(p, q)
  <1>2. IsProposal(w)
    BY ScopedPlan, PlannerAssumption
  <1> HIDE DEF w
  <1>3. DOMAIN w = PlanFields /\ "request" \in PlanFields
    BY <1>2 DEF IsProposal, PlanFields
  <1>4. CASE w.request = NoPlan
    BY <1>1, <1>2, <1>4 DEF ParsedPlan, WellParsed, IsProposal, w
  <1>5. CASE w.request # NoPlan
    <2> DEFINE parsed == ParsedRequest(w.request)
    <2>1. v = [w EXCEPT !.request = parsed]
      BY <1>1, <1>5 DEF ParsedPlan, w
    <2>2. /\ parsed = [f \in RequestFields |-> parsed[f]]
          /\ parsed.filter_scope = parsed.time_scope
          /\ \A f \in {"limit", "ranking", "direction", "dimensions", "sort"} :
                parsed[f] = w.request[f]
      BY <1>2, <1>5, ParsedFields DEF IsProposal
    <2>3. /\ w.request.ranking = "descending" => w.request.direction = "desc"
          /\ w.request.dimensions \in SUBSET Dimensions /\ w.request.sort \in MetricNames
      BY <1>1, <1>5 DEF ValidPlan, ValidRequest, MetricNames, w
    <2> HIDE DEF parsed
    <2>4. v = [f \in PlanFields |-> v[f]] /\ v.request = parsed
      BY <1>2, <1>3, <2>1 DEF IsProposal
    <2>5. QED BY <2>2, <2>3, <2>4 DEF WellParsed
  <1>6. QED BY <1>4, <1>5

\* The query of an accepted plan, stated of the question and the plan before.
AnswersTo(compiled, q, before) ==
    /\ q.connector # "none" => compiled.connector = q.connector
    /\ q.error_code # "none" => compiled.error_code = q.error_code
    /\ q.outcome # "none" => compiled.outcome = {q.outcome}
    /\ q.details \subseteq compiled.details
    /\ q.limit # 0 =>
          /\ compiled.limit = q.limit
          /\ compiled.ranking = "descending" /\ compiled.direction = "desc"
          /\ compiled.tie_policy = "include_ties" <=> q.ties
    /\ IF q.time_scope # "none" THEN compiled.time_range = q.time_scope
       ELSE \/ compiled.time_range = "none"
            \/ before # NoPlan /\ compiled.time_range = before.time_scope

\* What a query ranks by: names of the catalog; and a ranking is the question's.
Rankable(compiled, q) ==
    /\ compiled.group_by \in SUBSET Dimensions /\ compiled.order_by \in MetricNames
    /\ compiled.ranking # "none" =>
          /\ q.limit # 0
          /\ compiled.tie_policy = IF q.ties THEN "include_ties" ELSE "exact_limit"

\* What enforce_semantic_cues lets pass, and compile_analytics_request makes of it.
LEMMA PlanAnswers ==
  ASSUME NEW q \in Questions, NEW before \in Priors, NEW plan \in Plans[q][before],
         plan.request # NoPlan
  PROVE  AnswersTo(CompiledRequest(plan.request), q, before)
         /\ Rankable(CompiledRequest(plan.request), q)
  <1>1. Plans[q][before] = {Enforced(v, q) : v \in {v \in Proposed(q) :
                               /\ ValidInheritance(v, before)
                               /\ KeepsCues(v, q, before)}}
    BY DEF Plans
  <1>2. PICK v \in Proposed(q) : plan = Enforced(v, q) /\ KeepsCues(v, q, before)
    BY <1>1
  <1>3. WellParsed(v)
    BY ProposedWellParsed
  <1>4. v.request # NoPlan
    BY <1>2 DEF Enforced
  <1> DEFINE r == v.request
             kept == [r EXCEPT !.ranking = IF q.limit = 0 THEN "none" ELSE "descending",
                               !.tie_policy = IF q.limit # 0 /\ ~q.ties THEN "exact_limit"
                                              ELSE "include_ties"]
  <1>5. DOMAIN v = PlanFields /\ "request" \in PlanFields /\ DOMAIN r = RequestFields
    BY <1>3, <1>4 DEF WellParsed, PlanFields
  <1>6. plan.request = kept
    BY <1>2, <1>4, <1>5 DEF Enforced
  <1>7. /\ kept.ranking = IF q.limit = 0 THEN "none" ELSE "descending"
        /\ kept.tie_policy = IF q.limit # 0 /\ ~q.ties THEN "exact_limit" ELSE "include_ties"
        /\ \A f \in RequestFields \ {"ranking", "tie_policy"} : kept[f] = r[f]
    BY <1>5 DEF RequestFields
  <1> HIDE DEF kept
  <1>8. /\ kept.connector = r.connector /\ kept.error_code = r.error_code
        /\ kept.outcome = r.outcome /\ kept.details = r.details /\ kept.limit = r.limit
        /\ kept.direction = r.direction /\ kept.filter_scope = r.filter_scope
        /\ kept.dimensions = r.dimensions /\ kept.sort = r.sort
    BY <1>7 DEF RequestFields
  <1> HIDE DEF r
  <1>9. /\ q.details \subseteq r.details
        /\ q.connector # "none" => r.connector = q.connector
        /\ q.error_code # "none" => r.error_code = q.error_code
        /\ q.outcome # "none" => r.outcome = {q.outcome}
        /\ q.limit # 0 => r.limit = q.limit /\ r.ranking = "descending"
    BY <1>2, <1>4 DEF KeepsCues, r
  <1>10. IF q.time_scope # "none" THEN r.time_scope = q.time_scope
         ELSE r.time_scope = "none" \/ (before # NoPlan /\ r.time_scope = before.time_scope)
    BY <1>2, <1>4 DEF KeepsCues, InheritsScope, r
  <1>11. r.filter_scope = r.time_scope /\ (r.ranking = "descending" => r.direction = "desc")
    BY <1>3, <1>4 DEF WellParsed, r
  <1> DEFINE c == CompiledRequest(kept)
  <1>12. /\ c.connector = kept.connector /\ c.error_code = kept.error_code
         /\ c.outcome = kept.outcome /\ c.details = kept.details /\ c.limit = kept.limit
         /\ c.ranking = kept.ranking /\ c.direction = kept.direction
         /\ c.time_range = kept.filter_scope
         /\ c.group_by = kept.dimensions /\ c.order_by = kept.sort
         /\ c.tie_policy = IF kept.ranking = "none" THEN "none" ELSE kept.tie_policy
    BY DEF CompiledRequest
  <1> HIDE DEF c
  <1>13. q.limit # 0 => /\ c.limit = q.limit
                        /\ c.ranking = "descending" /\ c.direction = "desc"
                        /\ c.tie_policy = IF q.ties THEN "include_ties" ELSE "exact_limit"
    BY <1>7, <1>8, <1>9, <1>11, <1>12
  <1>14. AnswersTo(c, q, before)
    BY <1>8, <1>9, <1>10, <1>11, <1>12, <1>13 DEF AnswersTo
  <1>15. r.dimensions \in SUBSET Dimensions /\ r.sort \in MetricNames
    BY <1>3, <1>4 DEF WellParsed, r
  <1>16. c.ranking # "none" => q.limit # 0
    BY <1>7, <1>12
  <1>17. Rankable(c, q)
    BY <1>8, <1>12, <1>13, <1>15, <1>16 DEF Rankable
  <1>18. QED BY <1>6, <1>14, <1>17 DEF c

\* An accepted plan is one of those that answer the question, and so is its query.
PlanningInv ==
    /\ question \in Questions
    /\ prior \in Priors
    /\ stage = "planned" => accepted \in Plans[question][prior]
    /\ query # NoPlan => AnswersTo(query, question, prior) /\ Rankable(query, question)

LEMMA PlanningStep == PlanningInv /\ [AnalyticsNext]_answeringVars => PlanningInv'
  <1> SUFFICES ASSUME PlanningInv, [AnalyticsNext]_answeringVars PROVE PlanningInv'
    OBVIOUS
  <1>1. CASE Accept
    BY <1>1 DEF Accept, PlanningInv
  <1>2. CASE Correct \/ ModelFails
    BY <1>2 DEF Correct, ModelFails, PlanningInv
  <1>3. CASE Compile
    <2>1. /\ AnswersTo(CompiledRequest(accepted.request), question, prior)
          /\ Rankable(CompiledRequest(accepted.request), question)
      BY <1>3, PlanAnswers DEF Compile, PlanningInv
    <2>2. QED BY <1>3, <2>1 DEF Compile, PlanningInv
  <1>4. CASE UNCHANGED plannerVars
    BY <1>4 DEF plannerVars, PlanningInv
  <1>5. QED
    BY <1>1, <1>2, <1>3, <1>4
    DEF AnalyticsNext, RunStatement, RunProcedure, RunFails, answeringVars

\* Whatever plan a model proposes and whatever it says it inherits, the query that
\* is run asks for what the question says (enforce_semantic_cues of
\* semantic/planner.py and compile_analytics_request).
THEOREM QueriesAnswerQuestion == AnalyticsSpec => []QueryAnswersQuestion
  <1>1. AnalyticsInit => PlanningInv
    BY DEF AnalyticsInit, PlannerInit, PlanningInv
  <1>2. PlanningInv => QueryAnswersQuestion
    BY DEF PlanningInv, AnswersTo, QueryAnswersQuestion
  <1>3. QED BY <1>1, <1>2, PlanningStep, PTL DEF AnalyticsSpec

-----------------------------------------------------------------------------
(* The order of keys *)

NameOrders == {NameOrder, ServiceOrder}

\* Each order of names is one of all names, that of keys one of all keys.
LEMMA NamesOrdered ==
  ASSUME NEW names \in NameOrders, NEW x \in Names, NEW y \in Names, NEW z \in Names
  PROVE  /\ ~Before(names, x, x)
         /\ Before(names, x, y) /\ Before(names, y, z) => Before(names, x, z)
         /\ x = y \/ Before(names, x, y) \/ Before(names, y, x)
  <1>1. names \in Seq(Names) /\ IsInjective(names) /\ Range(names) = Names
    BY AnalyticsAssumption DEF AnalyticsAssumption, NameOrders, Names
  <1>2. /\ DOMAIN names = 1..Len(names) /\ Len(names) \in Nat
        /\ \A i, j \in DOMAIN names : names[i] = names[j] => i = j
    BY <1>1 DEF IsInjective
  <1>3. PICK i, j, k \in DOMAIN names : names[i] = x /\ names[j] = y /\ names[k] = z
    BY <1>1 DEF Range
  <1>4. QED BY <1>2, <1>3 DEF Before

LEMMA ColumnsOrdered ==
  /\ DOMAIN ColumnOrder = 1..5
  /\ \A f \in Dimensions : \E n \in 1..5 : ColumnOrder[n] = f
  BY DEF ColumnOrder, Dimensions

LEMMA KeysOrdered ==
  ASSUME NEW names \in NameOrders, NEW D \in SUBSET Dimensions,
         NEW k \in [D -> Names], NEW l \in [D -> Names], NEW m \in [D -> Names]
  PROVE  /\ ~KeyBefore(names, k, k)
         /\ KeyBefore(names, k, l) /\ KeyBefore(names, l, m) => KeyBefore(names, k, m)
         /\ k = l \/ KeyBefore(names, k, l) \/ KeyBefore(names, l, k)
  <1>1. ~KeyBefore(names, k, k)
    BY NamesOrdered DEF KeyBefore
  <1>2. ASSUME KeyBefore(names, k, l), KeyBefore(names, l, m) PROVE KeyBefore(names, k, m)
    <2>1. PICK a \in 1..5 :
            /\ ColumnOrder[a] \in D /\ Before(names, k[ColumnOrder[a]], l[ColumnOrder[a]])
            /\ \A c \in 1..(a - 1) : ColumnOrder[c] \in D => k[ColumnOrder[c]] = l[ColumnOrder[c]]
      BY <1>2, ColumnsOrdered DEF KeyBefore
    <2>2. PICK b \in 1..5 :
            /\ ColumnOrder[b] \in D /\ Before(names, l[ColumnOrder[b]], m[ColumnOrder[b]])
            /\ \A c \in 1..(b - 1) : ColumnOrder[c] \in D => l[ColumnOrder[c]] = m[ColumnOrder[c]]
      BY <1>2, ColumnsOrdered DEF KeyBefore
    <2>3. \A c \in 1..5 : ColumnOrder[c] \in D =>
            {k[ColumnOrder[c]], l[ColumnOrder[c]], m[ColumnOrder[c]]} \subseteq Names
      OBVIOUS
    <2> DEFINE first == IF a < b THEN a ELSE b
    <2>4. first \in 1..5 /\ ColumnOrder[first] \in D
      BY <2>1, <2>2
    <2>5. \A c \in 1..(first - 1) : c \in 1..(a - 1) /\ c \in 1..(b - 1)
      OBVIOUS
    <2>6. \A c \in 1..(first - 1) : ColumnOrder[c] \in D => k[ColumnOrder[c]] = m[ColumnOrder[c]]
      BY <2>1, <2>2, <2>5
    <2>7. Before(names, k[ColumnOrder[first]], m[ColumnOrder[first]])
      <3>1. CASE a < b
        <4>1. l[ColumnOrder[a]] = m[ColumnOrder[a]]
          BY <2>1, <2>2, <3>1
        <4>2. QED BY <2>1, <3>1, <4>1
      <3>2. CASE b < a
        <4>1. k[ColumnOrder[b]] = l[ColumnOrder[b]]
          BY <2>1, <2>2, <3>2
        <4>2. QED BY <2>2, <3>2, <4>1
      <3>3. CASE a = b
        BY <2>1, <2>2, <2>3, <3>3, NamesOrdered
      <3>4. QED BY <3>1, <3>2, <3>3
    <2>8. QED BY <2>4, <2>6, <2>7, ColumnsOrdered DEF KeyBefore
  <1>3. ASSUME k # l PROVE KeyBefore(names, k, l) \/ KeyBefore(names, l, k)
    <2> DEFINE differ == {n \in 1..5 : /\ ColumnOrder[n] \in D
                                     /\ k[ColumnOrder[n]] # l[ColumnOrder[n]]}
    <2>1. PICK f \in D : k[f] # l[f]
      BY <1>3
    <2>2. differ # {}
      BY <2>1, ColumnsOrdered
    <2>3. differ \in SUBSET Nat
      OBVIOUS
    <2>4. PICK n \in differ : \A o \in differ : n <= o
      BY <2>2, <2>3, LeastNumber
    <2>5. \A c \in 1..(n - 1) : ColumnOrder[c] \in D => k[ColumnOrder[c]] = l[ColumnOrder[c]]
      BY <2>4
    <2>6. \/ Before(names, k[ColumnOrder[n]], l[ColumnOrder[n]])
          \/ Before(names, l[ColumnOrder[n]], k[ColumnOrder[n]])
      BY <2>4, NamesOrdered
    <2>7. QED BY <2>4, <2>5, <2>6, ColumnsOrdered DEF KeyBefore
  <1>4. QED BY <1>1, <1>2, <1>3

-----------------------------------------------------------------------------
(* The durations of incidents add up *)

\* The sums that MapThenSumSet adds up, subset by subset.
Pick(s) == CHOOSE x \in s : TRUE
AddsUp(f, m, s) == f[s] = IF s = {} THEN 0 ELSE m[Pick(s)] + f[s \ {Pick(s)}]
UpTo(S, n) == {s \in SUBSET S : Cardinality(s) <= n}

LEMMA PickOne ==
  ASSUME NEW S, IsFiniteSet(S), NEW s \in SUBSET S, s # {}
  PROVE  /\ Pick(s) \in S /\ s \ {Pick(s)} \in SUBSET S
         /\ Cardinality(s) \in Nat /\ Cardinality(s) > 0
         /\ Cardinality(s \ {Pick(s)}) = Cardinality(s) - 1
  <1>1. Pick(s) \in s
    BY DEF Pick
  <1>2. IsFiniteSet(s)
    BY FS_Subset
  <1>3. Cardinality(s) \in Nat /\ Cardinality(s) # 0
    BY <1>2, FS_CardinalityType, FS_EmptySet
  <1>4. Cardinality(s \ {Pick(s)}) = Cardinality(s) - 1
    BY <1>1, <1>2, FS_RemoveElement
  <1>5. QED BY <1>1, <1>3, <1>4

LEMMA SumsExist ==
  ASSUME NEW S, IsFiniteSet(S), NEW m \in [S -> Nat]
  PROVE  \E f \in [SUBSET S -> Nat] : \A s \in SUBSET S : AddsUp(f, m, s)
  <1> DEFINE Good(n) == \E f \in [UpTo(S, n) -> Nat] : \A s \in UpTo(S, n) : AddsUp(f, m, s)
             bad == {n \in Nat : ~Good(n)}
  <1>1. Good(0)
    <2> DEFINE f == [s \in UpTo(S, 0) |-> 0]
    <2>1. \A s \in UpTo(S, 0) : s = {}
      <3> SUFFICES ASSUME NEW s \in SUBSET S, Cardinality(s) <= 0, s # {} PROVE FALSE
        BY DEF UpTo
      <3>1. Cardinality(s) \in Nat /\ Cardinality(s) > 0
        BY PickOne
      <3>2. QED BY <3>1
    <2>2. f \in [UpTo(S, 0) -> Nat] /\ \A s \in UpTo(S, 0) : AddsUp(f, m, s)
      BY <2>1 DEF AddsUp
    <2> HIDE DEF f
    <2>3. QED BY <2>2
  <1>2. ASSUME NEW n \in Nat, n > 0, Good(n - 1) PROVE Good(n)
    <2>1. PICK f \in [UpTo(S, n - 1) -> Nat] : \A s \in UpTo(S, n - 1) : AddsUp(f, m, s)
      BY <1>2
    <2> DEFINE g == [s \in UpTo(S, n) |-> IF s = {} THEN 0 ELSE m[Pick(s)] + f[s \ {Pick(s)}]]
    <2>2. \A s \in UpTo(S, n) : s # {} => s \ {Pick(s)} \in UpTo(S, n - 1) /\ Pick(s) \in S
      BY PickOne DEF UpTo
    <2>3. g \in [UpTo(S, n) -> Nat]
      BY <2>2
    <2>4. \A s \in UpTo(S, n - 1) : s \in UpTo(S, n)
      <3> TAKE s \in UpTo(S, n - 1)
      <3>1. Cardinality(s) \in Nat
        BY FS_Subset, FS_CardinalityType DEF UpTo
      <3>2. QED BY <3>1 DEF UpTo
    <2>5. \A s \in UpTo(S, n - 1) : g[s] = f[s]
      BY <2>1, <2>4 DEF AddsUp
    <2>6. \A s \in UpTo(S, n) : AddsUp(g, m, s)
      BY <2>2, <2>5 DEF AddsUp
    <2> HIDE DEF g
    <2>7. QED BY <2>3, <2>6
  <1> HIDE DEF Good
  <1>3. \A n \in Nat : Good(n)
    <2> SUFFICES ASSUME bad # {} PROVE FALSE
      OBVIOUS
    <2>1. PICK n \in bad : \A k \in bad : n <= k
      <3>1. bad \in SUBSET Nat
        OBVIOUS
      <3> HIDE DEF bad
      <3>2. QED BY <3>1, LeastNumber
    <2>2. n > 0
      BY <1>1
    <2>3. n - 1 \in Nat /\ n - 1 \notin bad
      BY <2>1, <2>2
    <2>4. QED BY <1>2, <2>2, <2>3
  <1>4. UpTo(S, Cardinality(S)) = SUBSET S
    BY FS_Subset DEF UpTo
  <1>5. Good(Cardinality(S))
    BY <1>3, FS_CardinalityType
  <1>6. QED BY <1>4, <1>5 DEF Good

\* The sum of the rounded durations is a number.
LEMMA HundredthsAddUp ==
  ASSUME NEW T, IsFiniteSet(T), \A i \in T : Hundredths(i) \in Nat
  PROVE  MapThenSumSet(Hundredths, T) \in Nat
  <1> DEFINE m == [i \in T |-> Hundredths(i)]
             Sums(f) == f = [s \in SUBSET T |-> IF s = {} THEN 0
                               ELSE LET x == CHOOSE x \in s : TRUE IN Hundredths(x) + f[s \ {x}]]
             sum == CHOOSE f : Sums(f)
  <1>1. m \in [T -> Nat]
    OBVIOUS
  <1>2. PICK f \in [SUBSET T -> Nat] : \A s \in SUBSET T : AddsUp(f, m, s)
    BY <1>1, SumsExist
  <1>3. \A s \in SUBSET T : s # {} => m[Pick(s)] = Hundredths(Pick(s))
    BY DEF Pick
  <1>4. Sums(f)
    BY <1>2, <1>3 DEF AddsUp, Pick
  <1>5. Sums(sum)
    BY <1>4
  <1>6. MapThenSumSet(Hundredths, T) = sum[T]
    BY DEF MapThenSumSet, MapThenFoldSet
  <1>7. \A s \in SUBSET T : AddsUp(sum, m, s)
    <2> HIDE DEF sum
    <2>1. QED BY <1>5, <1>3 DEF AddsUp, Pick
  <1> HIDE DEF sum, Sums, m
  <1> DEFINE odd == {n \in Nat : \E s \in SUBSET T : Cardinality(s) = n /\ sum[s] \notin Nat}
  <1>8. odd = {}
    <2> SUFFICES ASSUME odd # {} PROVE FALSE
      OBVIOUS
    <2>1. odd \in SUBSET Nat
      OBVIOUS
    <2>2. PICK n \in odd : \A k \in odd : n <= k
      <3> HIDE DEF odd
      <3>1. QED BY <2>1, LeastNumber
    <2>3. PICK s \in SUBSET T : Cardinality(s) = n /\ sum[s] \notin Nat
      BY <2>2
    <2>4. AddsUp(sum, m, s)
      BY <1>7
    <2>5. s # {}
      BY <2>3, <2>4 DEF AddsUp
    <2>6. Cardinality(s \ {Pick(s)}) = n - 1 /\ n - 1 \in Nat /\ Pick(s) \in T
      BY <2>3, <2>5, PickOne
    <2>7. n - 1 \notin odd
      BY <2>2, <2>6
    <2>8. sum[s \ {Pick(s)}] \in Nat
      BY <2>6, <2>7
    <2>9. m[Pick(s)] \in Nat
      BY <2>6, <1>1
    <2>10. QED BY <2>3, <2>4, <2>5, <2>8, <2>9 DEF AddsUp
  <1>9. \A s \in SUBSET T : sum[s] \in Nat
    <2> TAKE s \in SUBSET T
    <2>1. Cardinality(s) \in Nat
      BY FS_Subset, FS_CardinalityType
    <2>2. QED BY <1>8, <2>1
  <1>10. QED BY <1>6, <1>9

-----------------------------------------------------------------------------
(* Groups and how the statement ranks them *)

\* Groups as they are ranked, one for each key, with a value to compare, and an
\* order of names.
Comparable(M, names) ==
  /\ IsFiniteSet(M) /\ names \in NameOrders
  /\ \A g \in M : g.value \in Int
  /\ \E fields \in SUBSET Dimensions : \A g \in M : g.key \in [fields -> Names]
  /\ \A g, h \in M : g.key = h.key => g = h

\* ROW_NUMBER, DENSE_RANK and COUNT of the statement.
Precedes(M, direction, names) ==
  {p \in M \X M : \/ Better(p[1].value, p[2].value, direction)
                  \/ p[1].value = p[2].value /\ KeyBefore(names, p[1].key, p[2].key)}
Above(M, direction, value) == {h.value : h \in {h \in M : Better(h.value, value, direction)}}
Dense(M, direction, value) == 1 + Cardinality(Above(M, direction, value))
Equals(M, value) == {h \in M : h.value = value}
Windowed(M, direction, names, g) ==
  Ranked(g, Dense(M, direction, g.value), Cardinality(Equals(M, g.value)),
         Place(M, Precedes(M, direction, names), g))

\* The order of ROW_NUMBER is one of all groups.
LEMMA PrecedesOrders ==
  ASSUME NEW M, NEW names, Comparable(M, names), NEW direction
  PROVE  StrictOrder(M, Precedes(M, direction, names))
  <1> DEFINE R == Precedes(M, direction, names)
             Less(g, h) == \/ Better(g.value, h.value, direction)
                           \/ g.value = h.value /\ KeyBefore(names, g.key, h.key)
  <1>1. \A g, h \in M : <<g, h>> \in R <=> Less(g, h)
    BY DEF Precedes
  <1>2. \A x, y, z \in Int : /\ ~Better(x, x, direction)
                             /\ Better(x, y, direction) /\ Better(y, z, direction)
                                  => Better(x, z, direction)
                             /\ x = y \/ Better(x, y, direction) \/ Better(y, x, direction)
    BY DEF Better
  <1>0. names \in NameOrders
    BY DEF Comparable
  <1> PICK fields \in SUBSET Dimensions : \A g \in M : g.key \in [fields -> Names]
    BY DEF Comparable
  <1>3. \A g \in M : ~Less(g, g)
    BY <1>0, <1>2, KeysOrdered DEF Comparable
  <1>4. ASSUME NEW g \in M, NEW h \in M, NEW i \in M, Less(g, h), Less(h, i)
        PROVE  Less(g, i)
    <2>1. /\ g.value \in Int /\ h.value \in Int /\ i.value \in Int
          /\ g.key \in [fields -> Names] /\ h.key \in [fields -> Names]
          /\ i.key \in [fields -> Names]
      BY DEF Comparable
    <2>2. KeyBefore(names, g.key, h.key) /\ KeyBefore(names, h.key, i.key)
             => KeyBefore(names, g.key, i.key)
      BY <1>0, <2>1, KeysOrdered
    <2>3. QED BY <1>2, <1>4, <2>1, <2>2
  <1>5. ASSUME NEW g \in M, NEW h \in M, g # h
        PROVE  Less(g, h) \/ Less(h, g)
    <2>1. /\ g.value \in Int /\ h.value \in Int /\ g.key # h.key
          /\ g.key \in [fields -> Names] /\ h.key \in [fields -> Names]
      BY <1>5 DEF Comparable
    <2>2. KeyBefore(names, g.key, h.key) \/ KeyBefore(names, h.key, g.key)
      BY <1>0, <2>1, KeysOrdered
    <2>3. QED BY <1>2, <2>1, <2>2
  <1> HIDE DEF Less, R
  <1>6. \A g, h, i \in M : Less(g, h) /\ Less(h, i) => Less(g, i)
    BY <1>4
  <1>7. \A g, h \in M : g # h => Less(g, h) \/ Less(h, g)
    BY <1>5
  <1>8. StrictOrder(M, R)
    BY <1>1, <1>3, <1>6, <1>7 DEF StrictOrder
  <1>9. QED BY <1>8 DEF R

\* The window functions of the statement, stated by places.
LEMMA WindowsAre ==
  ASSUME NEW M, NEW names, Comparable(M, names), NEW direction
  PROVE  WindowRanked(M, direction, names) = {Windowed(M, direction, names, g) : g \in M}
  <1> DEFINE better(g) == {h \in M : Better(h.value, g.value, direction)}
             equal(g) == {h \in M : h.value = g.value}
             before(g) == better(g) \cup {h \in equal(g) : /\ h.key # g.key
                                                         /\ KeyBefore(names, h.key, g.key)}
             row(g) == Ranked(g, 1 + Cardinality({h.value : h \in better(g)}),
                              Cardinality(equal(g)), 1 + Cardinality(before(g)))
  <1>1. ASSUME NEW g \in M PROVE row(g) = Windowed(M, direction, names, g)
    <2>1. before(g) = Ahead(M, Precedes(M, direction, names), g)
      <3>1. ~KeyBefore(names, g.key, g.key)
        <4>1. PICK fields \in SUBSET Dimensions :
                 g.key \in [fields -> Names] /\ names \in NameOrders
          BY DEF Comparable
        <4>2. QED BY <4>1, KeysOrdered
      <3>2. \A h \in M : h \in before(g) <=> <<h, g>> \in Precedes(M, direction, names)
        BY <3>1 DEF Precedes
      <3>3. before(g) \subseteq M
        OBVIOUS
      <3> HIDE DEF before
      <3>4. QED BY <3>2, <3>3 DEF Ahead
    <2>2. /\ {h.value : h \in better(g)} = Above(M, direction, g.value)
          /\ equal(g) = Equals(M, g.value)
      BY DEF Above, Equals
    <2> HIDE DEF before, better, equal
    <2>3. QED BY <2>1, <2>2 DEF Windowed, Place, Dense
  <1>2. WindowRanked(M, direction, names) = {row(g) : g \in M}
    BY DEF WindowRanked
  <1> HIDE DEF row
  <1>3. QED BY <1>1, <1>2

\* DENSE_RANK follows the order of the values.
LEMMA DenseOrders ==
  ASSUME NEW M, NEW names, Comparable(M, names), NEW direction, NEW g \in M, NEW h \in M,
         Better(g.value, h.value, direction)
  PROVE  /\ Dense(M, direction, g.value) \in Nat /\ Dense(M, direction, h.value) \in Nat
         /\ Dense(M, direction, g.value) < Dense(M, direction, h.value)
  <1> DEFINE values == {x.value : x \in M}
             u == Above(M, direction, g.value)
             v == Above(M, direction, h.value)
  <1>1. IsFiniteSet(values)
    <2>1. [x \in M |-> x.value] \in Surjection(M, values)
      BY DEF Surjection
    <2>2. QED BY <2>1, FS_Surjection DEF Comparable
  <1>2. /\ g.value \in Int /\ h.value \in Int
        /\ \A x \in M : x.value \in Int
    BY DEF Comparable
  <1>3. u \in SUBSET values /\ v \in SUBSET values
    BY DEF Above
  <1>4. g.value \notin u /\ g.value \in v /\ u \subseteq v
    BY <1>2 DEF Above, Better
  <1>5. IsFiniteSet(u) /\ IsFiniteSet(v)
    BY <1>1, <1>3, FS_Subset
  <1>6. u \cup {g.value} \in SUBSET v /\ g.value \notin u
    BY <1>4
  <1> HIDE DEF u, v, values
  <1>7. Cardinality(u \cup {g.value}) = Cardinality(u) + 1
    BY <1>5, <1>6, FS_AddElement
  <1>8. Cardinality(u \cup {g.value}) <= Cardinality(v)
    BY <1>5, <1>6, FS_Subset
  <1>9. Cardinality(u) \in Nat /\ Cardinality(v) \in Nat
    BY <1>5, FS_CardinalityType
  <1>10. QED BY <1>7, <1>8, <1>9 DEF Dense, u, v

\* The groups a filter lets through that keeps, with a group, all before it.
Leads(M, direction, names, D) ==
  /\ D \in SUBSET M
  /\ \A g \in D, h \in M : <<h, g>> \in Precedes(M, direction, names) => h \in D

\* Groups that take the first places.
TakeFirst(M, direction, names, D) ==
  /\ IsFiniteSet(D) /\ Cardinality(D) \in Nat
  /\ \A g \in D : Place(M, Precedes(M, direction, names), g) \in 1..Cardinality(D)
  /\ \A n \in 1..Cardinality(D) : \E g \in D : Place(M, Precedes(M, direction, names), g) = n

\* Those do.
LEMMA LeadingPlaces ==
  ASSUME NEW M, NEW names, Comparable(M, names), NEW direction,
         NEW D, Leads(M, direction, names, D)
  PROVE  TakeFirst(M, direction, names, D)
  <1> DEFINE R == Precedes(M, direction, names)
  <1>1. IsFiniteSet(D)
    BY FS_Subset DEF Leads, Comparable
  <1>2. StrictOrder(M, R)
    BY PrecedesOrders
  <1>3. StrictOrder(D, R)
    BY <1>2 DEF StrictOrder, Leads
  <1>4. \A g \in D : Ahead(D, R, g) = Ahead(M, R, g)
    BY DEF Ahead, Leads
  <1>5. \A g \in D : Place(D, R, g) = Place(M, R, g)
    BY <1>4 DEF Place
  <1> HIDE DEF R
  <1>6. \A g \in D : Place(D, R, g) \in 1..Cardinality(D)
    BY <1>1, <1>3, PlaceBound
  <1>7. \A n \in 1..Cardinality(D) : \E g \in D : Place(D, R, g) = n
    BY <1>1, <1>3, PlaceTaken
  <1>8. QED BY <1>1, <1>5, <1>6, <1>7, FS_CardinalityType DEF R, TakeFirst

\* A metric of finitely many incidents is a number.
LEMMA MetricType ==
  ASSUME NEW rows \in SUBSET Incidents, IsFiniteSet(rows), NEW name \in MetricNames
  PROVE  Metric(name, rows) \in Int
  <1>1. Cardinality(rows) \in Nat /\ (rows # {} => Cardinality(rows) > 0)
    BY FS_CardinalityType, FS_EmptySet
  <1>2. Recovered(rows) \in SUBSET rows /\ Timed(rows) \in SUBSET rows
    BY DEF Recovered, Timed
  <1>3. IsFiniteSet(Recovered(rows)) /\ IsFiniteSet(Timed(rows))
    BY <1>2, FS_Subset
  <1>4. /\ Cardinality(Recovered(rows)) \in Nat /\ Cardinality(Timed(rows)) \in Nat
        /\ Timed(rows) # {} => Cardinality(Timed(rows)) > 0
    BY <1>3, FS_CardinalityType, FS_EmptySet
  <1>5. \A i \in Timed(rows) : Hundredths(i) \in Nat
    <2> TAKE i \in Timed(rows)
    <2>1. i \in Incidents /\ i.seconds # Null
      BY <1>2 DEF Timed
    <2>2. i.seconds \in Nat
      BY <2>1 DEF Incidents
    <2>3. QED BY <2>2 DEF Hundredths, Nearest
  <1>6. MapThenSumSet(Hundredths, Timed(rows)) \in Nat
    BY <1>3, <1>5, HundredthsAddUp
  <1>7. CASE name = "incident_count"
    BY <1>1, <1>7 DEF Metric
  <1>8. CASE name = "average_recovery_minutes"
    <2> DEFINE sum == MapThenSumSet(Hundredths, Timed(rows))
    <2>1. Metric(name, rows) = IF Timed(rows) = {} THEN Null
                               ELSE (10000 * sum) \div Cardinality(Timed(rows))
      BY <1>8 DEF Metric
    <2>2. sum \in Nat
      BY <1>6
    <2> HIDE DEF sum
    <2>3. Null \in Int
      BY DEF Null
    <2>4. Timed(rows) # {} => (10000 * sum) \div Cardinality(Timed(rows)) \in Int
      BY <1>4, <2>2
    <2>5. QED BY <2>1, <2>3, <2>4
  <1>9. CASE name = "recovery_rate"
    <2>1. Metric(name, rows) = IF rows = {} THEN Null
             ELSE Nearest(10000 * Cardinality(Recovered(rows)), Cardinality(rows))
      BY <1>9 DEF Metric
    <2>2. Null \in Int
      BY DEF Null
    <2>3. \A a, b \in Nat : b > 0 => Nearest(a, b) \in Int
      BY DEF Nearest
    <2>4. 10000 * Cardinality(Recovered(rows)) \in Nat
      BY <1>4
    <2>5. rows # {} => Nearest(10000 * Cardinality(Recovered(rows)), Cardinality(rows)) \in Int
      BY <1>1, <2>3, <2>4
    <2>6. QED BY <2>1, <2>2, <2>5
  <1>10. QED BY <1>7, <1>8, <1>9 DEF MetricNames

\* The column of a dimension holds names.
LEMMA ColumnNames ==
  ASSUME NEW i \in Incidents, NEW f \in Dimensions
  PROVE  Column(i, f) \in Names
  <1>1. i.outcome \in Names /\ i.connector \in Names /\ i.root_connector \in Names
        /\ i.error_code \in Names
    BY AnalyticsAssumption DEF AnalyticsAssumption, Incidents
  <1>2. QED BY <1>1 DEF Column, Dimensions, ErrorDimensions

\* The groups of a ranking can be compared.
LEMMA GroupsComparable ==
  ASSUME NEW rows \in SUBSET Incidents, IsFiniteSet(rows),
         NEW fields \in SUBSET Dimensions, fields # {}, NEW q, q.order_by \in MetricNames,
         NEW names \in NameOrders
  PROVE  Comparable(Measured(Grouped(rows, fields), q), names)
  <1> DEFINE key(i) == [f \in fields |-> Column(i, f)]
             group(k) == [key |-> k, rows |-> {i \in rows : key(i) = k}]
             keys == {key(i) : i \in rows}
             G == Grouped(rows, fields)
             measure(g) == [key |-> g.key, value |-> Metric(q.order_by, g.rows),
                            count |-> Cardinality(g.rows)]
  <1>1. G = {group(k) : k \in keys}
    BY DEF Grouped
  <1>2. \A i \in rows : key(i) \in [fields -> Names]
    BY ColumnNames
  <1>3. keys \subseteq [fields -> Names]
    BY <1>2
  <1>4. IsFiniteSet(keys)
    <2>1. [i \in rows |-> key(i)] \in Surjection(rows, keys)
      BY DEF Surjection
    <2>2. QED BY <2>1, FS_Surjection
  <1>5. \A k \in keys : group(k).rows \in SUBSET rows
    OBVIOUS
  <1> DEFINE M == {measure(group(k)) : k \in keys}
  <1>6. Measured(G, q) = M
    <2>1. Measured(G, q) = {measure(g) : g \in G}
      BY DEF Measured
    <2> HIDE DEF measure, group, keys, G
    <2>2. QED BY <1>1, <2>1
  <1>7. IsFiniteSet(M)
    <2>1. [k \in keys |-> measure(group(k))] \in Surjection(keys, M)
      BY DEF Surjection
    <2>2. QED BY <2>1, <1>4, FS_Surjection
  <1>8. \A k \in keys : /\ measure(group(k)).key = k
                        /\ measure(group(k)).value = Metric(q.order_by, group(k).rows)
    OBVIOUS
  <1>9. \A k \in keys : Metric(q.order_by, group(k).rows) \in Int
    <2> TAKE k \in keys
    <2>1. IsFiniteSet(group(k).rows) /\ group(k).rows \in SUBSET Incidents
      BY <1>5, FS_Subset
    <2> HIDE DEF group
    <2>2. QED BY <2>1, MetricType
  <1> HIDE DEF keys, measure, group, G
  <1>10. \A g \in M : g.key \in [fields -> Names] /\ g.value \in Int
    BY <1>3, <1>8, <1>9
  <1>11. \A g, h \in M : g.key = h.key => g = h
    BY <1>8
  <1> HIDE DEF M
  <1>12. Comparable(M, names)
    BY <1>7, <1>10, <1>11 DEF Comparable
  <1>13. QED BY <1>6, <1>12 DEF G

\* The list the statement returns: each group at its row number.
Windows(M, direction, names, D) == {Windowed(M, direction, names, g) : g \in D}
Lists(M, direction, names, D) == Seq(Windows(M, direction, names, D))
List(M, direction, names, D) == InRowOrder(Windows(M, direction, names, D))

LEMMA RowList ==
  ASSUME NEW M, NEW names, Comparable(M, names), NEW direction,
         NEW D, Leads(M, direction, names, D)
  PROVE  /\ DOMAIN List(M, direction, names, D) = 1..Cardinality(D)
         /\ List(M, direction, names, D) \in Lists(M, direction, names, D)
         /\ Len(List(M, direction, names, D)) = Cardinality(D)
         /\ \A g \in D : List(M, direction, names, D)[Place(M, Precedes(M, direction, names), g)]
                            = Windowed(M, direction, names, g)
  <1> DEFINE row(g) == Windowed(M, direction, names, g)
             C == {row(g) : g \in D}
             place(g) == Place(M, Precedes(M, direction, names), g)
             list == InRowOrder(C)
  <1>1. /\ IsFiniteSet(D) /\ Cardinality(D) \in Nat
        /\ \A g \in D : place(g) \in 1..Cardinality(D)
        /\ \A n \in 1..Cardinality(D) : \E g \in D : place(g) = n
    <2>1. TakeFirst(M, direction, names, D)
      BY LeadingPlaces
    <2>2. QED BY <2>1 DEF TakeFirst
  <1>2. \A g \in D : row(g).key = g.key /\ row(g).row = place(g)
    <2> TAKE g \in D
    <2>1. QED BY DEF Windowed, Ranked
  <1>3. \A g, h \in D : place(g) = place(h) => g = h
    <2> SUFFICES ASSUME NEW g \in D, NEW h \in D, place(g) = place(h), g # h PROVE FALSE
      OBVIOUS
    <2>1. g \in M /\ h \in M
      BY DEF Leads
    <2>2. <<g, h>> \in Precedes(M, direction, names) \/ <<h, g>> \in Precedes(M, direction, names)
      BY <2>1, PrecedesOrders DEF StrictOrder
    <2>3. place(g) < place(h) \/ place(h) < place(g)
      BY <2>1, <2>2, PrecedesOrders, PlaceOrder DEF Comparable
    <2>4. place(g) \in Nat
      BY <1>1
    <2>5. QED BY <2>3, <2>4
  <1> HIDE DEF row, place
  <1>4. Cardinality(C) = Cardinality(D)
    <2> DEFINE f == [g \in D |-> row(g)]
    <2>1. f \in Surjection(D, C)
      BY DEF Surjection
    <2>2. f \in Injection(D, C)
      BY <1>2, <1>3 DEF Injection, IsInjective
    <2>3. QED BY <1>1, <2>1, <2>2, FS_Surjection
  <1>5. list = [n \in 1..Cardinality(D) |-> CHOOSE w \in C : w.row = n]
    BY <1>4 DEF InRowOrder
  <1>6. \A g \in D : (CHOOSE w \in C : w.row = place(g)) = row(g)
    <2> TAKE g \in D
    <2>1. row(g) \in C /\ row(g).row = place(g)
      BY <1>2
    <2>2. \A w \in C : w.row = place(g) => w = row(g)
      BY <1>2, <1>3
    <2> HIDE DEF C
    <2>3. QED BY <2>1, <2>2
  <1>7. \A n \in 1..Cardinality(D) : (CHOOSE w \in C : w.row = n) \in C
    BY <1>1, <1>2
  <1> HIDE DEF C
  <1>8. /\ DOMAIN list = 1..Cardinality(D)
        /\ list \in [1..Cardinality(D) -> C]
    BY <1>5, <1>7
  <1>9. list \in Seq(C) /\ Len(list) = Cardinality(D)
    BY <1>1, <1>8
  <1>10. \A g \in D : list[place(g)] = row(g)
    BY <1>1, <1>5, <1>6
  <1>11. QED BY <1>8, <1>9, <1>10 DEF row, place, C, List, Lists, Windows

-----------------------------------------------------------------------------
(* The rank filter *)

\* The rank filter on the groups, before they are listed.
Chosen(M, direction, names, limit, exact) ==
  {g \in M : IF exact THEN Place(M, Precedes(M, direction, names), g) <= limit
             ELSE Dense(M, direction, g.value) <= limit}

\* The rank filter is one of those, by rows and by ranks.
LEMMA ChosenLeads ==
  ASSUME NEW M, NEW names, Comparable(M, names), NEW direction,
         NEW limit \in Nat, NEW exact \in BOOLEAN
  PROVE  Leads(M, direction, names, Chosen(M, direction, names, limit, exact))
  <1> DEFINE D == Chosen(M, direction, names, limit, exact)
             R == Precedes(M, direction, names)
  <1>1. D \in SUBSET M
    BY DEF Chosen
  <1>2. ASSUME NEW g \in D, NEW h \in M, <<h, g>> \in R PROVE h \in D
    <2>1. g \in M
      BY <1>1
    <2>2. CASE exact
      <3>1. Place(M, R, h) < Place(M, R, g)
        BY <1>2, <2>1, PrecedesOrders, PlaceOrder DEF Comparable
      <3>2. Place(M, R, g) \in Nat /\ Place(M, R, h) \in Nat
        <4>1. StrictOrder(M, R) /\ IsFiniteSet(M)
          BY PrecedesOrders DEF Comparable
        <4>2. Cardinality(Ahead(M, R, g)) \in Nat /\ Cardinality(Ahead(M, R, h)) \in Nat
          BY <2>1, <4>1, PlaceBound
        <4>3. QED BY <4>2 DEF Place
      <3>3. Place(M, R, g) <= limit
        BY <2>2 DEF Chosen
      <3>4. QED BY <2>2, <3>1, <3>2, <3>3 DEF Chosen
    <2>3. CASE ~exact
      <3>1. Dense(M, direction, g.value) <= limit
        BY <2>3 DEF Chosen
      <3>2. CASE g.value = h.value
        BY <2>3, <3>1, <3>2 DEF Chosen
      <3>3. CASE Better(h.value, g.value, direction)
        <4>1. /\ Dense(M, direction, h.value) \in Nat /\ Dense(M, direction, g.value) \in Nat
              /\ Dense(M, direction, h.value) < Dense(M, direction, g.value)
          BY <2>1, <3>3, DenseOrders
        <4>2. QED BY <2>3, <3>1, <4>1 DEF Chosen
      <3>4. QED BY <1>2, <3>2, <3>3 DEF Precedes
    <2>4. QED BY <2>2, <2>3
  <1>3. QED BY <1>1, <1>2 DEF Leads

\* As many values as ranks.
LEMMA ValuesWithin ==
  ASSUME NEW M, NEW names, Comparable(M, names), NEW direction,
         NEW limit \in Nat
  PROVE  Cardinality({g.value : g \in Chosen(M, direction, names, limit, FALSE)}) <= limit
  <1> DEFINE D == Chosen(M, direction, names, limit, FALSE)
             V == {g.value : g \in D}
             R == {p \in V \X V : Better(p[1], p[2], direction)}
  <1>1. Leads(M, direction, names, D)
    BY ChosenLeads
  <1>2. IsFiniteSet(D) /\ D \subseteq M
    <2>1. TakeFirst(M, direction, names, D)
      BY <1>1, LeadingPlaces
    <2>2. QED BY <1>1, <2>1 DEF Leads, TakeFirst
  <1>3. IsFiniteSet(V) /\ V \subseteq Int
    <2>1. [g \in D |-> g.value] \in Surjection(D, V)
      BY DEF Surjection
    <2>2. \A g \in D : g.value \in Int
      BY <1>2 DEF Comparable
    <2>3. V \subseteq Int
      BY <2>2
    <2> HIDE DEF D, V
    <2>4. QED BY <1>2, <2>1, <2>3, FS_Surjection
  <1>4. StrictOrder(V, R)
    <2>1. \A x, y \in V : <<x, y>> \in R <=> Better(x, y, direction)
      OBVIOUS
    <2>2. \A x, y, z \in Int : /\ ~Better(x, x, direction)
                               /\ Better(x, y, direction) /\ Better(y, z, direction)
                                    => Better(x, z, direction)
                               /\ x = y \/ Better(x, y, direction) \/ Better(y, x, direction)
      BY DEF Better
    <2> HIDE DEF R, V
    <2>3. \A x, y, z \in V : /\ ~Better(x, x, direction)
                             /\ Better(x, y, direction) /\ Better(y, z, direction)
                                  => Better(x, z, direction)
                             /\ x = y \/ Better(x, y, direction) \/ Better(y, x, direction)
      BY <1>3, <2>2
    <2>4. QED BY <2>1, <2>3 DEF StrictOrder
  <1>5. \A g \in D : Ahead(V, R, g.value) = Above(M, direction, g.value)
    <2> TAKE g \in D
    <2>1. \A h \in M : Better(h.value, g.value, direction) => h \in D
      BY <1>1, <1>2 DEF Leads, Precedes
    <2>2. Above(M, direction, g.value) \subseteq V
      BY <2>1 DEF Above
    <2>3. \A v \in V : v \in Above(M, direction, g.value) <=> Better(v, g.value, direction)
      BY <1>2 DEF Above
    <2>4. g.value \in V
      OBVIOUS
    <2>5. \A v \in V : v \in Ahead(V, R, g.value) <=> Better(v, g.value, direction)
      BY <2>4 DEF Ahead
    <2>6. Ahead(V, R, g.value) \subseteq V
      BY DEF Ahead
    <2> HIDE DEF V, R
    <2>7. QED BY <2>2, <2>3, <2>5, <2>6
  <1>6. \A g \in D : Place(V, R, g.value) = Dense(M, direction, g.value)
    BY <1>5 DEF Place, Dense
  <1>7. Cardinality(V) \in Nat
    BY <1>3, FS_CardinalityType
  <1>8. CASE Cardinality(V) > 0
    <2>1. Cardinality(V) \in 1..Cardinality(V)
      BY <1>7, <1>8
    <2>2. PICK v \in V : Place(V, R, v) = Cardinality(V)
      <3> HIDE DEF V, R
      <3>1. QED BY <2>1, <1>3, <1>4, PlaceTaken
    <2>3. PICK g \in D : g.value = v
      OBVIOUS
    <2>4. Dense(M, direction, g.value) <= limit
      BY DEF Chosen
    <2>5. QED BY <1>6, <2>2, <2>3, <2>4
  <1>9. QED BY <1>7, <1>8

\* As many groups as rows.
LEMMA RowsWithin ==
  ASSUME NEW M, NEW names, Comparable(M, names), NEW direction,
         NEW limit \in Nat
  PROVE  Cardinality(Chosen(M, direction, names, limit, TRUE)) <= limit
  <1> DEFINE D == Chosen(M, direction, names, limit, TRUE)
  <1>1. Leads(M, direction, names, D)
    BY ChosenLeads
  <1>2. \A g \in D : Place(M, Precedes(M, direction, names), g) <= limit
    BY DEF Chosen
  <1> HIDE DEF D
  <1>3. /\ Cardinality(D) \in Nat
        /\ \A n \in 1..Cardinality(D) : \E g \in D : Place(M, Precedes(M, direction, names), g) = n
    <2>1. TakeFirst(M, direction, names, D)
      BY <1>1, LeadingPlaces
    <2>2. QED BY <2>1 DEF TakeFirst
  <1>4. Cardinality(D) > 0 => Cardinality(D) <= limit
    <2> SUFFICES ASSUME Cardinality(D) > 0 PROVE Cardinality(D) <= limit
      OBVIOUS
    <2>1. PICK g \in D : Place(M, Precedes(M, direction, names), g) = Cardinality(D)
      BY <1>3
    <2>2. QED BY <1>2, <2>1
  <1>5. Cardinality(D) <= limit
    BY <1>3, <1>4
  <1>6. QED BY <1>5 DEF D

\* _compiled_result_facts changes neither the keys nor the values of a list.
LEMMA MarkedKeeps ==
  ASSUME NEW M, NEW direction, NEW names, NEW D,
         NEW list \in Lists(M, direction, names, D)
  PROVE  /\ DOMAIN MarkCut(list) = DOMAIN list
         /\ \A n \in DOMAIN list : /\ MarkCut(list)[n].key = list[n].key
                                  /\ MarkCut(list)[n].value = list[n].value
  <1>1. CASE list = << >>
    BY <1>1 DEF MarkCut
  <1>2. CASE list # << >>
    <2> DEFINE ends(n) == /\ list[n].value = Last(list).value
                          /\ list[n].ties > Cardinality({i \in DOMAIN list :
                                                            list[i].value = Last(list).value})
    <2>1. MarkCut(list) = [i \in DOMAIN list |-> [list[i] EXCEPT !.cut = @ \/ ends(i)]]
      BY <1>2 DEF MarkCut
    <2>2. \A n \in DOMAIN list : \E g \in D : list[n] = Windowed(M, direction, names, g)
      BY DEF Lists, Windows
    <2>3. ASSUME NEW n \in DOMAIN list
          PROVE  LET r == [list[n] EXCEPT !.cut = @ \/ ends(n)] IN
                 r.key = list[n].key /\ r.value = list[n].value
      <3>1. PICK g \in D : list[n] = Windowed(M, direction, names, g)
        BY <2>2
      <3> HIDE DEF ends
      <3>2. QED BY <3>1 DEF Windowed, Ranked
    <2> HIDE DEF ends
    <2>4. QED BY <2>1, <2>3
  <1>3. QED BY <1>1, <1>2

\* It marks the end of a list that cuts a tie.
LEMMA MarkedCut ==
  ASSUME NEW M, NEW direction, NEW names, NEW D,
         NEW list \in Lists(M, direction, names, D),
         NEW n \in DOMAIN list, list[n].value = list[Len(list)].value,
         list[n].ties >
           Cardinality({i \in DOMAIN list : list[i].value = list[Len(list)].value})
  PROVE  MarkCut(list)[n].cut
  <1>1. list # << >>
    BY DEF Lists, Windows
  <1>2. PICK g \in D : list[n] = Windowed(M, direction, names, g)
    BY DEF Lists, Windows
  <1>3. MarkCut(list)[n] = [list[n] EXCEPT !.cut = @ \/ TRUE]
    BY <1>1 DEF MarkCut, Last
  <1>4. QED BY <1>2, <1>3 DEF Windowed, Ranked

\* It changes nothing else: neither ranks nor counts, and marks no other.
CutsTie(list, n) ==
  /\ list[n].value = list[Len(list)].value
  /\ list[n].ties > Cardinality({i \in DOMAIN list : list[i].value = list[Len(list)].value})

LEMMA MarkedFields ==
  ASSUME NEW M, NEW direction, NEW names, NEW D,
         NEW list \in Lists(M, direction, names, D), NEW n \in DOMAIN list
  PROVE  /\ MarkCut(list)[n].rank = list[n].rank /\ MarkCut(list)[n].ties = list[n].ties
         /\ CutsTie(list, n) => MarkCut(list)[n].cut = TRUE
         /\ ~CutsTie(list, n) => MarkCut(list)[n].cut = FALSE
  <1>1. list # << >>
    BY DEF Lists, Windows
  <1>2. PICK g \in D : list[n] = Windowed(M, direction, names, g)
    BY DEF Lists, Windows
  <1>3. MarkCut(list)[n] = [list[n] EXCEPT !.cut = @ \/ CutsTie(list, n)]
    BY <1>1 DEF MarkCut, Last, CutsTie
  <1>4. CASE CutsTie(list, n)
    <2>1. MarkCut(list)[n] = [list[n] EXCEPT !.cut = TRUE]
      BY <1>3, <1>4
    <2>2. QED BY <1>2, <1>4, <2>1 DEF Windowed, Ranked
  <1>5. CASE ~CutsTie(list, n)
    <2>1. list[n].cut = FALSE
      BY <1>2 DEF Windowed, Ranked
    <2>2. MarkCut(list)[n] = [list[n] EXCEPT !.cut = FALSE]
      BY <1>3, <1>5, <2>1
    <2>3. QED BY <1>2, <1>5, <2>2 DEF Windowed, Ranked
  <1>6. QED BY <1>4, <1>5

\* The facts: the list of those groups, marked when it may cut a tie.
Facted(M, direction, names, limit, exact) ==
  LET list == List(M, direction, names, Chosen(M, direction, names, limit, exact)) IN
  IF exact THEN MarkCut(list) ELSE list

\* Each group of a list at its place, in the list and among the facts.
Stand(M, direction, names, D, told, list) ==
  /\ DOMAIN told = 1..Cardinality(D) /\ Len(list) = Cardinality(D)
  /\ DOMAIN list = DOMAIN told /\ Cardinality(D) \in Nat
  /\ \A n \in DOMAIN told : \E g \in D : Place(M, Precedes(M, direction, names), g) = n
  /\ \A g \in D : /\ Place(M, Precedes(M, direction, names), g) \in DOMAIN told
                  /\ list[Place(M, Precedes(M, direction, names), g)]
                        = Windowed(M, direction, names, g)
                  /\ told[Place(M, Precedes(M, direction, names), g)].key = g.key
                  /\ told[Place(M, Precedes(M, direction, names), g)].value = g.value

\* Which group each fact is.
LEMMA FactsAre ==
  ASSUME NEW M, NEW names, Comparable(M, names), NEW direction,
         NEW limit \in Nat, NEW exact \in BOOLEAN,
         NEW D, D = Chosen(M, direction, names, limit, exact),
         NEW told, told = Facted(M, direction, names, limit, exact),
         NEW list, list = List(M, direction, names, D)
  PROVE  Stand(M, direction, names, D, told, list)
  <1> DEFINE place(g) == Place(M, Precedes(M, direction, names), g)
  <1>1. Leads(M, direction, names, D)
    BY ChosenLeads
  <1>2. /\ DOMAIN list = 1..Cardinality(D) /\ list \in Lists(M, direction, names, D)
        /\ Len(list) = Cardinality(D)
        /\ \A g \in D : list[place(g)] = Windowed(M, direction, names, g)
    <2>1. QED BY <1>1, RowList
  <1>3. /\ Cardinality(D) \in Nat
        /\ \A g \in D : place(g) \in 1..Cardinality(D)
        /\ \A n \in 1..Cardinality(D) : \E g \in D : place(g) = n
    <2>1. TakeFirst(M, direction, names, D)
      BY <1>1, LeadingPlaces
    <2>2. QED BY <2>1 DEF TakeFirst
  <1>4. told = IF exact THEN MarkCut(list) ELSE list
    BY DEF Facted
  <1>5. /\ DOMAIN told = DOMAIN list
        /\ \A n \in DOMAIN list : told[n].key = list[n].key /\ told[n].value = list[n].value
    <2>1. CASE exact
      <3>1. told = MarkCut(list)
        BY <1>4, <2>1
      <3>2. /\ DOMAIN MarkCut(list) = DOMAIN list
            /\ \A n \in DOMAIN list : /\ MarkCut(list)[n].key = list[n].key
                                     /\ MarkCut(list)[n].value = list[n].value
        <4>1. list \in Lists(M, direction, names, D)
          BY <1>2
        <4>2. QED BY <4>1, MarkedKeeps
      <3>3. QED BY <3>1, <3>2
    <2>2. CASE ~exact
      BY <1>4, <2>2
    <2>3. QED BY <2>1, <2>2
  <1>6. \A g \in D : list[place(g)].key = g.key /\ list[place(g)].value = g.value
    <2> TAKE g \in D
    <2>1. list[place(g)] = Windowed(M, direction, names, g)
      BY <1>2
    <2>2. QED BY <2>1 DEF Windowed, Ranked
  <1> HIDE DEF place
  <1>7. \A g \in D : /\ place(g) \in DOMAIN told
                     /\ told[place(g)].key = g.key /\ told[place(g)].value = g.value
    BY <1>2, <1>3, <1>5, <1>6
  <1>8. QED BY <1>2, <1>3, <1>5, <1>7 DEF place, Stand

\* The groups a ranking shows are the best: no other is better, and one as good
\* as the last is left out only when that one says so.
Best(M, told, limit, exact) ==
  LET shown == {told[n].key : n \in DOMAIN told}
      In(k) == CHOOSE g \in M : g.key = k
  IN  /\ IF exact THEN Cardinality(shown) <= limit
         ELSE Cardinality({In(k).value : k \in shown}) <= limit
      /\ \A g \in M, n \in DOMAIN told :
            g.key \notin shown =>
                /\ g.value <= told[n].value
                /\ g.value = told[n].value => told[n].cut /\ exact

\* The facts of a descending ranking are the best.
LEMMA TopFacts ==
  ASSUME NEW M, NEW names, Comparable(M, names),
         NEW limit \in Nat, NEW exact \in BOOLEAN
  PROVE  Best(M, Facted(M, "desc", names, limit, exact), limit, exact)
  <1> DEFINE D == Chosen(M, "desc", names, limit, exact)
             R == Precedes(M, "desc", names)
             place(g) == Place(M, R, g)
             told == Facted(M, "desc", names, limit, exact)
             list == List(M, "desc", names, D)
             shown == {told[n].key : n \in DOMAIN told}
             In(k) == CHOOSE g \in M : g.key = k
  <1>1. /\ DOMAIN told = 1..Cardinality(D) /\ Len(list) = Cardinality(D)
        /\ DOMAIN list = DOMAIN told /\ Cardinality(D) \in Nat
        /\ \A n \in DOMAIN told : \E g \in D : place(g) = n
        /\ \A g \in D : /\ place(g) \in DOMAIN told
                        /\ list[place(g)] = Windowed(M, "desc", names, g)
                        /\ told[place(g)].key = g.key /\ told[place(g)].value = g.value
    <2>1. Stand(M, "desc", names, D, told, list)
      BY FactsAre
    <2> HIDE DEF D, told, list
    <2>2. QED BY <2>1 DEF Stand
  <1>2. D \in SUBSET M /\ Leads(M, "desc", names, D)
    BY ChosenLeads DEF Leads
  <1>3. told = IF exact THEN MarkCut(list) ELSE list
    BY DEF Facted
  <1>4. \A g \in M : \/ exact /\ (g \in D <=> place(g) <= limit)
                     \/ ~exact /\ (g \in D <=> Dense(M, "desc", g.value) <= limit)
    BY DEF Chosen
  <1>5. list \in Lists(M, "desc", names, D)
    <2> HIDE DEF D
    <2>1. QED BY <1>2, RowList
  <1>6. StrictOrder(M, R) /\ IsFiniteSet(M)
    BY PrecedesOrders DEF Comparable
  <1>7. \A g \in M : g.value \in Int
    BY DEF Comparable
  <1>8. /\ exact => Cardinality(D) <= limit
        /\ ~exact => Cardinality({g.value : g \in D}) <= limit
    <2>1. CASE exact
      BY <2>1, RowsWithin
    <2>2. CASE ~exact
      BY <2>2, ValuesWithin
    <2>3. QED BY <2>1, <2>2
  <1> HIDE DEF D, told, list, place
  <1>9. shown = {g.key : g \in D}
    BY <1>1
  <1>10. \A g \in M : In(g.key) = g
    <2> TAKE g \in M
    <2>1. \A h \in M : h.key = g.key => h = g
      BY DEF Comparable
    <2>2. QED BY <2>1
  <1>11. IF exact THEN Cardinality(shown) <= limit
         ELSE Cardinality({In(k).value : k \in shown}) <= limit
    <2>1. CASE exact
      <3> DEFINE T == {g.key : g \in D}
      <3>1. [g \in D |-> g.key] \in Surjection(D, T)
        BY DEF Surjection
      <3>2. IsFiniteSet(D)
        BY <1>2, <1>6, FS_Subset
      <3>3. IsFiniteSet(T) /\ Cardinality(T) <= Cardinality(D)
        <4> HIDE DEF T
        <4>1. QED BY <3>1, <3>2, FS_Surjection
      <3>4. Cardinality(T) \in Nat
        BY <3>3, FS_CardinalityType
      <3>5. Cardinality(T) <= limit
        BY <1>1, <1>8, <2>1, <3>3, <3>4
      <3>6. QED BY <1>9, <2>1, <3>5
    <2>2. CASE ~exact
      <3>1. {In(k).value : k \in shown} = {g.value : g \in D}
        <4>1. \A g \in D : In(g.key) = g
          BY <1>2, <1>10
        <4> HIDE DEF In, shown
        <4>2. ASSUME NEW k \in shown PROVE In(k).value \in {g.value : g \in D}
          BY <1>9, <4>1
        <4>3. ASSUME NEW g \in D PROVE g.value \in {In(k).value : k \in shown}
          <5>1. g.key \in shown
            BY <1>9
          <5>2. QED BY <4>1, <5>1
        <4>4. QED BY <4>2, <4>3
      <3>2. QED BY <1>8, <2>2, <3>1
    <2>3. QED BY <2>1, <2>2
  <1>12. ASSUME NEW g \in M, NEW n \in DOMAIN told, g.key \notin shown
         PROVE  /\ g.value <= told[n].value
                /\ g.value = told[n].value => told[n].cut /\ exact
    <2>1. PICK h \in D : place(h) = n
      BY <1>1
    <2>2. /\ told[n].value = h.value /\ h \in M /\ h.value \in Int /\ g.value \in Int
      BY <1>1, <1>2, <1>7, <2>1
    <2>3. g \in M /\ g \notin D
      BY <1>9, <1>12
    <2>4. <<h, g>> \in R
      <3>1. g # h
        BY <2>1, <2>3
      <3>2. <<g, h>> \notin R
        BY <1>2, <2>1, <2>3 DEF Leads
      <3>3. QED BY <1>6, <2>2, <2>3, <3>1, <3>2 DEF StrictOrder
    <2>5. h.value >= g.value
      BY <2>2, <2>4 DEF Precedes, Better
    <2>6. CASE ~exact
      <3>1. g.value # h.value
        BY <1>4, <2>1, <2>2, <2>3, <2>6
      <3>2. QED BY <2>2, <2>5, <3>1
    <2>7. CASE exact
      <3> SUFFICES ASSUME g.value = told[n].value PROVE told[n].cut
        BY <2>2, <2>5, <2>7
      <3>1. Cardinality(D) >= 1 /\ Cardinality(D) \in DOMAIN told /\ n <= Cardinality(D)
        BY <1>1
      <3>2. PICK b \in D : place(b) = Cardinality(D)
        BY <1>1, <3>1
      <3>3. b.value = h.value
        <4>1. b \in M /\ b.value \in Int
          BY <1>2, <1>7
        <4>2. b = h \/ <<h, b>> \in R
          <5>1. place(h) <= place(b)
            BY <2>1, <3>1, <3>2
          <5>2. ~(place(b) < place(h))
            BY <1>1, <2>1, <5>1, <3>2
          <5>3. <<b, h>> \notin R
            BY <1>6, <2>2, <4>1, <5>2, PlaceOrder DEF place
          <5>4. QED BY <1>6, <2>2, <4>1, <5>3 DEF StrictOrder
        <4>3. h.value >= b.value
          BY <2>2, <4>1, <4>2 DEF Precedes, Better
        <4>4. <<b, g>> \in R
          <5>1. g # b
            BY <2>3
          <5>2. <<g, b>> \notin R
            BY <1>2, <2>3 DEF Leads
          <5>3. QED BY <1>6, <2>3, <4>1, <5>1, <5>2 DEF StrictOrder
        <4>5. b.value >= g.value
          BY <2>2, <4>1, <4>4 DEF Precedes, Better
        <4>6. QED BY <2>2, <4>1, <4>3, <4>5
      <3> DEFINE last == list[Len(list)]
                 kept == {i \in DOMAIN list : list[i].value = last.value}
      <3>4. last.value = h.value
        <4>1. last = Windowed(M, "desc", names, b)
          BY <1>1, <3>2
        <4>2. QED BY <3>3, <4>1 DEF Windowed, Ranked
      <3>5. list[n].value = h.value /\ list[n].ties = Cardinality(Equals(M, h.value))
        <4>1. list[n] = Windowed(M, "desc", names, h)
          BY <1>1, <2>1
        <4>2. QED BY <4>1 DEF Windowed, Ranked
      <3>6. Cardinality(kept) < Cardinality(Equals(M, h.value))
        <4> DEFINE E == Equals(M, h.value)
                   others == E \ {g}
                   at(i) == CHOOSE x \in D : place(x) = i
                   f == [i \in kept |-> at(i)]
        <4>1. g \in E
          BY <2>2 DEF Equals
        <4>2. IsFiniteSet(E)
          BY <1>6, FS_Subset DEF Equals
        <4>3. IsFiniteSet(others) /\ Cardinality(others) = Cardinality(E) - 1
          BY <4>1, <4>2, FS_RemoveElement
        <4>4. \A i \in DOMAIN list : at(i) \in D /\ place(at(i)) = i
          BY <1>1
        <4>5. \A i \in DOMAIN list : list[i].value = at(i).value
          <5> TAKE i \in DOMAIN list
          <5>1. list[i] = Windowed(M, "desc", names, at(i))
            BY <1>1, <4>4
          <5> HIDE DEF at
          <5>2. QED BY <5>1 DEF Windowed, Ranked
        <4> HIDE DEF at
        <4>6. \A i \in kept : at(i) \in others
          <5> TAKE i \in kept
          <5>1. at(i) \in D /\ at(i).value = h.value
            BY <3>4, <4>4, <4>5
          <5>2. QED BY <1>2, <2>3, <5>1 DEF Equals
        <4>7. f \in Injection(kept, others)
          <5>1. f \in [kept -> others]
            BY <4>6
          <5>2. \A i, j \in kept : f[i] = f[j] => i = j
            BY <4>4
          <5>3. QED BY <5>1, <5>2 DEF Injection, IsInjective
        <4>8. IsFiniteSet(kept) /\ Cardinality(kept) <= Cardinality(others)
          <5> HIDE DEF kept, others
          <5>1. QED BY <4>3, <4>7, FS_Injection
        <4>9. Cardinality(kept) \in Nat /\ Cardinality(E) \in Nat
          BY <4>2, <4>8, FS_CardinalityType
        <4>10. QED BY <4>3, <4>8, <4>9
      <3>7. Cardinality(Equals(M, h.value)) \in Nat /\ Cardinality(kept) \in Nat
        <4>1. IsFiniteSet(Equals(M, h.value))
          BY <1>6, FS_Subset DEF Equals
        <4>2. IsFiniteSet(DOMAIN list) /\ kept \in SUBSET DOMAIN list
          BY <1>1, FS_Interval
        <4> HIDE DEF kept
        <4>3. IsFiniteSet(kept)
          BY <4>2, FS_Subset
        <4>4. QED BY <4>1, <4>3, FS_CardinalityType
      <3>8. n \in DOMAIN list
        BY <1>1
      <3>9. MarkCut(list)[n].cut
        <4>1. list[n].value = last.value /\ list[n].ties > Cardinality(kept)
          <5> HIDE DEF last, kept
          <5>1. QED BY <3>4, <3>5, <3>6, <3>7
        <4>2. QED BY <1>5, <3>8, <4>1, MarkedCut
      <3>10. QED BY <1>3, <2>7, <3>9
    <2>8. QED BY <2>6, <2>7
  <1>13. QED
    <2> HIDE DEF shown, In
    <2>1. \A g \in M, n \in DOMAIN told :
             g.key \notin shown =>
                 /\ g.value <= told[n].value
                 /\ g.value = told[n].value => told[n].cut /\ exact
      BY <1>12
    <2>2. QED BY <1>11, <2>1 DEF Best, shown, In, told

-----------------------------------------------------------------------------
(* The facts of a ranking *)

\* The groups a ranking is about.
RankedGroups(incidents, q, window) ==
  Measured(Grouped(StatementRows(incidents, q, window), q.group_by), q)

\* The incidents of the statement are some of the table's.
LEMMA StatementGroups ==
  ASSUME NEW incidents \in SUBSET Incidents, IsFiniteSet(incidents), NEW q, NEW window,
         q.group_by \in SUBSET Dimensions, q.group_by # {}, q.order_by \in MetricNames,
         NEW names \in NameOrders
  PROVE  Comparable(RankedGroups(incidents, q, window), names)
  <1> DEFINE rows == StatementRows(incidents, q, window)
  <1>1. rows \in SUBSET incidents
    BY DEF StatementRows, Selected
  <1>2. IsFiniteSet(rows) /\ rows \in SUBSET Incidents
    BY <1>1, FS_Subset
  <1> HIDE DEF rows
  <1>3. Comparable(Measured(Grouped(rows, q.group_by), q), names)
    BY <1>2, GroupsComparable
  <1>4. QED BY <1>3 DEF RankedGroups, rows

\* The rank filter of the statement is that on groups.
LEMMA StatementLets ==
  ASSUME NEW M, Comparable(M, NameOrder), NEW q, IsRanking(q),
         q.limit \in Nat
  PROVE  {g \in WindowRanked(M, q.direction, NameOrder) : IsRanking(q) => Within(g, q)} =
           Windows(M, q.direction, NameOrder,
                   Chosen(M, q.direction, NameOrder, q.limit, q.tie_policy = "exact_limit"))
  <1> DEFINE exact == q.tie_policy = "exact_limit"
             row(g) == Windowed(M, q.direction, NameOrder, g)
             D == Chosen(M, q.direction, NameOrder, q.limit, exact)
  <1>1. WindowRanked(M, q.direction, NameOrder) = {row(g) : g \in M}
    BY WindowsAre
  <1>2. \A g \in M : Within(row(g), q) <=> g \in D
    <2> TAKE g \in M
    <2>1. /\ row(g).rank = Dense(M, q.direction, g.value)
          /\ row(g).row = Place(M, Precedes(M, q.direction, NameOrder), g)
      BY DEF Windowed, Ranked
    <2> HIDE DEF row
    <2>2. QED BY <2>1 DEF Within, Chosen
  <1>3. D \subseteq M
    BY DEF Chosen
  <1> HIDE DEF D, row
  <1>4. {g \in {row(g) : g \in M} : Within(g, q)} = {row(g) : g \in D}
    BY <1>2, <1>3
  <1>5. QED BY <1>1, <1>4 DEF Windows, D, row

\* A list within the bound is returned whole.
LEMMA ListWhole ==
  ASSUME NEW S, NEW list \in Seq(S), NEW n \in Nat, ~(Len(list) > n)
  PROVE  Leading(list, n) = list
  <1>1. (IF n < Len(list) THEN n ELSE Len(list)) = Len(list)
    OBVIOUS
  <1>2. SubSeq(list, 1, Len(list)) = list
    OBVIOUS
  <1>3. QED BY <1>1, <1>2 DEF Leading

\* The facts of a ranking within the bound are the leading groups of its
\* incidents, unless a severity is no evidence.
LEMMA StatementFacts ==
  ASSUME NEW incidents \in SUBSET Incidents, IsFiniteSet(incidents), NEW q, NEW window,
         q.group_by \in SUBSET Dimensions, q.order_by \in MetricNames, IsRanking(q),
         q.limit \in Nat, NEW result, result = StatementResult(incidents, q, window),
         ~result.truncated,
         NEW groups, groups = Grouped(StatementRows(incidents, q, window), q.group_by),
         NEW ranking, ranking = Facted(RankedGroups(incidents, q, window), q.direction, NameOrder,
                                       q.limit, q.tie_policy = "exact_limit")
  PROVE  /\ result.facts = << >> \/ result.facts = ranking
         /\ ("severity" \in q.details => \A g \in groups : OneSeverity(g.rows))
               => result.facts = ranking
  <1> DEFINE M == RankedGroups(incidents, q, window)
             exact == q.tie_policy = "exact_limit"
             D == Chosen(M, q.direction, NameOrder, q.limit, exact)
             chosen == InRowOrder({g \in WindowRanked(M, q.direction, NameOrder) :
                                     IsRanking(q) => Within(g, q)})
             shown == Leading(chosen, ResultBound)
             told == {g \in groups : \E n \in DOMAIN shown : shown[n].key = g.key}
             evident == "severity" \in q.details => \A g \in told : OneSeverity(g.rows)
  <1>1. Comparable(M, NameOrder)
    BY StatementGroups DEF IsRanking, NameOrders
  <1>2. M = Measured(groups, q)
    BY DEF RankedGroups
  <1>3. /\ result.rows = Len(chosen) /\ result.truncated = (Len(chosen) > ResultBound)
        /\ result.facts = IF ~evident THEN << >>
                          ELSE IF IsRanking(q) /\ exact THEN MarkCut(shown) ELSE shown
    <2> HIDE DEF M
    <2>1. QED BY <1>2 DEF StatementResult
  <1> HIDE DEF M, shown
  <1>4. chosen = List(M, q.direction, NameOrder, D)
    BY <1>1, StatementLets DEF List
  <1>5. List(M, q.direction, NameOrder, D) \in Seq(Windows(M, q.direction, NameOrder, D))
    <2>1. Leads(M, q.direction, NameOrder, D)
      BY <1>1, ChosenLeads
    <2> HIDE DEF D
    <2>2. QED BY <1>1, <2>1, RowList DEF Lists
  <1> HIDE DEF chosen
  <1>6. ~(Len(chosen) > ResultBound)
    BY <1>3
  <1>7. shown = chosen
    BY <1>4, <1>5, <1>6, ListWhole, AnalyticsAssumption DEF AnalyticsAssumption, shown
  <1>8. ranking = IF exact THEN MarkCut(shown) ELSE shown
    BY <1>4, <1>7 DEF Facted, D, M
  <1>9. ("severity" \in q.details => \A g \in groups : OneSeverity(g.rows)) => evident
    OBVIOUS
  <1> HIDE DEF evident
  <1>10. QED BY <1>3, <1>8, <1>9

\* A verified answer of the database is what its statement returned for a table.
AnsweredInv ==
    /\ PlanningInv
    /\ query = NoPlan => outcome = "none"
    /\ table \in SUBSET Incidents /\ IsFiniteSet(table)
    /\ outcome = "verified_results" /\ RunsAsSelect(query) =>
          \E result \in {StatementResult(table, query, QueryWindow)} :
             /\ facts = result.facts
             /\ Classified(result.rows, Len(result.facts), result.truncated)
                  = "verified_results"

LEMMA AnsweringStep == AnsweredInv /\ [AnalyticsNext]_answeringVars => AnsweredInv'
  <1> SUFFICES ASSUME AnsweredInv, [AnalyticsNext]_answeringVars PROVE AnsweredInv'
    OBVIOUS
  <1>1. PlanningInv'
    BY PlanningStep DEF AnsweredInv
  <1>2. CASE UNCHANGED <<query, table, facts, outcome>>
    BY <1>1, <1>2 DEF AnsweredInv, QueryWindow
  <1>3. CASE Compile /\ UNCHANGED analyticsVars
    <2>1. outcome' = "none" /\ table' = table
      BY <1>3 DEF Compile, AnsweredInv, analyticsVars
    <2>2. QED BY <1>1, <2>1 DEF AnsweredInv
  <1>4. CASE RunStatement
    <2> DEFINE result == StatementResult(table', query, QueryWindow)
    <2>1. /\ query' = query /\ table' \in Tables /\ facts' = result.facts
          /\ outcome' = Classified(result.rows, Len(result.facts), result.truncated)
          /\ query # NoPlan
      BY <1>4 DEF RunStatement, plannerVars, Ready
    <2>2. StatementResult(table', query', QueryWindow') = result
      BY <2>1 DEF QueryWindow
    <2>3. table' \in SUBSET Incidents /\ IsFiniteSet(table')
      BY <2>1, AnalyticsAssumption DEF AnalyticsAssumption
    <2> HIDE DEF result
    <2>4. QED BY <1>1, <2>1, <2>2, <2>3 DEF AnsweredInv
  <1>5. CASE RunProcedure
    <2>1. query' = query /\ ~RunsAsSelect(query) /\ query # NoPlan
      BY <1>5 DEF RunProcedure, plannerVars, Ready
    <2>2. table' \in SUBSET Incidents /\ IsFiniteSet(table')
      BY <1>5, AnalyticsAssumption DEF RunProcedure, AnalyticsAssumption
    <2>3. QED BY <1>1, <2>1, <2>2 DEF AnsweredInv
  <1>6. CASE RunFails
    <2>1. query' = query /\ outcome' = "degraded" /\ query # NoPlan /\ table' = table
      BY <1>6 DEF RunFails, plannerVars, Ready
    <2>2. QED BY <1>1, <2>1 DEF AnsweredInv
  <1>7. (Accept \/ Correct \/ ModelFails) => UNCHANGED query
    BY DEF Accept, Correct, ModelFails
  <1>8. QED BY <1>2, <1>3, <1>4, <1>5, <1>6, <1>7
    DEF AnalyticsNext, analyticsVars, answeringVars, plannerVars

\* What the question asks for is a number of ranks or of groups.
LEMMA QuestionLimit ==
  ASSUME NEW q \in Questions
  PROVE  q.limit \in Nat /\ q.ties \in BOOLEAN
  <1>1. PICK said \in Mentions : q = Cues(said)
    BY PlannerAssumption DEF Questions
  <1>2. said.number \in Nat /\ said.ranks \in BOOLEAN /\ said.ties \in BOOLEAN
    BY DEF Mentions
  <1>3. /\ q.limit = IF ~said.ranks THEN 0 ELSE IF said.number = 0 THEN 1 ELSE said.number
        /\ q.ties = (said.ranks /\ said.ties)
    BY <1>1 DEF Cues
  <1>4. QED BY <1>2, <1>3

LEMMA AnsweredTop == AnsweredInv => TopIsTop
  <1> SUFFICES ASSUME AnsweredInv, outcome = "verified_results", RunsAsSelect(query),
                      IsRanking(query)
               PROVE  TopIsTop
    BY DEF TopIsTop
  <1> DEFINE M == RankedGroups(table, query, QueryWindow)
             exact == ~question.ties
             told == Facted(M, "desc", NameOrder, question.limit, exact)
             shown == {facts[n].key : n \in DOMAIN facts}
             In(k) == CHOOSE g \in M : g.key = k
  <1>1. /\ query # NoPlan /\ question \in Questions
        /\ table \in SUBSET Incidents /\ IsFiniteSet(table)
        /\ AnswersTo(query, question, prior) /\ Rankable(query, question)
    BY DEF AnsweredInv, PlanningInv
  <1>2. /\ query.group_by \in SUBSET Dimensions /\ query.group_by # {}
        /\ query.order_by \in MetricNames /\ question.limit # 0
        /\ query.tie_policy = IF question.ties THEN "include_ties" ELSE "exact_limit"
    BY <1>1 DEF IsRanking, Rankable
  <1>3. query.limit = question.limit /\ query.direction = "desc"
    BY <1>1, <1>2 DEF AnswersTo
  <1>4. question.limit \in Nat /\ question.ties \in BOOLEAN
    BY <1>1, QuestionLimit
  <1>5. (query.tie_policy = "exact_limit") = exact
    BY <1>2, <1>4
  <1>6. Comparable(M, NameOrder)
    BY <1>1, <1>2, StatementGroups DEF NameOrders
  <1>7. PICK result : /\ result = StatementResult(table, query, QueryWindow)
                      /\ facts = result.facts
                      /\ Classified(result.rows, Len(result.facts), result.truncated)
                           = "verified_results"
    BY DEF AnsweredInv
  <1>8. facts = Facted(M, query.direction, NameOrder, query.limit,
                       query.tie_policy = "exact_limit")
    <2>1. ~result.truncated /\ Len(result.facts) # 0
      BY <1>7 DEF Classified
    <2>2. \/ result.facts = << >>
          \/ result.facts = Facted(M, query.direction, NameOrder, query.limit,
                                   query.tie_policy = "exact_limit")
      BY <1>1, <1>2, <1>3, <1>4, <1>7, <2>1, StatementFacts
    <2>3. QED BY <1>7, <2>1, <2>2
  <1>9. facts = told
    BY <1>3, <1>5, <1>8
  <1> HIDE DEF M, told
  <1>10. Best(M, facts, question.limit, exact)
    BY <1>2, <1>4, <1>6, <1>9, TopFacts DEF told
  <1>11. /\ IF exact THEN Cardinality(shown) <= question.limit
            ELSE Cardinality({In(k).value : k \in shown}) <= question.limit
         /\ \A g \in M, n \in DOMAIN facts :
               g.key \notin shown =>
                   /\ g.value <= facts[n].value
                   /\ g.value = facts[n].value => facts[n].cut /\ exact
    BY <1>10 DEF Best
  <1>12. QED BY <1>11 DEF TopIsTop, M, RankedGroups

LEMMA AnsweredFirst == AnalyticsInit => AnsweredInv
  <1>1. IsFiniteSet({})
    BY FS_EmptySet
  <1>2. QED BY <1>1 DEF AnalyticsInit, PlannerInit, PlanningInv, AnsweredInv

\* A verified ranking that the database answered shows the best groups of the
\* incidents asked about, for any tables, questions, plans of a model, number of
\* rows and periods: not more than the question's number, or as many ranks, none
\* left out is better than one shown, and one as good as the last shown is left
\* out only when that one says so (tsql.py, _compiled_result_facts).
THEOREM RankingsShowTheBest == AnalyticsSpec => []TopIsTop
  <1>1. QED BY AnsweredFirst, AnsweringStep, AnsweredTop, PTL DEF AnalyticsSpec

-----------------------------------------------------------------------------
(* The loop of _aggregate *)

\* The groups in the order of their places.
InPlaces(M, direction, names) ==
  [n \in 1..Cardinality(M) |-> CHOOSE g \in M : Place(M, Precedes(M, direction, names), g) = n]

\* Each group has one place, and each place one group.
LEMMA PlacesAre ==
  ASSUME NEW M, NEW names, Comparable(M, names), NEW direction
  PROVE  /\ Leads(M, direction, names, M) /\ IsFiniteSet(M) /\ Cardinality(M) \in Nat
         /\ \A g \in M : Place(M, Precedes(M, direction, names), g) \in 1..Cardinality(M)
         /\ \A g, h \in M : Place(M, Precedes(M, direction, names), g) =
                              Place(M, Precedes(M, direction, names), h) => g = h
         /\ \A n \in 1..Cardinality(M) :
               /\ InPlaces(M, direction, names)[n] \in M
               /\ Place(M, Precedes(M, direction, names), InPlaces(M, direction, names)[n]) = n
  <1> DEFINE place(g) == Place(M, Precedes(M, direction, names), g)
  <1>1. Leads(M, direction, names, M)
    BY DEF Leads
  <1>2. /\ IsFiniteSet(M) /\ Cardinality(M) \in Nat
        /\ \A g \in M : place(g) \in 1..Cardinality(M)
        /\ \A n \in 1..Cardinality(M) : \E g \in M : place(g) = n
    <2>1. TakeFirst(M, direction, names, M)
      BY <1>1, LeadingPlaces
    <2>2. QED BY <2>1 DEF TakeFirst
  <1>3. \A g, h \in M : place(g) = place(h) => g = h
    <2> SUFFICES ASSUME NEW g \in M, NEW h \in M, place(g) = place(h), g # h PROVE FALSE
      OBVIOUS
    <2>1. <<g, h>> \in Precedes(M, direction, names) \/ <<h, g>> \in Precedes(M, direction, names)
      BY PrecedesOrders DEF StrictOrder
    <2>2. place(g) < place(h) \/ place(h) < place(g)
      BY <2>1, PrecedesOrders, PlaceOrder DEF Comparable
    <2>3. place(g) \in Nat
      BY <1>2
    <2>4. QED BY <2>2, <2>3
  <1>4. \A n \in 1..Cardinality(M) :
           InPlaces(M, direction, names)[n] = CHOOSE g \in M : place(g) = n
    BY DEF InPlaces
  <1> HIDE DEF place
  <1>5. \A n \in 1..Cardinality(M) : /\ InPlaces(M, direction, names)[n] \in M
                                     /\ place(InPlaces(M, direction, names)[n]) = n
    BY <1>2, <1>4
  <1>6. QED BY <1>1, <1>2, <1>3, <1>5 DEF place

\* The groups in the order of the loop, when all have a value.
LEMMA ListedIs ==
  ASSUME NEW M, Comparable(M, ServiceOrder), NEW direction, \A g \in M : g.value # Null
  PROVE  Ordered(M, LAMBDA g, h : ListedBefore(g, h, direction)) =
           InPlaces(M, direction, ServiceOrder)
  <1> DEFINE R == Precedes(M, direction, ServiceOrder)
             ahead(g) == {h \in M : ListedBefore(h, g, direction)}
  <1>1. \A g \in M : ahead(g) = Ahead(M, R, g)
    BY DEF Ahead, Precedes, ListedBefore
  <1>2. /\ IsFiniteSet(M) /\ Cardinality(M) \in Nat
        /\ \A g, h \in M : Place(M, R, g) = Place(M, R, h) => g = h
        /\ \A n \in 1..Cardinality(M) : InPlaces(M, direction, ServiceOrder)[n] \in M
                                       /\ Place(M, R, InPlaces(M, direction, ServiceOrder)[n]) = n
    BY PlacesAre
  <1>3. \A g \in M : Cardinality(Ahead(M, R, g)) \in Nat
    BY <1>2, PrecedesOrders, PlaceBound
  <1>4. Ordered(M, LAMBDA g, h : ListedBefore(g, h, direction)) =
          [n \in 1..Cardinality(M) |-> CHOOSE g \in M : Cardinality(ahead(g)) = n - 1]
    BY DEF Ordered
  <1> HIDE DEF ahead, R
  <1>5. ASSUME NEW n \in 1..Cardinality(M)
        PROVE  (CHOOSE g \in M : Cardinality(ahead(g)) = n - 1) =
                 InPlaces(M, direction, ServiceOrder)[n]
    <2>1. \A g \in M : Cardinality(ahead(g)) = n - 1 <=> Place(M, R, g) = n
      BY <1>1, <1>3 DEF Place
    <2>2. \A g \in M : Cardinality(ahead(g)) = n - 1 <=> g = InPlaces(M, direction, ServiceOrder)[n]
      BY <1>2, <2>1
    <2>3. InPlaces(M, direction, ServiceOrder)[n] \in M
      BY <1>2
    <2>4. QED BY <2>2, <2>3
  <1>6. InPlaces(M, direction, ServiceOrder) =
          [n \in 1..Cardinality(M) |-> InPlaces(M, direction, ServiceOrder)[n]]
    BY DEF InPlaces
  <1>7. QED BY <1>4, <1>5, <1>6

\* Equal values have as many places as groups.
LEMMA TiesCounted ==
  ASSUME NEW M, NEW names, Comparable(M, names), NEW direction, NEW v
  PROVE  Cardinality({i \in 1..Cardinality(M) : InPlaces(M, direction, names)[i].value = v}) =
           Cardinality(Equals(M, v))
  <1> DEFINE S == {i \in 1..Cardinality(M) : InPlaces(M, direction, names)[i].value = v}
             f == [i \in S |-> InPlaces(M, direction, names)[i]]
             E == Equals(M, v)
             place(g) == Place(M, Precedes(M, direction, names), g)
  <1>1. /\ IsFiniteSet(M) /\ Cardinality(M) \in Nat
        /\ \A g \in M : place(g) \in 1..Cardinality(M)
        /\ \A g, h \in M : place(g) = place(h) => g = h
        /\ \A n \in 1..Cardinality(M) : /\ InPlaces(M, direction, names)[n] \in M
                                       /\ place(InPlaces(M, direction, names)[n]) = n
    BY PlacesAre
  <1> HIDE DEF place
  <1>2. IsFiniteSet(S)
    <2>1. IsFiniteSet(1..Cardinality(M)) /\ S \in SUBSET (1..Cardinality(M))
      BY <1>1, FS_Interval
    <2> HIDE DEF S
    <2>2. QED BY <2>1, FS_Subset
  <1>3. f \in Injection(S, E)
    <2>1. \A i \in S : InPlaces(M, direction, names)[i] \in E
      BY <1>1 DEF Equals
    <2>2. \A i, j \in S : f[i] = f[j] => i = j
      BY <1>1
    <2>3. f \in [S -> E]
      BY <2>1
    <2> HIDE DEF f
    <2>4. QED BY <2>2, <2>3 DEF Injection, IsInjective
  <1>4. \A g \in E : \E i \in S : f[i] = g
    <2> TAKE g \in E
    <2>1. g \in M /\ g.value = v
      BY DEF Equals
    <2>2. InPlaces(M, direction, names)[place(g)] = g /\ place(g) \in 1..Cardinality(M)
      BY <1>1, <2>1
    <2>3. place(g) \in S
      BY <2>1, <2>2
    <2>4. QED BY <2>2, <2>3
  <1>5. f \in Surjection(S, E)
    BY <1>3, <1>4 DEF Injection, Surjection
  <1> HIDE DEF S, f, E
  <1>6. Cardinality(S) = Cardinality(E)
    BY <1>2, <1>3, <1>5, FS_Surjection
  <1>7. QED BY <1>6 DEF S, E

\* The values fall, or rise, along the places.
LEMMA ValuesInOrder ==
  ASSUME NEW M, NEW names, Comparable(M, names), NEW direction,
         NEW i \in 1..Cardinality(M), NEW j \in 1..Cardinality(M), i <= j
  PROVE  LET v == InPlaces(M, direction, names)[i].value
             w == InPlaces(M, direction, names)[j].value
         IN  v \in Int /\ w \in Int /\ (v = w \/ Better(v, w, direction))
  <1> DEFINE g == InPlaces(M, direction, names)[i]
             h == InPlaces(M, direction, names)[j]
             R == Precedes(M, direction, names)
  <1>1. g \in M /\ h \in M /\ Place(M, R, g) = i /\ Place(M, R, h) = j
    <2>1. \A n \in 1..Cardinality(M) : /\ InPlaces(M, direction, names)[n] \in M
                                       /\ Place(M, R, InPlaces(M, direction, names)[n]) = n
      BY PlacesAre
    <2> HIDE DEF R
    <2>2. QED BY <2>1
  <1>2. g.value \in Int /\ h.value \in Int
    BY <1>1 DEF Comparable
  <1> HIDE DEF g, h
  <1>3. g = h \/ <<g, h>> \in R
    <2>1. StrictOrder(M, R) /\ IsFiniteSet(M)
      BY PrecedesOrders DEF Comparable
    <2> HIDE DEF R
    <2>2. ~(Place(M, R, h) < Place(M, R, g))
      BY <1>1
    <2>3. <<h, g>> \notin R
      BY <1>1, <2>1, <2>2, PlaceOrder
    <2>4. QED BY <1>1, <2>1, <2>3 DEF StrictOrder
  <1>4. g.value = h.value \/ Better(g.value, h.value, direction)
    BY <1>3 DEF Precedes
  <1>5. QED BY <1>2, <1>4 DEF g, h

\* A rank for each new value so far is DENSE_RANK.
LEMMA RanksCounted ==
  ASSUME NEW M, NEW names, Comparable(M, names), NEW direction,
         NEW n \in 1..Cardinality(M)
  PROVE  Cardinality({j \in 1..n : j = 1 \/ InPlaces(M, direction, names)[j].value #
                                              InPlaces(M, direction, names)[j - 1].value}) =
           Dense(M, direction, InPlaces(M, direction, names)[n].value)
  <1> DEFINE at(j) == InPlaces(M, direction, names)[j].value
             S == {j \in 1..n : j = 1 \/ at(j) # at(j - 1)}
             A == Above(M, direction, at(n))
             T == A \cup {at(n)}
             f == [j \in S |-> at(j)]
             place(g) == Place(M, Precedes(M, direction, names), g)
  <1>1. /\ IsFiniteSet(M) /\ Cardinality(M) \in Nat
        /\ \A g \in M : place(g) \in 1..Cardinality(M)
        /\ \A g, h \in M : place(g) = place(h) => g = h
        /\ \A j \in 1..Cardinality(M) : /\ InPlaces(M, direction, names)[j] \in M
                                       /\ place(InPlaces(M, direction, names)[j]) = j
    BY PlacesAre
  <1>2. \A i, j \in 1..Cardinality(M) :
           i <= j => /\ at(i) \in Int /\ at(j) \in Int
                     /\ at(i) = at(j) \/ Better(at(i), at(j), direction)
    BY ValuesInOrder
  <1>3. \A g \in M : InPlaces(M, direction, names)[place(g)] = g
    BY <1>1
  <1>4. \A v : v \in A <=> \E i \in 1..Cardinality(M) : v = at(i) /\ Better(v, at(n), direction)
    <2> TAKE v
    <2>1. v \in A <=> \E g \in M : v = g.value /\ Better(v, at(n), direction)
      BY DEF Above
    <2> HIDE DEF A, place
    <2>2. ASSUME NEW g \in M, v = g.value, Better(v, at(n), direction)
          PROVE  \E i \in 1..Cardinality(M) : v = at(i) /\ Better(v, at(n), direction)
      <3>1. place(g) \in 1..Cardinality(M) /\ v = at(place(g))
        BY <1>1, <1>3, <2>2
      <3>2. QED BY <2>2, <3>1
    <2>3. ASSUME NEW i \in 1..Cardinality(M), v = at(i), Better(v, at(n), direction)
          PROVE  \E g \in M : v = g.value /\ Better(v, at(n), direction)
      BY <1>1, <2>3
    <2>4. QED BY <2>1, <2>2, <2>3
  <1>5. \A x, y, z \in Int : /\ ~Better(x, x, direction)
                             /\ Better(x, y, direction) /\ Better(y, z, direction)
                                  => Better(x, z, direction)
    BY DEF Better
  <1>6. IsFiniteSet(A) /\ Cardinality(A) \in Nat
    <2> DEFINE values == {g.value : g \in M}
    <2>1. [g \in M |-> g.value] \in Surjection(M, values)
      BY DEF Surjection
    <2>2. A \in SUBSET values
      BY DEF Above
    <2> HIDE DEF A, values
    <2>3. QED BY <1>1, <2>1, <2>2, FS_Surjection, FS_Subset, FS_CardinalityType
  <1> HIDE DEF at, A, place
  <1>7. S \in SUBSET (1..Cardinality(M)) /\ n \in S \cup (1..n)
    BY <1>1
  <1>8. IsFiniteSet(S)
    <2>1. IsFiniteSet(1..Cardinality(M))
      BY <1>1, FS_Interval
    <2> HIDE DEF S
    <2>2. QED BY <1>7, <2>1, FS_Subset
  <1>9. \A j \in S : at(j) \in T
    <2> TAKE j \in S
    <2>1. j \in 1..Cardinality(M) /\ j <= n
      BY <1>7
    <2>2. at(j) = at(n) \/ Better(at(j), at(n), direction)
      BY <1>2, <2>1
    <2>3. QED BY <1>4, <2>1, <2>2
  <1>10. ASSUME NEW i \in S, NEW j \in S, i < j PROVE at(i) # at(j)
    <2>1. j # 1 /\ at(j) # at(j - 1) /\ i <= j - 1
      BY <1>1, <1>10
    <2>2. {i, j, j - 1} \subseteq 1..Cardinality(M)
      BY <1>1, <1>10
    <2>3. at(i) = at(j - 1) \/ Better(at(i), at(j - 1), direction)
      BY <1>2, <2>1, <2>2
    <2>4. Better(at(j - 1), at(j), direction)
      BY <1>2, <2>1, <2>2
    <2>5. at(i) \in Int /\ at(j) \in Int /\ at(j - 1) \in Int
      BY <1>2, <2>2
    <2>6. Better(at(i), at(j), direction)
      BY <1>5, <2>3, <2>4, <2>5
    <2>7. QED BY <1>5, <2>5, <2>6
  <1>11. f \in Injection(S, T)
    <2>1. f \in [S -> T]
      BY <1>9
    <2>2. \A i, j \in S : f[i] = f[j] => i = j
      <3> SUFFICES ASSUME NEW i \in S, NEW j \in S, f[i] = f[j], i # j PROVE FALSE
        OBVIOUS
      <3>1. i \in Int /\ j \in Int
        BY <1>1, <1>7
      <3>2. i < j \/ j < i
        BY <3>1
      <3>3. f[i] = at(i) /\ f[j] = at(j)
        OBVIOUS
      <3> HIDE DEF f, S
      <3>4. QED BY <1>10, <3>2, <3>3
    <2>3. QED BY <2>1, <2>2 DEF Injection, IsInjective
  <1>12. ASSUME NEW v \in T PROVE \E j \in S : at(j) = v
    <2> DEFINE those == {i \in 1..n : at(i) = v}
    <2>1. those # {}
      <3>1. CASE v = at(n)
        BY <1>1, <3>1
      <3>2. CASE v \in A
        <4>1. PICK i \in 1..Cardinality(M) : v = at(i) /\ Better(v, at(n), direction)
          BY <1>4, <3>2
        <4>2. CASE i <= n
          BY <4>1, <4>2
        <4>3. CASE n <= i
          <5>1. /\ at(n) \in Int /\ at(i) \in Int
                /\ at(n) = at(i) \/ Better(at(n), at(i), direction)
            BY <1>2, <4>3
          <5>2. QED BY <1>5, <4>1, <5>1
        <4>4. QED BY <1>1, <4>2, <4>3
      <3>3. QED BY <3>1, <3>2
    <2>2. those \in SUBSET Nat
      BY <1>1
    <2>3. PICK j \in those : \A i \in those : j <= i
      BY <2>1, <2>2, LeastNumber
    <2>4. j = 1 \/ at(j) # at(j - 1)
      <3> SUFFICES ASSUME j # 1, at(j) = at(j - 1) PROVE FALSE
        OBVIOUS
      <3>1. j - 1 \in those
        BY <1>1, <2>3
      <3>2. QED BY <1>1, <2>3, <3>1
    <2>5. QED BY <2>3, <2>4
  <1>13. f \in Surjection(S, T)
    <2>1. \A v \in T : \E j \in S : f[j] = v
      BY <1>12
    <2> HIDE DEF f
    <2>2. QED BY <1>11, <2>1 DEF Injection, Surjection
  <1>14. Cardinality(S) = Cardinality(T)
    <2> HIDE DEF S, T, f
    <2>1. QED BY <1>8, <1>11, <1>13, FS_Surjection
  <1>15. at(n) \notin A
    <2>1. at(n) \in Int
      BY <1>1, <1>2
    <2>2. QED BY <1>4, <1>5, <2>1
  <1>16. Cardinality(T) = Cardinality(A) + 1
    BY <1>6, <1>15, FS_AddElement
  <1>17. Cardinality(S) = 1 + Cardinality(A)
    BY <1>6, <1>14, <1>16
  <1>18. QED BY <1>17 DEF Dense, A, at

\* The loop lists what the window functions rank.
LEMMA LoopLists ==
  ASSUME NEW M, NEW names, Comparable(M, names), NEW direction,
         \A g \in M : g.value # Null
  PROVE  LoopRanked(InPlaces(M, direction, names)) = List(M, direction, names, M)
  <1> DEFINE P == InPlaces(M, direction, names)
             L == List(M, direction, names, M)
             ties(v) == IF v = Null THEN 1
                        ELSE Cardinality({i \in DOMAIN P : P[i].value = v})
             rank(i) == Cardinality({j \in 1..i : j = 1 \/ P[j].value # P[j - 1].value})
  <1>1. DOMAIN P = 1..Cardinality(M)
    BY DEF InPlaces
  <1>2. LoopRanked(P) = [i \in DOMAIN P |-> Ranked(P[i], rank(i), ties(P[i].value), i)]
    BY DEF LoopRanked
  <1>3. /\ Leads(M, direction, names, M)
        /\ \A n \in 1..Cardinality(M) : /\ P[n] \in M
                                       /\ Place(M, Precedes(M, direction, names), P[n]) = n
    BY PlacesAre
  <1>4. /\ DOMAIN L = 1..Cardinality(M) /\ L \in Lists(M, direction, names, M)
        /\ \A g \in M : L[Place(M, Precedes(M, direction, names), g)] =
                          Windowed(M, direction, names, g)
    BY <1>3, RowList
  <1>5. L = [n \in 1..Cardinality(M) |-> L[n]]
    BY <1>4 DEF Lists
  <1> HIDE DEF L
  <1>6. ASSUME NEW n \in 1..Cardinality(M)
        PROVE  Ranked(P[n], rank(n), ties(P[n].value), n) = L[n]
    <2>1. rank(n) = Dense(M, direction, P[n].value)
      BY RanksCounted
    <2>2. ties(P[n].value) = Cardinality(Equals(M, P[n].value))
      <3>1. P[n].value # Null
        BY <1>3
      <3>2. {i \in DOMAIN P : P[i].value = P[n].value} =
              {i \in 1..Cardinality(M) : P[i].value = P[n].value}
        BY <1>1
      <3>3. Cardinality({i \in 1..Cardinality(M) : P[i].value = P[n].value}) =
              Cardinality(Equals(M, P[n].value))
        BY TiesCounted
      <3>4. QED BY <3>1, <3>2, <3>3
    <2>3. L[n] = Windowed(M, direction, names, P[n])
      BY <1>3, <1>4
    <2> HIDE DEF P, rank, ties
    <2>4. QED BY <1>3, <2>1, <2>2, <2>3 DEF Windowed
  <1> HIDE DEF P, rank, ties
  <1>7. QED BY <1>1, <1>2, <1>5, <1>6 DEF P, L

\* The first of all groups are those of a filter that keeps what comes before.
LEMMA LeadingList ==
  ASSUME NEW M, NEW names, Comparable(M, names), NEW direction,
         NEW D, Leads(M, direction, names, D)
  PROVE  Leading(List(M, direction, names, M), Cardinality(D)) = List(M, direction, names, D)
  <1> DEFINE all == List(M, direction, names, M)
             list == List(M, direction, names, D)
             place(g) == Place(M, Precedes(M, direction, names), g)
             d == Cardinality(D)
  <1>1. /\ DOMAIN all = 1..Cardinality(M) /\ all \in Lists(M, direction, names, M)
        /\ Len(all) = Cardinality(M)
        /\ \A g \in M : all[place(g)] = Windowed(M, direction, names, g)
    <2>1. Leads(M, direction, names, M)
      BY DEF Leads
    <2>2. QED BY <2>1, RowList
  <1>2. /\ DOMAIN list = 1..d /\ list \in Lists(M, direction, names, D) /\ Len(list) = d
        /\ \A g \in D : list[place(g)] = Windowed(M, direction, names, g)
    BY RowList
  <1>3. /\ IsFiniteSet(D) /\ d \in Nat
        /\ \A n \in 1..d : \E g \in D : place(g) = n
    <2>1. TakeFirst(M, direction, names, D)
      BY LeadingPlaces
    <2>2. QED BY <2>1 DEF TakeFirst
  <1>4. IsFiniteSet(M) /\ Cardinality(M) \in Nat /\ D \in SUBSET M
    BY PlacesAre DEF Leads
  <1>5. d <= Cardinality(M)
    BY <1>4, FS_Subset
  <1> HIDE DEF all, list, place, d
  <1>6. Leading(all, d) = SubSeq(all, 1, d)
    <2>1. (IF d < Len(all) THEN d ELSE Len(all)) = d
      BY <1>1, <1>3, <1>4, <1>5
    <2>2. QED BY <2>1 DEF Leading
  <1>7. /\ SubSeq(all, 1, d) \in Seq(Windows(M, direction, names, M)) /\ Len(SubSeq(all, 1, d)) = d
        /\ \A n \in 1..d : SubSeq(all, 1, d)[n] = all[n]
    BY <1>1, <1>3, <1>4, <1>5 DEF Lists
  <1>8. \A n \in 1..d : all[n] = list[n]
    BY <1>1, <1>2, <1>3, <1>4
  <1>9. SubSeq(all, 1, d) = list
    <2>1. list \in Seq(Windows(M, direction, names, D))
      BY <1>2 DEF Lists
    <2>2. QED BY <1>2, <1>7, <1>8, <2>1
  <1>10. QED BY <1>6, <1>9 DEF all, list, d

\* The filter on rows keeps as many groups as it may.
LEMMA ChosenRows ==
  ASSUME NEW M, NEW names, Comparable(M, names), NEW direction,
         NEW limit \in Nat
  PROVE  Cardinality(Chosen(M, direction, names, limit, TRUE)) =
           IF limit < Cardinality(M) THEN limit ELSE Cardinality(M)
  <1> DEFINE D == Chosen(M, direction, names, limit, TRUE)
             place(g) == Place(M, Precedes(M, direction, names), g)
  <1>1. Leads(M, direction, names, D) /\ Cardinality(D) <= limit
    BY ChosenLeads, RowsWithin
  <1>2. /\ IsFiniteSet(M) /\ Cardinality(M) \in Nat
        /\ \A g \in M : place(g) \in 1..Cardinality(M)
        /\ \A n \in 1..Cardinality(M) : \E g \in M : place(g) = n
    <2>1. Leads(M, direction, names, M) /\ IsFiniteSet(M)
      BY PlacesAre
    <2>2. TakeFirst(M, direction, names, M)
      BY <2>1, LeadingPlaces
    <2>3. QED BY <2>1, <2>2 DEF TakeFirst
  <1>3. \A g \in M : g \in D <=> place(g) <= limit
    BY DEF Chosen
  <1> HIDE DEF D
  <1>4. /\ Cardinality(D) \in Nat /\ D \in SUBSET M
        /\ \A g \in D : place(g) \in 1..Cardinality(D)
    <2>1. TakeFirst(M, direction, names, D)
      BY <1>1, LeadingPlaces
    <2>2. QED BY <1>1, <2>1 DEF Leads, TakeFirst
  <1> HIDE DEF place
  <1> SUFFICES Cardinality(D) = IF limit < Cardinality(M) THEN limit ELSE Cardinality(M)
    BY DEF D
  <1>5. CASE limit < Cardinality(M)
    <2>1. CASE limit = 0
      BY <1>1, <1>4, <1>5, <2>1
    <2>2. CASE limit > 0
      <3>1. limit \in 1..Cardinality(M)
        BY <1>2, <1>5, <2>2
      <3>2. PICK g \in M : place(g) = limit
        BY <1>2, <3>1
      <3>3. limit \in 1..Cardinality(D)
        BY <1>3, <1>4, <3>2
      <3>4. QED BY <1>1, <1>4, <1>5, <3>3
    <2>3. QED BY <2>1, <2>2
  <1>6. CASE ~(limit < Cardinality(M))
    <2>1. D = M
      BY <1>2, <1>3, <1>4, <1>6
    <2>2. QED BY <1>6, <2>1
  <1>7. QED BY <1>5, <1>6

\* The cut of the loop at a number of rows is the filter on rows.
LEMMA CutAtRows ==
  ASSUME NEW M, NEW names, Comparable(M, names), NEW direction,
         NEW limit \in Nat
  PROVE  Leading(List(M, direction, names, M), limit) =
           List(M, direction, names, Chosen(M, direction, names, limit, TRUE))
  <1> DEFINE D == Chosen(M, direction, names, limit, TRUE)
             all == List(M, direction, names, M)
  <1>1. Leads(M, direction, names, D)
    BY ChosenLeads
  <1>2. Len(all) = Cardinality(M) /\ Cardinality(M) \in Nat
    <2>1. Leads(M, direction, names, M) /\ Cardinality(M) \in Nat
      BY PlacesAre
    <2>2. QED BY <2>1, RowList
  <1>3. Cardinality(D) = IF limit < Cardinality(M) THEN limit ELSE Cardinality(M)
    BY ChosenRows
  <1> HIDE DEF D, all
  <1>4. Leading(all, limit) = Leading(all, Cardinality(D))
    <2>1. (IF limit < Len(all) THEN limit ELSE Len(all)) =
            (IF Cardinality(D) < Len(all) THEN Cardinality(D) ELSE Len(all))
      BY <1>2, <1>3
    <2>2. QED BY <2>1 DEF Leading
  <1>5. Leading(all, Cardinality(D)) = List(M, direction, names, D)
    BY <1>1, LeadingList DEF all
  <1>6. QED BY <1>4, <1>5 DEF all, D

\* Its cut at a number of ranks is the filter on ranks.
LEMMA CutAtRanks ==
  ASSUME NEW M, NEW names, Comparable(M, names), NEW direction,
         NEW q, q.limit \in Nat, q.tie_policy # "exact_limit"
  PROVE  LET all == List(M, direction, names, M) IN
         Leading(all, Cardinality({n \in DOMAIN all : Within(all[n], q)})) =
           List(M, direction, names, Chosen(M, direction, names, q.limit, FALSE))
  <1> DEFINE D == Chosen(M, direction, names, q.limit, FALSE)
             all == List(M, direction, names, M)
             place(g) == Place(M, Precedes(M, direction, names), g)
             S == {n \in DOMAIN all : Within(all[n], q)}
             f == [g \in D |-> place(g)]
  <1>1. /\ DOMAIN all = 1..Cardinality(M)
        /\ \A g \in M : all[place(g)] = Windowed(M, direction, names, g)
    BY PlacesAre, RowList
  <1>2. /\ IsFiniteSet(M)
        /\ \A g \in M : place(g) \in 1..Cardinality(M)
        /\ \A g, h \in M : place(g) = place(h) => g = h
        /\ \A n \in 1..Cardinality(M) : \E g \in M : place(g) = n
    <2>1. \A n \in 1..Cardinality(M) : /\ InPlaces(M, direction, names)[n] \in M
                                       /\ place(InPlaces(M, direction, names)[n]) = n
      BY PlacesAre
    <2>2. /\ IsFiniteSet(M)
          /\ \A g \in M : place(g) \in 1..Cardinality(M)
          /\ \A g, h \in M : place(g) = place(h) => g = h
      BY PlacesAre
    <2> HIDE DEF place
    <2>3. QED BY <2>1, <2>2
  <1>3. \A g \in M : g \in D <=> Within(all[place(g)], q)
    <2> TAKE g \in M
    <2>1. all[place(g)] = Windowed(M, direction, names, g)
      BY <1>1
    <2>2. all[place(g)].rank = Dense(M, direction, g.value)
      BY <2>1 DEF Windowed, Ranked
    <2> HIDE DEF all, place
    <2>3. QED BY <2>2 DEF Within, Chosen
  <1>4. Leads(M, direction, names, D)
    BY ChosenLeads
  <1>5. D \in SUBSET M
    BY <1>4 DEF Leads
  <1> HIDE DEF D, place, all
  <1>6. IsFiniteSet(D)
    BY <1>2, <1>5, FS_Subset
  <1>7. f \in Injection(D, S)
    <2>1. \A g \in D : place(g) \in S
      BY <1>1, <1>2, <1>3, <1>5
    <2>2. f \in [D -> S]
      BY <2>1
    <2>3. \A g, h \in D : f[g] = f[h] => g = h
      BY <1>2, <1>5
    <2> HIDE DEF f, S
    <2>4. QED BY <2>2, <2>3 DEF Injection, IsInjective
  <1>8. f \in Surjection(D, S)
    <2>1. ASSUME NEW n \in S PROVE \E g \in D : f[g] = n
      <3>1. n \in 1..Cardinality(M) /\ Within(all[n], q)
        BY <1>1
      <3>2. PICK g \in M : place(g) = n
        BY <1>2, <3>1
      <3>3. g \in D
        BY <1>3, <3>1, <3>2
      <3>4. QED BY <3>2, <3>3
    <2> HIDE DEF f, S
    <2>2. QED BY <1>7, <2>1 DEF Injection, Surjection
  <1>9. Cardinality(S) = Cardinality(D)
    <2> HIDE DEF f, S
    <2>1. QED BY <1>6, <1>7, <1>8, FS_Surjection
  <1>10. Leading(all, Cardinality(D)) = List(M, direction, names, D)
    BY <1>4, LeadingList DEF all
  <1>11. Leading(all, Cardinality(S)) = List(M, direction, names, D)
    BY <1>9, <1>10
  <1>12. QED BY <1>11 DEF S, all, D

\* Incidents that all have a code are grouped by the service as by the database.
LEMMA CollectedAsGrouped ==
  ASSUME NEW rows, \A i \in rows : i.error_code # "none", NEW fields, fields # {}
  PROVE  Collected(rows, fields) = Grouped(rows, fields)
  <1>1. \A i \in rows, f \in fields : Attribute(i, f) = Column(i, f)
    BY DEF Attribute, Signature, Column, ErrorDimensions
  <1>2. \A i \in rows : \A f \in fields \cap ErrorDimensions : Attribute(i, f) # "none"
    BY DEF Attribute, Signature, Column, ErrorDimensions
  <1> DEFINE key(i) == [f \in fields |-> Attribute(i, f)]
             column(i) == [f \in fields |-> Column(i, f)]
             kept == {i \in rows : \A f \in fields \cap ErrorDimensions : Attribute(i, f) # "none"}
  <1>3. kept = rows
    BY <1>2
  <1>4. \A i \in rows : key(i) = column(i)
    BY <1>1
  <1> DEFINE keyed(k) == {i \in rows : key(i) = k}
             columned(k) == {i \in rows : column(i) = k}
             K == {key(i) : i \in rows}
             C == {column(i) : i \in rows}
  <1>5. Collected(rows, fields) = {[key |-> k, rows |-> keyed(k)] : k \in K}
    <2>1. Collected(rows, fields) =
            {[key |-> k, rows |-> {i \in kept : key(i) = k}] : k \in {key(i) : i \in kept}}
      BY DEF Collected
    <2> HIDE DEF kept, key
    <2>2. QED BY <1>3, <2>1
  <1>6. Grouped(rows, fields) = {[key |-> k, rows |-> columned(k)] : k \in C}
    BY DEF Grouped
  <1> HIDE DEF key, column
  <1>7. K = C
    BY <1>4
  <1>8. \A k : keyed(k) = columned(k)
    BY <1>4
  <1> HIDE DEF keyed, columned, K, C
  <1>9. QED BY <1>5, <1>6, <1>7, <1>8

-----------------------------------------------------------------------------
(* Two orders of names *)

\* Whatever the order of names, no place holds a better value than in the other.
LEMMA NoBetterPlace ==
  ASSUME NEW M, NEW o, Comparable(M, o), NEW p, Comparable(M, p), NEW direction,
         NEW n \in 1..Cardinality(M)
  PROVE  ~Better(InPlaces(M, direction, o)[n].value, InPlaces(M, direction, p)[n].value,
                 direction)
  <1> DEFINE R == Precedes(M, direction, o)
             S == Precedes(M, direction, p)
             g == InPlaces(M, direction, o)[n]
             h == InPlaces(M, direction, p)[n]
  <1> SUFFICES ASSUME Better(g.value, h.value, direction) PROVE FALSE
    OBVIOUS
  <1>1. /\ g \in M /\ Place(M, R, g) = n /\ h \in M /\ Place(M, S, h) = n
    BY PlacesAre
  <1>2. /\ \A x \in M : x.value \in Int
        /\ IsFiniteSet(M) /\ StrictOrder(M, R) /\ StrictOrder(M, S)
    BY PrecedesOrders DEF Comparable
  <1>3. \A x, y, z \in Int : Better(x, y, direction) /\ Better(y, z, direction)
                                => Better(x, z, direction)
    BY DEF Better
  <1>4. /\ \A x \in M : <<x, g>> \in R => x.value = g.value \/ Better(x.value, g.value, direction)
        /\ \A x \in M : Better(x.value, h.value, direction) => <<x, h>> \in S
    BY <1>1 DEF Precedes
  <1> HIDE DEF R, S, g, h
  <1>5. \A x \in Ahead(M, R, g) \cup {g} : x \in M /\ Better(x.value, h.value, direction)
    <2> TAKE x \in Ahead(M, R, g) \cup {g}
    <2>1. x \in M /\ (x.value = g.value \/ Better(x.value, g.value, direction))
      BY <1>1, <1>4 DEF Ahead
    <2>2. g.value \in Int /\ h.value \in Int /\ x.value \in Int
      BY <1>1, <1>2, <2>1
    <2>3. Better(g.value, h.value, direction)
      BY DEF g, h
    <2>4. QED BY <1>3, <2>1, <2>2, <2>3
  <1>6. Ahead(M, R, g) \cup {g} \in SUBSET Ahead(M, S, h)
    BY <1>4, <1>5 DEF Ahead
  <1>7. g \notin Ahead(M, R, g)
    BY <1>1, <1>2 DEF StrictOrder, Ahead
  <1>8. /\ IsFiniteSet(Ahead(M, R, g)) /\ Cardinality(Ahead(M, R, g)) \in Nat
        /\ IsFiniteSet(Ahead(M, S, h)) /\ Cardinality(Ahead(M, S, h)) \in Nat
    BY <1>1, <1>2, PlaceBound
  <1>9. Cardinality(Ahead(M, R, g) \cup {g}) = Cardinality(Ahead(M, R, g)) + 1
    BY <1>7, <1>8, FS_AddElement
  <1>10. Cardinality(Ahead(M, R, g) \cup {g}) <= Cardinality(Ahead(M, S, h))
    BY <1>6, <1>8, FS_Subset
  <1>11. QED BY <1>1, <1>8, <1>9, <1>10 DEF Place

\* Place by place the values are the same.
LEMMA SameValues ==
  ASSUME NEW M, NEW o, Comparable(M, o), NEW p, Comparable(M, p), NEW direction,
         NEW n \in 1..Cardinality(M)
  PROVE  InPlaces(M, direction, o)[n].value = InPlaces(M, direction, p)[n].value
  <1> DEFINE v == InPlaces(M, direction, o)[n].value
             w == InPlaces(M, direction, p)[n].value
  <1>1. v \in Int /\ w \in Int
    BY PlacesAre DEF Comparable
  <1>2. ~Better(v, w, direction) /\ ~Better(w, v, direction)
    BY NoBetterPlace
  <1> HIDE DEF v, w
  <1>3. v = w
    BY <1>1, <1>2 DEF Better
  <1>4. QED BY <1>3 DEF v, w

\* The groups of a list that have the value of its last one.
LastTie(P, d) == {i \in 1..d : P[i].value = P[d].value}

\* A list of so many groups cuts the tie of this one.
Cutting(M, P, d, n) ==
  /\ P[n].value = P[d].value
  /\ Cardinality(Equals(M, P[n].value)) > Cardinality(LastTie(P, d))

\* What each fact of a ranking tells, in the order P of the groups.
Tell(M, direction, P, d, exact, told) ==
  /\ d \in Nat /\ d <= Cardinality(M) /\ DOMAIN told = 1..d
  /\ \A n \in 1..d :
        /\ told[n].key = P[n].key /\ told[n].value = P[n].value
        /\ told[n].rank = Dense(M, direction, P[n].value)
        /\ told[n].ties = Cardinality(Equals(M, P[n].value))
        /\ told[n].cut = IF exact /\ Cutting(M, P, d, n) THEN TRUE ELSE FALSE

LEMMA ToldAre ==
  ASSUME NEW M, NEW names, Comparable(M, names), NEW direction,
         NEW limit \in Nat, NEW exact \in BOOLEAN,
         NEW d, d = Cardinality(Chosen(M, direction, names, limit, exact)),
         NEW told, told = Facted(M, direction, names, limit, exact),
         NEW P, P = InPlaces(M, direction, names)
  PROVE  Tell(M, direction, P, d, exact, told)
  <1> DEFINE D == Chosen(M, direction, names, limit, exact)
             list == List(M, direction, names, D)
             place(g) == Place(M, Precedes(M, direction, names), g)
  <1>1. /\ DOMAIN told = 1..d /\ Len(list) = d /\ DOMAIN list = 1..d /\ d \in Nat
        /\ \A n \in 1..d : \E g \in D : place(g) = n
        /\ \A g \in D : /\ list[place(g)] = Windowed(M, direction, names, g)
                        /\ told[place(g)].key = g.key /\ told[place(g)].value = g.value
    <2>1. Stand(M, direction, names, D, told, list)
      BY FactsAre
    <2>2. d = Cardinality(D)
      OBVIOUS
    <2> HIDE DEF D, list
    <2>3. QED BY <2>1, <2>2 DEF Stand
  <1>2. D \in SUBSET M /\ Leads(M, direction, names, D)
    BY ChosenLeads DEF Leads
  <1>3. list \in Lists(M, direction, names, D)
    <2> HIDE DEF D
    <2>1. QED BY <1>2, RowList
  <1>4. told = IF exact THEN MarkCut(list) ELSE list
    BY DEF Facted
  <1>5. /\ IsFiniteSet(M) /\ Cardinality(M) \in Nat
        /\ \A g, h \in M : place(g) = place(h) => g = h
        /\ \A n \in 1..Cardinality(M) : P[n] \in M /\ place(P[n]) = n
    BY PlacesAre
  <1>6. d <= Cardinality(M)
    BY <1>2, <1>5, FS_Subset
  <1> HIDE DEF D, list, place
  <1>7. ASSUME NEW n \in 1..d
        PROVE  /\ list[n] = Windowed(M, direction, names, P[n])
               /\ told[n].key = P[n].key /\ told[n].value = P[n].value
    <2>1. PICK g \in D : place(g) = n
      BY <1>1
    <2>2. n \in 1..Cardinality(M)
      BY <1>1, <1>5, <1>6
    <2>3. g = P[n]
      BY <1>2, <1>5, <2>1, <2>2
    <2>4. QED BY <1>1, <2>1, <2>3
  <1>8. ASSUME NEW n \in 1..d
        PROVE  /\ list[n].value = P[n].value
               /\ list[n].rank = Dense(M, direction, P[n].value)
               /\ list[n].ties = Cardinality(Equals(M, P[n].value))
               /\ list[n].cut = FALSE
    <2>1. list[n] = Windowed(M, direction, names, P[n])
      BY <1>7
    <2>2. QED BY <2>1 DEF Windowed, Ranked
  <1>9. ASSUME NEW n \in 1..d
        PROVE  /\ told[n].rank = list[n].rank /\ told[n].ties = list[n].ties
               /\ told[n].cut = IF exact /\ Cutting(M, P, d, n) THEN TRUE ELSE FALSE
    <2>1. CASE ~exact
      BY <1>4, <1>8, <2>1
    <2>2. CASE exact
      <3> DEFINE kept == {i \in DOMAIN list : list[i].value = list[Len(list)].value}
      <3>1. /\ MarkCut(list)[n].rank = list[n].rank /\ MarkCut(list)[n].ties = list[n].ties
            /\ CutsTie(list, n) => MarkCut(list)[n].cut = TRUE
            /\ ~CutsTie(list, n) => MarkCut(list)[n].cut = FALSE
        <4>1. n \in DOMAIN list /\ list \in Lists(M, direction, names, D)
          BY <1>1, <1>3
        <4>2. QED BY <4>1, MarkedFields
      <3>2. d \in 1..d
        BY <1>1
      <3>3. list[Len(list)].value = P[d].value
        BY <1>1, <1>8, <3>2
      <3>4. kept = LastTie(P, d)
        BY <1>1, <1>8, <3>3 DEF LastTie
      <3>5. CutsTie(list, n) <=> Cutting(M, P, d, n)
        <4>1. CutsTie(list, n) <=> /\ list[n].value = list[Len(list)].value
                                /\ list[n].ties > Cardinality(kept)
          BY DEF CutsTie
        <4> HIDE DEF kept
        <4>2. QED BY <1>8, <3>3, <3>4, <4>1 DEF Cutting
      <3>6. told = MarkCut(list)
        BY <1>4, <2>2
      <3> HIDE DEF kept
      <3>7. QED BY <2>2, <3>1, <3>5, <3>6
    <2>3. QED BY <2>1, <2>2
  <1>10. QED BY <1>1, <1>6, <1>7, <1>8, <1>9 DEF Tell

\* Both orders keep as many groups.
LEMMA SameCount ==
  ASSUME NEW M, NEW o, Comparable(M, o), NEW p, Comparable(M, p), NEW direction,
         NEW limit \in Nat, NEW exact \in BOOLEAN
  PROVE  /\ Cardinality(Chosen(M, direction, o, limit, exact)) =
              Cardinality(Chosen(M, direction, p, limit, exact))
         /\ ~exact => Chosen(M, direction, o, limit, exact) =
                        Chosen(M, direction, p, limit, exact)
  <1>1. CASE exact
    <2>1. /\ Cardinality(Chosen(M, direction, o, limit, TRUE)) =
                IF limit < Cardinality(M) THEN limit ELSE Cardinality(M)
          /\ Cardinality(Chosen(M, direction, p, limit, TRUE)) =
                IF limit < Cardinality(M) THEN limit ELSE Cardinality(M)
      BY ChosenRows
    <2>2. exact = TRUE
      BY <1>1
    <2>3. QED BY <2>1, <2>2
  <1>2. CASE ~exact
    BY <1>2 DEF Chosen
  <1>3. QED BY <1>1, <1>2

LEMMA SamePlaces ==
  ASSUME NEW M, NEW o, Comparable(M, o), NEW p, Comparable(M, p), NEW direction,
         NEW limit \in Nat, NEW exact \in BOOLEAN
  PROVE  ByPlace(Facted(M, direction, o, limit, exact)) =
           ByPlace(Facted(M, direction, p, limit, exact))
  <1> DEFINE d == Cardinality(Chosen(M, direction, o, limit, exact))
             told == Facted(M, direction, o, limit, exact)
             shown == Facted(M, direction, p, limit, exact)
             P == InPlaces(M, direction, o)
             Q == InPlaces(M, direction, p)
  <1>1. d = Cardinality(Chosen(M, direction, p, limit, exact))
    BY SameCount
  <1>2. Tell(M, direction, P, d, exact, told)
    BY ToldAre
  <1>3. Tell(M, direction, Q, d, exact, shown)
    BY <1>1, ToldAre
  <1>4. Cardinality(M) \in Nat
    BY PlacesAre
  <1>5. \A n \in 1..Cardinality(M) : P[n].value = Q[n].value
    BY SameValues
  <1> HIDE DEF d, told, shown, P, Q
  <1>6. d \in Nat /\ d <= Cardinality(M) /\ DOMAIN told = 1..d /\ DOMAIN shown = 1..d
    BY <1>2, <1>3 DEF Tell
  <1>7. \A n \in 1..d : n \in 1..Cardinality(M) /\ d \in 1..Cardinality(M)
    BY <1>4, <1>6
  <1>8. \A n \in 1..d : P[n].value = Q[n].value /\ P[d].value = Q[d].value
    BY <1>5, <1>7
  <1>9. \A n \in 1..d : Cutting(M, P, d, n) <=> Cutting(M, Q, d, n)
    <2> TAKE n \in 1..d
    <2>1. LastTie(P, d) = LastTie(Q, d)
      BY <1>8 DEF LastTie
    <2>2. QED BY <1>8, <2>1 DEF Cutting
  <1>10. ASSUME NEW n \in 1..d
         PROVE  /\ told[n].value = shown[n].value /\ told[n].rank = shown[n].rank
                /\ told[n].ties = shown[n].ties /\ told[n].cut = shown[n].cut
    <2>1. /\ told[n].value = P[n].value /\ told[n].rank = Dense(M, direction, P[n].value)
          /\ told[n].ties = Cardinality(Equals(M, P[n].value))
          /\ told[n].cut = IF exact /\ Cutting(M, P, d, n) THEN TRUE ELSE FALSE
      BY <1>2 DEF Tell
    <2>2. /\ shown[n].value = Q[n].value /\ shown[n].rank = Dense(M, direction, Q[n].value)
          /\ shown[n].ties = Cardinality(Equals(M, Q[n].value))
          /\ shown[n].cut = IF exact /\ Cutting(M, Q, d, n) THEN TRUE ELSE FALSE
      BY <1>3 DEF Tell
    <2>3. P[n].value = Q[n].value
      BY <1>8
    <2>4. QED BY <1>9, <2>1, <2>2, <2>3
  <1>11. ByPlace(told) = ByPlace(shown)
    <2>1. DOMAIN told = DOMAIN shown
      BY <1>6
    <2>2. \A n \in DOMAIN told :
             [value |-> told[n].value, rank |-> told[n].rank, ties |-> told[n].ties,
              cut |-> told[n].cut] =
             [value |-> shown[n].value, rank |-> shown[n].rank, ties |-> shown[n].ties,
              cut |-> shown[n].cut]
      BY <1>6, <1>10
    <2>3. QED BY <2>1, <2>2 DEF ByPlace
  <1>12. QED BY <1>11 DEF told, shown

\* A group no tie of which is cut in one order is told in the other, and no tie of
\* it is cut there.
LEMMA WholeInBoth ==
  ASSUME NEW M, NEW o, Comparable(M, o), NEW p, Comparable(M, p), NEW direction,
         NEW limit \in Nat, NEW exact \in BOOLEAN
  PROVE  Whole(Facted(M, direction, o, limit, exact)) \subseteq
           Whole(Facted(M, direction, p, limit, exact))
  <1> DEFINE D == Chosen(M, direction, o, limit, exact)
             d == Cardinality(D)
             told == Facted(M, direction, o, limit, exact)
             shown == Facted(M, direction, p, limit, exact)
             P == InPlaces(M, direction, o)
             Q == InPlaces(M, direction, p)
             place(g) == Place(M, Precedes(M, direction, p), g)
  <1>1. d = Cardinality(Chosen(M, direction, p, limit, exact))
    BY SameCount
  <1>2. /\ d \in Nat /\ d <= Cardinality(M) /\ DOMAIN told = 1..d
        /\ \A n \in 1..d : /\ told[n].key = P[n].key /\ told[n].value = P[n].value
                           /\ told[n].cut = IF exact /\ Cutting(M, P, d, n) THEN TRUE ELSE FALSE
    <2>1. Tell(M, direction, P, d, exact, told)
      BY ToldAre
    <2> HIDE DEF P, d, told
    <2>2. QED BY <2>1 DEF Tell
  <1>3. /\ DOMAIN shown = 1..d
        /\ \A n \in 1..d : /\ shown[n].key = Q[n].key /\ shown[n].value = Q[n].value
                           /\ shown[n].cut = IF exact /\ Cutting(M, Q, d, n) THEN TRUE ELSE FALSE
    <2>1. Tell(M, direction, Q, d, exact, shown)
      BY <1>1, ToldAre
    <2> HIDE DEF Q, d, shown
    <2>2. QED BY <2>1 DEF Tell
  <1>4. /\ Cardinality(M) \in Nat /\ IsFiniteSet(M)
        /\ \A g \in M : place(g) \in 1..Cardinality(M)
        /\ \A g, h \in M : place(g) = place(h) => g = h
        /\ \A n \in 1..Cardinality(M) : Q[n] \in M /\ place(Q[n]) = n
    BY PlacesAre
  <1>5. \A n \in 1..Cardinality(M) : P[n] \in M /\ P[n].value \in Int
    BY PlacesAre DEF Comparable
  <1>6. \A n \in 1..Cardinality(M) : P[n].value = Q[n].value
    BY SameValues
  <1>7. /\ \A i, j \in 1..Cardinality(M) :
              i <= j => P[i].value = P[j].value \/ Better(P[i].value, P[j].value, direction)
        /\ \A i, j \in 1..Cardinality(M) :
              i <= j => Q[i].value = Q[j].value \/ Better(Q[i].value, Q[j].value, direction)
    BY ValuesInOrder
  <1>8. \A x, y \in Int : ~(Better(x, y, direction) /\ Better(y, x, direction))
    BY DEF Better
  <1>9. \A v : Cardinality({i \in 1..Cardinality(M) : Q[i].value = v}) = Cardinality(Equals(M, v))
    BY TiesCounted
  <1>10. ASSUME NEW n \in 1..d, ~exact
         PROVE  P[n] \in M /\ place(P[n]) \in 1..d
    <2>1. D = Chosen(M, direction, p, limit, exact)
      BY <1>10, SameCount
    <2>2. Leads(M, direction, o, D) /\ Leads(M, direction, p, D)
      BY <2>1, ChosenLeads
    <2>3. TakeFirst(M, direction, o, D) /\ TakeFirst(M, direction, p, D)
      BY <2>2, LeadingPlaces
    <2>4. /\ \A g \in D : place(g) \in 1..d
          /\ \E g \in D : Place(M, Precedes(M, direction, o), g) = n
      <3> HIDE DEF D
      <3>1. QED BY <2>3 DEF TakeFirst
    <2>5. PICK g \in D : Place(M, Precedes(M, direction, o), g) = n
      BY <2>4
    <2>6. n \in 1..Cardinality(M) /\ g \in M
      BY <1>2, <1>4, <2>2 DEF Leads
    <2>7. g = P[n]
      BY <2>5, <2>6, PlacesAre
    <2> HIDE DEF D, P, place
    <2>8. QED BY <2>4, <2>6, <2>7
  <1> HIDE DEF D, d, told, shown, P, Q, place
  <1>11. ASSUME NEW n \in 1..d, ~told[n].cut
         PROVE  \E m \in 1..d : shown[m].key = told[n].key /\ ~shown[m].cut
    <2> DEFINE m == place(P[n])
    <2>1. n \in 1..Cardinality(M) /\ d \in 1..Cardinality(M) /\ d \in 1..d
      BY <1>2, <1>4
    <2>2. /\ P[n] \in M /\ m \in 1..Cardinality(M) /\ Q[m] = P[n]
          /\ P[n].value \in Int /\ P[d].value \in Int /\ P[d].value = Q[d].value
      BY <1>4, <1>5, <1>6, <2>1
    <2>3. P[n].value = P[d].value \/ Better(P[n].value, P[d].value, direction)
      BY <1>2, <1>7, <2>1
    <2> HIDE DEF m
    <2>8. ASSUME m \in 1..d, shown[m].cut = FALSE
          PROVE  \E i \in 1..d : shown[i].key = told[n].key /\ ~shown[i].cut
      <3>1. told[n].key = P[n].key /\ shown[m].key = Q[m].key
        BY <1>2, <1>3, <2>8
      <3>2. QED BY <2>2, <2>8, <3>1
    <2>4. CASE ~exact
      <3>1. m \in 1..d
        BY <1>10, <2>4 DEF m
      <3>2. shown[m].cut = FALSE
        BY <1>3, <2>4, <3>1
      <3>3. QED BY <2>8, <3>1, <3>2
    <2>5. CASE exact /\ P[n].value # P[d].value
      <3>1. m \in 1..d
        <4> SUFFICES ASSUME d <= m PROVE FALSE
          BY <1>2, <1>4, <2>2
        <4>1. Q[d].value = Q[m].value \/ Better(Q[d].value, Q[m].value, direction)
          BY <1>7, <2>1, <2>2
        <4>2. QED BY <1>8, <2>2, <2>3, <2>5, <4>1
      <3>2. ~Cutting(M, Q, d, m)
        BY <2>2, <2>5 DEF Cutting
      <3>3. shown[m].cut = FALSE
        BY <1>3, <3>1, <3>2
      <3>4. QED BY <2>8, <3>1, <3>3
    <2>6. CASE exact /\ P[n].value = P[d].value
      <3> DEFINE v == P[d].value
                 all == {i \in 1..Cardinality(M) : Q[i].value = v}
                 kept == LastTie(Q, d)
      <3>1. LastTie(P, d) = kept
        <4>1. \A i \in 1..d : P[i].value = Q[i].value
          BY <1>2, <1>4, <1>6
        <4>2. QED BY <2>2, <4>1 DEF LastTie
      <3>2. /\ IsFiniteSet(all) /\ Cardinality(all) \in Nat
            /\ kept \in SUBSET all /\ IsFiniteSet(kept) /\ Cardinality(kept) \in Nat
        <4>1. IsFiniteSet(1..Cardinality(M)) /\ all \in SUBSET (1..Cardinality(M))
          BY <1>4, FS_Interval
        <4>2. kept \in SUBSET all
          BY <1>2, <1>4, <2>2 DEF LastTie
        <4> HIDE DEF all, kept
        <4>3. QED BY <4>1, <4>2, FS_Subset, FS_CardinalityType
      <3>3. Cardinality(Equals(M, v)) = Cardinality(all)
        BY <1>9
      <3>4. ~Cutting(M, P, d, n)
        BY <1>2, <1>11, <2>6
      <3>5. ~(Cardinality(all) > Cardinality(kept))
        BY <2>6, <3>1, <3>3, <3>4 DEF Cutting
      <3>6. m \in 1..d
        <4> SUFFICES ASSUME m \notin 1..d PROVE FALSE
          OBVIOUS
        <4>1. m \in all /\ m \notin kept
          BY <2>2, <2>6 DEF LastTie
        <4> HIDE DEF all, kept
        <4>2. kept \cup {m} \in SUBSET all
          BY <3>2, <4>1
        <4>3. Cardinality(kept \cup {m}) = Cardinality(kept) + 1
          BY <3>2, <4>1, FS_AddElement
        <4>4. Cardinality(kept \cup {m}) <= Cardinality(all)
          BY <3>2, <4>2, FS_Subset
        <4>5. QED BY <3>2, <3>5, <4>3, <4>4
      <3>7. ~Cutting(M, Q, d, m)
        <4>1. Q[m].value = v
          BY <2>2, <2>6
        <4>2. QED BY <3>3, <3>5, <4>1 DEF Cutting
      <3>8. shown[m].cut = FALSE
        BY <1>3, <3>6, <3>7
      <3>9. QED BY <2>8, <3>6, <3>8
    <2>7. QED BY <2>4, <2>5, <2>6
  <1>12. Whole(told) \subseteq Whole(shown)
    <2> SUFFICES ASSUME NEW n \in 1..d, ~told[n].cut PROVE told[n].key \in Whole(shown)
      BY <1>2 DEF Whole
    <2>1. PICK m \in 1..d : shown[m].key = told[n].key /\ ~shown[m].cut
      BY <1>11
    <2>2. QED BY <1>3, <2>1 DEF Whole
  <1>13. QED BY <1>12 DEF told, shown

-----------------------------------------------------------------------------
(* The service beside the database *)

\* Where rounding sets no values apart, the service ranks a set of incidents as the
\* database does.
LEMMA ServiceAgrees ==
  ASSUME NEW incidents \in SUBSET Incidents, IsFiniteSet(incidents), NEW q, NEW window,
         q.group_by \in SUBSET Dimensions, q.order_by \in MetricNames, q.limit \in Nat,
         NEW rows, rows = StatementRows(incidents, q, window), Sufficient(rows, q),
         \A g \in Grouped(rows, q.group_by) :
            Metric(q.order_by, g.rows) = ServiceMetric(q.order_by, g.rows),
         NEW result, result = StatementResult(incidents, q, window), ~result.truncated
  PROVE  /\ ByPlace(Aggregated(rows, q)) = ByPlace(result.facts)
         /\ Whole(Aggregated(rows, q)) = Whole(result.facts)
  <1> DEFINE groups == Grouped(rows, q.group_by)
             M == RankedGroups(incidents, q, window)
             all == List(M, q.direction, ServiceOrder, M)
             exact == q.tie_policy = "exact_limit"
             listed == Ordered(MeasuredByService(groups, q),
                               LAMBDA g, h : ListedBefore(g, h, q.direction))
             ranked == LoopRanked(listed)
             served == Facted(M, q.direction, ServiceOrder, q.limit, exact)
             facted == Facted(M, q.direction, NameOrder, q.limit, exact)
  <1>1. Comparable(M, NameOrder) /\ Comparable(M, ServiceOrder)
    BY StatementGroups DEF IsRanking, Sufficient, NameOrders
  <1>2. M = Measured(groups, q)
    BY DEF RankedGroups
  <1>3. MeasuredByService(groups, q) = M
    <2>1. \A g \in groups : Metric(q.order_by, g.rows) = ServiceMetric(q.order_by, g.rows)
      OBVIOUS
    <2> HIDE DEF groups, M
    <2>2. QED BY <1>2, <2>1 DEF Measured, MeasuredByService
  <1>4. Collected(rows, q.group_by) = groups
    BY CollectedAsGrouped DEF IsRanking, Sufficient
  <1>5. \A g \in M : g.value # Null
    <2>1. \A g \in groups : Metric(q.order_by, g.rows) # Null
      BY DEF Sufficient
    <2> HIDE DEF groups, M
    <2>2. QED BY <1>2, <2>1 DEF Measured
  <1>6. "severity" \in q.details => /\ \A g \in groups : OneSeverity(g.rows)
                                    /\ \A g \in groups : UniqueSeverity(g.rows)
    <2> SUFFICES ASSUME "severity" \in q.details, NEW g \in groups
                 PROVE  OneSeverity(g.rows) /\ UniqueSeverity(g.rows)
      OBVIOUS
    <2>1. OneSeverity(g.rows)
      BY DEF Sufficient
    <2>2. Severities(g.rows) \ {"none"} = Severities(g.rows)
      BY <2>1 DEF OneSeverity
    <2>3. QED BY <2>1, <2>2 DEF OneSeverity, UniqueSeverity
  <1>7. result.facts = facted
    <2>1. IsRanking(q) /\ groups = Grouped(StatementRows(incidents, q, window), q.group_by)
      BY DEF Sufficient
    <2>2. ("severity" \in q.details => \A g \in groups : OneSeverity(g.rows))
             => result.facts = facted
      <3> HIDE DEF groups
      <3>1. QED BY <2>1, StatementFacts
    <2>3. QED BY <1>6, <2>2
  <1>8. Aggregated(rows, q) =
          IF exact THEN MarkCut(Leading(ranked, q.limit))
          ELSE Leading(ranked, Cardinality({n \in DOMAIN ranked : Within(ranked[n], q)}))
    <2> HIDE DEF groups
    <2>1. QED BY <1>4, <1>6 DEF Aggregated, Sufficient
  <1> HIDE DEF M, groups
  <1>9. ranked = all
    <2>1. listed = InPlaces(M, q.direction, ServiceOrder)
      <3>1. listed = Ordered(M, LAMBDA g, h : ListedBefore(g, h, q.direction))
        BY <1>3
      <3>2. Ordered(M, LAMBDA g, h : ListedBefore(g, h, q.direction)) =
              InPlaces(M, q.direction, ServiceOrder)
        BY <1>1, <1>5, ListedIs
      <3>3. QED BY <3>1, <3>2
    <2>2. LoopRanked(InPlaces(M, q.direction, ServiceOrder)) = all
      BY <1>1, <1>5, LoopLists
    <2> HIDE DEF listed, all
    <2>3. QED BY <2>1, <2>2
  <1> HIDE DEF ranked, all
  <1>10. Aggregated(rows, q) = served
    <2>1. CASE exact
      <3>1. Leading(all, q.limit) =
              List(M, q.direction, ServiceOrder,
                   Chosen(M, q.direction, ServiceOrder, q.limit, TRUE))
        BY <1>1, CutAtRows DEF all
      <3>2. exact = TRUE
        BY <2>1
      <3>3. served = MarkCut(Leading(ranked, q.limit))
        BY <1>9, <3>1, <3>2 DEF Facted
      <3>4. QED BY <1>8, <2>1, <3>3
    <2>2. CASE ~exact
      <3>1. Leading(all, Cardinality({n \in DOMAIN all : Within(all[n], q)})) =
              List(M, q.direction, ServiceOrder,
                   Chosen(M, q.direction, ServiceOrder, q.limit, FALSE))
        BY <1>1, <2>2, CutAtRanks DEF all
      <3>2. exact = FALSE
        BY <2>2
      <3>3. served = Leading(ranked, Cardinality({n \in DOMAIN ranked : Within(ranked[n], q)}))
        BY <1>9, <3>1, <3>2 DEF Facted
      <3>4. QED BY <1>8, <2>2, <3>3
    <2>3. QED BY <2>1, <2>2
  <1>11. exact \in BOOLEAN
    OBVIOUS
  <1> HIDE DEF exact
  <1>12. ByPlace(served) = ByPlace(facted)
    BY <1>1, <1>11, SamePlaces
  <1>13. Whole(served) = Whole(facted)
    <2>1. Whole(served) \subseteq Whole(facted) /\ Whole(facted) \subseteq Whole(served)
      BY <1>1, <1>11, WholeInBoth
    <2>2. QED BY <2>1
  <1>14. QED BY <1>7, <1>10, <1>12, <1>13

LEMMA AnsweredAgrees == AnsweredInv => FallbackAgrees
  <1> SUFFICES ASSUME AnsweredInv, outcome # "none"
               PROVE  FallbackAgrees
    BY DEF FallbackAgrees
  <1> DEFINE rows == StatementRows(table, query, QueryWindow)
             result == StatementResult(table, query, QueryWindow)
             service == Aggregated(rows, query)
             unrounded == \A g \in Grouped(rows, query.group_by) :
                             Metric(query.order_by, g.rows) = ServiceMetric(query.order_by, g.rows)
  <1>1. /\ query # NoPlan /\ question \in Questions
        /\ table \in SUBSET Incidents /\ IsFiniteSet(table)
        /\ AnswersTo(query, question, prior) /\ Rankable(query, question)
    BY DEF AnsweredInv, PlanningInv
  <1>2. Sufficient(rows, query) => /\ query.group_by \in SUBSET Dimensions
                                 /\ query.order_by \in MetricNames /\ query.limit \in Nat
    BY <1>1, QuestionLimit DEF Sufficient, IsRanking, Rankable, AnswersTo
  <1>3. ASSUME Sufficient(rows, query), unrounded, ~result.truncated
        PROVE  /\ ByPlace(service) = ByPlace(result.facts)
               /\ Whole(service) = Whole(result.facts)
    BY <1>1, <1>2, <1>3, ServiceAgrees
  <1> HIDE DEF rows, result, service, unrounded
  <1>4. QED BY <1>3 DEF FallbackAgrees, rows, result, service, unrounded

\* For any tables, questions and plans, and any order of names on either side: where
\* every incident has a code, every group a value that rounding does not set apart
\* and, if asked for, one severity, the service ranks the incidents as the database
\* does. The values, ranks, counts of ties and cuts are the same place by place, and
\* so are the groups except those of a cut tie (_aggregate of analytics_chat.py,
\* tsql.py).
THEOREM ServiceRanksAsDatabase == AnalyticsSpec => []FallbackAgrees
  <1>1. QED BY AnsweredFirst, AnsweringStep, AnsweredAgrees, PTL DEF AnalyticsSpec

=============================================================================
