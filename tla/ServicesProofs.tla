---------------------------- MODULE ServicesProofs ----------------------------
(***************************************************************************)
(* The parts behind the chat endpoint side by side (MCServices), for any   *)
(* values of their constants: a behaviour of all of them is a behaviour of *)
(* each, so what is proved of a part alone holds where the model checker   *)
(* runs them together.                                                     *)
(***************************************************************************)
EXTENDS MCServices, AnalyticsProofs, RunbookProofs

-----------------------------------------------------------------------------
(* A step is a step of one part; the others stutter *)

(* The steps of a part, each of them, are its next-state relation. *)
LEMMA ChatSteps ==
    ASSUME NEW r \in Requests,
           \/ Begin(r) \/ ReadMemory(r) \/ ReadRedis(r) \/ DropExpired(r) \/ ReadFails(r)
           \/ Gate(r) \/ AskWhich(r) \/ Unplanned(r) \/ PlanClear(r) \/ Execute(r) \/ Guide(r)
           \/ Clear(r) \/ AskRaises(r) \/ Remember(r) \/ Finish(r)
    PROVE  ChatNext
<1>1. RequestStep(r)
  BY DEF RequestStep
<1> QED
  BY <1>1 DEF ChatNext

LEMMA LibrarySteps ==
    ASSUME NEW s \in Scripts,
           \/ BeginSync(s) \/ BeginSwitch(s) \/ Preview(s) \/ Scan(s) \/ Upsert(s)
           \/ DeleteStale(s) \/ CheckPoints(s) \/ CheckAlias(s) \/ SwapAlias(s) \/ Fails(s)
    PROVE  LibraryNext
<1>1. ScriptStep(s)
  BY DEF ScriptStep
<1> QED
  BY <1>1 DEF LibraryNext

LEMMA OnePartMoves ==
    ASSUME ServicesNext
    PROVE  \/ InChat /\ ChatNext
           \/ InComparison /\ ComparisonNext
           \/ InAnswer /\ GroundedNext
           \/ InLibrary /\ LibraryNext
           \/ InGuidance /\ GuidanceNext
           \/ InShadow /\ ShadowNext
           \/ InFacts /\ AnalyticsNext
<1>1. ASSUME NEW r \in Requests, InChat,
             \/ Begin(r) \/ ReadMemory(r) \/ ReadRedis(r) \/ DropExpired(r) \/ ReadFails(r)
             \/ Gate(r) \/ AskWhich(r) \/ Unplanned(r) \/ PlanClear(r) \/ Execute(r) \/ Guide(r)
             \/ Clear(r) \/ AskRaises(r) \/ Remember(r) \/ Finish(r)
      PROVE  InChat /\ ChatNext
  BY <1>1, ChatSteps
<1>2. ASSUME NEW c \in Conversations, InChat, Expire(c) \/ RedisDrops(c) \/ DeleteEndpoint(c)
      PROVE  InChat /\ ChatNext
  BY <1>2 DEF ChatNext
<1>3. ASSUME NEW a \in Answerers, InComparison, Schedule(a) \/ Submit(a) \/ AnswerFromLegacy(a)
      PROVE  InComparison /\ ComparisonNext
  BY <1>3 DEF ComparisonNext
<1>4. ASSUME InComparison,
             \/ StartComparison \/ QueryDbt \/ Recheck \/ SourceChanges \/ DbtBuild
             \/ CloseService \/ ShutExecutor
      PROVE  InComparison /\ ComparisonNext
  BY <1>4 DEF ComparisonNext, ComparisonWorks
<1>5. ASSUME InAnswer, Accepted \/ Rejected \/ Render
      PROVE  InAnswer /\ GroundedNext
  BY <1>5 DEF GroundedNext
<1>6. ASSUME InLibrary, EditFiles
      PROVE  InLibrary /\ LibraryNext
  BY <1>6 DEF LibraryNext
<1>7. ASSUME NEW s \in Scripts, InLibrary,
             \/ BeginSync(s) \/ BeginSwitch(s) \/ Preview(s) \/ Scan(s) \/ Upsert(s)
             \/ DeleteStale(s) \/ CheckPoints(s) \/ CheckAlias(s) \/ SwapAlias(s) \/ Fails(s)
      PROVE  InLibrary /\ LibraryNext
  BY <1>7, LibrarySteps
<1>8. ASSUME InGuidance,
             \/ Search \/ SearchFails \/ Retrieve \/ ReplyAccepted \/ ReplyRejected
             \/ PutTogetherAnswer
      PROVE  InGuidance /\ GuidanceNext
  BY <1>8 DEF GuidanceNext
<1>9. ASSUME NEW c \in Callers, InShadow, PrimarySearch(c) \/ SearchReturns(c) \/ Offer(c)
      PROVE  InShadow /\ ShadowNext
  BY <1>9 DEF ShadowNext
<1>10. ASSUME InShadow,
              \/ LoopChecks \/ TakeJob \/ FindsNone \/ StartJob \/ RunJob \/ BeginClose \/ EndClose
       PROVE  InShadow /\ ShadowNext
  BY <1>10 DEF ShadowNext
<1>11. ASSUME InFacts,
              \/ Accept /\ UNCHANGED analyticsVars
              \/ Correct /\ UNCHANGED analyticsVars
              \/ ModelFails /\ UNCHANGED analyticsVars
              \/ Compile /\ UNCHANGED analyticsVars
              \/ RunStatement \/ RunProcedure \/ RunFails
       PROVE  InFacts /\ AnalyticsNext
  BY <1>11 DEF AnalyticsNext
<1> QED
  BY <1>1, <1>2, <1>3, <1>4, <1>5, <1>6, <1>7, <1>8, <1>9, <1>10, <1>11 DEF ServicesNext

LEMMA EachPartMoves ==
    [ServicesNext]_services =>
        /\ [ChatNext]_chatVars
        /\ [ComparisonNext]_comparisonVars
        /\ [GroundedNext]_groundedVars
        /\ [LibraryNext]_libraryVars
        /\ [GuidanceNext]_guidanceVars
        /\ [ShadowNext]_shadowVars
        /\ [AnalyticsNext]_answeringVars
<1> SUFFICES ASSUME [ServicesNext]_services
             PROVE  /\ [ChatNext]_chatVars
                    /\ [ComparisonNext]_comparisonVars
                    /\ [GroundedNext]_groundedVars
                    /\ [LibraryNext]_libraryVars
                    /\ [GuidanceNext]_guidanceVars
                    /\ [ShadowNext]_shadowVars
                    /\ [AnalyticsNext]_answeringVars
  OBVIOUS
<1>1. CASE UNCHANGED services
  BY <1>1 DEF services
<1>2. CASE ServicesNext
  BY <1>2, OnePartMoves DEF InChat, InComparison, InAnswer, InLibrary, InGuidance, InShadow, InFacts
<1> QED
  BY <1>1, <1>2

-----------------------------------------------------------------------------
(* No part has a step, or a first state, that its own module does not give it:
   MCServices only puts the parts side by side. *)
LEMMA PartsBehaveAlone ==
    ServicesSpec =>
        /\ ChatSpec /\ ComparisonSpec /\ GroundedSpec /\ LibrarySpec
        /\ GuidanceSpec /\ ShadowSpec /\ AnalyticsSpec
<1>1. ServicesInit =>
        /\ ChatInit /\ ComparisonInit /\ GroundedInit /\ LibraryInit
        /\ GuidanceInit /\ ShadowInit /\ AnalyticsInit
  BY DEF ServicesInit
<1> QED
  BY <1>1, EachPartMoves, PTL
  DEF ServicesSpec, ChatSpec, ComparisonSpec, GroundedSpec, LibrarySpec, GuidanceSpec,
      ShadowSpec, AnalyticsSpec

(* Whatever the requests, comparisons, scripts, searches and guidance do next to
   each other, the context store, the slots of the comparison, the collections
   of runbooks, the shadow queue and the selection of chunks keep their types
   and their bounds (analytics_chat.py:280-352, qdrant_store.py:164-207). *)
THEOREM ServicesTypesStay == ServicesSpec => []ServicesTypeOK
<1>1. ServicesSpec => /\ []ChatTypeOK /\ []ComparisonTypeOK /\ []LibraryTypeOK
                      /\ []ShadowTypeOK /\ []GuidanceTypeOK
  BY PartsBehaveAlone, ChatTypesStay, ComparisonTypesStay, LibraryTypeCorrect,
     ShadowTypeCorrect, GuidanceTypes
<1> QED
  BY <1>1, PTL DEF ServicesTypeOK

=============================================================================
