--------------------------- MODULE RunbookGuidance ---------------------------
(***************************************************************************)
(* Guidance from the runbooks: the chunks chosen for a question of the     *)
(* chat service (rag/retriever.py, search of rag/qdrant_store.py) and the  *)
(* words made of them (rag/workflow.py, rag/answer_composer.py). A model   *)
(* writes them from the chunks, with claims that quote them; the backend   *)
(* checks claims and words, lets the model correct itself once, and        *)
(* otherwise puts the words together from the chunks.                      *)
(*                                                                         *)
(* A chunk is its place on Shelf, in the order of point ids. Its text is a *)
(* sequence of lines, a line or a text the set of its tokens: identifiers, *)
(* numerals and the words of StepWords. What the vector store finds, and   *)
(* how it scores it, is arbitrary within the payload filter.               *)
(***************************************************************************)
EXTENDS Integers, FiniteSets, Sequences

CONSTANTS
    Shelf,          \* <<chunk>>, see Chunk
    Drafts,         \* what the model may reply: [citations, claims, answer], a
                    \* claim being [key, excerpt, text]
    NoGuidance,
    TopScore,       \* scores are 1..TopScore, 0 for a chunk that is not found
    MinScore,       \* effective_evidence_score_threshold
    MinMargin,      \* evidence_min_margin
    TopK,           \* effective_top_k
    MaxPerRunbook,  \* max_chunks_per_runbook
    MaxContext      \* max_context_chars, in lines

VARIABLES
    inquiry,  \* purpose and error codes of the guidance request
    careful,   \* configuration: evidence gate and diversification (hybrid mode)
    scores,    \* scores[i]: what the search gives chunk i
    phase,     \* "search", "retrieve", "compose", "answered",
               \* "unanswered" or "failed"
    tries,     \* 0 before composing, 1 or 2, 3 when the backend puts the
               \* answer together
    selected,  \* the chunks retrieved: their place and how many lines are kept
    guidance   \* the published words, or NoGuidance

guidanceVars == <<inquiry, careful, scores, phase, tries, selected, guidance>>

Places == 1..Len(Shelf)
Identifiers == {"E1", "E2"}
Amounts == {"30"}
StepWords == {"restart", "inspect", "restarted", "ongoing"}
Sections == {"symptoms", "diagnostic_steps", "recovery_steps", "verification"}
Texts == SUBSET (Identifiers \cup Amounts \cup StepWords)

Chunk ==
    [runbook : Nat, section : Sections, lines : Seq(Texts), codes : SUBSET Identifiers]

(* The identity of a citation. *)
Key(chunk) == <<chunk.runbook, chunk.section>>

Inquiries ==
    [purpose : {"remediation", "diagnosis", "meaning", "none"}, codes : {{}, {"E1"}}]

ASSUME GuidanceAssumption ==
    /\ Shelf \in Seq(Chunk)
    /\ {TopScore, TopK, MaxPerRunbook, MaxContext} \subseteq Nat \ {0}
    /\ {MinScore, MinMargin} \subseteq Nat

-----------------------------------------------------------------------------
(* Retrieval *)

(* _payload_filter: with error codes only chunks that name one of them. *)
Findable == {i \in Places : inquiry.codes # {} => inquiry.codes \cap Shelf[i].codes # {}}

Found == {i \in Places : scores[i] > 0}

Least(m, n) == IF m < n THEN m ELSE n

Stronger(i, j) == scores[i] > scores[j] \/ (scores[i] = scores[j] /\ i < j)

(* The members of a set in a strict order of theirs, a set of pairs. *)
Sorted(set, before) ==
    [n \in 1..Cardinality(set) |->
        CHOOSE i \in set : Cardinality({j \in set : <<j, i>> \in before}) = n - 1]

InOrder(set) == Sorted(set, {p \in set \X set : Stronger(p[1], p[2])})

Strongest == CHOOSE i \in Found : \A j \in Found \ {i} : Stronger(i, j)

BestOf(runbook) ==
    LET own == {scores[i] : i \in {i \in Found : Shelf[i].runbook = runbook}}
    IN  CHOOSE s \in own : \A t \in own : t <= s

(* _apply_evidence_gate; that the anchors match follows from the filter. *)
Evident ==
    /\ scores[Strongest] >= MinScore
    /\ inquiry.codes = {} =>
          \A i \in Found : Shelf[i].runbook # Shelf[Strongest].runbook =>
             BestOf(Shelf[Strongest].runbook) - BestOf(Shelf[i].runbook) >= MinMargin

FirstK(seq) == SubSeq(seq, 1, Least(Len(seq), TopK))

(* Position of chunk i among those of its runbook, from 0. *)
RankInRunbook(i) ==
    Cardinality({j \in Found : Shelf[j].runbook = Shelf[i].runbook /\ Stronger(j, i)})

(* Diversification: the runbooks take turns, the best first. *)
InTurn(i, j) ==
    LET best(k) == BestOf(Shelf[k].runbook) IN
    \/ RankInRunbook(i) < RankInRunbook(j)
    \/ /\ RankInRunbook(i) = RankInRunbook(j)
       /\ \/ best(i) > best(j)
          \/ best(i) = best(j) /\ Shelf[i].runbook < Shelf[j].runbook

(* _select_ranked_chunks *)
RankedChunks ==
    LET few == {i \in Found : RankInRunbook(i) < MaxPerRunbook}
    IN  IF careful THEN FirstK(Sorted(few, {p \in few \X few : InTurn(p[1], p[2])}))
        ELSE FirstK(InOrder(Found))

(* _requested_sections *)
Requested ==
    CASE inquiry.purpose = "remediation" -> <<"diagnostic_steps", "recovery_steps">>
      [] inquiry.purpose = "diagnosis" -> <<"diagnostic_steps">>
      [] inquiry.purpose = "meaning" -> <<"symptoms">>
      [] inquiry.purpose = "none" -> << >>

IsRequested(i) == \E n \in DOMAIN Requested : Requested[n] = Shelf[i].section

StrongestRunbook == Shelf[Strongest].runbook

(* One section of _ensure_section_coverage: the chunk of the strongest runbook
   that has it joins the result, in the place of the last chunk of no requested
   section when the result is full, one of the same runbook before others. *)
CoverSlip(result, section) ==
    LET runbook == StrongestRunbook
        holds == \E n \in DOMAIN result : Shelf[result[n]].section = section
        own == {i \in Found : Shelf[i].runbook = runbook /\ Shelf[i].section = section}
    IN  IF holds \/ own = {} \/ Len(result) >= TopK THEN result
        ELSE Append(result, InOrder(own)[1])

Cover(result, section) ==
    LET runbook == StrongestRunbook
        own == {i \in Found : Shelf[i].runbook = runbook /\ Shelf[i].section = section}
        holds == \E n \in DOMAIN result : result[n] \in own
        spare == {n \in DOMAIN result : ~IsRequested(result[n])}
        near == {n \in spare : Shelf[result[n]].runbook = runbook}
        last(set) == CHOOSE n \in set : \A m \in set : m <= n
    IN  IF holds \/ own = {} THEN result
        ELSE IF Len(result) < TopK THEN Append(result, InOrder(own)[1])
        ELSE IF spare = {} THEN result
        ELSE [result EXCEPT ![last(IF near # {} THEN near ELSE spare)] = InOrder(own)[1]]

(* ... for the requested sections one after the other. *)
WithSections(ranked) ==
    LET result[n \in 0..Len(Requested)] ==
            IF n = 0 THEN ranked ELSE Cover(result[n - 1], Requested[n])
    IN  result[Len(Requested)]

(* The place of a chunk's section among the requested ones, after them if none. *)
Priority(i) ==
    IF IsRequested(i)
    THEN CHOOSE m \in DOMAIN Requested : Requested[m] = Shelf[i].section
    ELSE Len(Requested) + 1

(* Requested sections come first, in their order, and what was ranked before
   what has joined it. *)
ComesBefore(ranked, result, n, m) ==
    LET joined(k) == \A l \in DOMAIN ranked : ranked[l] # result[k] IN
    \/ Priority(result[n]) < Priority(result[m])
    \/ /\ Priority(result[n]) = Priority(result[m])
       /\ (~joined(n) /\ joined(m)) \/ (joined(n) = joined(m) /\ n < m)

(* _ensure_section_coverage *)
CoveredSections ==
    LET ranked == RankedChunks
        result == WithSections(ranked)
        all == DOMAIN result
        order == Sorted(all, {p \in all \X all : ComesBefore(ranked, result, p[1], p[2])})
    IN  [n \in all |-> result[order[n]]]

(* The lines of the first n of some chunks. *)
LinesBefore(places, n) == UNION {{m} \X (DOMAIN Shelf[places[m]].lines) : m \in 1..n}

(* The context budget: the chunk that reaches it is cut, those after it left. *)
Budgeted(places) ==
    LET used(n) == Cardinality(LinesBefore(places, n - 1))
        kept == {n \in DOMAIN places : used(n) < MaxContext}
    IN  [n \in 1..Cardinality(kept) |->
            [place |-> places[n],
             lines |-> Least(Len(Shelf[places[n]].lines), MaxContext - used(n))]]

(* RunbookRetriever.retrieve *)
Selection == IF Found = {} \/ (careful /\ ~Evident) THEN << >> ELSE Budgeted(CoveredSections)

-----------------------------------------------------------------------------
(* Composing *)

Cited == {Key(Shelf[selected[n].place]) : n \in DOMAIN selected}

(* The lines of a selected chunk that fit into the context. *)
Shown(item) == SubSeq(Shelf[item.place].lines, 1, item.lines)
ShownLines(item) == {Shown(item)[n] : n \in DOMAIN Shown(item)}

(* `available`: of the chunks of one section the last stands for all. *)
Available(key) ==
    LET same == {n \in DOMAIN selected : Key(Shelf[selected[n].place]) = key}
    IN  selected[CHOOSE n \in same : \A m \in same : m <= n]

(* Identifiers a chunk supports: those of its text and its error codes. *)
Supported(item) == UNION ShownLines(item) \cup Shelf[item.place].codes

(* One claim of _validate_candidate, with _validate_runbook_claim_text. *)
ValidQuote(claim, reply) ==
    /\ claim.key \in reply.citations
    /\ LET item == Available(claim.key) IN
       /\ claim.excerpt \in ShownLines(item)
       /\ claim.text \cap Identifiers \subseteq Supported(item)
       /\ claim.text \cap Amounts \subseteq UNION ShownLines(item)
    /\ claim.text \subseteq reply.answer

(* _validate_candidate. `restarted` says that something was done, `ongoing`
   that the incident is happening. *)
ValidGuidanceSlip(reply) ==
    /\ reply.citations # {} /\ reply.citations \subseteq Cited
    /\ reply.claims # {} /\ \A claim \in reply.claims : ValidQuote(claim, reply)
    /\ reply.citations = {claim.key : claim \in reply.claims}
    /\ reply.answer \cap Identifiers \subseteq UNION {Supported(Available(key)) : key \in Cited}
    /\ reply.answer \cap {"restarted", "ongoing"} = {}

ValidGuidance(reply) ==
    /\ reply.citations # {} /\ reply.citations \subseteq Cited
    /\ reply.claims # {} /\ \A claim \in reply.claims : ValidQuote(claim, reply)
    /\ reply.citations = {claim.key : claim \in reply.claims}
    /\ reply.answer \cap Identifiers
          \subseteq UNION {Supported(Available(key)) : key \in reply.citations}
    /\ reply.answer \cap {"restarted", "ongoing"} = {}

(* by_section of _deterministic_answer: the first lines of each chunk. *)
LinesOf(section) ==
    LET own == {n \in DOMAIN selected : Shelf[selected[n].place].section = section}
        told == UNION {{n} \X (1..Least(selected[n].lines, 4)) : n \in own}
        before(x, y) == x[1] < y[1] \/ (x[1] = y[1] /\ x[2] < y[2])
        order == Sorted(told, {p \in told \X told : before(p[1], p[2])})
    IN  [m \in DOMAIN order |-> Shown(selected[order[m][1]])[order[m][2]]]

First(seq, n) == {seq[m] : m \in 1..Least(Len(seq), n)}

(* _deterministic_answer *)
PutTogether ==
    LET steps == IF LinesOf("recovery_steps") # << >>
                 THEN LinesOf("recovery_steps") ELSE LinesOf("diagnostic_steps")
    IN  First(LinesOf("symptoms"), 1) \cup First(steps, 5) \cup First(LinesOf("verification"), 1)

(* _deterministic_runbook_claims: the first line of the first chunk that is in
   the answer; a line is found there when some paragraph contains it. *)
FirstClaim ==
    LET inAnswer(line) == \E other \in PutTogether : line \subseteq other
        telling == {n \in DOMAIN selected : \E line \in ShownLines(selected[n]) : inAnswer(line)}
        item == selected[CHOOSE n \in telling : \A m \in telling : n <= m]
        at == CHOOSE n \in DOMAIN Shown(item) :
                 inAnswer(Shown(item)[n]) /\ \A m \in 1..n - 1 : ~inAnswer(Shown(item)[m])
    IN  IF telling = {} THEN {}
        ELSE {[key |-> Key(Shelf[item.place]), excerpt |-> Shown(item)[at], text |-> Shown(item)[at]]}

-----------------------------------------------------------------------------
(* RunbookRagWorkflow.ask *)

GuidanceInit ==
    /\ inquiry \in Inquiries
    /\ careful \in BOOLEAN
    /\ scores = [i \in Places |-> 0]
    /\ phase = "search"
    /\ tries = 0
    /\ selected = << >>
    /\ guidance = NoGuidance

(* search: dense or hybrid, or dense in place of a hybrid query that fails. *)
Search ==
    /\ phase = "search"
    /\ scores' \in {s \in [Places -> 0..TopScore] : \A i \in Places : s[i] > 0 => i \in Findable}
    /\ phase' = "retrieve"
    /\ UNCHANGED <<inquiry, careful, tries, selected, guidance>>

(* A model composes the answer when one is configured. *)
Retrieve ==
    /\ phase = "retrieve"
    /\ LET selection == Selection IN
       /\ selected' = selection
       /\ IF selection = << >> THEN phase' = "unanswered" /\ UNCHANGED tries
          ELSE phase' = "compose" /\ tries' \in {1, 3}
    /\ UNCHANGED <<inquiry, careful, scores, guidance>>

(* The store or its schema fails: an answer without guidance. *)
SearchFails ==
    /\ phase = "search"
    /\ phase' = "failed"
    /\ UNCHANGED <<inquiry, careful, scores, tries, selected, guidance>>

Publish(words) ==
    /\ guidance' = words
    /\ phase' = "answered"
    /\ UNCHANGED <<inquiry, careful, scores, tries, selected>>

ReplyAccepted ==
    /\ phase = "compose" /\ tries < 3
    /\ \E reply \in Drafts :
          /\ ValidGuidance(reply)
          /\ Publish([by |-> "model", words |-> reply.answer, citations |-> reply.citations,
                      claims |-> reply.claims])

(* Any other reply, and a model that fails, count as an attempt. *)
ReplyRejected ==
    /\ phase = "compose" /\ tries < 3
    /\ tries' = tries + 1
    /\ UNCHANGED <<inquiry, careful, scores, phase, selected, guidance>>

PutTogetherAnswer ==
    /\ phase = "compose" /\ tries = 3
    /\ Publish([by |-> "backend", words |-> UNION PutTogether, citations |-> Cited,
                claims |-> FirstClaim])

GuidanceNext ==
    \/ Search \/ SearchFails \/ Retrieve \/ ReplyAccepted \/ ReplyRejected \/ PutTogetherAnswer

GuidanceSpec == GuidanceInit /\ [][GuidanceNext]_guidanceVars

-----------------------------------------------------------------------------
(* Properties *)

(* The lines of the selected chunks that are kept, told by their places. *)
KeptLines == UNION {{n} \X (1..selected[n].lines) : n \in DOMAIN selected}

(* Types; what is selected stays within the number of chunks and the context
   budget (retriever.py:41-87). *)
GuidanceTypeOK ==
    /\ inquiry \in Inquiries
    /\ careful \in BOOLEAN
    /\ scores \in [Places -> 0..TopScore]
    /\ phase \in {"search", "retrieve", "compose", "answered", "unanswered", "failed"}
    /\ tries \in 0..3
    /\ selected \in Seq([place : Places, lines : 0..MaxContext])
    /\ Len(selected) <= TopK
    /\ Cardinality(KeptLines) <= MaxContext
    /\ phase # "answered" => guidance = NoGuidance

(* What is retrieved is about a runbook that matches best and, of the strongest,
   holds every requested section that was found, unless the context budget is
   spent before or requested sections of others fill the selection
   (retriever.py:41-81, 226-310). *)
SectionsCovered ==
    phase = "compose" =>
        LET chosen == {selected[n].place : n \in DOMAIN selected}
            best == {Shelf[i].runbook : i \in {i \in Found : \A j \in Found : scores[j] <= scores[i]}}
            runbook == StrongestRunbook
            full == Cardinality(chosen) = TopK /\ \A i \in chosen : IsRequested(i)
            spent == Cardinality(KeptLines) = MaxContext
        IN  /\ Cardinality(chosen) = Len(selected)
            /\ (\E i \in chosen : Shelf[i].runbook \in best) \/ spent
            /\ \A i \in Found : Shelf[i].runbook = runbook /\ IsRequested(i) =>
                  \/ \E j \in chosen : Key(Shelf[j]) = Key(Shelf[i])
                  \/ full \/ spent

(* Guidance, whoever put it into words, names no identifier that the chunks it
   cites do not, cites only chunks that were retrieved, quotes lines of them
   that fitted into the context, and says what it claims
   (answer_composer.py:329-432, 573-650). *)
GuidanceSupported ==
    guidance # NoGuidance =>
        LET cited == {selected[n] : n \in {n \in DOMAIN selected :
                        Key(Shelf[selected[n].place]) \in guidance.citations}}
        IN  /\ guidance.citations # {} /\ guidance.citations \subseteq Cited
            /\ guidance.words \cap Identifiers \subseteq UNION {Supported(item) : item \in cited}
            /\ \A claim \in guidance.claims :
                  /\ \E item \in cited : /\ Key(Shelf[item.place]) = claim.key
                                          /\ claim.excerpt \in ShownLines(item)
                  /\ claim.text \subseteq guidance.words

=============================================================================
