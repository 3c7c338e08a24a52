------------------------------ MODULE RunbookProofs ------------------------------
(***************************************************************************)
(* Proofs about the runbooks. RunbookLibrary, for any number of scripts,   *)
(* collections, chunks, edits and failures: a synchronization takes        *)
(* nothing away that is still wanted, and one that nothing overlapped      *)
(* leaves exactly what was approved. ShadowRetrieval, for any number of    *)
(* threads, places in the queue, retrievals and rankings: one event for    *)
(* each retrieval. RunbookGuidance, for any shelf of chunks, any scores,   *)
(* limits and replies of a model: what is retrieved covers what was asked  *)
(* for within its limits, and the words published are supported by it.     *)
(*                                                                         *)
(* The inductive invariant of the library adds to the types what the three *)
(* requests of a synchronization know of one another: who has begun on a   *)
(* collection, and how far the collection is on its way from what was      *)
(* found to what is desired. That of the guidance carries what a retrieval *)
(* leaves (Retrieved, Covers) until the answer is published; the lemmas    *)
(* before it follow a selection through the ranking, the sections that     *)
(* join it, their order and the cut at the context budget.                 *)
(***************************************************************************)
EXTENDS RunbookLibrary, ShadowRetrieval, RunbookGuidance, OrderLemmas, SequenceTheorems

-----------------------------------------------------------------------------
(* RunbookLibrary *)

Scripting ==
    [at : Steps, kind : Kinds, col : Collections \cup {Nowhere},
     expected : Collections \cup {Nowhere, Anywhere}, count : 0..Cardinality(Chunks),
     desired : Contents, found : Contents, todo : SUBSET Chunks, alone : BOOLEAN]

(* A process that runs nothing is on no collection, a script on one it prepared. *)
Placed ==
    \A s \in Scripts :
        /\ AtStep(s, "idle") => script[s] = Off
        /\ ~AtStep(s, "idle") => script[s].col \in indexed

(* Whoever is alone on a collection is the only one. *)
AloneIsAlone ==
    \A s, t \in Scripts :
        /\ script[s].alone
        /\ script[s].kind # "switch"
        /\ t \in On(script[s].col)
        => s = t

(* What counts as kept is wanted by whoever is about to delete. *)
KeptIsDesired ==
    \A s \in Scripts :
        AtStep(s, "upsert") =>
            /\ script[s].kind # "switch"
            /\ script[s].todo \subseteq Held(script[s].desired)
            /\ kept[script[s].col] \subseteq Held(script[s].desired)

(* Nothing is promised of a collection a script is about to change. *)
UnsureMeanwhile ==
    \A s \in Scripts :
        script[s].at \in {"preview", "scan", "upsert"} =>
            script[s].kind # "switch" /\ exact[script[s].col] = Unsure

(* What a script has written so far, if nobody else wrote. *)
HalfWay ==
    \A s \in Scripts :
        AtStep(s, "upsert") /\ script[s].alone =>
            \A c \in Chunks \ script[s].todo :
                points[script[s].col][c] =
                    (IF c \in Held(script[s].desired) THEN script[s].desired[c]
                     ELSE script[s].found[c])

LibraryInv ==
    /\ LibraryTypeOK
    /\ Placed
    /\ AloneIsAlone
    /\ KeptIsDesired
    /\ UnsureMeanwhile
    /\ HalfWay
    /\ NothingMissing
    /\ SyncedExactly

-----------------------------------------------------------------------------

LEMMA ScriptsHaveType ==
    LibraryTypeOK => /\ script \in [Scripts -> Scripting]
                     /\ points \in [Collections -> Contents]
                     /\ exact \in [Collections -> Contents \cup {Unsure}]
                     /\ kept \in [Collections -> SUBSET Chunks]
                     /\ files \in Contents
BY DEF LibraryTypeOK, Scripting

LEMMA OffHasType == Off \in Scripting
<1>1. 0 \in 0..Cardinality(Chunks)
  BY LibraryAssumption, FS_CardinalityType
<1>2. Empty \in Contents
  BY LibraryAssumption DEF Empty, Contents
<1> QED
  BY <1>1, <1>2 DEF Off, Scripting, Steps, Kinds

(* Writing nothing, a script goes one step on, or ends. *)
LEMMA Goes ==
    ASSUME LibraryInv, NEW s \in Scripts, NEW new \in Scripting,
           ~AtStep(s, "idle"),
           new = Off \/ /\ new.col = script[s].col
                        /\ new.kind = script[s].kind
                        /\ new.alone = script[s].alone
                        /\ new.at \notin {"idle", "preview", "scan", "upsert"},
           script' = [script EXCEPT ![s] = new],
           UNCHANGED <<files, broken, points, indexed, begun, edits, exact, kept>>,
           alias' \in indexed \cup {Nowhere}, ends' \in 0..MaxEnds
    PROVE  LibraryInv'
<1> USE ScriptsHaveType DEF LibraryInv
<1>1. script' \in [Scripts -> Scripting]
  OBVIOUS
<1>2. LibraryTypeOK'
  BY <1>1 DEF LibraryTypeOK, Scripting
<1>3. \A t \in Scripts : script'[t] = IF t = s THEN new ELSE script[t]
  OBVIOUS
<1>4. Placed'
  <2>1. ASSUME NEW t \in Scripts, t # s
        PROVE  Placed!(t)'
    BY <2>1, <1>3 DEF Placed, AtStep
  <2>2. CASE new = Off
    BY <2>1, <2>2, <1>3 DEF Placed, AtStep, Off
  <2>3. CASE new.at # "idle" /\ new.col = script[s].col
    BY <2>1, <2>3, <1>3 DEF Placed, AtStep
  <2> QED
    BY <2>2, <2>3
<1>5. ASSUME NEW r \in Scripts, NEW t \in Scripts, 
             (/\ script[r].alone
              /\ script[r].kind # "switch"
              /\ t \in On(script[r].col))'
      PROVE  r = t
  <2>1. script'[r] # Off /\ script[r].alone /\ script[r].kind = script'[r].kind
           /\ script[r].col = script'[r].col
    BY <1>3, <1>5 DEF Off
  <2>2. script[r].col \in Collections
    BY <2>1 DEF Placed, Off, LibraryTypeOK
  <2>3. script'[t] # Off /\ script[t].kind = script'[t].kind /\ script[t].col = script'[t].col
    BY <1>3, <1>5, <2>1, <2>2, LibraryAssumption DEF On, Off
  <2> QED
    BY <1>5, <2>1, <2>3 DEF AloneIsAlone, On
<1>6. KeptIsDesired' /\ UnsureMeanwhile' /\ HalfWay'
  BY <1>3 DEF KeptIsDesired, UnsureMeanwhile, HalfWay, AtStep, Off
<1>7. NothingMissing' /\ SyncedExactly'
  BY DEF NothingMissing, SyncedExactly, Unsure, Held
<1> QED
  BY <1>2, <1>4, <1>5, <1>6, <1>7 DEF AloneIsAlone

LEMMA HeldCount ==
    ASSUME NEW contents \in Contents
    PROVE  Cardinality(Held(contents)) \in 0..Cardinality(Chunks)
<1>1. Held(contents) \subseteq Chunks
  BY DEF Held
<1>2. /\ IsFiniteSet(Held(contents))
      /\ Cardinality(Held(contents)) <= Cardinality(Chunks)
  BY <1>1, LibraryAssumption, FS_Subset
<1>3. Cardinality(Held(contents)) \in Nat /\ Cardinality(Chunks) \in Nat
  BY <1>2, LibraryAssumption, FS_CardinalityType
<1> QED
  BY <1>2, <1>3

LEMMA InitLibrary == LibraryInit => LibraryInv
<1> SUFFICES ASSUME LibraryInit PROVE LibraryInv
  OBVIOUS
<1>1. /\ files \in Contents
      /\ points = [k \in Collections |-> IF k \in indexed THEN files ELSE Empty]
      /\ script = [s \in Scripts |-> Off]
      /\ exact = points
      /\ kept = [k \in Collections |-> Held(points[k])]
  BY DEF LibraryInit
<1>2. Empty \in Contents
  BY LibraryAssumption DEF Empty, Contents
<1>3. points \in [Collections -> Contents]
  BY <1>1, <1>2
<1>4. kept \in [Collections -> SUBSET Chunks]
  BY <1>1 DEF Held
<1>5. script \in [Scripts -> Scripting]
  BY <1>1, OffHasType
<1>6. LibraryTypeOK
  BY <1>1, <1>3, <1>4, <1>5, LibraryAssumption DEF LibraryInit, LibraryTypeOK, Scripting
<1>7. Placed /\ AloneIsAlone /\ KeptIsDesired /\ UnsureMeanwhile /\ HalfWay
  BY <1>1 DEF Placed, AloneIsAlone, KeptIsDesired, UnsureMeanwhile, HalfWay, AtStep, Off
<1>8. NothingMissing /\ SyncedExactly
  BY <1>1 DEF NothingMissing, SyncedExactly
<1> QED
  BY <1>6, <1>7, <1>8 DEF LibraryInv

-----------------------------------------------------------------------------
(* The steps that write nothing *)

LEMMA EditFilesStep == LibraryInv /\ EditFiles => LibraryInv'
<1> SUFFICES ASSUME LibraryInv, EditFiles PROVE LibraryInv'
  OBVIOUS
<1>1. files' \in Contents /\ broken' \subseteq FileErrors
  BY DEF EditFiles, Rechunked, LibraryInv, LibraryTypeOK
<1>2. LibraryTypeOK'
  BY <1>1, LibraryAssumption DEF EditFiles, LibraryInv, LibraryTypeOK, historyVars
<1>3. (Placed /\ AloneIsAlone /\ KeptIsDesired /\ UnsureMeanwhile /\ HalfWay)'
  BY DEF EditFiles, LibraryInv, Placed, AloneIsAlone, KeptIsDesired, UnsureMeanwhile, HalfWay,
         AtStep, On, historyVars, Held
<1>4. (NothingMissing /\ SyncedExactly)'
  BY DEF EditFiles, LibraryInv, NothingMissing, SyncedExactly, historyVars, Held, Unsure
<1> QED
  BY <1>2, <1>3, <1>4 DEF LibraryInv

LEMMA LaterSteps ==
    ASSUME LibraryInv, NEW s \in Scripts,
           CheckPoints(s) \/ CheckAlias(s) \/ SwapAlias(s) \/ Fails(s)
    PROVE  LibraryInv'
<1> DEFINE Next(step) == [script[s] EXCEPT !.at = step]
<1>1. script \in [Scripts -> Scripting] /\ LibraryTypeOK
  BY ScriptsHaveType DEF LibraryInv
<1>2. \A step \in Steps :
         /\ Next(step) \in Scripting
         /\ Next(step).col = script[s].col /\ Next(step).kind = script[s].kind
         /\ Next(step).alone = script[s].alone /\ Next(step).at = step
  BY <1>1 DEF Scripting
<1>3. {"alias", "swap"} \subseteq Steps
  BY DEF Steps
<1>4. CASE CheckPoints(s) \/ CheckAlias(s)
  <2>1. /\ ~AtStep(s, "idle")
        /\ UNCHANGED <<files, broken, points, indexed, begun, edits, exact, kept, alias, ends>>
    BY <1>4 DEF CheckPoints, CheckAlias, AtStep, fileVars, historyVars
  <2>2. PICK new \in {Off, Next("alias"), Next("swap")} : script' = [script EXCEPT ![s] = new]
    BY <1>1, <1>4 DEF CheckPoints, CheckAlias, GoTo, End
  <2>3. alias' \in indexed \cup {Nowhere} /\ ends' \in 0..MaxEnds
    BY <1>1, <2>1 DEF LibraryTypeOK
  <2> HIDE DEF Next
  <2> QED
    BY <1>2, <1>3, <2>1, <2>2, <2>3, OffHasType, Goes
<1>5. CASE SwapAlias(s)
  <2>1. script[s].col \in indexed /\ ~AtStep(s, "idle")
    BY <1>5 DEF SwapAlias, AtStep, LibraryInv, Placed
  <2> QED
    BY <1>1, <1>5, <2>1, OffHasType, Goes
    DEF SwapAlias, End, fileVars, historyVars, LibraryTypeOK
<1>6. CASE Fails(s)
  <2>1. ends' \in 0..MaxEnds /\ alias' \in indexed \cup {Nowhere}
    BY <1>1, <1>6, LibraryAssumption DEF Fails, LibraryTypeOK
  <2> QED
    BY <1>6, <2>1, OffHasType, Goes DEF Fails, End, fileVars, historyVars
<1> QED
  BY <1>4, <1>5, <1>6

LEMMA PreviewStep ==
    ASSUME LibraryInv, NEW s \in Scripts, Preview(s)
    PROVE  LibraryInv'
<1> USE ScriptsHaveType DEF LibraryInv
<1> DEFINE new == [script[s] EXCEPT !.at = "scan", !.count = Cardinality(Held(files))]
<1>1. CASE broken # {}
  <2> QED
    BY <1>1, OffHasType, Goes
    DEF Preview, AtStep, End, fileVars, historyVars, LibraryTypeOK
<1>2. CASE broken = {}
  <2>1. new \in Scripting /\ script' = [script EXCEPT ![s] = new]
    <3>1. Cardinality(Held(files)) \in 0..Cardinality(Chunks)
      BY HeldCount
    <3>2. new \in Scripting
      BY ZenonT(40), <3>1 DEF Scripting, Steps
    <3>3. script' = [script EXCEPT ![s] = new]
      BY <1>2 DEF Preview
    <3> QED
      BY <3>2, <3>3
  <2>2. UNCHANGED <<files, broken, edits, points, indexed, alias, begun, ends, exact, kept>>
    BY DEF Preview, fileVars, historyVars
  <2>3. script' \in [Scripts -> Scripting]
    BY <2>1
  <2>4. LibraryTypeOK'
    BY <2>2, <2>3 DEF LibraryTypeOK, Scripting
  <2>5. /\ new.col = script[s].col /\ new.kind = script[s].kind
        /\ new.alone = script[s].alone /\ new.at = "scan" /\ script[s].at = "preview"
    BY DEF Preview, AtStep, Scripting
  <2>6. \A t \in Scripts : script'[t] = IF t = s THEN new ELSE script[t]
    BY <2>1
  <2> HIDE DEF new
  <2>7. Placed' /\ AloneIsAlone'
    BY <2>2, <2>5, <2>6 DEF Placed, AloneIsAlone, AtStep, On
  <2>8. KeptIsDesired' /\ UnsureMeanwhile' /\ HalfWay'
    BY <2>2, <2>5, <2>6 DEF KeptIsDesired, UnsureMeanwhile, HalfWay, AtStep
  <2>9. NothingMissing' /\ SyncedExactly'
    BY <2>2 DEF NothingMissing, SyncedExactly, Unsure, Held
  <2> QED
    BY <2>4, <2>7, <2>8, <2>9
<1> QED
  BY <1>1, <1>2

LEMMA BeginSwitchStep ==
    ASSUME LibraryInv, NEW s \in Scripts, BeginSwitch(s)
    PROVE  LibraryInv'
<1> USE ScriptsHaveType DEF LibraryInv
<1>1. PICK k \in indexed, expected \in {alias, Anywhere} :
         script' = [script EXCEPT ![s] = [Off EXCEPT !.at = "alias", !.kind = "switch",
                                                     !.col = k, !.expected = expected]]
  BY DEF BeginSwitch
<1> DEFINE new == [Off EXCEPT !.at = "alias", !.kind = "switch", !.col = k, !.expected = expected]
<1>2. UNCHANGED <<files, broken, edits, points, indexed, alias, ends, exact, kept>>
      /\ begun' \in 0..MaxScripts
  BY LibraryAssumption DEF BeginSwitch, fileVars, historyVars, LibraryTypeOK
<1>3. /\ new \in Scripting /\ new.at = "alias" /\ new.kind = "switch" /\ new.col = k
      /\ ~new.alone
  BY ZenonT(40), OffHasType DEF Off, Scripting, Steps, Kinds, LibraryTypeOK
<1>4. \A t \in Scripts : script'[t] = IF t = s THEN new ELSE script[t]
  BY <1>1
<1> HIDE DEF new
<1>5. script' \in [Scripts -> Scripting]
  BY <1>1, <1>3, <1>4 DEF new
<1>6. LibraryTypeOK'
  BY <1>2, <1>5 DEF LibraryTypeOK, Scripting
<1>7. Placed' /\ AloneIsAlone'
  BY <1>2, <1>3, <1>4 DEF Placed, AloneIsAlone, AtStep, On
<1>8. KeptIsDesired' /\ UnsureMeanwhile' /\ HalfWay'
  BY <1>2, <1>3, <1>4 DEF KeptIsDesired, UnsureMeanwhile, HalfWay, AtStep
<1>9. NothingMissing' /\ SyncedExactly'
  BY <1>2 DEF NothingMissing, SyncedExactly, Unsure, Held
<1> QED
  BY <1>6, <1>7, <1>8, <1>9

-----------------------------------------------------------------------------
(* The steps of a synchronization *)

LEMMA BeginSyncStep ==
    ASSUME LibraryInv, NEW s \in Scripts, BeginSync(s)
    PROVE  LibraryInv'
<1> USE ScriptsHaveType DEF LibraryInv
<1>1. PICK kind \in {"index", "promote"}, k \in Collections :
         /\ script' = [t \in Scripts |->
                IF t = s THEN [Off EXCEPT !.at = IF kind = "promote" THEN "preview" ELSE "scan",
                                          !.kind = kind, !.col = k, !.alone = (On(k) = {}),
                                          !.expected = IF kind = "promote" THEN alias ELSE Nowhere]
                ELSE IF t \in On(k) THEN [script[t] EXCEPT !.alone = FALSE]
                ELSE script[t]]
         /\ indexed' = indexed \cup {k}
         /\ exact' = [exact EXCEPT ![k] = Unsure]
  BY DEF BeginSync, Prepared
<1> DEFINE new == [Off EXCEPT !.at = IF kind = "promote" THEN "preview" ELSE "scan",
                              !.kind = kind, !.col = k, !.alone = (On(k) = {}),
                              !.expected = IF kind = "promote" THEN alias ELSE Nowhere]
<1>2. /\ UNCHANGED <<files, broken, edits, points, alias, ends, kept>>
      /\ begun' \in 0..MaxScripts /\ AtStep(s, "idle")
  <2>1. begun < MaxScripts /\ begun' = begun + 1
    BY DEF BeginSync
  <2>2. begun' \in 0..MaxScripts
    BY <2>1, LibraryAssumption DEF LibraryTypeOK
  <2>3. UNCHANGED <<files, broken, edits, points, alias, ends, kept>> /\ AtStep(s, "idle")
    BY DEF BeginSync, fileVars
  <2> QED
    BY <2>2, <2>3
<1>3. /\ new \in Scripting /\ new.at \in {"preview", "scan"} /\ new.kind \in {"index", "promote"}
      /\ new.col = k /\ new.alone = (On(k) = {})
  BY ZenonT(40), OffHasType DEF Off, Scripting, Steps, Kinds, LibraryTypeOK
<1>4. \A t \in Scripts :
         script'[t] = IF t = s THEN new ELSE IF t \in On(k) THEN [script[t] EXCEPT !.alone = FALSE]
                      ELSE script[t]
  BY <1>1
<1> HIDE DEF new
<1>5. /\ \A t \in Scripts \ {s} : /\ script'[t].at = script[t].at
                                  /\ script'[t].kind = script[t].kind
                                  /\ script'[t].col = script[t].col
                                  /\ script'[t].desired = script[t].desired
                                  /\ script'[t].found = script[t].found
                                  /\ script'[t].todo = script[t].todo
                                  /\ script'[t].alone => script[t].alone /\ t \notin On(k)
                                  /\ script[t] = Off => script'[t] = Off
                                  /\ script'[t] \in Scripting
      /\ script'[s] = new
  <2>1. \A t \in On(k) : t \in Scripts /\ script[t] # Off
    BY LibraryAssumption DEF On, Off
  <2>2. \A t \in Scripts \ {s} : t \notin On(k) => script'[t] = script[t]
    BY <1>4
  <2>3. \A t \in On(k) \ {s} : script'[t] = [script[t] EXCEPT !.alone = FALSE]
    BY <1>4, <2>1
  <2>4. script'[s] = new
    BY <1>4
  <2>5. ASSUME NEW t \in Scripts \ {s}
        PROVE  <1>5!1!(t)
    <3>1. CASE t \in On(k)
      <4>1. script[t] \in Scripting
        OBVIOUS
      <4>2. script'[t] = [script[t] EXCEPT !.alone = FALSE] /\ script[t] # Off
        BY <3>1, <2>1, <2>3
      <4> HIDE DEF LibraryInv
      <4> QED
        BY <4>1, <4>2 DEF Scripting
    <3>2. CASE t \notin On(k)
      BY <3>2, <2>2
    <3> QED
      BY <3>1, <3>2
  <2> QED
    BY <2>4, <2>5
<1>6. LibraryTypeOK'
  <2>1. script' \in [Scripts -> Scripting]
    <3>1. script' = [t \in Scripts |-> script'[t]]
      BY <1>1
    <3>2. \A t \in Scripts : script'[t] \in Scripting
      BY <1>3, <1>5
    <3> QED
      BY <3>1, <3>2
  <2>2. indexed' \subseteq Collections /\ alias' \in indexed' \cup {Nowhere}
    BY <1>1, <1>2 DEF LibraryTypeOK
  <2>3. exact' \in [Collections -> Contents \cup {Unsure}]
    BY <1>1
  <2> QED
    BY <1>2, <2>1, <2>2, <2>3 DEF LibraryTypeOK, Scripting
<1>7. Placed'
  <2>1. ASSUME NEW t \in Scripts
        PROVE  Placed!(t)'
    <3> indexed' = indexed \cup {k}
      BY <1>1
    <3>1. CASE t = s
      BY <3>1, <1>3, <1>5 DEF AtStep
    <3>2. CASE t # s
      <4>1. /\ script[t].at = "idle" => script[t] = Off
            /\ script[t].at # "idle" => script[t].col \in indexed
        BY DEF Placed, AtStep
      <4>2. script'[t].at = script[t].at /\ script'[t].col = script[t].col
               /\ (script[t] = Off => script'[t] = Off)
        BY <3>2, <1>5
      <4> QED
        BY <4>1, <4>2 DEF AtStep
    <3> QED
      BY <3>1, <3>2
  <2> QED
    BY <2>1 DEF Placed
<1>8. AloneIsAlone'
  <2>1. ASSUME NEW r \in Scripts, NEW t \in Scripts, r # t,
               (/\ script[r].alone
                /\ script[r].kind # "switch"
                /\ t \in On(script[r].col))'
        PROVE  FALSE
    <3>1. CASE r = s
      <4>1. t \in On(k)
        BY <2>1, <3>1, <1>3, <1>5 DEF On
      <4> QED
        BY <2>1, <3>1, <4>1, <1>3, <1>5
    <3>2. CASE t = s
      <4>1. r \in On(k)
        BY <2>1, <3>2, <1>3, <1>5 DEF On
      <4> QED
        BY <2>1, <3>2, <4>1, <1>5
    <3>3. CASE r # s /\ t # s
      BY <2>1, <3>3, <1>5 DEF On, AloneIsAlone
    <3> QED
      BY <3>1, <3>2, <3>3
  <2> QED
    BY <2>1 DEF AloneIsAlone
<1>9. KeptIsDesired' /\ HalfWay'
  BY SMTT(30), <1>2, <1>3, <1>5 DEF KeptIsDesired, HalfWay, AtStep
<1>10. UnsureMeanwhile'
  <2>1. ASSUME NEW t \in Scripts, (script[t].at \in {"preview", "scan", "upsert"})'
        PROVE  (script[t].kind # "switch" /\ exact[script[t].col] = Unsure)'
    <3>1. CASE t = s
      <4>1. exact'[k] = Unsure
        BY <1>1
      <4> QED
        BY <3>1, <4>1, <1>3, <1>5
    <3>2. CASE t # s
      <4>1. script[t].col \in Collections
        BY <2>1, <3>2, <1>5 DEF Placed, AtStep, LibraryTypeOK
      <4>2. exact[script[t].col] = Unsure /\ script[t].kind # "switch"
        BY <2>1, <3>2, <1>5 DEF UnsureMeanwhile
      <4>3. exact'[script[t].col] = Unsure
        BY <4>1, <4>2, <1>1
      <4> QED
        BY <3>2, <4>2, <4>3, <1>5
    <3> QED
      BY <3>1, <3>2
  <2> QED
    BY <2>1 DEF UnsureMeanwhile
<1>11. NothingMissing' /\ SyncedExactly'
  BY <1>1, <1>2 DEF NothingMissing, SyncedExactly, Unsure, Held
<1> QED
  BY <1>6, <1>7, <1>8, <1>9, <1>10, <1>11

LEMMA ScanStep ==
    ASSUME LibraryInv, NEW s \in Scripts, Scan(s)
    PROVE  LibraryInv'
<1> USE ScriptsHaveType DEF LibraryInv
<1>1. CASE broken # {}
  BY <1>1, OffHasType, Goes DEF Scan, AtStep, End, fileVars, historyVars, LibraryTypeOK
<1>2. CASE broken = {}
  <2> DEFINE k == script[s].col
             new == [script[s] EXCEPT !.at = "upsert", !.desired = files, !.found = points[k],
                                      !.todo = Outdated(files, points[k])]
  <2>1. /\ script[s].at = "scan" /\ script[s].kind # "switch"
        /\ exact[k] = Unsure /\ k \in Collections /\ k \in indexed
    <3>1. script[s].at = "scan"
      BY DEF Scan, AtStep
    <3>2. script[s].kind # "switch" /\ exact[k] = Unsure
      BY <3>1 DEF UnsureMeanwhile
    <3>3. k \in indexed /\ indexed \subseteq Collections
      BY <3>1 DEF Placed, AtStep, LibraryTypeOK
    <3> QED
      BY <3>1, <3>2, <3>3
  <2>2. /\ script' = [script EXCEPT ![s] = new]
        /\ kept' = [kept EXCEPT ![k] = @ \cap Held(files)]
    BY <1>2 DEF Scan, Existing
  <2>3. UNCHANGED <<files, broken, edits, points, indexed, alias, begun, ends, exact>>
    BY DEF Scan, fileVars
  <2>4. Outdated(files, points[k]) \subseteq Held(files) /\ Held(files) \subseteq Chunks
    BY DEF Outdated, Held
  <2>5. /\ script[s] \in Scripting /\ points[k] \in Contents /\ files \in Contents
        /\ Outdated(files, points[k]) \in SUBSET Chunks
    BY <2>1, <2>4
  <2>6. /\ new \in Scripting
        /\ new.col = k /\ new.kind = script[s].kind /\ new.alone = script[s].alone
        /\ new.at = "upsert" /\ new.desired = files /\ new.found = points[k]
        /\ new.todo = Outdated(files, points[k])
    <3> DEFINE before == script[s]
               there == points[k]
               todo == Outdated(files, there)
    <3>1. before \in Scripting /\ files \in Contents /\ there \in Contents /\ todo \in SUBSET Chunks
      BY <2>5
    <3>2. new = [before EXCEPT !.at = "upsert", !.desired = files, !.found = there, !.todo = todo]
      OBVIOUS
    <3> HIDE DEF before, there, todo, new
    <3>3. /\ new \in Scripting /\ new.col = before.col /\ new.kind = before.kind
          /\ new.alone = before.alone /\ new.at = "upsert" /\ new.desired = files
          /\ new.found = there /\ new.todo = todo
      BY <3>1, <3>2 DEF Scripting, Steps
    <3> QED
      BY <3>3 DEF before, there, todo
  <2>7. \A t \in Scripts : script'[t] = IF t = s THEN new ELSE script[t]
    BY <2>2
  <2>8. \A j \in Collections : kept'[j] \subseteq kept[j]
    BY <2>2
  <2>9. kept'[k] \subseteq Held(files)
    BY <2>1, <2>2
  <2>10. script' \in [Scripts -> Scripting] /\ kept' \in [Collections -> SUBSET Chunks]
    <3> HIDE DEF new
    <3>1. script' \in [Scripts -> Scripting]
      BY <2>2, <2>6
    <3>2. kept' \in [Collections -> SUBSET Chunks]
      BY <2>1, <2>2, <2>4
    <3> QED
      BY <3>1, <3>2
  <2> HIDE DEF new, k
  <2>11. LibraryTypeOK'
    BY <2>3, <2>10 DEF LibraryTypeOK, Scripting
  <2>12. Placed' /\ AloneIsAlone'
    BY <2>1, <2>3, <2>6, <2>7 DEF Placed, AloneIsAlone, AtStep, On, k
  <2>13. KeptIsDesired'
    <3>1. ASSUME NEW t \in Scripts, AtStep(t, "upsert")'
          PROVE  (/\ script[t].kind # "switch"
                  /\ script[t].todo \subseteq Held(script[t].desired)
                  /\ kept[script[t].col] \subseteq Held(script[t].desired))'
      <4>1. CASE t = s
        BY <4>1, <2>1, <2>4, <2>6, <2>7, <2>9 DEF Held
      <4>2. CASE t # s
        <5>1. /\ script'[t] = script[t] /\ AtStep(t, "upsert")
              /\ script[t].col \in Collections
          BY <3>1, <4>2, <2>7 DEF AtStep, Placed, LibraryTypeOK
        <5>2. /\ script[t].kind # "switch"
              /\ script[t].todo \subseteq Held(script[t].desired)
              /\ kept[script[t].col] \subseteq Held(script[t].desired)
          BY <5>1 DEF KeptIsDesired
        <5> QED
          BY <5>1, <5>2, <2>8 DEF Held
      <4> QED
        BY <4>1, <4>2
    <3> QED
      BY <3>1 DEF KeptIsDesired
  <2>14. UnsureMeanwhile'
    BY <2>1, <2>3, <2>6, <2>7 DEF UnsureMeanwhile, k
  <2>15. HalfWay'
    <3>1. ASSUME NEW t \in Scripts, AtStep(t, "upsert")', script'[t].alone,
                 NEW c \in Chunks, c \notin script'[t].todo
          PROVE  (points[script[t].col][c] =
                    (IF c \in Held(script[t].desired) THEN script[t].desired[c]
                     ELSE script[t].found[c]))'
      <4>1. CASE t = s
        BY <3>1, <4>1, <2>3, <2>6, <2>7 DEF Outdated, Held
      <4>2. CASE t # s
        BY <3>1, <4>2, <2>3, <2>7 DEF HalfWay, AtStep, Held
      <4> QED
        BY <4>1, <4>2
    <3> QED
      BY <3>1 DEF HalfWay
  <2>16. NothingMissing'
    BY <2>3, <2>8 DEF NothingMissing, Held
  <2>17. SyncedExactly'
    BY <2>3 DEF SyncedExactly, Unsure
  <2> QED
    BY <2>11, <2>12, <2>13, <2>14, <2>15, <2>16, <2>17
<1> QED
  BY <1>1, <1>2

(* Who is where does not change. *)
LEMMA SameRoles ==
    ASSUME Placed, AloneIsAlone, UnsureMeanwhile, indexed' = indexed, exact' = exact,
           \A t \in Scripts : /\ script'[t].at = script[t].at
                              /\ script'[t].kind = script[t].kind
                              /\ script'[t].col = script[t].col
                              /\ script'[t].alone <=> script[t].alone
                              /\ script[t] = Off => script'[t] = Off
    PROVE  Placed' /\ AloneIsAlone' /\ UnsureMeanwhile'
<1>1. ASSUME NEW t \in Scripts
      PROVE  Placed!(t)'
  <2>1. script'[t].at = "idle" => script'[t] = Off
    BY DEF Placed, AtStep
  <2>2. script'[t].at # "idle" => script'[t].col \in indexed
    BY DEF Placed, AtStep
  <2> QED
    BY <2>1, <2>2 DEF AtStep
<1>2. AloneIsAlone'
  <2>1. ASSUME NEW r \in Scripts, NEW t \in Scripts,
               (/\ script[r].alone
                /\ script[r].kind # "switch"
                /\ t \in On(script[r].col))'
        PROVE  r = t
    <3>1. script[r].alone /\ script[r].kind # "switch"
      BY <2>1
    <3>2. script[t].col = script[r].col /\ script[t].kind # "switch"
      BY <2>1 DEF On
    <3> QED
      BY <3>1, <3>2 DEF AloneIsAlone, On
  <2> QED
    BY <2>1 DEF AloneIsAlone
<1>3. UnsureMeanwhile'
  BY DEF UnsureMeanwhile
<1> QED
  BY <1>1, <1>2, <1>3 DEF Placed

LEMMA UpsertStep ==
    ASSUME LibraryInv, NEW s \in Scripts, Upsert(s)
    PROVE  LibraryInv'
<1> USE ScriptsHaveType DEF LibraryInv
<1> DEFINE k == script[s].col
<1>1. PICK c \in script[s].todo :
         /\ points' = [points EXCEPT ![k][c] = script[s].desired[c]]
         /\ script' = [script EXCEPT ![s].todo = @ \ {c}]
  BY DEF Upsert
<1>2. /\ AtStep(s, "upsert") /\ script[s] \in Scripting /\ k \in Collections
      /\ UNCHANGED <<files, broken, edits, indexed, alias, begun, ends, exact, kept>>
  BY DEF Upsert, fileVars, historyVars, Placed, AtStep, LibraryTypeOK
<1>3. /\ script[s].kind # "switch" /\ c \in Held(script[s].desired)
      /\ kept[k] \subseteq Held(script[s].desired) /\ exact[k] = Unsure
      /\ script[s].todo \subseteq Held(script[s].desired)
  BY <1>2 DEF KeptIsDesired, UnsureMeanwhile, AtStep
<1>4. c \in Chunks /\ script[s].desired \in Contents /\ script[s].desired[c] # 0
  BY <1>2, <1>3 DEF Scripting, Held
<1>5. /\ \A t \in Scripts \ {s} : script'[t] = script[t]
      /\ script'[s] = [script[s] EXCEPT !.todo = @ \ {c}]
  BY <1>1
<1>6. /\ script'[s] \in Scripting /\ script'[s].todo = script[s].todo \ {c}
      /\ script'[s].at = "upsert" /\ script'[s].kind = script[s].kind /\ script'[s].col = k
      /\ script'[s].desired = script[s].desired /\ script'[s].found = script[s].found
      /\ script'[s].alone = script[s].alone
  BY <1>2, <1>5 DEF Scripting, AtStep
<1>7. /\ \A j \in Collections \ {k} : points'[j] = points[j]
      /\ points'[k] = [points[k] EXCEPT ![c] = script[s].desired[c]]
      /\ points' \in [Collections -> Contents]
  BY <1>1, <1>2, <1>4 DEF Contents
<1>8. \A d \in Chunks : points'[k][d] = IF d = c THEN script[s].desired[c] ELSE points[k][d]
  BY <1>2, <1>4, <1>7 DEF Contents
<1> HIDE DEF k
<1>9. LibraryTypeOK'
  <2>1. script' \in [Scripts -> Scripting]
    BY <1>1, <1>6
  <2> QED
    BY <2>1, <1>2, <1>7 DEF LibraryTypeOK, Scripting
<1>10. Placed' /\ AloneIsAlone' /\ UnsureMeanwhile'
  <2>1. script[s] # Off
    BY <1>2 DEF Off, AtStep
  <2>2. ASSUME NEW t \in Scripts
        PROVE  /\ script'[t].at = script[t].at
               /\ script'[t].kind = script[t].kind
               /\ script'[t].col = script[t].col
               /\ script'[t].alone <=> script[t].alone
               /\ script[t] = Off => script'[t] = Off
    <3>1. CASE t = s
      BY <3>1, <2>1, <1>2, <1>6 DEF AtStep, k
    <3>2. CASE t # s
      BY <3>2, <1>5
    <3> QED
      BY <3>1, <3>2
  <2>3. indexed' = indexed /\ exact' = exact
    BY <1>2
  <2> QED
    BY <2>2, <2>3, SameRoles
<1>11. KeptIsDesired'
  <2>1. ASSUME NEW t \in Scripts, AtStep(t, "upsert")'
        PROVE  (/\ script[t].kind # "switch"
                /\ script[t].todo \subseteq Held(script[t].desired)
                /\ kept[script[t].col] \subseteq Held(script[t].desired))'
    <3>1. CASE t = s
      BY <3>1, <1>2, <1>3, <1>6 DEF Held, k
    <3>2. CASE t # s
      BY <2>1, <3>2, <1>2, <1>5 DEF KeptIsDesired, AtStep, Held
    <3> QED
      BY <3>1, <3>2
  <2> QED
    BY <2>1 DEF KeptIsDesired
<1>12. HalfWay'
  <2>1. ASSUME NEW t \in Scripts, AtStep(t, "upsert")', script'[t].alone,
               NEW d \in Chunks, d \notin script'[t].todo
        PROVE  (points[script[t].col][d] =
                  (IF d \in Held(script[t].desired) THEN script[t].desired[d]
                   ELSE script[t].found[d]))'
    <3>1. CASE t = s
      <4>1. d # c => d \notin script[s].todo
        BY <2>1, <3>1, <1>6
      <4>2. d # c => points[k][d] = (IF d \in Held(script[s].desired) THEN script[s].desired[d]
                                     ELSE script[s].found[d])
        BY <2>1, <3>1, <4>1, <1>2, <1>6 DEF HalfWay, k
      <4> QED
        BY <3>1, <4>2, <1>3, <1>6, <1>8 DEF Held
    <3>2. CASE t # s
      <4>1. /\ script'[t] = script[t] /\ AtStep(t, "upsert") /\ script[t].alone
            /\ script[t].kind # "switch" /\ script[t].col \in Collections
        BY <2>1, <3>2, <1>5 DEF AtStep, KeptIsDesired, Placed, LibraryTypeOK
      <4>2. script[t].col # k
        BY <3>2, <4>1, <1>3 DEF AloneIsAlone, On, k
      <4>3. points[script[t].col][d] =
              (IF d \in Held(script[t].desired) THEN script[t].desired[d] ELSE script[t].found[d])
        BY <2>1, <4>1 DEF HalfWay
      <4> QED
        BY <4>1, <4>2, <4>3, <1>7 DEF Held
    <3> QED
      BY <3>1, <3>2
  <2> QED
    BY <2>1 DEF HalfWay
<1>13. NothingMissing'
  BY ZenonT(40), <1>2, <1>4, <1>7, <1>8 DEF NothingMissing, Held
<1>14. SyncedExactly'
  BY <1>2, <1>3, <1>7 DEF SyncedExactly, Unsure
<1> QED
  BY <1>9, <1>10, <1>11, <1>12, <1>13, <1>14

LEMMA DeleteStaleStep ==
    ASSUME LibraryInv, NEW s \in Scripts, DeleteStale(s)
    PROVE  LibraryInv'
<1> USE ScriptsHaveType DEF LibraryInv
<1> DEFINE k == script[s].col
           wanted == script[s].desired
           stale == Stale(wanted, script[s].found)
           new == script'[s]
<1>1. /\ AtStep(s, "upsert") /\ script[s].todo = {}
      /\ script[s] \in Scripting /\ k \in Collections /\ k \in indexed /\ script[s] # Off
      /\ UNCHANGED <<files, broken, edits, indexed, alias, begun, ends>>
  BY DEF DeleteStale, fileVars, Placed, AtStep, LibraryTypeOK, Off
<1>2. points' = [points EXCEPT ![k] = [c \in Chunks |-> IF c \in stale THEN 0 ELSE @[c]]]
  BY DEF DeleteStale
<1>3. /\ \A j \in Collections \ {k} : points'[j] = points[j]
      /\ \A c \in Chunks : points'[k][c] = IF c \in stale THEN 0 ELSE points[k][c]
      /\ points' \in [Collections -> Contents]
  <2>1. [c \in Chunks |-> IF c \in stale THEN 0 ELSE points[k][c]] \in Contents
    BY <1>1, LibraryAssumption DEF Contents
  <2> HIDE DEF stale
  <2> QED
    BY <1>1, <1>2, <2>1
<1>4. stale = Held(script[s].found) \ Held(wanted) /\ wanted \in Contents
      /\ script[s].found \in Contents
  BY <1>1 DEF Stale, Scripting
<1>5. /\ script' \in [Scripts -> Scripting] /\ \A t \in Scripts \ {s} : script'[t] = script[t]
      /\ \/ new = Off
         \/ /\ new.at = "count" /\ new.kind = script[s].kind /\ new.col = k
            /\ new.alone = script[s].alone
  <2>1. CASE script[s].kind = "promote"
    <3> DEFINE counting == [script[s] EXCEPT !.at = "count", !.desired = Empty, !.found = Empty]
    <3>1. script' = [script EXCEPT ![s] = counting]
      BY <2>1 DEF DeleteStale
    <3>2. Empty \in Contents
      BY LibraryAssumption DEF Empty, Contents
    <3>3. /\ counting \in Scripting /\ counting.at = "count"
          /\ counting.kind = script[s].kind /\ counting.col = k
          /\ counting.alone = script[s].alone
      BY <1>1, <3>2 DEF Scripting, Steps
    <3> HIDE DEF counting
    <3> QED
      BY <3>1, <3>3
  <2>2. CASE script[s].kind # "promote"
    BY <2>2, OffHasType DEF DeleteStale, End
  <2> QED
    BY <2>1, <2>2
<1>6. /\ script[s].kind # "switch" /\ kept[k] \subseteq Held(wanted) /\ exact[k] = Unsure
  BY <1>1 DEF KeptIsDesired, UnsureMeanwhile, AtStep
<1>7. IF script[s].alone
      THEN /\ kept' = [kept EXCEPT ![k] = Held(wanted)]
           /\ exact' = [exact EXCEPT ![k] = wanted]
      ELSE kept' = kept /\ exact' = exact
  BY DEF DeleteStale, historyVars
<1>8. script[s].alone => \A c \in Chunks : points'[k][c] = wanted[c]
  <2>1. ASSUME script[s].alone, NEW c \in Chunks
        PROVE  points'[k][c] = wanted[c]
    <3>1. points[k][c] = (IF c \in Held(wanted) THEN wanted[c] ELSE script[s].found[c])
      BY <1>1, <2>1 DEF HalfWay
    <3> QED
      BY <1>3, <1>4, <3>1 DEF Held
  <2> QED
    BY <2>1
<1>9. ASSUME NEW t \in Scripts \ {s}, script[t].kind # "switch", script[t].col = k
      PROVE  ~script[s].alone /\ ~script[t].alone
  BY <1>6, <1>9 DEF AloneIsAlone, On
<1> HIDE DEF k, wanted, stale, new
<1>10. LibraryTypeOK'
  <2>1. kept' \in [Collections -> SUBSET Chunks] /\ exact' \in [Collections -> Contents \cup {Unsure}]
    BY <1>4, <1>7 DEF Held
  <2> QED
    BY <1>1, <1>3, <1>5, <2>1 DEF LibraryTypeOK, Scripting
<1>11. Placed'
  <2>1. ASSUME NEW t \in Scripts
        PROVE  Placed!(t)'
    <3>1. CASE t = s
      BY <3>1, <1>1, <1>5 DEF AtStep, new, Off
    <3>2. CASE t # s
      BY <3>2, <1>1, <1>5 DEF Placed, AtStep
    <3> QED
      BY <3>1, <3>2
  <2> QED
    BY <2>1 DEF Placed
<1>12. AloneIsAlone'
  <2>1. ASSUME NEW r \in Scripts, NEW t \in Scripts,
               (/\ script[r].alone
                /\ script[r].kind # "switch"
                /\ t \in On(script[r].col))'
        PROVE  r = t
    <3>1. \A q \in {r, t} : script'[q] # Off
      <4>1. script'[r] # Off
        BY <2>1 DEF Off
      <4>2. script'[r].col \in Collections
        BY <4>1, <1>1, <1>5, <1>11 DEF Placed, AtStep, LibraryTypeOK
      <4>3. script'[t].col = script'[r].col
        BY <2>1 DEF On
      <4> QED
        BY <4>1, <4>2, <4>3, LibraryAssumption DEF Off
    <3>2. /\ script[r].alone /\ script[r].kind # "switch"
          /\ script[t].col = script[r].col /\ script[t].kind # "switch"
      BY <2>1, <3>1, <1>5 DEF On, new, k
    <3> QED
      BY <3>2 DEF AloneIsAlone, On
  <2> QED
    BY <2>1 DEF AloneIsAlone
<1>13. KeptIsDesired'
  <2>1. ASSUME NEW t \in Scripts, AtStep(t, "upsert")'
        PROVE  (/\ script[t].kind # "switch"
                /\ script[t].todo \subseteq Held(script[t].desired)
                /\ kept[script[t].col] \subseteq Held(script[t].desired))'
    <3>1. t # s /\ script'[t] = script[t] /\ AtStep(t, "upsert")
      BY <2>1, <1>5 DEF AtStep, Off, new
    <3>2. /\ script[t].kind # "switch" /\ script[t].col \in Collections
          /\ script[t].todo \subseteq Held(script[t].desired)
          /\ kept[script[t].col] \subseteq Held(script[t].desired)
      BY <3>1 DEF KeptIsDesired, Placed, AtStep, LibraryTypeOK
    <3>3. kept'[script[t].col] = kept[script[t].col]
      BY <3>1, <3>2, <1>7, <1>9
    <3> QED
      BY <3>1, <3>2, <3>3 DEF Held
  <2> QED
    BY <2>1 DEF KeptIsDesired
<1>14. UnsureMeanwhile'
  <2>1. ASSUME NEW t \in Scripts, (script[t].at \in {"preview", "scan", "upsert"})'
        PROVE  (script[t].kind # "switch" /\ exact[script[t].col] = Unsure)'
    <3>1. t # s /\ script'[t] = script[t]
      BY <2>1, <1>5 DEF Off, new
    <3>2. /\ script[t].kind # "switch" /\ script[t].col \in Collections
          /\ exact[script[t].col] = Unsure
      BY <2>1, <3>1 DEF UnsureMeanwhile, Placed, AtStep, LibraryTypeOK
    <3>3. exact'[script[t].col] = exact[script[t].col]
      BY <3>1, <3>2, <1>7, <1>9
    <3> QED
      BY <3>1, <3>2, <3>3
  <2> QED
    BY <2>1 DEF UnsureMeanwhile
<1>15. HalfWay'
  <2>1. ASSUME NEW t \in Scripts, AtStep(t, "upsert")', script'[t].alone,
               NEW c \in Chunks, c \notin script'[t].todo
        PROVE  (points[script[t].col][c] =
                  (IF c \in Held(script[t].desired) THEN script[t].desired[c]
                   ELSE script[t].found[c]))'
    <3>1. /\ t # s /\ script'[t] = script[t] /\ AtStep(t, "upsert") /\ script[t].alone
          /\ script[t].kind # "switch" /\ script[t].col \in Collections
      BY <2>1, <1>5 DEF AtStep, Off, new, KeptIsDesired, Placed, LibraryTypeOK
    <3>2. points'[script[t].col] = points[script[t].col]
      BY <3>1, <1>3, <1>9
    <3>3. points[script[t].col][c] =
            (IF c \in Held(script[t].desired) THEN script[t].desired[c] ELSE script[t].found[c])
      BY <2>1, <3>1 DEF HalfWay
    <3> QED
      BY <3>1, <3>2, <3>3 DEF Held
  <2> QED
    BY <2>1 DEF HalfWay
<1>16. NothingMissing'
  <2>1. ASSUME NEW j \in Collections, NEW c \in kept'[j]
        PROVE  c \in Chunks /\ points'[j][c] # 0
    <3>1. CASE j # k
      BY <2>1, <3>1, <1>3, <1>7 DEF NothingMissing, Held
    <3>2. CASE j = k /\ script[s].alone
      BY <2>1, <3>2, <1>1, <1>4, <1>7, <1>8 DEF Held
    <3>3. CASE j = k /\ ~script[s].alone
      <4>1. c \in kept[k] /\ c \in Held(wanted) /\ c \in Held(points[k])
        BY <2>1, <3>3, <1>1, <1>6, <1>7 DEF NothingMissing
      <4> QED
        BY <3>3, <4>1, <1>3, <1>4 DEF Held
    <3> QED
      BY <3>1, <3>2, <3>3
  <2> QED
    BY <2>1 DEF NothingMissing, Held
<1>17. SyncedExactly'
  <2>1. ASSUME NEW j \in Collections
        PROVE  (exact[j] \in {points[j], Unsure})'
    <3>1. CASE j # k
      BY <3>1, <1>3, <1>7 DEF SyncedExactly, Unsure
    <3>2. CASE j = k /\ script[s].alone
      <4>1. points'[k] = wanted
        BY <3>2, <1>1, <1>3, <1>4, <1>8 DEF Contents
      <4> QED
        BY <3>2, <4>1, <1>1, <1>7
    <3>3. CASE j = k /\ ~script[s].alone
      BY <3>3, <1>6, <1>7 DEF Unsure
    <3> QED
      BY <3>1, <3>2, <3>3
  <2> QED
    BY <2>1 DEF SyncedExactly
<1> QED
  BY <1>10, <1>11, <1>12, <1>13, <1>14, <1>15, <1>16, <1>17

-----------------------------------------------------------------------------

LEMMA LibraryStep == LibraryInv /\ [LibraryNext]_libraryVars => LibraryInv'
<1> SUFFICES ASSUME LibraryInv, [LibraryNext]_libraryVars PROVE LibraryInv'
  OBVIOUS
<1>1. CASE EditFiles
  BY <1>1, EditFilesStep
<1>2. ASSUME NEW s \in Scripts, ScriptStep(s)
      PROVE  LibraryInv'
  BY <1>2, BeginSyncStep, BeginSwitchStep, PreviewStep, ScanStep, UpsertStep, DeleteStaleStep,
     LaterSteps DEF ScriptStep
<1>3. CASE UNCHANGED libraryVars
  <2>1. LibraryTypeOK' /\ Placed' /\ AloneIsAlone' /\ KeptIsDesired' /\ UnsureMeanwhile' /\ HalfWay'
    BY <1>3 DEF LibraryInv, LibraryTypeOK, Placed, AloneIsAlone, KeptIsDesired, UnsureMeanwhile,
                HalfWay, AtStep, On, Held, libraryVars
  <2>2. NothingMissing' /\ SyncedExactly'
    BY <1>3 DEF LibraryInv, NothingMissing, SyncedExactly, Held, Unsure, libraryVars
  <2> QED
    BY <2>1, <2>2 DEF LibraryInv
<1> QED
  BY <1>1, <1>2, <1>3 DEF LibraryNext

LEMMA LibraryInvariant == LibrarySpec => []LibraryInv
BY InitLibrary, LibraryStep, PTL DEF LibrarySpec

(* Every variable of the library has its type (qdrant_store.py:164-207,
   promote_qdrant_collection.py:83-198). *)
THEOREM LibraryTypeCorrect == LibrarySpec => []LibraryTypeOK
<1>1. LibraryInv => LibraryTypeOK
  BY DEF LibraryInv
<1> QED
  BY <1>1, LibraryInvariant, PTL

(* However many scripts write to a collection at once, and wherever they end, a
   chunk that every one of them wants can be found at any time
   (qdrant_store.py:164-207). *)
THEOREM NothingGoesMissing == LibrarySpec => []NothingMissing
<1>1. LibraryInv => NothingMissing
  BY DEF LibraryInv
<1> QED
  BY <1>1, LibraryInvariant, PTL

(* A synchronization nothing overlapped leaves exactly the approved runbooks,
   whatever scripts before it left half done (qdrant_store.py:164-207). *)
THEOREM SyncIsExact == LibrarySpec => []SyncedExactly
<1>1. LibraryInv => SyncedExactly
  BY DEF LibraryInv
<1> QED
  BY <1>1, LibraryInvariant, PTL

-----------------------------------------------------------------------------
(* The shadow search: one event for each retrieval *)

\* Where a retrieval may be once a job was made of it.
IsReported(n) == \E e \in events : e.job.of = n
IsWaiting(n) == \E i \in DOMAIN waiting : waiting[i].of = n
IsAtWork(n) == \E job \in held : job.of = n

SearchTypes == ShadowTypeOK /\ (held # {} => worker \in {"got", "run"})

\* A request thread works on a retrieval of its own, which its store describes.
OwnRetrieval ==
    /\ \A c \in Callers : caller[c].at # "idle" =>
          /\ caller[c].of \in 1..retrievals
          /\ caller[c].of \notin offered
          /\ diagnosed[c] = caller[c].of
    /\ \A c, d \in Callers :
          caller[c].at # "idle" /\ caller[d].at # "idle" /\ caller[c].of = caller[d].of => c = d
    /\ offered \subseteq 1..retrievals

\* A job describes its own retrieval, and that one was sampled.
Faithful(job) == job \in ShadowJob /\ job.described = job.of /\ job.of \in offered

FaithfulJobs ==
    /\ \A i \in DOMAIN waiting : Faithful(waiting[i])
    /\ \A job \in held : Faithful(job)
    /\ \A e \in events : Faithful(e.job)

\* One of queue, worker and telemetry has it, and has it once.
OnePlace ==
    /\ \A i, j \in DOMAIN waiting : waiting[i].of = waiting[j].of => i = j
    /\ \A job, other \in held : job = other
    /\ \A e, f \in events : e.job.of = f.job.of => e = f
    /\ \A i \in DOMAIN waiting : ~IsAtWork(waiting[i].of) /\ ~IsReported(waiting[i].of)
    /\ \A job \in held : ~IsReported(job.of)

Accounted == ~stopping => \A n \in offered : IsReported(n) \/ IsWaiting(n) \/ IsAtWork(n)

ShadowInv == SearchTypes /\ OwnRetrieval /\ FaithfulJobs /\ OnePlace /\ Accounted

LEMMA ShadowInvInit == ShadowInit => ShadowInv
  <1>1. ASSUME ShadowInit PROVE SearchTypes /\ OwnRetrieval
    <2> USE <1>1 DEF ShadowInit
    <2>1. caller \in [Callers -> [at : {"idle", "search", "offer"}, of : 0..MaxRetrievals]]
      BY ShadowAssumption DEF Quiet
    <2>2. diagnosed \in [Callers -> 0..MaxRetrievals] /\ retrievals \in 0..MaxRetrievals
      BY ShadowAssumption
    <2>3. waiting \in Seq(ShadowJob) /\ Len(waiting) <= QueueSize
      BY ShadowAssumption
    <2>4. SearchTypes
      BY <2>1, <2>2, <2>3 DEF SearchTypes, ShadowTypeOK
    <2>5. OwnRetrieval
      BY DEF OwnRetrieval, Quiet
    <2>6. QED BY <2>4, <2>5
  <1>2. ASSUME ShadowInit PROVE FaithfulJobs /\ OnePlace /\ Accounted
    BY <1>2 DEF ShadowInit, FaithfulJobs, OnePlace, Accounted
  <1>3. QED BY <1>1, <1>2 DEF ShadowInv

LEMMA PrimarySearchKeeps ==
  ASSUME ShadowInv, NEW c \in Callers, PrimarySearch(c)
  PROVE  ShadowInv'
  <1> USE DEF PrimarySearch, workerVars, closeVars
  <1>1. retrievals' \in 1..MaxRetrievals /\ retrievals' = retrievals + 1
    BY ShadowAssumption DEF ShadowInv, SearchTypes, ShadowTypeOK
  <1>2. SearchTypes'
    BY <1>1 DEF ShadowInv, SearchTypes, ShadowTypeOK
  <1>3. OwnRetrieval'
    BY <1>1 DEF ShadowInv, SearchTypes, ShadowTypeOK, OwnRetrieval
  <1>4. FaithfulJobs' /\ OnePlace' /\ Accounted'
    BY DEF ShadowInv, FaithfulJobs, Faithful, OnePlace, Accounted, IsReported, IsWaiting, IsAtWork
  <1>5. QED BY <1>2, <1>3, <1>4 DEF ShadowInv

LEMMA SearchReturnsKeeps ==
  ASSUME ShadowInv, NEW c \in Callers, SearchReturns(c)
  PROVE  ShadowInv'
  <1> USE DEF SearchReturns, workerVars, closeVars
  <1>1. caller \in [Callers -> [at : {"idle", "search", "offer"}, of : 0..MaxRetrievals]]
    BY DEF ShadowInv, SearchTypes, ShadowTypeOK
  <1>2. /\ caller' \in [Callers -> [at : {"idle", "search", "offer"}, of : 0..MaxRetrievals]]
        /\ \A d \in Callers : caller'[d].at # "idle" =>
              caller[d].at # "idle" /\ caller'[d].of = caller[d].of
    <2>1. CASE caller' = [caller EXCEPT ![c] = Quiet]
      BY <1>1, <2>1, ShadowAssumption DEF Quiet
    <2>2. CASE caller' = [caller EXCEPT ![c].at = "offer"]
      BY <1>1, <2>2
    <2>3. QED BY <2>1, <2>2
  <1> HIDE DEF SearchReturns
  <1>3. UNCHANGED <<diagnosed, retrievals, waiting, workerVars, closeVars, offered, events>>
    BY DEF SearchReturns
  <1>4. SearchTypes' /\ OwnRetrieval'
    BY <1>2, <1>3 DEF ShadowInv, SearchTypes, ShadowTypeOK, OwnRetrieval
  <1>5. FaithfulJobs' /\ OnePlace' /\ Accounted'
    BY <1>3 DEF ShadowInv, FaithfulJobs, Faithful, OnePlace, Accounted,
       IsReported, IsWaiting, IsAtWork
  <1>6. QED BY <1>4, <1>5 DEF ShadowInv

\* The job of a retrieval is the first that is known of it, wherever it goes.
LEMMA OfferKeeps ==
  ASSUME ShadowInv, NEW c \in Callers, Offer(c)
  PROVE  ShadowInv'
  <1> USE DEF Offer, workerVars, closeVars
  <1>1. PICK ranking \in Rankings :
          LET job == [of |-> caller[c].of, described |-> diagnosed[c], primary |-> ranking] IN
          IF Len(waiting) < QueueSize
          THEN waiting' = Append(waiting, job) /\ UNCHANGED events
          ELSE /\ events' = events \cup {[job |-> job, reason |-> "dropped", changes |-> {}]}
               /\ UNCHANGED waiting
    OBVIOUS
  <1> DEFINE n == caller[c].of
             job == [of |-> n, described |-> diagnosed[c], primary |-> ranking]
  <1>2. /\ job \in ShadowJob /\ job.of = n /\ job.described = n
        /\ n \notin offered /\ n \in 1..retrievals
    BY ShadowAssumption DEF ShadowInv, SearchTypes, ShadowTypeOK, OwnRetrieval, ShadowJob
  <1>3. offered' = offered \cup {n} /\ caller' = [caller EXCEPT ![c] = Quiet]
    OBVIOUS
  <1>4. OwnRetrieval'
    <2>1. \A d \in Callers : caller'[d].at # "idle" =>
             d # c /\ caller'[d] = caller[d]
      BY <1>3 DEF ShadowInv, SearchTypes, ShadowTypeOK, Quiet
    <2>2. \A d \in Callers : caller[d].at # "idle" /\ d # c => caller[d].of # n
      BY DEF ShadowInv, OwnRetrieval
    <2> HIDE DEF n, job
    <2>3. diagnosed' = diagnosed /\ retrievals' = retrievals
      OBVIOUS
    <2>4. \A d \in Callers : caller'[d].at # "idle" =>
             /\ caller'[d].of \in 1..retrievals'
             /\ caller'[d].of \notin offered'
             /\ diagnosed'[d] = caller'[d].of
      BY <1>3, <2>1, <2>2, <2>3 DEF ShadowInv, OwnRetrieval
    <2>5. \A d, e \in Callers :
             caller'[d].at # "idle" /\ caller'[e].at # "idle" /\ caller'[d].of = caller'[e].of
               => d = e
      BY <2>1 DEF ShadowInv, OwnRetrieval
    <2>6. offered' \subseteq 1..retrievals'
      BY <1>2, <1>3, <2>3 DEF ShadowInv, OwnRetrieval
    <2>7. QED BY <2>4, <2>5, <2>6 DEF OwnRetrieval
  <1>5. /\ caller' \in [Callers -> [at : {"idle", "search", "offer"}, of : 0..MaxRetrievals]]
        /\ n \in 1..MaxRetrievals
        /\ UNCHANGED <<diagnosed, retrievals, worker, held, stopping, shutdown>>
    BY <1>2, <1>3, ShadowAssumption DEF ShadowInv, SearchTypes, ShadowTypeOK, Quiet
  <1>6. /\ ~IsReported(n) /\ ~IsWaiting(n) /\ ~IsAtWork(n)
    BY <1>2 DEF ShadowInv, FaithfulJobs, Faithful, IsReported, IsWaiting, IsAtWork
  <1>7. CASE Len(waiting) < QueueSize
    <2> HIDE DEF n, job
    <2>1. waiting' = Append(waiting, job) /\ events' = events /\ held' = held /\ worker' = worker
          /\ stopping' = stopping
      BY <1>1, <1>7 DEF n, job
    <2>2. /\ waiting' \in Seq(ShadowJob)
          /\ DOMAIN waiting' = DOMAIN waiting \cup {Len(waiting) + 1}
          /\ \A i \in DOMAIN waiting : waiting'[i] = waiting[i]
          /\ waiting'[Len(waiting) + 1] = job
          /\ Len(waiting) + 1 \notin DOMAIN waiting
          /\ Len(waiting') <= QueueSize
      BY <1>7, <2>1, <1>2, ShadowAssumption DEF ShadowInv, SearchTypes, ShadowTypeOK
    <2>3. SearchTypes'
      BY <1>2, <1>3, <1>5, <2>1, <2>2 DEF ShadowInv, SearchTypes, ShadowTypeOK
    <2>4. FaithfulJobs'
      BY <1>2, <1>3, <2>1, <2>2 DEF ShadowInv, FaithfulJobs, Faithful
    <2>5. OnePlace'
      BY <1>2, <1>6, <2>1, <2>2 DEF ShadowInv, OnePlace, IsReported, IsWaiting, IsAtWork
    <2>6. Accounted'
      BY <1>2, <1>3, <2>1, <2>2 DEF ShadowInv, Accounted, IsReported, IsWaiting, IsAtWork
    <2>7. QED BY <1>4, <2>3, <2>4, <2>5, <2>6 DEF ShadowInv
  <1>8. CASE ~(Len(waiting) < QueueSize)
    <2> DEFINE e == [job |-> job, reason |-> "dropped", changes |-> {}]
    <2>1. e.job = job /\ e.reason \in Reasons
      BY DEF Reasons
    <2> HIDE DEF n, job, e
    <2>2. waiting' = waiting /\ events' = events \cup {e} /\ held' = held /\ worker' = worker
          /\ stopping' = stopping
      BY <1>1, <1>8 DEF n, job, e
    <2>3. \A f \in events' : f.job \in ShadowJob /\ f.reason \in Reasons
      BY <1>2, <2>1, <2>2 DEF ShadowInv, SearchTypes, ShadowTypeOK
    <2>4. SearchTypes'
      BY <1>2, <1>3, <1>5, <2>2, <2>3 DEF ShadowInv, SearchTypes, ShadowTypeOK
    <2>5. FaithfulJobs'
      BY <1>2, <1>3, <2>1, <2>2 DEF ShadowInv, FaithfulJobs, Faithful
    <2>6. OnePlace'
      BY <1>2, <1>6, <2>1, <2>2 DEF ShadowInv, OnePlace, IsReported, IsWaiting, IsAtWork
    <2>7. Accounted'
      BY <1>2, <1>3, <2>1, <2>2 DEF ShadowInv, Accounted, IsReported, IsWaiting, IsAtWork
    <2>8. QED BY <1>4, <2>4, <2>5, <2>6, <2>7 DEF ShadowInv
  <1>9. QED BY <1>7, <1>8

LEMMA TakeJobKeeps ==
  ASSUME ShadowInv, TakeJob
  PROVE  ShadowInv'
  <1> USE DEF TakeJob, callerVars, closeVars
  <1>1. /\ waiting' \in Seq(ShadowJob)
        /\ held' = {waiting[1]} /\ held = {} /\ 1 \in DOMAIN waiting
        /\ \A i \in DOMAIN waiting' : i + 1 \in DOMAIN waiting /\ waiting'[i] = waiting[i + 1]
        /\ \A i \in DOMAIN waiting :
              i = 1 \/ (i - 1 \in DOMAIN waiting' /\ waiting'[i - 1] = waiting[i])
    BY DEF ShadowInv, SearchTypes, ShadowTypeOK
  <1>2. Len(waiting') <= QueueSize /\ waiting[1] \in ShadowJob
    BY <1>1, ShadowAssumption DEF ShadowInv, SearchTypes, ShadowTypeOK
  <1>3. SearchTypes' /\ OwnRetrieval'
    BY <1>1, <1>2 DEF ShadowInv, SearchTypes, ShadowTypeOK, OwnRetrieval
  <1>4. FaithfulJobs'
    BY <1>1 DEF ShadowInv, FaithfulJobs, Faithful
  <1>5. \A i \in DOMAIN waiting' : i \in Nat /\ i + 1 # 1
    BY <1>1
  <1>6. \A i, j \in DOMAIN waiting' : waiting'[i].of = waiting'[j].of => i = j
    BY <1>1, <1>5 DEF ShadowInv, OnePlace
  <1>7. \A i \in DOMAIN waiting' : waiting'[i].of # waiting[1].of
    BY <1>1, <1>5 DEF ShadowInv, OnePlace
  <1>8. OnePlace'
    BY <1>1, <1>6, <1>7 DEF ShadowInv, OnePlace, IsReported, IsAtWork
  <1>9. \A n : IsWaiting(n) => IsWaiting(n)' \/ IsAtWork(n)'
    BY <1>1 DEF IsWaiting, IsAtWork
  <1>10. \A n : IsReported(n) => IsReported(n)'
    BY DEF IsReported
  <1>11. Accounted'
    BY <1>1, <1>9, <1>10 DEF ShadowInv, Accounted, IsAtWork
  <1>12. QED BY <1>3, <1>4, <1>8, <1>11 DEF ShadowInv

LEMMA StartJobKeeps ==
  ASSUME ShadowInv, StartJob
  PROVE  ShadowInv'
  <1> USE DEF StartJob, callerVars, closeVars
  <1>1. SearchTypes' /\ OwnRetrieval'
    BY DEF ShadowInv, SearchTypes, ShadowTypeOK, OwnRetrieval
  <1>2. FaithfulJobs' /\ OnePlace' /\ Accounted'
    BY DEF ShadowInv, FaithfulJobs, Faithful, OnePlace, Accounted, IsReported, IsWaiting, IsAtWork
  <1>3. QED BY <1>1, <1>2 DEF ShadowInv

\* The one job of the worker becomes the one event about it.
LEMMA RunJobKeeps ==
  ASSUME ShadowInv, RunJob
  PROVE  ShadowInv'
  <1> USE DEF RunJob, callerVars, closeVars
  <1>1. PICK job \in held : \E reason \in Reasons : \E changes :
          events' = events \cup {[job |-> job, reason |-> reason, changes |-> changes]}
    BY DEF Reasons
  <1>2. PICK reason \in Reasons : \E changes :
          events' = events \cup {[job |-> job, reason |-> reason, changes |-> changes]}
    BY <1>1
  <1>3. PICK changes :
          events' = events \cup {[job |-> job, reason |-> reason, changes |-> changes]}
    BY <1>2
  <1> DEFINE e == [job |-> job, reason |-> reason, changes |-> changes]
  <1>4. e.job = job /\ e.reason = reason /\ events' = events \cup {e}
    BY <1>3
  <1> HIDE DEF e
  <1>5. SearchTypes' /\ OwnRetrieval'
    BY <1>4 DEF ShadowInv, SearchTypes, ShadowTypeOK, OwnRetrieval
  <1>6. held = {job} /\ held' = {} /\ ~IsReported(job.of)
    BY DEF ShadowInv, OnePlace
  <1>7. FaithfulJobs'
    BY <1>4, <1>6 DEF ShadowInv, FaithfulJobs, Faithful
  <1>8. OnePlace'
    BY <1>4, <1>6 DEF ShadowInv, OnePlace, IsReported, IsAtWork
  <1>9. Accounted'
    BY <1>4, <1>6 DEF ShadowInv, Accounted, IsReported, IsWaiting, IsAtWork
  <1>10. QED BY <1>5, <1>7, <1>8, <1>9 DEF ShadowInv

LEMMA ShadowInvStep == ShadowInv /\ [ShadowNext]_shadowVars => ShadowInv'
  <1> SUFFICES ASSUME ShadowInv, [ShadowNext]_shadowVars PROVE ShadowInv'
    OBVIOUS
  <1>1. ASSUME LoopChecks \/ FindsNone PROVE ShadowInv'
    <2>1. SearchTypes' /\ OwnRetrieval'
      BY <1>1 DEF LoopChecks, FindsNone, callerVars, closeVars, ShadowInv, SearchTypes,
         ShadowTypeOK, OwnRetrieval
    <2>2. FaithfulJobs' /\ OnePlace' /\ Accounted'
      BY <1>1 DEF LoopChecks, FindsNone, callerVars, closeVars, ShadowInv, FaithfulJobs, Faithful,
         OnePlace, Accounted, IsReported, IsWaiting, IsAtWork
    <2>3. QED BY <2>1, <2>2 DEF ShadowInv
  <1>2. ASSUME BeginClose \/ EndClose \/ UNCHANGED shadowVars PROVE ShadowInv'
    <2> USE DEF BeginClose, EndClose, shadowVars, callerVars, workerVars, closeVars
    <2>1. SearchTypes' /\ OwnRetrieval'
      BY <1>2 DEF ShadowInv, SearchTypes, ShadowTypeOK, OwnRetrieval
    <2>2. FaithfulJobs' /\ OnePlace' /\ Accounted'
      BY <1>2 DEF ShadowInv, FaithfulJobs, Faithful, OnePlace, Accounted,
         IsReported, IsWaiting, IsAtWork
    <2>3. QED BY <2>1, <2>2 DEF ShadowInv
  <1>3. QED
    BY <1>1, <1>2, PrimarySearchKeeps, SearchReturnsKeeps, OfferKeeps, TakeJobKeeps,
       StartJobKeeps, RunJobKeeps DEF ShadowNext

\* In every reachable state the threads, the queue, the worker and the events
\* have their types, and the queue its bound.
THEOREM ShadowTypeCorrect == ShadowSpec => []ShadowTypeOK
  <1>1. ShadowInv => ShadowTypeOK
    BY DEF ShadowInv, SearchTypes
  <1>2. QED BY <1>1, ShadowInvInit, ShadowInvStep, PTL DEF ShadowSpec

\* An event of the shadow search is about one retrieval, with the diagnostics of
\* that one, however the request threads, the worker and close interleave and
\* whatever the queue dropped (rag/shadow.py and the diagnostics of qdrant_store.py).
THEOREM SearchesComparedOnce == ShadowSpec => []ComparedOnce
  <1>1. ASSUME ShadowInv PROVE ComparedOnce
    <2> USE <1>1 DEF ShadowInv
    <2>1. /\ \A e \in events : e.job.described = e.job.of
          /\ \A e, f \in events : e.job.of = f.job.of => e = f
      BY DEF FaithfulJobs, Faithful, OnePlace
    <2>2. \A n \in offered : ~stopping =>
            \/ {e \in events : e.job.of = n} # {}
            \/ {i \in DOMAIN waiting : waiting[i].of = n} # {}
            \/ {job \in held : job.of = n} # {}
      BY DEF Accounted, IsReported, IsWaiting, IsAtWork
    <2>3. \A n \in offered : {e \in events : e.job.of = n} # {} =>
            /\ {i \in DOMAIN waiting : waiting[i].of = n} = {}
            /\ {job \in held : job.of = n} = {}
      BY DEF OnePlace, IsReported
    <2>4. QED BY <2>1, <2>2, <2>3 DEF ComparedOnce
  <1>2. QED BY <1>1, ShadowInvInit, ShadowInvStep, PTL DEF ShadowSpec

-----------------------------------------------------------------------------
(* RunbookGuidance: the order of chunks *)

\* What the retrieval starts from.
Asked ==
    /\ inquiry \in Inquiries
    /\ careful \in BOOLEAN
    /\ scores \in [Places -> 0..TopScore]

\* Sorted lists each member once, in the order.
LEMMA SortedLists ==
  ASSUME NEW S, IsFiniteSet(S), NEW R, StrictOrder(S, R)
  PROVE  /\ Cardinality(S) \in Nat
         /\ Sorted(S, R) \in [1..Cardinality(S) -> S]
         /\ DOMAIN Sorted(S, R) = 1..Cardinality(S)
         /\ \A n, m \in 1..Cardinality(S) : Sorted(S, R)[n] = Sorted(S, R)[m] => n = m
         /\ \A i \in S : \E n \in 1..Cardinality(S) : Sorted(S, R)[n] = i
         /\ S # {} => /\ Cardinality(S) >= 1
                      /\ \A i \in S : <<i, Sorted(S, R)[1]>> \notin R
  <1> DEFINE sorted == Sorted(S, R)
             ahead(i) == Cardinality({j \in S : <<j, i>> \in R})
  <1>1. Cardinality(S) \in Nat /\ (S # {} => Cardinality(S) >= 1)
    BY FS_CardinalityType, FS_EmptySet
  <1>2. \A i \in S : ahead(i) \in Nat /\ Place(S, R, i) = 1 + ahead(i)
    BY PlaceBound DEF Place, Ahead
  <1>3. \A n \in 1..Cardinality(S) : \E i \in S : ahead(i) = n - 1
    <2> TAKE n \in 1..Cardinality(S)
    <2>1. PICK i \in S : Place(S, R, i) = n
      BY PlaceTaken
    <2>2. ahead(i) \in Nat /\ Place(S, R, i) = 1 + ahead(i)
      BY <1>2
    <2> HIDE DEF ahead
    <2>3. ahead(i) = n - 1
      BY <2>1, <2>2
    <2>4. QED BY <2>3
  <1>4. \A i, j \in S : ahead(i) = ahead(j) => i = j
    <2> SUFFICES ASSUME NEW i \in S, NEW j \in S, ahead(i) = ahead(j), i # j PROVE FALSE
      OBVIOUS
    <2>1. <<i, j>> \in R \/ <<j, i>> \in R
      BY DEF StrictOrder
    <2>2. Place(S, R, i) < Place(S, R, j) \/ Place(S, R, j) < Place(S, R, i)
      BY <2>1, PlaceOrder
    <2>3. QED BY <1>2, <2>2
  <1>5. /\ sorted = [n \in 1..Cardinality(S) |-> CHOOSE i \in S : ahead(i) = n - 1]
        /\ DOMAIN sorted = 1..Cardinality(S)
    BY DEF Sorted
  <1> HIDE DEF ahead, sorted
  <1>6. \A n \in 1..Cardinality(S) : sorted[n] \in S /\ ahead(sorted[n]) = n - 1
    BY <1>3, <1>5
  <1>7. sorted \in [1..Cardinality(S) -> S]
    BY <1>5, <1>6
  <1>8. \A n, m \in 1..Cardinality(S) : sorted[n] = sorted[m] => n = m
    BY <1>1, <1>6
  <1>9. \A i \in S : \E n \in 1..Cardinality(S) : sorted[n] = i
    <2> TAKE i \in S
    <2>1. Place(S, R, i) \in 1..Cardinality(S)
      BY PlaceBound
    <2>2. ahead(i) + 1 \in 1..Cardinality(S) /\ ahead(i) \in Nat
      BY <1>2, <2>1
    <2>3. ahead(sorted[ahead(i) + 1]) = ahead(i) /\ sorted[ahead(i) + 1] \in S
      BY <1>6, <2>2
    <2>4. sorted[ahead(i) + 1] = i
      BY <1>4, <2>3
    <2>5. QED BY <2>2, <2>4
  <1>10. ASSUME NEW i \in S, <<i, sorted[1]>> \in R PROVE FALSE
    <2>1. 1 \in 1..Cardinality(S) /\ sorted[1] \in S /\ ahead(sorted[1]) = 0
      BY <1>1, <1>6, <1>10
    <2>2. Place(S, R, i) < Place(S, R, sorted[1])
      BY <1>10, <2>1, PlaceOrder
    <2>3. QED BY <1>2, <2>1, <2>2
  <1>11. QED BY <1>1, <1>5, <1>7, <1>8, <1>9, <1>10 DEF sorted

\* The constants, and the chunks of the shelf.
LEMMA ShelfIs ==
  /\ Len(Shelf) \in Nat /\ IsFiniteSet(Places)
  /\ \A i \in Places : Shelf[i] \in Chunk
  /\ TopScore \in Nat /\ TopK \in Nat /\ TopK > 0 /\ MaxPerRunbook \in Nat /\ MaxPerRunbook > 0
  /\ MaxContext \in Nat /\ MaxContext > 0
  <1>1. Len(Shelf) \in Nat /\ \A i \in 1..Len(Shelf) : Shelf[i] \in Chunk
    BY GuidanceAssumption, LenProperties, ElementOfSeq
  <1>2. IsFiniteSet(1..Len(Shelf))
    BY <1>1, FS_Interval
  <1>3. QED BY <1>1, <1>2, GuidanceAssumption DEF Places

\* What a search finds.
LEMMA FoundIs ==
  ASSUME Asked
  PROVE  /\ Found \in SUBSET Places /\ IsFiniteSet(Found)
         /\ \A i \in Found : i \in Nat /\ scores[i] \in 1..TopScore /\ Shelf[i] \in Chunk
  <1>1. Found \in SUBSET Places
    BY DEF Found
  <1>2. IsFiniteSet(Found)
    BY <1>1, ShelfIs, FS_Subset
  <1>3. \A i \in Found : i \in Nat /\ scores[i] \in 1..TopScore /\ Shelf[i] \in Chunk
    BY ShelfIs DEF Asked, Found, Places
  <1>4. QED BY <1>1, <1>2, <1>3

\* A better score, or a smaller point id.
ByScore(S) == {p \in S \X S : Stronger(p[1], p[2])}

\* It tells any chunks apart.
LEMMA ScoresOrder ==
  ASSUME Asked, NEW S \in SUBSET Found
  PROVE  IsFiniteSet(S) /\ StrictOrder(S, ByScore(S))
  <1>1. \A i \in S : i \in Nat /\ scores[i] \in Nat
    BY FoundIs, ShelfIs
  <1>2. IsFiniteSet(S)
    BY FoundIs, FS_Subset
  <1>3. \A i, j \in S : <<i, j>> \in ByScore(S) <=> Stronger(i, j)
    BY DEF ByScore
  <1>4. QED BY <1>1, <1>2, <1>3 DEF StrictOrder, Stronger

\* The first of some chunks is the strongest of them.
LEMMA InOrderFirst ==
  ASSUME Asked, NEW S \in SUBSET Found, S # {}
  PROVE  /\ InOrder(S)[1] \in S
         /\ \A i \in S : i # InOrder(S)[1] => Stronger(InOrder(S)[1], i)
  <1>1. IsFiniteSet(S) /\ StrictOrder(S, ByScore(S))
    BY ScoresOrder
  <1>2. InOrder(S) = Sorted(S, ByScore(S))
    BY DEF InOrder, ByScore
  <1>3. /\ InOrder(S)[1] \in S
        /\ \A i \in S : <<i, InOrder(S)[1]>> \notin ByScore(S)
    BY <1>1, <1>2, SortedLists
  <1>4. QED BY <1>1, <1>3 DEF StrictOrder, ByScore

\* The strongest chunk exists, and none has a better score.
LEMMA StrongestIs ==
  ASSUME Asked, Found # {}
  PROVE  /\ Strongest \in Found
         /\ \A i \in Found : scores[i] <= scores[Strongest]
  <1>1. \E i \in Found : \A j \in Found \ {i} : Stronger(i, j)
    BY InOrderFirst
  <1>2. Strongest \in Found /\ \A j \in Found \ {Strongest} : Stronger(Strongest, j)
    BY <1>1 DEF Strongest
  <1>3. QED BY <1>2, FoundIs DEF Stronger

\* The best score of a runbook is that of one of its chunks.
LEMMA BestOfIs ==
  ASSUME Asked, NEW i \in Found
  PROVE  /\ BestOf(Shelf[i].runbook) \in Nat
         /\ scores[i] <= BestOf(Shelf[i].runbook)
         /\ \E j \in Found : Shelf[j].runbook = Shelf[i].runbook
                             /\ scores[j] = BestOf(Shelf[i].runbook)
  <1> DEFINE own == {scores[j] : j \in {j \in Found : Shelf[j].runbook = Shelf[i].runbook}}
  <1>1. own \in SUBSET (0..TopScore) /\ scores[i] \in own
    BY FoundIs
  <1>2. \E s \in own : \A t \in own : t <= s
    <2> HIDE DEF own
    <2>1. QED BY <1>1, GreatestNumber, ShelfIs
  <1>3. BestOf(Shelf[i].runbook) = CHOOSE s \in own : \A t \in own : t <= s
    BY DEF BestOf
  <1>4. BestOf(Shelf[i].runbook) \in own /\ \A t \in own : t <= BestOf(Shelf[i].runbook)
    <2> HIDE DEF own
    <2>1. QED BY <1>2, <1>3
  <1>5. QED BY <1>1, <1>4

\* Within a runbook the ranks tell the chunks apart.
LEMMA RanksWithin ==
  ASSUME Asked, NEW i \in Found
  PROVE  /\ RankInRunbook(i) \in Nat
         /\ \A j \in Found :
               Shelf[j].runbook = Shelf[i].runbook /\ RankInRunbook(j) = RankInRunbook(i) => j = i
  <1> DEFINE own == {j \in Found : Shelf[j].runbook = Shelf[i].runbook}
             R == ByScore(own)
  <1>1. IsFiniteSet(own) /\ StrictOrder(own, R)
    BY ScoresOrder
  <1>2. ASSUME NEW j \in own PROVE RankInRunbook(j) \in Nat /\ Place(own, R, j) = 1 + RankInRunbook(j)
    <2>1. {k \in Found : Shelf[k].runbook = Shelf[j].runbook /\ Stronger(k, j)} = Ahead(own, R, j)
      BY <1>2 DEF Ahead, ByScore
    <2>2. RankInRunbook(j) = Cardinality(Ahead(own, R, j))
      BY <2>1 DEF RankInRunbook
    <2> HIDE DEF R, own
    <2>3. QED BY <1>1, <1>2, <2>2, PlaceBound DEF Place
  <1>3. ASSUME NEW j \in own, RankInRunbook(j) = RankInRunbook(i), j # i PROVE FALSE
    <2>1. i \in own
      OBVIOUS
    <2>2. <<i, j>> \in R \/ <<j, i>> \in R
      BY <1>1, <1>3, <2>1 DEF StrictOrder
    <2>3. Place(own, R, i) < Place(own, R, j) \/ Place(own, R, j) < Place(own, R, i)
      <3> HIDE DEF R, own
      <3>1. QED BY <1>1, <1>3, <2>1, <2>2, PlaceOrder
    <2>4. QED BY <1>2, <1>3, <2>1, <2>3
  <1>4. QED BY <1>2, <1>3

ByTurn(S) == {p \in S \X S : InTurn(p[1], p[2])}

\* The turns the runbooks take tell any chunks apart.
LEMMA TurnsOrder ==
  ASSUME Asked, NEW S \in SUBSET Found
  PROVE  StrictOrder(S, ByTurn(S))
  <1> DEFINE rank(i) == RankInRunbook(i)
             best(i) == BestOf(Shelf[i].runbook)
             runbook(i) == Shelf[i].runbook
  <1>1. \A i \in S : rank(i) \in Nat /\ best(i) \in Nat /\ runbook(i) \in Nat
    <2> TAKE i \in S
    <2>1. i \in Found /\ Shelf[i].runbook \in Nat
      BY FoundIs DEF Chunk
    <2>2. QED BY <2>1, RanksWithin, BestOfIs
  <1>2. \A i, j \in S : rank(i) = rank(j) /\ runbook(i) = runbook(j) => i = j
    BY RanksWithin
  <1>3. \A i, j \in S : <<i, j>> \in ByTurn(S) <=>
          \/ rank(i) < rank(j)
          \/ rank(i) = rank(j) /\ best(i) > best(j)
          \/ rank(i) = rank(j) /\ best(i) = best(j) /\ runbook(i) < runbook(j)
    BY DEF ByTurn, InTurn
  <1> HIDE DEF rank, best, runbook
  <1>4. \A i \in S : <<i, i>> \notin ByTurn(S)
    BY <1>1, <1>3
  <1>5. \A i, j, k \in S : <<i, j>> \in ByTurn(S) /\ <<j, k>> \in ByTurn(S) => <<i, k>> \in ByTurn(S)
    BY <1>1, <1>3
  <1>6. \A i, j \in S : i # j => <<i, j>> \in ByTurn(S) \/ <<j, i>> \in ByTurn(S)
    BY <1>1, <1>2, <1>3
  <1>7. QED BY <1>4, <1>5, <1>6 DEF StrictOrder

\* One of the runbooks with the best score of all.
BestRunbook(runbook) ==
    \E i \in Found : Shelf[i].runbook = runbook /\ \A j \in Found : scores[j] <= scores[i]

\* A selection: chunks that were found, each once, not too many, and among them
\* one of a best runbook.
Fine(result) ==
    /\ result \in Seq(Found)
    /\ Len(result) \in 1..TopK
    /\ \A n, m \in 1..Len(result) : result[n] = result[m] => n = m
    /\ \E n \in 1..Len(result) : BestRunbook(Shelf[result[n]].runbook)

\* The first chunks of such an order of enough of them.
LEMMA FirstFine ==
  ASSUME Asked, NEW S \in SUBSET Found, S # {}, NEW R, StrictOrder(S, R),
         NEW i \in S, BestRunbook(Shelf[i].runbook),
         \A j \in S : ~BestRunbook(Shelf[j].runbook) => <<i, j>> \in R
  PROVE  Fine(FirstK(Sorted(S, R)))
  <1> DEFINE s == Sorted(S, R)
             k == Least(Cardinality(S), TopK)
  <1>1. IsFiniteSet(S)
    BY FoundIs, FS_Subset
  <1>2. /\ Cardinality(S) \in Nat /\ Cardinality(S) >= 1
        /\ s \in [1..Cardinality(S) -> S]
        /\ \A n, m \in 1..Cardinality(S) : s[n] = s[m] => n = m
        /\ \A j \in S : <<j, s[1]>> \notin R
    BY <1>1, SortedLists
  <1> HIDE DEF s
  <1>3. s \in Seq(S) /\ Len(s) = Cardinality(S)
    BY <1>2
  <1>4. k \in 1..TopK /\ k <= Cardinality(S)
    BY <1>2, ShelfIs DEF Least
  <1>5. FirstK(s) = SubSeq(s, 1, k)
    BY <1>3 DEF FirstK
  <1> HIDE DEF k
  <1>6. /\ SubSeq(s, 1, k) \in Seq(Found) /\ Len(SubSeq(s, 1, k)) = k
        /\ \A n \in 1..k : SubSeq(s, 1, k)[n] = s[n]
    <2>1. \A n \in 1..k : s[n] \in Found
      BY <1>2, <1>4
    <2>2. QED BY <1>4, <2>1, SubSeqProperties
  <1>7. 1 \in 1..k /\ BestRunbook(Shelf[s[1]].runbook)
    <2>1. s[1] \in S /\ <<i, s[1]>> \notin R
      BY <1>2
    <2>2. QED BY <1>4, <2>1
  <1>8. /\ FirstK(Sorted(S, R)) = SubSeq(s, 1, k)
        /\ \A n \in 1..k : n \in 1..Cardinality(S)
    BY <1>2, <1>4, <1>5 DEF s
  <1>9. Fine(SubSeq(s, 1, k))
    <2> DEFINE t == SubSeq(s, 1, k)
    <2>1. t \in Seq(Found) /\ Len(t) = k /\ \A n \in 1..k : t[n] = s[n]
      BY <1>6
    <2> HIDE DEF t
    <2>2. \A n, m \in 1..Len(t) : t[n] = t[m] => n = m
      BY <1>2, <1>8, <2>1
    <2>3. Len(t) <= TopK
      BY <1>4, <2>1
    <2>4. \E n \in 1..Len(t) : BestRunbook(Shelf[t[n]].runbook)
      BY <1>7, <2>1
    <2>5. Fine(t)
      BY <2>1, <2>2, <2>3, <2>4 DEF Fine
    <2>6. QED BY <2>5 DEF t
  <1>10. QED BY <1>8, <1>9

\* So the ranking is fine, with and without turns.
LEMMA RankedFine ==
  ASSUME Asked, Found # {}
  PROVE  Fine(RankedChunks)
  <1>1. Strongest \in Found /\ \A j \in Found : scores[j] <= scores[Strongest]
    BY StrongestIs
  <1>2. BestRunbook(StrongestRunbook)
    BY <1>1 DEF BestRunbook, StrongestRunbook
  <1>3. CASE ~careful
    <2>1. StrictOrder(Found, ByScore(Found))
      BY ScoresOrder
    <2>2. \A j \in Found : ~BestRunbook(Shelf[j].runbook) => <<Strongest, j>> \in ByScore(Found)
      <3> SUFFICES ASSUME NEW j \in Found, ~BestRunbook(Shelf[j].runbook)
                   PROVE  <<Strongest, j>> \in ByScore(Found)
        OBVIOUS
      <3>1. scores[j] # scores[Strongest]
        BY <1>1 DEF BestRunbook
      <3>2. scores[j] < scores[Strongest]
        BY <1>1, <3>1, FoundIs
      <3>3. QED BY <1>1, <3>2 DEF ByScore, Stronger
    <2>3. RankedChunks = FirstK(Sorted(Found, ByScore(Found)))
      BY <1>3 DEF RankedChunks, InOrder, ByScore
    <2>4. QED BY <1>1, <1>2, <2>1, <2>2, <2>3, FirstFine DEF StrongestRunbook
  <1>4. CASE careful
    <2> DEFINE few == {i \in Found : RankInRunbook(i) < MaxPerRunbook}
    <2>1. RankInRunbook(Strongest) = 0
      <3>1. \A i \in Found : ~Stronger(i, Strongest) \/ i = Strongest
        <4>1. \E i \in Found : \A j \in Found \ {i} : Stronger(i, j)
          BY <1>1, InOrderFirst
        <4>2. \A j \in Found \ {Strongest} : Stronger(Strongest, j)
          BY <4>1 DEF Strongest
        <4>3. QED BY <1>1, <4>2, FoundIs DEF Stronger
      <3>2. ~Stronger(Strongest, Strongest)
        BY <1>1, FoundIs DEF Stronger
      <3>3. {j \in Found : Shelf[j].runbook = Shelf[Strongest].runbook /\ Stronger(j, Strongest)} = {}
        BY <3>1, <3>2
      <3>4. QED BY <3>3, FS_EmptySet DEF RankInRunbook
    <2>2. Strongest \in few /\ few \in SUBSET Found
      BY <1>1, <2>1, ShelfIs
    <2>3. StrictOrder(few, ByTurn(few))
      BY <2>2, TurnsOrder
    <2>4. \A j \in few : ~BestRunbook(Shelf[j].runbook) => <<Strongest, j>> \in ByTurn(few)
      <3> SUFFICES ASSUME NEW j \in few, ~BestRunbook(Shelf[j].runbook)
                   PROVE  <<Strongest, j>> \in ByTurn(few)
        OBVIOUS
      <3>1. j \in Found /\ RankInRunbook(j) \in Nat
        BY RanksWithin
      <3>2. PICK k \in Found : /\ Shelf[k].runbook = Shelf[j].runbook
                               /\ scores[k] = BestOf(Shelf[j].runbook)
        BY <3>1, BestOfIs
      <3>3. scores[k] # scores[Strongest]
        BY <1>1, <3>2 DEF BestRunbook
      <3>4. scores[k] < scores[Strongest]
        BY <1>1, <3>2, <3>3, FoundIs
      <3>5. scores[Strongest] <= BestOf(Shelf[Strongest].runbook) /\ BestOf(Shelf[Strongest].runbook) \in Nat
        BY <1>1, BestOfIs
      <3>6. BestOf(Shelf[Strongest].runbook) > BestOf(Shelf[j].runbook)
        BY <1>1, <3>2, <3>4, <3>5, FoundIs
      <3>7. InTurn(Strongest, j)
        BY <2>1, <3>1, <3>6 DEF InTurn
      <3>8. QED BY <2>2, <3>7 DEF ByTurn
    <2>5. RankedChunks = FirstK(Sorted(few, ByTurn(few)))
      BY <1>4 DEF RankedChunks, ByTurn
    <2> HIDE DEF few
    <2>6. QED BY <1>2, <2>2, <2>3, <2>4, <2>5, FirstFine DEF StrongestRunbook
  <1>5. QED BY <1>3, <1>4 DEF Asked

-----------------------------------------------------------------------------
(* The sections that are asked for *)

\* They are at most two, and each is asked for once.
LEMMA RequestedIs ==
  ASSUME Asked
  PROVE  /\ Requested \in Seq(Sections) /\ Len(Requested) \in 0..2
         /\ DOMAIN Requested = 1..Len(Requested)
         /\ \A n, m \in DOMAIN Requested : Requested[n] = Requested[m] => n = m
  <1>1. inquiry.purpose \in {"remediation", "diagnosis", "meaning", "none"}
    BY DEF Asked, Inquiries
  <1>2. CASE inquiry.purpose = "remediation"
    <2>1. Requested = <<"diagnostic_steps", "recovery_steps">>
      BY <1>2 DEF Requested
    <2>2. QED BY <2>1 DEF Sections
  <1>3. CASE inquiry.purpose = "diagnosis"
    <2>1. Requested = <<"diagnostic_steps">>
      BY <1>3 DEF Requested
    <2>2. QED BY <2>1 DEF Sections
  <1>4. CASE inquiry.purpose = "meaning"
    <2>1. Requested = <<"symptoms">>
      BY <1>4 DEF Requested
    <2>2. QED BY <2>1 DEF Sections
  <1>5. CASE inquiry.purpose = "none"
    <2>1. Requested = << >>
      BY <1>5 DEF Requested
    <2>2. QED BY <2>1 DEF Sections
  <1>6. QED BY <1>1, <1>2, <1>3, <1>4, <1>5

OwnChunks(section) ==
    {i \in Found : Shelf[i].runbook = StrongestRunbook /\ Shelf[i].section = section}

HoldsSection(result, section) == \E n \in 1..Len(result) : result[n] \in OwnChunks(section)

AllRequested(result) ==
    Len(result) = TopK /\ \A n \in 1..Len(result) : IsRequested(result[n])

\* A section is covered, there is nothing of it, or there is no room for it.
Settled(result, section) ==
    HoldsSection(result, section) \/ OwnChunks(section) = {} \/ AllRequested(result)

\* A chunk that joins leaves a selection fine and settles its section; it takes no
\* other section's place.
LEMMA CoverKeeps ==
  ASSUME Asked, NEW result, Fine(result), NEW k \in DOMAIN Requested
  PROVE  /\ Fine(Cover(result, Requested[k]))
         /\ Settled(Cover(result, Requested[k]), Requested[k])
         /\ \A l \in DOMAIN Requested :
               Settled(result, Requested[l]) => Settled(Cover(result, Requested[k]), Requested[l])
  <1> DEFINE section == Requested[k]
             own == OwnChunks(section)
             spare == {n \in DOMAIN result : ~IsRequested(result[n])}
             near == {n \in spare : Shelf[result[n]].runbook = StrongestRunbook}
             last(set) == CHOOSE n \in set : \A m \in set : m <= n
             new == InOrder(own)[1]
             place == last(IF near # {} THEN near ELSE spare)
  <1>1. /\ result \in Seq(Found) /\ Len(result) \in Nat /\ DOMAIN result = 1..Len(result)
        /\ Len(result) >= 1 /\ Len(result) <= TopK
        /\ \A n \in 1..Len(result) : result[n] \in Found
    BY ElementOfSeq, LenProperties, ShelfIs DEF Fine
  <1>2. own \in SUBSET Found
    BY DEF OwnChunks
  <1>3. ASSUME own # {}
        PROVE  /\ new \in own /\ new \in Found /\ IsRequested(new)
               /\ BestRunbook(Shelf[new].runbook)
    <2>1. new \in own
      BY <1>2, <1>3, InOrderFirst
    <2>2. Shelf[new].runbook = StrongestRunbook /\ Shelf[new].section = section /\ new \in Found
      BY <2>1 DEF OwnChunks
    <2>3. IsRequested(new)
      BY <2>2 DEF IsRequested
    <2>4. BestRunbook(StrongestRunbook)
      BY <2>2, StrongestIs DEF BestRunbook, StrongestRunbook
    <2>5. QED BY <2>1, <2>2, <2>3, <2>4
  <1>4. CASE HoldsSection(result, section) \/ own = {}
    <2>1. Cover(result, section) = result
      BY <1>1, <1>4 DEF Cover, HoldsSection, OwnChunks
    <2>2. QED BY <1>4, <2>1 DEF Settled
  <1>5. CASE ~HoldsSection(result, section) /\ own # {} /\ Len(result) < TopK
    <2> DEFINE r == Append(result, new)
    <2>1. Cover(result, section) = r
      BY <1>1, <1>5 DEF Cover, HoldsSection, OwnChunks
    <2>2. /\ r \in Seq(Found) /\ Len(r) = Len(result) + 1
          /\ \A n \in 1..Len(result) : r[n] = result[n]
          /\ r[Len(result) + 1] = new
      BY <1>1, <1>3, <1>5
    <2>3. \A n \in 1..Len(result) : result[n] # new
      BY <1>3, <1>5 DEF HoldsSection
    <2> HIDE DEF r, new, own
    <2>4. Fine(r)
      <3>1. \A n, m \in 1..Len(r) : r[n] = r[m] => n = m
        BY <1>1, <2>2, <2>3 DEF Fine
      <3>2. \E n \in 1..Len(r) : BestRunbook(Shelf[r[n]].runbook)
        BY <1>1, <2>2 DEF Fine
      <3>3. Len(r) \in 1..TopK
        <4>1. Len(result) < TopK /\ Len(result) \in Nat
          BY <1>1, <1>5
        <4>2. QED BY <2>2, <4>1, ShelfIs
      <3>4. QED BY <2>2, <3>1, <3>2, <3>3 DEF Fine
    <2>5. HoldsSection(r, section)
      <3>1. Len(result) + 1 \in 1..Len(r)
        BY <1>1, <2>2
      <3>2. QED BY <1>3, <1>5, <2>2, <3>1 DEF HoldsSection, own
    <2>6. \A l \in DOMAIN Requested : HoldsSection(result, Requested[l]) => HoldsSection(r, Requested[l])
      BY <1>1, <2>2 DEF HoldsSection
    <2>7. ~AllRequested(result)
      <3>1. Len(result) < TopK /\ Len(result) \in Nat
        BY <1>1, <1>5
      <3>2. QED BY <3>1, ShelfIs DEF AllRequested
    <2>8. QED BY <2>1, <2>4, <2>5, <2>6, <2>7 DEF Settled
  <1>6. CASE ~HoldsSection(result, section) /\ own # {} /\ Len(result) = TopK /\ spare = {}
    <2>1. Cover(result, section) = result
      BY <1>1, <1>6, ShelfIs DEF Cover, HoldsSection, OwnChunks
    <2>2. AllRequested(result)
      BY <1>1, <1>6 DEF AllRequested
    <2>3. QED BY <2>1, <2>2 DEF Settled
  <1>7. CASE ~HoldsSection(result, section) /\ own # {} /\ Len(result) = TopK /\ spare # {}
    <2> DEFINE r == [result EXCEPT ![place] = new]
    <2>1. Cover(result, section) = r
      BY <1>1, <1>7, ShelfIs DEF Cover, HoldsSection, OwnChunks
    <2>2. place \in spare
      <3> DEFINE set == IF near # {} THEN near ELSE spare
      <3>1. set # {} /\ set \in SUBSET spare
        BY <1>7
      <3>2. set \in SUBSET (0..Len(result))
        BY <1>1, <3>1
      <3>3. place = CHOOSE n \in set : \A m \in set : m <= n
        OBVIOUS
      <3> HIDE DEF set, place
      <3>4. \E n \in set : \A m \in set : m <= n
        BY <1>1, <3>1, <3>2, GreatestNumber
      <3>5. QED BY <3>1, <3>3, <3>4
    <2>3. place \in 1..Len(result) /\ ~IsRequested(result[place])
      BY <1>1, <2>2
    <2>4. \A n \in 1..Len(result) : result[n] # new
      BY <1>3, <1>7 DEF HoldsSection
    <2> HIDE DEF place, new, own, spare
    <2>5. /\ r \in Seq(Found) /\ Len(r) = Len(result)
          /\ \A n \in 1..Len(result) : r[n] = IF n = place THEN new ELSE result[n]
      BY <1>1, <1>3, <1>7, <2>3, ExceptSeq
    <2> HIDE DEF r
    <2>6. Fine(r)
      <3>1. \A n, m \in 1..Len(r) : r[n] = r[m] => n = m
        BY <1>1, <2>4, <2>5 DEF Fine
      <3>2. BestRunbook(Shelf[r[place]].runbook)
        BY <1>3, <1>7, <2>3, <2>5
      <3>3. QED BY <1>1, <2>3, <2>5, <3>1, <3>2, ShelfIs DEF Fine
    <2>7. HoldsSection(r, section)
      BY <1>3, <1>7, <2>3, <2>5 DEF HoldsSection, own
    <2>8. \A l \in DOMAIN Requested : HoldsSection(result, Requested[l]) => HoldsSection(r, Requested[l])
      <3> SUFFICES ASSUME NEW l \in DOMAIN Requested, NEW n \in 1..Len(result),
                          result[n] \in OwnChunks(Requested[l])
                   PROVE  HoldsSection(r, Requested[l])
        BY DEF HoldsSection
      <3>1. IsRequested(result[n])
        BY DEF IsRequested, OwnChunks
      <3>2. r[n] = result[n]
        BY <2>3, <2>5, <3>1
      <3>3. QED BY <2>5, <3>2 DEF HoldsSection
    <2>9. ~AllRequested(result)
      BY <2>3 DEF AllRequested
    <2>10. QED BY <2>1, <2>6, <2>7, <2>8, <2>9 DEF Settled
  <1>8. Len(result) < TopK \/ Len(result) = TopK
    <2>1. Len(result) \in Nat /\ Len(result) <= TopK
      BY <1>1
    <2>2. QED BY <2>1, ShelfIs
  <1>9. \/ HoldsSection(result, section) \/ own = {}
        \/ ~HoldsSection(result, section) /\ own # {} /\ Len(result) < TopK
        \/ ~HoldsSection(result, section) /\ own # {} /\ Len(result) = TopK /\ spare = {}
        \/ ~HoldsSection(result, section) /\ own # {} /\ Len(result) = TopK /\ spare # {}
    BY <1>8
  <1>10. QED BY <1>4, <1>5, <1>6, <1>7, <1>9

\* The sections are covered one after the other.
LEMMA SectionsUnfold ==
  ASSUME Asked, NEW ranked
  PROVE  \E f : /\ f[0] = ranked
                /\ \A n \in 1..Len(Requested) : f[n] = Cover(f[n - 1], Requested[n])
                /\ WithSections(ranked) = f[Len(Requested)]
  <1> DEFINE N == Len(Requested)
             Step(f) == [n \in 0..N |-> IF n = 0 THEN ranked ELSE Cover(f[n - 1], Requested[n])]
             one == Cover(ranked, Requested[1])
             two == Cover(one, Requested[2])
             g == [n \in 0..N |-> IF n = 0 THEN ranked ELSE IF n = 1 THEN one ELSE two]
             h == CHOOSE f : f = Step(f)
  <1>1. WithSections(ranked) = h[N]
    BY DEF WithSections
  <1>2. N \in 0..2
    BY RequestedIs
  <1> HIDE DEF N
  <1>3. \A n \in 0..N : g[n] = Step(g)[n]
    <2> TAKE n \in 0..N
    <2>1. CASE n = 0
      BY <2>1, <1>2
    <2>2. CASE n = 1
      <3>1. g[1] = one /\ g[0] = ranked /\ Step(g)[1] = Cover(g[0], Requested[1])
        BY <1>2, <2>2
      <3>2. QED BY <2>2, <3>1
    <2>3. CASE n = 2
      <3>1. g[2] = two /\ g[1] = one /\ Step(g)[2] = Cover(g[1], Requested[2])
        BY <1>2, <2>3
      <3>2. QED BY <2>3, <3>1
    <2>4. QED BY <1>2, <2>1, <2>2, <2>3
  <1>4. g = Step(g)
    <2>1. /\ g = [n \in 0..N |-> g[n]]
          /\ Step(g) = [n \in 0..N |-> Step(g)[n]]
      OBVIOUS
    <2> HIDE DEF g, Step
    <2>2. QED BY <1>3, <2>1
  <1>5. h = Step(h)
    <2> HIDE DEF g, Step
    <2>1. QED BY <1>4
  <1> HIDE DEF h
  <1>6. h[0] = ranked
    BY <1>2, <1>5
  <1>7. ASSUME NEW n \in 1..N PROVE h[n] = Cover(h[n - 1], Requested[n])
    <2>1. n \in 0..N /\ n # 0
      BY <1>2
    <2>2. QED BY <1>5, <2>1
  <1>8. QED BY <1>1, <1>6, <1>7 DEF N

\* In the end every section is settled.
LEMMA WithSectionsCover ==
  ASSUME Asked, NEW ranked, Fine(ranked)
  PROVE  /\ Fine(WithSections(ranked))
         /\ \A l \in DOMAIN Requested : Settled(WithSections(ranked), Requested[l])
  <1> DEFINE N == Len(Requested)
  <1>1. PICK f : /\ f[0] = ranked
                 /\ \A n \in 1..N : f[n] = Cover(f[n - 1], Requested[n])
                 /\ WithSections(ranked) = f[N]
    BY SectionsUnfold
  <1>2. N \in 0..2 /\ DOMAIN Requested = 1..N
    BY RequestedIs
  <1> HIDE DEF N
  <1>3. ASSUME NEW n \in 1..N, Fine(f[n - 1]),
               \A l \in DOMAIN Requested : l < n => Settled(f[n - 1], Requested[l])
        PROVE  /\ Fine(f[n])
               /\ \A l \in DOMAIN Requested : l <= n => Settled(f[n], Requested[l])
    <2>1. n \in DOMAIN Requested /\ f[n] = Cover(f[n - 1], Requested[n])
      BY <1>1, <1>2
    <2>2. /\ Fine(f[n]) /\ Settled(f[n], Requested[n])
          /\ \A l \in DOMAIN Requested :
                Settled(f[n - 1], Requested[l]) => Settled(f[n], Requested[l])
      BY <1>3, <2>1, CoverKeeps
    <2>3. \A l \in DOMAIN Requested : l <= n => l < n \/ l = n
      BY <1>2
    <2>4. QED BY <1>3, <2>2, <2>3
  <1>4. CASE N = 0
    BY <1>1, <1>2, <1>4
  <1>5. CASE N = 1
    <2>1. Fine(f[1 - 1]) /\ \A l \in DOMAIN Requested : ~(l < 1)
      BY <1>1, <1>2
    <2>2. /\ Fine(f[1])
          /\ \A l \in DOMAIN Requested : l <= 1 => Settled(f[1], Requested[l])
      BY <1>3, <1>5, <2>1
    <2>3. QED BY <1>1, <1>2, <1>5, <2>2
  <1>6. CASE N = 2
    <2>1. Fine(f[1 - 1]) /\ \A l \in DOMAIN Requested : ~(l < 1)
      BY <1>1, <1>2
    <2>2. /\ Fine(f[1])
          /\ \A l \in DOMAIN Requested : l <= 1 => Settled(f[1], Requested[l])
      BY <1>3, <1>6, <2>1
    <2>3. Fine(f[2 - 1]) /\ \A l \in DOMAIN Requested : l < 2 => Settled(f[2 - 1], Requested[l])
      BY <1>2, <2>2
    <2>4. /\ Fine(f[2])
          /\ \A l \in DOMAIN Requested : l <= 2 => Settled(f[2], Requested[l])
      BY <1>3, <1>6, <2>3
    <2>5. QED BY <1>1, <1>2, <1>6, <2>4
  <1>7. QED BY <1>2, <1>4, <1>5, <1>6

-----------------------------------------------------------------------------
(* The order they are put into *)

\* A chunk without a requested section comes after the others.
LEMMA PriorityIs ==
  ASSUME Asked, NEW i
  PROVE  Priority(i) \in Nat
  <1>1. Len(Requested) \in Nat /\ DOMAIN Requested = 1..Len(Requested)
    BY RequestedIs
  <1>2. CASE IsRequested(i)
    <2>1. Priority(i) \in DOMAIN Requested
      BY <1>2 DEF Priority, IsRequested
    <2>2. QED BY <1>1, <2>1
  <1>3. CASE ~IsRequested(i)
    BY <1>1, <1>3 DEF Priority
  <1>4. QED BY <1>2, <1>3

InSections(ranked, result) ==
    {p \in (DOMAIN result) \X (DOMAIN result) : ComesBefore(ranked, result, p[1], p[2])}

\* That is an order of the places of a selection.
LEMMA SectionsOrder ==
  ASSUME Asked, NEW ranked, NEW result, Fine(result)
  PROVE  IsFiniteSet(DOMAIN result) /\ StrictOrder(DOMAIN result, InSections(ranked, result))
  <1> DEFINE S == DOMAIN result
             R == InSections(ranked, result)
             first(n) == Priority(result[n])
             joined(k) == \A l \in DOMAIN ranked : ranked[l] # result[k]
             late(n) == IF joined(n) THEN 1 ELSE 0
  <1>1. S = 1..Len(result) /\ Len(result) \in Nat
    BY DEF Fine
  <1>2. IsFiniteSet(S)
    BY <1>1, FS_Interval
  <1>3. \A n \in S : n \in Nat /\ first(n) \in Nat /\ late(n) \in Nat
    BY <1>1, PriorityIs
  <1>4. \A n, m \in S : <<n, m>> \in R <=>
          \/ first(n) < first(m)
          \/ first(n) = first(m) /\ late(n) < late(m)
          \/ first(n) = first(m) /\ late(n) = late(m) /\ n < m
    <2> TAKE n, m \in S
    <2>1. <<n, m>> \in R <=> ComesBefore(ranked, result, n, m)
      BY DEF InSections
    <2>2. ComesBefore(ranked, result, n, m) <=>
            \/ first(n) < first(m)
            \/ /\ first(n) = first(m)
               /\ (~joined(n) /\ joined(m)) \/ (joined(n) = joined(m) /\ n < m)
      BY DEF ComesBefore
    <2>3. /\ (~joined(n) /\ joined(m)) <=> late(n) < late(m)
          /\ (joined(n) = joined(m)) <=> late(n) = late(m)
      <3>1. joined(n) \in BOOLEAN /\ joined(m) \in BOOLEAN
        OBVIOUS
      <3> HIDE DEF joined
      <3>2. QED BY <3>1
    <2> HIDE DEF joined, late, first, R
    <2>4. QED BY <2>1, <2>2, <2>3
  <1> HIDE DEF S, R, first, late
  <1>5. \A n \in S : <<n, n>> \notin R
    BY <1>3, <1>4
  <1>6. \A i, j, k \in S : <<i, j>> \in R /\ <<j, k>> \in R => <<i, k>> \in R
    BY <1>3, <1>4
  <1>7. \A n, m \in S : n # m => <<n, m>> \in R \/ <<m, n>> \in R
    BY <1>3, <1>4
  <1>8. StrictOrder(S, R)
    BY <1>5, <1>6, <1>7 DEF StrictOrder
  <1>9. QED BY <1>2, <1>8 DEF S, R

\* A list in another order.
Permutes(order, len) ==
    /\ order \in [1..len -> 1..len]
    /\ \A n, m \in 1..len : order[n] = order[m] => n = m
    /\ \A i \in 1..len : \E n \in 1..len : order[n] = i

LEMMA Reordered ==
  ASSUME Asked, NEW result, Fine(result),
         NEW order, Permutes(order, Len(result)),
         NEW list, list = [n \in 1..Len(result) |-> result[order[n]]]
  PROVE  /\ Fine(list)
         /\ \A section : Settled(result, section) => Settled(list, section)
  <1>1. /\ result \in Seq(Found) /\ Len(result) \in Nat
        /\ \A n \in 1..Len(result) : result[n] \in Found
    BY ElementOfSeq, LenProperties DEF Fine
  <1>2. /\ order \in [1..Len(result) -> 1..Len(result)]
        /\ \A n, m \in 1..Len(result) : order[n] = order[m] => n = m
        /\ \A i \in 1..Len(result) : \E n \in 1..Len(result) : order[n] = i
    BY DEF Permutes
  <1>3. /\ list \in Seq(Found) /\ Len(list) = Len(result)
        /\ \A n \in 1..Len(result) : list[n] = result[order[n]]
    <2> DEFINE len == Len(result)
    <2>1. \A n \in 1..len : order[n] \in 1..len /\ result[order[n]] \in Found
      BY <1>1, <1>2
    <2>2. list = [n \in 1..len |-> result[order[n]]] /\ len \in Nat
      BY <1>1
    <2> HIDE DEF len
    <2>3. list \in [1..len -> Found]
      BY <2>1, <2>2
    <2>4. list \in Seq(Found) /\ Len(list) = len
      BY <2>2, <2>3
    <2>5. \A n \in 1..len : list[n] = result[order[n]]
      BY <2>2
    <2>6. QED BY <2>4, <2>5 DEF len
  <1>4. \A i \in 1..Len(result) : \E n \in 1..Len(list) : list[n] = result[i]
    BY <1>3, <1>2
  <1>5. Fine(list)
    <2>1. \A n, m \in 1..Len(list) : list[n] = list[m] => n = m
      <3> SUFFICES ASSUME NEW n \in 1..Len(result), NEW m \in 1..Len(result),
                          list[n] = list[m]
                   PROVE  n = m
        <4>1. 1..Len(list) = 1..Len(result)
          BY <1>3
        <4>2. QED BY <4>1
      <3>1. result[order[n]] = result[order[m]]
        BY <1>3
      <3>2. order[n] \in 1..Len(result) /\ order[m] \in 1..Len(result)
        BY <1>2
      <3>3. order[n] = order[m]
        BY <3>1, <3>2 DEF Fine
      <3>4. QED BY <1>2, <3>3
    <2>2. PICK i \in 1..Len(result) : BestRunbook(Shelf[result[i]].runbook)
      BY DEF Fine
    <2>3. \E n \in 1..Len(list) : BestRunbook(Shelf[list[n]].runbook)
      BY <1>4, <2>2
    <2>4. Len(list) \in 1..TopK
      BY <1>3 DEF Fine
    <2>5. QED BY <1>3, <2>1, <2>3, <2>4 DEF Fine
  <1>6. ASSUME NEW section, Settled(result, section) PROVE Settled(list, section)
    <2>1. HoldsSection(result, section) => HoldsSection(list, section)
      BY <1>4 DEF HoldsSection
    <2>2. AllRequested(result) => AllRequested(list)
      BY <1>2, <1>3 DEF AllRequested
    <2>3. QED BY <1>6, <2>1, <2>2 DEF Settled
  <1>7. QED BY <1>5, <1>6

\* What goes into the context is fine and settles every section.
LEMMA SectionsFine ==
  ASSUME Asked, Found # {}
  PROVE  /\ Fine(CoveredSections)
         /\ \A l \in DOMAIN Requested : Settled(CoveredSections, Requested[l])
  <1> DEFINE ranked == RankedChunks
             result == WithSections(ranked)
             all == DOMAIN result
             order == Sorted(all, InSections(ranked, result))
             list == [n \in all |-> result[order[n]]]
  <1>1. Fine(result) /\ \A l \in DOMAIN Requested : Settled(result, Requested[l])
    BY RankedFine, WithSectionsCover
  <1>2. CoveredSections = list
    BY DEF CoveredSections, InSections
  <1> HIDE DEF result
  <1>3. all = 1..Len(result) /\ Len(result) \in Nat
    BY <1>1 DEF Fine
  <1>4. Cardinality(all) = Len(result)
    <2>1. \A len \in Nat : Cardinality(1..len) = len
      BY FS_Interval
    <2>2. QED BY <1>3, <2>1
  <1>5. IsFiniteSet(all) /\ StrictOrder(all, InSections(ranked, result))
    BY <1>1, SectionsOrder
  <1> HIDE DEF all
  <1>6. /\ order \in [1..Len(result) -> all]
        /\ \A n, m \in 1..Len(result) : order[n] = order[m] => n = m
        /\ \A i \in all : \E n \in 1..Len(result) : order[n] = i
    BY <1>4, <1>5, SortedLists
  <1> HIDE DEF order, ranked
  <1>7. Fine(list) /\ \A section : Settled(result, section) => Settled(list, section)
    <2>1. list = [n \in 1..Len(result) |-> result[order[n]]]
      BY <1>3
    <2>2. Permutes(order, Len(result))
      BY <1>3, <1>6 DEF Permutes
    <2> HIDE DEF list
    <2>3. QED BY <1>1, <2>1, <2>2, Reordered
  <1>8. QED BY <1>1, <1>2, <1>7

\* How much of the context the first chunks take.
LinesIn(places, m) == Len(Shelf[places[m]].lines)

\* A chunk's lines.
LEMMA LinesAre ==
  ASSUME NEW places \in Seq(Places), NEW m \in 1..Len(places)
  PROVE  /\ places[m] \in Places
         /\ LinesIn(places, m) \in Nat
         /\ DOMAIN Shelf[places[m]].lines = 1..LinesIn(places, m)
  <1>1. places[m] \in Places
    BY ElementOfSeq
  <1>2. Shelf[places[m]].lines \in Seq(Texts)
    BY <1>1, ShelfIs DEF Chunk
  <1>3. QED BY <1>1, <1>2, LenProperties DEF LinesIn

\* Lines told by the place of their chunk and their own.
LEMMA Rows ==
  ASSUME NEW m, NEW k \in Nat
  PROVE  IsFiniteSet({m} \X (1..k)) /\ Cardinality({m} \X (1..k)) = k
  <1>1. IsFiniteSet(1..k) /\ Cardinality(1..k) = k
    BY FS_Interval
  <1>2. IsFiniteSet({m}) /\ Cardinality({m}) = 1
    BY FS_Singleton
  <1>3. QED BY <1>1, <1>2, FS_Product

\* A chunk adds its own lines.
LEMMA LinesAdded ==
  ASSUME NEW places \in Seq(Places), NEW n \in 1..Len(places)
  PROVE  LinesBefore(places, n) =
            LinesBefore(places, n - 1) \cup ({n} \X (1..LinesIn(places, n)))
  <1>1. DOMAIN Shelf[places[n]].lines = 1..LinesIn(places, n)
    BY LinesAre
  <1>2. 1..n = (1..(n - 1)) \cup {n}
    OBVIOUS
  <1>3. QED BY <1>1, <1>2 DEF LinesBefore

\* What the first n chunks take adds up.
LEMMA LinesUsed ==
  ASSUME NEW places \in Seq(Places)
  PROVE  /\ \A n \in 0..Len(places) : /\ IsFiniteSet(LinesBefore(places, n))
                                      /\ Cardinality(LinesBefore(places, n)) \in Nat
         /\ Cardinality(LinesBefore(places, 0)) = 0
         /\ \A n \in 1..Len(places) :
               Cardinality(LinesBefore(places, n)) =
                  Cardinality(LinesBefore(places, n - 1)) + LinesIn(places, n)
         /\ \A n, m \in 0..Len(places) : n <= m =>
               Cardinality(LinesBefore(places, n)) <= Cardinality(LinesBefore(places, m))
  <1> DEFINE row(m) == {m} \X (DOMAIN Shelf[places[m]].lines)
  <1>1. Len(places) \in Nat
    OBVIOUS
  <1>2. ASSUME NEW m \in 1..Len(places) PROVE IsFiniteSet(row(m))
    <2>1. row(m) = {m} \X (1..LinesIn(places, m)) /\ LinesIn(places, m) \in Nat
      BY LinesAre
    <2>2. IsFiniteSet({m} \X (1..LinesIn(places, m)))
      BY <2>1, Rows
    <2>3. QED BY <2>1, <2>2
  <1>3. ASSUME NEW n \in 0..Len(places)
        PROVE  IsFiniteSet(LinesBefore(places, n)) /\ Cardinality(LinesBefore(places, n)) \in Nat
    <2> DEFINE rows == {row(m) : m \in 1..n}
    <2>1. IsFiniteSet(1..n)
      BY <1>1, FS_Interval
    <2>2. IsFiniteSet(rows)
      <3>1. [m \in 1..n |-> row(m)] \in Surjection(1..n, rows)
        BY DEF Surjection
      <3> HIDE DEF rows
      <3>2. QED BY <2>1, <3>1, FS_Surjection
    <2>3. \A T \in rows : IsFiniteSet(T)
      <3>1. \A m \in 1..n : m \in 1..Len(places)
        BY <1>1
      <3>2. QED BY <1>2, <3>1
    <2>4. LinesBefore(places, n) = UNION rows
      BY DEF LinesBefore
    <2> HIDE DEF rows
    <2>5. IsFiniteSet(UNION rows)
      BY <2>2, <2>3, FS_UNION
    <2>6. QED BY <2>4, <2>5, FS_CardinalityType
  <1>4. Cardinality(LinesBefore(places, 0)) = 0
    <2>1. LinesBefore(places, 0) = {}
      BY DEF LinesBefore
    <2>2. QED BY <2>1, FS_EmptySet
  <1>5. ASSUME NEW n \in 1..Len(places)
        PROVE  Cardinality(LinesBefore(places, n)) =
                  Cardinality(LinesBefore(places, n - 1)) + LinesIn(places, n)
    <2> DEFINE before == LinesBefore(places, n - 1)
               here == {n} \X (1..LinesIn(places, n))
    <2>1. n - 1 \in 0..Len(places) /\ LinesIn(places, n) \in Nat
      BY <1>1, LinesAre
    <2>2. IsFiniteSet(before) /\ Cardinality(before) \in Nat
      BY <1>3, <2>1
    <2>3. IsFiniteSet(here) /\ Cardinality(here) = LinesIn(places, n)
      BY <2>1, Rows
    <2>4. before \cap here = {}
      BY DEF LinesBefore
    <2>5. LinesBefore(places, n) = before \cup here
      BY LinesAdded
    <2> HIDE DEF before, here
    <2>6. Cardinality(before \cup here) = Cardinality(before) + Cardinality(here) - Cardinality({})
      BY <2>2, <2>3, <2>4, FS_Union
    <2>7. QED BY <2>1, <2>2, <2>3, <2>5, <2>6, FS_EmptySet DEF before
  <1>6. ASSUME NEW n \in 0..Len(places), NEW m \in 0..Len(places), n <= m
        PROVE  Cardinality(LinesBefore(places, n)) <= Cardinality(LinesBefore(places, m))
    <2>1. 1..n \in SUBSET (1..m)
      BY <1>1, <1>6
    <2>2. LinesBefore(places, n) \in SUBSET LinesBefore(places, m)
      BY <2>1 DEF LinesBefore
    <2>3. QED BY <1>3, <2>2, FS_Subset
  <1>7. QED BY <1>3, <1>4, <1>5, <1>6

\* The lines that are kept of a list of chunks.
KeptOf(list) == UNION {{n} \X (1..list[n].lines) : n \in DOMAIN list}

Item == [place : Places, lines : 0..MaxContext]

\* The context budget: the chunks kept are the first ones, whole but for the last,
\* and either all of them are kept or the budget is spent exactly.
LEMMA BudgetKeeps ==
  ASSUME NEW places \in Seq(Places), Len(places) >= 1
  PROVE  LET list == Budgeted(places) IN
         /\ list \in Seq(Item)
         /\ Len(list) \in 1..Len(places)
         /\ \A n \in 1..Len(list) : /\ list[n].place = places[n]
                                    /\ list[n].lines <= LinesIn(places, n)
         /\ Cardinality(KeptOf(list)) <= MaxContext
         /\ Len(list) = Len(places) \/ Cardinality(KeptOf(list)) = MaxContext
  <1> DEFINE N == Len(places)
             used(n) == Cardinality(LinesBefore(places, n - 1))
             within == {n \in DOMAIN places : used(n) < MaxContext}
             list == Budgeted(places)
             left(n) == Least(LinesIn(places, n), MaxContext - used(n))
  <1>1. N \in Nat /\ DOMAIN places = 1..N /\ N >= 1
    OBVIOUS
  <1>2. /\ \A n \in 1..N : /\ used(n) \in Nat
                           /\ LinesIn(places, n) \in Nat
                           /\ Cardinality(LinesBefore(places, n)) = used(n) + LinesIn(places, n)
        /\ used(1) = 0
        /\ \A n, m \in 1..N : n <= m => used(n) <= used(m)
    <2>1. \A n \in 1..N : n - 1 \in 0..N
      BY <1>1
    <2>2. 1 - 1 = 0
      OBVIOUS
    <2>3. \A n, m \in 1..N : n <= m => n - 1 <= m - 1
      BY <1>1
    <2>4. \A n \in 1..N : LinesIn(places, n) \in Nat
      BY LinesAre
    <2>5. \A n \in 1..N : used(n) \in Nat
      BY <2>1, LinesUsed
    <2>6. \A n \in 1..N : Cardinality(LinesBefore(places, n)) = used(n) + LinesIn(places, n)
      BY LinesUsed
    <2>7. used(1) = 0
      BY <2>2, LinesUsed
    <2>8. \A n, m \in 1..N : n <= m => used(n) <= used(m)
      BY <2>1, <2>3, LinesUsed
    <2>9. QED BY <2>4, <2>5, <2>6, <2>7, <2>8
  <1>3. \A n \in 1..N : n < N => used(n + 1) = used(n) + LinesIn(places, n)
    <2> TAKE n \in 1..N
    <2>1. (n + 1) - 1 = n
      OBVIOUS
    <2>2. QED BY <1>2, <2>1
  <1>4. \E M \in 1..N : within = 1..M
    <2>1. within \in SUBSET (0..N) /\ 1 \in within
      BY <1>1, <1>2, ShelfIs
    <2>2. PICK M \in within : \A n \in within : n <= M
      <3> HIDE DEF within
      <3>1. QED BY <1>1, <2>1, GreatestNumber
    <2>3. M \in 1..N
      BY <1>1
    <2>4. \A n \in 1..M : n \in within
      BY <1>1, <1>2, <2>3, ShelfIs
    <2>5. \A n \in within : n \in 1..M
      BY <1>1, <2>2
    <2>6. QED BY <2>3, <2>4, <2>5
  <1>5. PICK M \in 1..N : within = 1..M
    BY <1>4
  <1>6. Cardinality(within) = M
    <2>1. \A k \in Nat : Cardinality(1..k) = k
      BY FS_Interval
    <2>2. M \in Nat
      BY <1>1
    <2>3. Cardinality(1..M) = M
      BY <2>1, <2>2
    <2> HIDE DEF within
    <2>4. QED BY <1>5, <2>3
  <1>7. \A n \in 1..M : n \in 1..N /\ used(n) < MaxContext
    BY <1>5, <1>1
  <1>8. list = [n \in 1..M |-> [place |-> places[n], lines |-> left(n)]]
    BY <1>6 DEF Budgeted, LinesIn
  <1> HIDE DEF within, used, list, N
  <1>9. \A n \in 1..M : left(n) \in 0..MaxContext /\ left(n) <= LinesIn(places, n)
                        /\ left(n) <= MaxContext - used(n)
    BY <1>2, <1>7, ShelfIs DEF Least
  <1> HIDE DEF left
  <1>10. /\ list \in Seq(Item) /\ Len(list) = M /\ DOMAIN list = 1..M
         /\ \A n \in 1..M : list[n].place = places[n] /\ list[n].lines = left(n)
    <2>1. \A n \in 1..M : [place |-> places[n], lines |-> left(n)] \in Item
      BY <1>1, <1>7, <1>9, LinesAre DEF Item, N
    <2>2. M \in Nat
      BY <1>1
    <2>3. list \in [1..M -> Item]
      BY <1>8, <2>1
    <2>4. QED BY <1>8, <2>2, <2>3
  <1>11. \A n \in 1..M : n < M => left(n) = LinesIn(places, n)
    <2> SUFFICES ASSUME NEW n \in 1..M, n < M PROVE left(n) = LinesIn(places, n)
      OBVIOUS
    <2>1. n + 1 \in 1..M /\ n \in 1..N /\ n < N
      BY <1>1
    <2>2. used(n) + LinesIn(places, n) < MaxContext
      BY <1>3, <1>7, <2>1
    <2>3. QED BY <1>2, <2>1, <2>2, ShelfIs DEF left, Least
  <1>12. KeptOf(list) = LinesBefore(places, M - 1) \cup ({M} \X (1..left(M)))
    <2>1. 1..M = (1..(M - 1)) \cup {M}
      BY <1>1
    <2>2. \A n \in 1..(M - 1) : /\ n \in 1..M
                                /\ 1..list[n].lines = DOMAIN Shelf[places[n]].lines
      <3> TAKE n \in 1..(M - 1)
      <3>1. n \in 1..M /\ n < M /\ n \in 1..N
        BY <1>1
      <3>2. QED BY <1>10, <1>11, <3>1, LinesAre DEF N
    <2>3. M \in 1..M /\ list[M].lines = left(M)
      BY <1>1, <1>10
    <2> DEFINE row(n) == {n} \X (1..list[n].lines)
               before(n) == {n} \X (DOMAIN Shelf[places[n]].lines)
    <2>4. KeptOf(list) = UNION {row(n) : n \in 1..M}
      BY <1>10 DEF KeptOf
    <2>5. LinesBefore(places, M - 1) = UNION {before(n) : n \in 1..(M - 1)}
      BY DEF LinesBefore
    <2>6. \A n \in 1..(M - 1) : row(n) = before(n)
      BY <2>2
    <2>7. row(M) = {M} \X (1..left(M))
      BY <2>3
    <2> HIDE DEF row, before
    <2>8. KeptOf(list) = (UNION {row(n) : n \in 1..(M - 1)}) \cup row(M)
      BY <2>1, <2>4
    <2>9. UNION {row(n) : n \in 1..(M - 1)} = UNION {before(n) : n \in 1..(M - 1)}
      BY <2>6
    <2>10. QED BY <2>5, <2>7, <2>8, <2>9
  <1>13. Cardinality(KeptOf(list)) = used(M) + left(M)
    <2> DEFINE before == LinesBefore(places, M - 1)
               here == {M} \X (1..left(M))
    <2>1. M - 1 \in 0..N /\ M \in 1..M
      BY <1>1
    <2>2. IsFiniteSet(before) /\ Cardinality(before) = used(M) /\ used(M) \in Nat
      BY <1>2, <2>1, LinesUsed DEF used, N
    <2>3. left(M) \in Nat
      BY <1>9, <2>1, ShelfIs
    <2>4. IsFiniteSet(here) /\ Cardinality(here) = left(M)
      BY <2>3, Rows
    <2>5. before \cap here = {}
      BY DEF LinesBefore
    <2> HIDE DEF before, here
    <2>6. Cardinality(before \cup here) = Cardinality(before) + Cardinality(here) - Cardinality({})
      BY <2>2, <2>4, <2>5, FS_Union
    <2>7. QED BY <1>12, <2>2, <2>3, <2>4, <2>6, FS_EmptySet DEF before, here
  <1>14. M \in 1..M /\ M \in 1..N /\ used(M) \in Nat /\ left(M) \in Nat
    <2>1. M \in 1..M
      BY <1>1
    <2>2. QED BY <1>2, <1>9, <2>1, ShelfIs
  <1>15. Cardinality(KeptOf(list)) <= MaxContext
    BY <1>9, <1>13, <1>14, ShelfIs
  <1>16. M = N \/ Cardinality(KeptOf(list)) = MaxContext
    <2> SUFFICES ASSUME M # N PROVE used(M) + left(M) = MaxContext
      BY <1>13
    <2>1. M + 1 \in 1..N /\ M + 1 \notin within /\ M < N
      BY <1>1, <1>5
    <2>2. used(M + 1) >= MaxContext
      BY <1>1, <1>2, <2>1, ShelfIs DEF within
    <2>3. used(M) + LinesIn(places, M) >= MaxContext
      BY <1>3, <1>14, <2>1, <2>2
    <2>4. QED BY <1>2, <1>14, <2>3, ShelfIs DEF left, Least
  <1>17. \A n \in 1..M : list[n].place = places[n] /\ list[n].lines <= LinesIn(places, n)
    BY <1>9, <1>10
  <1>18. QED BY <1>10, <1>15, <1>16, <1>17 DEF list, N

\* What a retrieval selects, unless it selects nothing.
LEMMA SelectionIs ==
  ASSUME Asked, NEW list, list = Selection, list # << >>
  PROVE  /\ Found # {} /\ Fine(CoveredSections) /\ list = Budgeted(CoveredSections)
         /\ list \in Seq(Item) /\ Len(list) \in 1..Len(CoveredSections) /\ Len(list) \in 1..TopK
         /\ \A n \in 1..Len(list) :
               /\ list[n].place = CoveredSections[n]
               /\ list[n].place \in Found
               /\ list[n].lines \in Nat /\ list[n].lines <= Len(Shelf[list[n].place].lines)
         /\ Cardinality(KeptOf(list)) <= MaxContext
         /\ Len(list) = Len(CoveredSections) \/ Cardinality(KeptOf(list)) = MaxContext
  <1>1. Found # {} /\ list = Budgeted(CoveredSections)
    BY DEF Selection
  <1>2. Fine(CoveredSections)
    BY <1>1, SectionsFine
  <1> DEFINE places == CoveredSections
  <1> HIDE DEF places
  <1>3. /\ places \in Seq(Found) /\ Len(places) \in Nat /\ Len(places) \in 1..TopK
        /\ \A n \in 1..Len(places) : places[n] \in Found
    <2>1. places \in Seq(Found) /\ Len(places) \in 1..TopK
      BY <1>2 DEF Fine, places
    <2>2. QED BY <2>1, ElementOfSeq, LenProperties
  <1>4. places \in Seq(Places) /\ Len(places) >= 1
    <2>1. Found \in SUBSET Places
      BY DEF Found
    <2>2. QED BY <1>3, <2>1
  <1>5. /\ list \in Seq(Item)
        /\ Len(list) \in 1..Len(places)
        /\ \A n \in 1..Len(list) : /\ list[n].place = places[n]
                                   /\ list[n].lines <= LinesIn(places, n)
        /\ Cardinality(KeptOf(list)) <= MaxContext
        /\ Len(list) = Len(places) \/ Cardinality(KeptOf(list)) = MaxContext
    BY <1>1, <1>4, BudgetKeeps DEF places
  <1>6. Len(list) \in 1..TopK
    BY <1>3, <1>5, ShelfIs
  <1>7. ASSUME NEW n \in 1..Len(list)
        PROVE  /\ list[n].place \in Found
               /\ list[n].lines \in Nat /\ list[n].lines <= Len(Shelf[list[n].place].lines)
    <2>1. n \in 1..Len(places) /\ list[n] \in Item
      BY <1>3, <1>5, ElementOfSeq
    <2>2. list[n].lines \in Nat
      BY <2>1, ShelfIs DEF Item
    <2>3. QED BY <1>3, <1>5, <2>1, <2>2 DEF LinesIn
  <1>8. QED BY <1>1, <1>2, <1>5, <1>6, <1>7 DEF places

\* What is selected is about a runbook that matches best and holds what was
\* asked for.
Covers(list) ==
    LET chosen == {list[n].place : n \in DOMAIN list}
        best == {Shelf[i].runbook : i \in {i \in Found : \A j \in Found : scores[j] <= scores[i]}}
        full == Cardinality(chosen) = TopK /\ \A i \in chosen : IsRequested(i)
        spent == Cardinality(KeptOf(list)) = MaxContext
    IN  /\ Cardinality(chosen) = Len(list)
        /\ (\E i \in chosen : Shelf[i].runbook \in best) \/ spent
        /\ \A i \in Found : Shelf[i].runbook = StrongestRunbook /\ IsRequested(i) =>
              \/ \E j \in chosen : Key(Shelf[j]) = Key(Shelf[i])
              \/ full \/ spent

\* A selection that is not empty does.
LEMMA SelectionCovers ==
  ASSUME Asked, NEW list, list = Selection, list # << >>
  PROVE  Covers(list)
  <1> DEFINE chosen == {list[n].place : n \in DOMAIN list}
             best == {Shelf[i].runbook :
                        i \in {i \in Found : \A j \in Found : scores[j] <= scores[i]}}
             spent == Cardinality(KeptOf(list)) = MaxContext
             places == CoveredSections
             N == Len(places)
             M == Len(list)
  <1>1. /\ Fine(places)
        /\ list \in Seq(Item) /\ M \in 1..N
        /\ \A n \in 1..M : list[n].place = places[n]
        /\ M = N \/ Cardinality(KeptOf(list)) = MaxContext
    BY SelectionIs
  <1> HIDE DEF places
  <1>2. N \in Nat /\ DOMAIN list = 1..M /\ M \in Nat
    BY <1>1 DEF Fine
  <1>3. \A n \in 1..M : n \in 1..N
    BY <1>1, <1>2
  <1>4. chosen = {places[n] : n \in 1..M}
    BY <1>1, <1>2
  <1>5. Cardinality(chosen) = M
    <2> DEFINE f == [n \in 1..M |-> places[n]]
    <2>1. f \in Surjection(1..M, chosen)
      BY <1>4 DEF Surjection
    <2>2. f \in Injection(1..M, chosen)
      BY <1>1, <1>3, <1>4 DEF Injection, IsInjective, Fine
    <2>3. IsFiniteSet(1..M) /\ Cardinality(1..M) = M
      BY <1>2, FS_Interval
    <2> HIDE DEF f, chosen
    <2>4. QED BY <2>1, <2>2, <2>3, FS_Surjection
  <1>6. ASSUME ~spent
        PROVE  /\ \E i \in chosen : Shelf[i].runbook \in best
               /\ \A i \in Found : Shelf[i].runbook = StrongestRunbook /\ IsRequested(i) =>
                     \/ \E j \in chosen : Key(Shelf[j]) = Key(Shelf[i])
                     \/ M = TopK /\ \A j \in chosen : IsRequested(j)
    <2>1. M = N /\ chosen = {places[n] : n \in 1..N}
      BY <1>1, <1>4, <1>6
    <2> HIDE DEF M, N, chosen, spent
    <2>2. \E i \in chosen : Shelf[i].runbook \in best
      <3>1. PICK n \in 1..N : BestRunbook(Shelf[places[n]].runbook)
        BY <1>1 DEF Fine, N
      <3>2. QED BY <2>1, <3>1 DEF BestRunbook
    <2>3. ASSUME NEW i \in Found, Shelf[i].runbook = StrongestRunbook, IsRequested(i)
          PROVE  \/ \E j \in chosen : Key(Shelf[j]) = Key(Shelf[i])
                 \/ M = TopK /\ \A j \in chosen : IsRequested(j)
      <3>1. PICK l \in DOMAIN Requested : Requested[l] = Shelf[i].section
        BY <2>3 DEF IsRequested
      <3>2. i \in OwnChunks(Requested[l])
        BY <2>3, <3>1 DEF OwnChunks
      <3>3. Settled(places, Requested[l])
        BY SelectionIs, SectionsFine DEF places
      <3>4. CASE HoldsSection(places, Requested[l])
        <4>1. PICK n \in 1..N : places[n] \in OwnChunks(Requested[l])
          BY <3>4 DEF HoldsSection, N
        <4>2. Key(Shelf[places[n]]) = Key(Shelf[i])
          BY <2>3, <3>1, <4>1 DEF OwnChunks, Key
        <4>3. QED BY <2>1, <4>1, <4>2
      <3>5. CASE AllRequested(places)
        BY <2>1, <3>5 DEF AllRequested, N
      <3>6. QED BY <3>2, <3>3, <3>4, <3>5 DEF Settled
    <2>4. QED BY <2>2, <2>3
  <1>7. QED BY <1>5, <1>6 DEF Covers

-----------------------------------------------------------------------------
(* What the answer is put together from *)

\* The chunks that may be cited, all retrieved.
Citable(list) ==
    /\ list \in Seq(Item) /\ Len(list) >= 1
    /\ \A n \in 1..Len(list) :
          list[n].lines \in Nat /\ list[n].lines <= Len(Shelf[list[n].place].lines)

\* Their places and the lines shown of them.
LEMMA CitableIs ==
  ASSUME Citable(selected)
  PROVE  /\ Len(selected) \in Nat /\ DOMAIN selected = 1..Len(selected)
         /\ \A n \in DOMAIN selected :
               /\ selected[n].place \in Places
               /\ selected[n].lines \in Nat
               /\ DOMAIN Shown(selected[n]) = 1..selected[n].lines
         /\ DOMAIN selected # {}
  <1>1. Len(selected) \in Nat /\ DOMAIN selected = 1..Len(selected) /\ Len(selected) >= 1
    BY DEF Citable
  <1>2. ASSUME NEW n \in DOMAIN selected
        PROVE  /\ selected[n].place \in Places
               /\ selected[n].lines \in Nat
               /\ DOMAIN Shown(selected[n]) = 1..selected[n].lines
    <2>1. selected[n] \in Item /\ n \in 1..Len(selected)
      BY <1>1, ElementOfSeq DEF Citable
    <2>2. selected[n].place \in Places
      BY <2>1 DEF Item
    <2> DEFINE lines == Shelf[selected[n].place].lines
               k == selected[n].lines
    <2>3. lines \in Seq(Texts)
      BY <2>2, ShelfIs DEF Chunk
    <2>4. k \in Nat /\ k <= Len(lines) /\ Len(lines) \in Nat
      BY <2>1, <2>3 DEF Citable
    <2>5. Shown(selected[n]) = SubSeq(lines, 1, k)
      BY DEF Shown
    <2> HIDE DEF lines, k
    <2>6. SubSeq(lines, 1, k) \in Seq(Texts) /\ Len(SubSeq(lines, 1, k)) = k
      BY <2>3, <2>4, SubSeqProperties
    <2>7. QED BY <2>2, <2>4, <2>5, <2>6 DEF k
  <1>3. QED BY <1>1, <1>2

\* A chunk stands for each citation.
LEMMA AvailableIs ==
  ASSUME Citable(selected), NEW key \in Cited
  PROVE  \E n \in DOMAIN selected :
            Available(key) = selected[n] /\ Key(Shelf[selected[n].place]) = key
  <1> DEFINE same == {n \in DOMAIN selected : Key(Shelf[selected[n].place]) = key}
  <1>1. same # {}
    BY DEF Cited
  <1>2. same \in SUBSET (0..Len(selected)) /\ Len(selected) \in Nat
    BY CitableIs
  <1>3. Available(key) = selected[CHOOSE n \in same : \A m \in same : m <= n]
    BY DEF Available
  <1>4. \E n \in same : \A m \in same : m <= n
    <2> HIDE DEF same
    <2>1. QED BY <1>1, <1>2, GreatestNumber
  <1>5. (CHOOSE n \in same : \A m \in same : m <= n) \in same
    <2> HIDE DEF same
    <2>1. QED BY <1>4
  <1>6. QED BY <1>3, <1>5

\* A family of finite sets has a finite union.
LEMMA FiniteFamily ==
  ASSUME NEW f, IsFiniteSet(DOMAIN f), \A x \in DOMAIN f : IsFiniteSet(f[x])
  PROVE  IsFiniteSet(UNION {f[x] : x \in DOMAIN f})
  <1> DEFINE sets == {f[x] : x \in DOMAIN f}
  <1>1. [x \in DOMAIN f |-> f[x]] \in Surjection(DOMAIN f, sets)
    BY DEF Surjection
  <1>2. \A T \in sets : IsFiniteSet(T)
    OBVIOUS
  <1> HIDE DEF sets
  <1>3. IsFiniteSet(sets)
    BY <1>1, FS_Surjection
  <1>4. IsFiniteSet(UNION sets)
    BY <1>2, <1>3, FS_UNION
  <1>5. QED BY <1>4 DEF sets

ShownAnywhere(line) == \E n \in DOMAIN selected : line \in ShownLines(selected[n])

\* What a section tells are lines shown of selected chunks.
LEMMA LinesOfShown ==
  ASSUME Citable(selected), NEW section
  PROVE  /\ Len(LinesOf(section)) \in Nat
         /\ \A m \in 1..Len(LinesOf(section)) : ShownAnywhere(LinesOf(section)[m])
  <1> DEFINE own == {n \in DOMAIN selected : Shelf[selected[n].place].section = section}
             width(n) == Least(selected[n].lines, 4)
             told == UNION {{n} \X (1..width(n)) : n \in own}
             before(x, y) == x[1] < y[1] \/ (x[1] = y[1] /\ x[2] < y[2])
             R == {p \in told \X told : before(p[1], p[2])}
             order == Sorted(told, R)
  <1>1. LinesOf(section) = [m \in DOMAIN order |-> Shown(selected[order[m][1]])[order[m][2]]]
    BY DEF LinesOf
  <1>2. \A n \in own : n \in DOMAIN selected /\ n \in Nat /\ width(n) \in Nat
                       /\ width(n) <= selected[n].lines
    BY CitableIs DEF Least
  <1> HIDE DEF width
  <1>3. \A x \in told : \E n \in own : \E k \in 1..width(n) : x = <<n, k>>
    OBVIOUS
  <1>4. \A x \in told : /\ x = <<x[1], x[2]>> /\ x[1] \in Nat /\ x[2] \in Nat
                        /\ x[1] \in own /\ x[2] \in 1..width(x[1])
    BY <1>2, <1>3
  <1>5. IsFiniteSet(told)
    <2> DEFINE f == [n \in own |-> {n} \X (1..width(n))]
    <2>1. IsFiniteSet(own)
      <3>1. IsFiniteSet(DOMAIN selected)
        BY CitableIs, FS_Interval
      <3>2. QED BY <3>1, FS_Subset
    <2>2. \A n \in own : IsFiniteSet({n} \X (1..width(n)))
      BY <1>2, Rows
    <2>3. DOMAIN f = own /\ \A n \in own : f[n] = {n} \X (1..width(n))
      OBVIOUS
    <2>4. told = UNION {f[n] : n \in DOMAIN f}
      OBVIOUS
    <2> HIDE DEF f, told, own
    <2>5. QED BY <2>1, <2>2, <2>3, <2>4, FiniteFamily
  <1>6. \A x, y \in told : <<x, y>> \in R <=> before(x, y)
    OBVIOUS
  <1> HIDE DEF told, R
  <1>7. StrictOrder(told, R)
    <2>1. \A x \in told : <<x, x>> \notin R
      BY <1>4, <1>6
    <2>2. \A x, y, z \in told : <<x, y>> \in R /\ <<y, z>> \in R => <<x, z>> \in R
      <3> TAKE x, y, z \in told
      <3>1. x[1] \in Nat /\ x[2] \in Nat /\ y[1] \in Nat /\ y[2] \in Nat /\ z[1] \in Nat /\ z[2] \in Nat
        BY <1>4
      <3>2. QED BY <1>6, <3>1
    <2>3. \A x, y \in told : x # y => <<x, y>> \in R \/ <<y, x>> \in R
      <3> TAKE x, y \in told
      <3>1. /\ x[1] \in Nat /\ x[2] \in Nat /\ y[1] \in Nat /\ y[2] \in Nat
            /\ x = <<x[1], x[2]>> /\ y = <<y[1], y[2]>>
        BY <1>4
      <3>2. QED BY <1>6, <3>1
    <2>4. QED BY <2>1, <2>2, <2>3 DEF StrictOrder
  <1>8. /\ Cardinality(told) \in Nat
        /\ order \in [1..Cardinality(told) -> told]
        /\ DOMAIN order = 1..Cardinality(told)
    BY <1>5, <1>7, SortedLists
  <1> HIDE DEF order
  <1>9. Len(LinesOf(section)) = Cardinality(told)
    <2> DEFINE line(m) == Shown(selected[order[m][1]])[order[m][2]]
               c == Cardinality(told)
    <2>1. LinesOf(section) = [m \in 1..c |-> line(m)] /\ c \in Nat
      BY <1>1, <1>8
    <2> HIDE DEF line, c
    <2>2. QED BY <2>1 DEF c
  <1>10. ASSUME NEW m \in 1..Cardinality(told) PROVE ShownAnywhere(LinesOf(section)[m])
    <2> DEFINE n == order[m][1]
               k == order[m][2]
    <2>1. n \in own /\ k \in 1..width(n)
      BY <1>4, <1>8
    <2>2. n \in DOMAIN selected /\ k \in 1..selected[n].lines
      <3>1. selected[n].lines \in Nat
        BY <1>2, <2>1, CitableIs
      <3>2. QED BY <1>2, <2>1, <3>1
    <2>3. k \in DOMAIN Shown(selected[n])
      BY <2>2, CitableIs
    <2>4. LinesOf(section)[m] = Shown(selected[n])[k]
      BY <1>1, <1>8
    <2>5. QED BY <2>2, <2>3, <2>4 DEF ShownAnywhere, ShownLines
  <1>11. QED BY <1>8, <1>9, <1>10

\* So is every paragraph of the answer.
LEMMA PutTogetherShown ==
  ASSUME Citable(selected), NEW line \in PutTogether
  PROVE  ShownAnywhere(line)
  <1>1. \/ line \in First(LinesOf("symptoms"), 1) \/ line \in First(LinesOf("recovery_steps"), 5)
        \/ line \in First(LinesOf("diagnostic_steps"), 5)
        \/ line \in First(LinesOf("verification"), 1)
    BY DEF PutTogether
  <1>2. PICK section \in Sections : \E n \in Nat : line \in First(LinesOf(section), n)
    BY <1>1 DEF Sections
  <1> PICK n \in Nat : line \in First(LinesOf(section), n)
    BY <1>2
  <1>3. PICK m \in 1..Least(Len(LinesOf(section)), n) : line = LinesOf(section)[m]
    BY DEF First
  <1>4. m \in 1..Len(LinesOf(section))
    BY <1>3, LinesOfShown DEF Least
  <1>5. QED BY <1>3, <1>4, LinesOfShown

\* The claim put with such an answer quotes a line that is in it.
LEMMA FirstClaimQuotes ==
  ASSUME Citable(selected), NEW claim \in FirstClaim
  PROVE  /\ \E n \in DOMAIN selected : /\ Key(Shelf[selected[n].place]) = claim.key
                                       /\ claim.excerpt \in ShownLines(selected[n])
         /\ claim.text \subseteq UNION PutTogether
  <1> DEFINE inAnswer(line) == \E other \in PutTogether : line \subseteq other
             telling == {n \in DOMAIN selected : \E line \in ShownLines(selected[n]) : inAnswer(line)}
             first == CHOOSE n \in telling : \A m \in telling : n <= m
             item == selected[first]
             told == {n \in DOMAIN Shown(item) : inAnswer(Shown(item)[n])}
             at == CHOOSE n \in DOMAIN Shown(item) :
                      inAnswer(Shown(item)[n]) /\ \A m \in 1..n - 1 : ~inAnswer(Shown(item)[m])
  <1>1. /\ telling # {}
        /\ claim = [key |-> Key(Shelf[item.place]), excerpt |-> Shown(item)[at],
                    text |-> Shown(item)[at]]
    BY DEF FirstClaim
  <1>2. first \in telling
    <2>1. telling \in SUBSET Nat
      BY CitableIs
    <2>2. first = CHOOSE n \in telling : \A m \in telling : n <= m
      OBVIOUS
    <2> HIDE DEF telling, first
    <2>3. \E n \in telling : \A m \in telling : n <= m
      BY <1>1, <2>1, LeastNumber
    <2>4. QED BY <2>2, <2>3
  <1>3. first \in DOMAIN selected /\ \E line \in ShownLines(item) : inAnswer(line)
    <2> HIDE DEF first, inAnswer
    <2>1. QED BY <1>2
  <1>4. DOMAIN Shown(item) = 1..item.lines /\ item.lines \in Nat
    <2> HIDE DEF first
    <2>1. QED BY <1>3, CitableIs
  <1> HIDE DEF first, item, inAnswer
  <1>5. told # {}
    BY <1>3 DEF ShownLines
  <1>6. PICK n \in told : \A m \in told : n <= m
    <2>1. told \in SUBSET Nat
      BY <1>4
    <2> HIDE DEF told
    <2>2. QED BY <1>5, <2>1, LeastNumber
  <1>7. n \in DOMAIN Shown(item) /\ inAnswer(Shown(item)[n])
        /\ \A m \in 1..n - 1 : ~inAnswer(Shown(item)[m])
    <2>1. \A m \in 1..n - 1 : m \in DOMAIN Shown(item) /\ ~(n <= m)
      BY <1>4
    <2>2. QED BY <1>6, <2>1
  <1>8. at \in DOMAIN Shown(item) /\ inAnswer(Shown(item)[at])
    BY <1>7
  <1> HIDE DEF at
  <1>9. Shown(item)[at] \in ShownLines(item)
    BY <1>8 DEF ShownLines
  <1>10. Shown(item)[at] \subseteq UNION PutTogether
    BY <1>8 DEF inAnswer
  <1>11. QED BY <1>1, <1>3, <1>9, <1>10 DEF item

\* What is published is supported by the chunks selected.
SupportedBy(words) ==
    LET cited == {selected[n] : n \in {n \in DOMAIN selected :
                    Key(Shelf[selected[n].place]) \in words.citations}}
    IN  /\ words.citations # {} /\ words.citations \subseteq Cited
        /\ words.words \cap Identifiers \subseteq UNION {Supported(item) : item \in cited}
        /\ \A claim \in words.claims :
              /\ \E item \in cited : /\ Key(Shelf[item.place]) = claim.key
                                      /\ claim.excerpt \in ShownLines(item)
              /\ claim.text \subseteq words.words

Composing == phase \in {"compose", "answered"}

\* What a retrieval leaves to compose from.
Retrieved(list) == Citable(list) /\ Len(list) <= TopK /\ Cardinality(KeptOf(list)) <= MaxContext

GuidanceInv ==
    /\ Asked
    /\ phase \in {"search", "retrieve", "compose", "answered", "unanswered", "failed"}
    /\ tries \in 0..3
    /\ IF Composing THEN Retrieved(selected) /\ Covers(selected) ELSE selected = << >>
    /\ phase # "answered" => guidance = NoGuidance
    /\ phase = "answered" => SupportedBy(guidance)

\* A retrieval that selects anything leaves as much.
LEMMA SelectionRetrieved ==
  ASSUME Asked, NEW list, list = Selection, list # << >>
  PROVE  Retrieved(list) /\ Covers(list)
  <1>1. /\ list \in Seq(Item) /\ Len(list) \in 1..TopK
        /\ \A n \in 1..Len(list) :
              list[n].lines \in Nat /\ list[n].lines <= Len(Shelf[list[n].place].lines)
        /\ Cardinality(KeptOf(list)) <= MaxContext
    BY SelectionIs
  <1>2. Len(list) >= 1 /\ Len(list) <= TopK
    BY <1>1, ShelfIs
  <1>3. QED BY <1>1, <1>2, SelectionCovers DEF Retrieved, Citable

\* The words of a model.
LEMMA ReplySupported ==
  ASSUME Citable(selected), NEW reply, ValidGuidance(reply)
  PROVE  SupportedBy([by |-> "model", words |-> reply.answer, citations |-> reply.citations,
                      claims |-> reply.claims])
  <1> DEFINE words == [by |-> "model", words |-> reply.answer, citations |-> reply.citations,
                       claims |-> reply.claims]
             cited == {selected[n] : n \in {n \in DOMAIN selected :
                         Key(Shelf[selected[n].place]) \in words.citations}}
  <1>1. /\ reply.citations # {} /\ reply.citations \subseteq Cited
        /\ \A claim \in reply.claims : ValidQuote(claim, reply)
        /\ reply.answer \cap Identifiers
              \subseteq UNION {Supported(Available(key)) : key \in reply.citations}
    BY DEF ValidGuidance
  <1>2. ASSUME NEW key \in reply.citations
        PROVE  Available(key) \in cited /\ Key(Shelf[Available(key).place]) = key
    <2>1. key \in Cited
      BY <1>1
    <2>2. PICK n \in DOMAIN selected :
             Available(key) = selected[n] /\ Key(Shelf[selected[n].place]) = key
      BY <2>1, AvailableIs
    <2>3. QED BY <2>2
  <1>3. words.words \cap Identifiers \subseteq UNION {Supported(item) : item \in cited}
    <2> HIDE DEF cited
    <2>1. {Supported(Available(key)) : key \in reply.citations}
             \subseteq {Supported(item) : item \in cited}
      BY <1>2
    <2>2. QED BY <1>1, <2>1
  <1>4. ASSUME NEW claim \in words.claims
        PROVE  /\ \E item \in cited : /\ Key(Shelf[item.place]) = claim.key
                                       /\ claim.excerpt \in ShownLines(item)
               /\ claim.text \subseteq words.words
    <2>1. /\ claim.key \in reply.citations
          /\ claim.excerpt \in ShownLines(Available(claim.key))
          /\ claim.text \subseteq reply.answer
      BY <1>1 DEF ValidQuote
    <2> HIDE DEF cited
    <2>2. QED BY <1>2, <2>1
  <1>5. QED BY <1>1, <1>3, <1>4 DEF SupportedBy

\* The words of the backend.
LEMMA BackendSupported ==
  ASSUME Citable(selected)
  PROVE  SupportedBy([by |-> "backend", words |-> UNION PutTogether, citations |-> Cited,
                      claims |-> FirstClaim])
  <1> DEFINE words == [by |-> "backend", words |-> UNION PutTogether, citations |-> Cited,
                       claims |-> FirstClaim]
             cited == {selected[n] : n \in {n \in DOMAIN selected :
                         Key(Shelf[selected[n].place]) \in words.citations}}
  <1>1. Cited # {}
    BY CitableIs DEF Cited
  <1>2. \A n \in DOMAIN selected : selected[n] \in cited
    BY DEF Cited
  <1>3. words.words \cap Identifiers \subseteq UNION {Supported(item) : item \in cited}
    <2> SUFFICES ASSUME NEW line \in PutTogether, NEW x \in line
                 PROVE  x \in UNION {Supported(item) : item \in cited}
      OBVIOUS
    <2>1. PICK n \in DOMAIN selected : line \in ShownLines(selected[n])
      BY PutTogetherShown DEF ShownAnywhere
    <2>2. x \in Supported(selected[n])
      BY <2>1 DEF Supported
    <2> HIDE DEF cited
    <2>3. QED BY <1>2, <2>2
  <1>4. ASSUME NEW claim \in words.claims
        PROVE  /\ \E item \in cited : /\ Key(Shelf[item.place]) = claim.key
                                       /\ claim.excerpt \in ShownLines(item)
               /\ claim.text \subseteq words.words
    <2>1. claim \in FirstClaim
      OBVIOUS
    <2>2. PICK n \in DOMAIN selected : /\ Key(Shelf[selected[n].place]) = claim.key
                                       /\ claim.excerpt \in ShownLines(selected[n])
      BY <2>1, FirstClaimQuotes
    <2>3. claim.text \subseteq words.words
      BY <2>1, FirstClaimQuotes
    <2> HIDE DEF cited, words
    <2>4. QED BY <1>2, <2>2, <2>3
  <1>5. QED BY <1>1, <1>3, <1>4 DEF SupportedBy

\* The invariant holds when a request begins ...
LEMMA GuidanceInvInit ==
  GuidanceInit => GuidanceInv
BY GuidanceAssumption DEF GuidanceInit, GuidanceInv, Asked, Composing

\* What a selection covers stays the same until the next search.
LEMMA CoversStays ==
  ASSUME UNCHANGED <<inquiry, careful, scores>>
  PROVE  /\ Asked' <=> Asked
         /\ \A list : Covers(list)' <=> Covers(list)
  <1>1. Asked' <=> Asked
    BY DEF Asked
  <1>2. \A list : Covers(list)' <=> Covers(list)
    BY DEF Covers, Found, IsRequested, Requested, StrongestRunbook, Strongest, Stronger
  <1>3. QED BY <1>1, <1>2

\* So does what supports the words.
LEMMA SupportStays ==
  ASSUME UNCHANGED selected
  PROVE  \A words : SupportedBy(words)' <=> SupportedBy(words)
BY DEF SupportedBy, Cited

\* ... and every step keeps it.
LEMMA GuidanceInvNext ==
  GuidanceInv /\ [GuidanceNext]_guidanceVars => GuidanceInv'
  <1> SUFFICES ASSUME GuidanceInv, [GuidanceNext]_guidanceVars PROVE GuidanceInv'
    OBVIOUS
  <1>1. CASE Search
    <2>1. scores' \in [Places -> 0..TopScore]
      BY <1>1 DEF Search
    <2>2. QED BY <1>1, <2>1 DEF GuidanceInv, Search, Asked, Composing
  <1>2. CASE SearchFails
    BY <1>2 DEF GuidanceInv, SearchFails, Asked, Composing
  <1>3. CASE Retrieve
    <2>1. Asked' /\ selected' = Selection
      BY <1>3 DEF Retrieve, GuidanceInv, Asked
    <2>2. CASE Selection # << >>
      <3>1. Retrieved(selected') /\ Covers(selected')
        <4>1. PICK list : list = Selection
          OBVIOUS
        <4>2. Retrieved(list) /\ Covers(list)
          BY <2>2, <4>1, SelectionRetrieved DEF GuidanceInv
        <4>3. QED BY <2>1, <4>1, <4>2
      <3>2. (Retrieved(selected) /\ Covers(selected))'
        <4>1. UNCHANGED <<inquiry, careful, scores>>
          BY <1>3 DEF Retrieve
        <4>2. QED BY <3>1, <4>1, CoversStays
      <3>3. QED BY <1>3, <2>1, <2>2, <3>2 DEF GuidanceInv, Retrieve, Composing
    <2>3. CASE Selection = << >>
      BY <1>3, <2>1, <2>3 DEF GuidanceInv, Retrieve, Composing
    <2>4. QED BY <2>2, <2>3
  <1>4. ASSUME UNCHANGED <<inquiry, careful, scores, selected>>
        PROVE  Asked' /\ (Retrieved(selected) /\ Covers(selected) =>
                            (Retrieved(selected) /\ Covers(selected))')
    <2>1. Asked'
      BY <1>4, CoversStays DEF GuidanceInv
    <2>2. Retrieved(selected) => Retrieved(selected)'
      BY <1>4 DEF Retrieved, Citable, KeptOf
    <2>3. Covers(selected) => Covers(selected)'
      <3>1. selected' = selected /\ UNCHANGED <<inquiry, careful, scores>>
        BY <1>4
      <3>2. Covers(selected) => Covers(selected')
        BY <3>1
      <3>3. QED BY <3>1, <3>2, CoversStays
    <2>4. QED BY <2>1, <2>2, <2>3
  <1>5. ASSUME NEW words, Publish(words), SupportedBy(words), phase = "compose" PROVE GuidanceInv'
    <2>1. UNCHANGED <<inquiry, careful, scores, selected>>
      BY <1>5 DEF Publish
    <2>2. SupportedBy(guidance)'
      <3>1. guidance' = words
        BY <1>5 DEF Publish
      <3>2. SupportedBy(words)'
        BY <1>5, <2>1, SupportStays
      <3>3. QED BY <3>1, <3>2 DEF SupportedBy, Cited
    <2>3. QED BY <1>4, <1>5, <2>1, <2>2 DEF GuidanceInv, Publish, Composing
  <1>6. phase = "compose" => Citable(selected)
    BY DEF GuidanceInv, Composing, Retrieved
  <1>7. CASE ReplyAccepted
    <2>1. PICK reply \in Drafts :
             /\ ValidGuidance(reply)
             /\ Publish([by |-> "model", words |-> reply.answer, citations |-> reply.citations,
                         claims |-> reply.claims])
      BY <1>7 DEF ReplyAccepted
    <2>2. phase = "compose"
      BY <1>7 DEF ReplyAccepted
    <2>3. QED BY <1>5, <1>6, <2>1, <2>2, ReplySupported
  <1>8. CASE ReplyRejected
    <2>1. UNCHANGED <<inquiry, careful, scores, selected>>
      BY <1>8 DEF ReplyRejected
    <2>2. QED BY <1>4, <1>8, <2>1 DEF GuidanceInv, ReplyRejected, Composing
  <1>9. CASE PutTogetherAnswer
    <2>1. /\ phase = "compose"
          /\ Publish([by |-> "backend", words |-> UNION PutTogether, citations |-> Cited,
                      claims |-> FirstClaim])
      BY <1>9 DEF PutTogetherAnswer
    <2>2. QED BY <1>5, <1>6, <2>1, BackendSupported
  <1>10. CASE UNCHANGED guidanceVars
    <2>1. UNCHANGED <<inquiry, careful, scores, selected>> /\ UNCHANGED <<phase, tries, guidance>>
      BY <1>10 DEF guidanceVars
    <2>2. phase = "answered" => SupportedBy(guidance)'
      BY <2>1 DEF GuidanceInv, SupportedBy, Cited
    <2>3. QED BY <1>4, <2>1, <2>2 DEF GuidanceInv, Composing
  <1>11. QED BY <1>1, <1>2, <1>3, <1>7, <1>8, <1>9, <1>10 DEF GuidanceNext

\* Once chunks are retrieved, what is composed from them and published stays
\* within what they say (retriever.py:41-81, answer_composer.py:329-432, 573-650).
THEOREM GuidanceStays == GuidanceSpec => []GuidanceInv
  <1>1. GuidanceInit => GuidanceInv
    BY GuidanceInvInit
  <1>2. GuidanceInv /\ [GuidanceNext]_guidanceVars => GuidanceInv'
    BY GuidanceInvNext
  <1>3. QED BY <1>1, <1>2, PTL DEF GuidanceSpec

\* What it says of the three properties.
LEMMA GuidanceInvTypes ==
  GuidanceInv => GuidanceTypeOK
  <1> SUFFICES ASSUME GuidanceInv PROVE GuidanceTypeOK
    OBVIOUS
  <1>1. CASE Composing
    <2>1. Asked /\ Retrieved(selected) /\ selected \in Seq(Item)
      BY <1>1 DEF GuidanceInv, Retrieved, Citable
    <2>2. KeptLines = KeptOf(selected)
      BY DEF KeptLines, KeptOf
    <2>3. QED BY <1>1, <2>1, <2>2 DEF GuidanceInv, GuidanceTypeOK, Asked, Retrieved, Item
  <1>2. CASE ~Composing
    <2>1. selected = << >>
      BY <1>2 DEF GuidanceInv
    <2>2. KeptLines = {}
      BY <2>1 DEF KeptLines
    <2>3. Cardinality(KeptLines) <= MaxContext /\ Len(selected) <= TopK
      BY <2>1, <2>2, FS_EmptySet, ShelfIs
    <2>4. QED BY <2>1, <2>3 DEF GuidanceInv, GuidanceTypeOK, Asked
  <1>3. QED BY <1>1, <1>2

LEMMA GuidanceInvCovers ==
  GuidanceInv => SectionsCovered
  <1> SUFFICES ASSUME GuidanceInv, phase = "compose" PROVE SectionsCovered
    BY DEF SectionsCovered
  <1>1. Covers(selected)
    BY DEF GuidanceInv, Composing
  <1>2. KeptLines = KeptOf(selected)
    BY DEF KeptLines, KeptOf
  <1>3. QED BY <1>1, <1>2 DEF SectionsCovered, Covers

LEMMA GuidanceInvSupported ==
  GuidanceInv => GuidanceSupported
BY DEF GuidanceInv, GuidanceSupported, SupportedBy

\* GuidanceTypeOK: what is selected stays within the number of chunks and the
\* context budget (retriever.py:41-87).
THEOREM GuidanceTypes == GuidanceSpec => []GuidanceTypeOK
BY GuidanceStays, GuidanceInvTypes, PTL

\* SectionsCovered: the selection is about a best runbook and holds every
\* requested section of the strongest, unless the budget is spent or the places
\* are taken by requested sections (retriever.py:41-81, 226-310).
THEOREM SectionsStayCovered == GuidanceSpec => []SectionsCovered
BY GuidanceStays, GuidanceInvCovers, PTL

\* GuidanceSupported: the words published name, cite, quote and claim only what
\* the retrieved chunks hold (answer_composer.py:329-432, 573-650).
THEOREM GuidanceStaysSupported == GuidanceSpec => []GuidanceSupported
BY GuidanceStays, GuidanceInvSupported, PTL

=============================================================================
