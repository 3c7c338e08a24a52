---------------------------- MODULE RunbookLibrary ----------------------------
(***************************************************************************)
(* The collections the runbooks are searched in. Operators run scripts     *)
(* side by side: one indexes the approved runbooks into a collection       *)
(* (scripts/index_runbooks.py, rag/ingestion.py, rag/qdrant_store.py), one *)
(* promotes a collection by moving the alias to it                         *)
(* (scripts/promote_qdrant_collection.py), one moves the alias back        *)
(* (scripts/manage_qdrant_alias.py). The chat service searches the         *)
(* collections meanwhile, authors edit the files, and a script may end at  *)
(* any step: a request to Qdrant that still fails when repeated raises.    *)
(*                                                                         *)
(* A chunk is told by its point id, its content by a version, its absence  *)
(* by 0. A step is one request. The benchmark and the smoke cases of a     *)
(* promotion may pass or not.                                              *)
(***************************************************************************)
EXTENDS Integers, FiniteSets

CONSTANTS
    Scripts,      \* processes that run a script
    Chunks,       \* point ids of the tenant
    Collections,
    Nowhere,      \* the alias does not exist
    Anywhere,     \* manage_qdrant_alias without --expected-current-collection
    MaxScripts,   \* scripts begun in all
    MaxEdits,     \* edits of the files
    MaxEnds       \* scripts that end with an exception

ASSUME LibraryAssumption ==
    /\ IsFiniteSet(Chunks)
    /\ {Nowhere, Anywhere} \cap Collections = {}
    /\ {MaxScripts, MaxEdits, MaxEnds} \subseteq Nat

VARIABLES
    files,     \* files[c]: content of an approved chunk, 0 when there is none
    broken,    \* what is wrong with the files, a subset of FileErrors
    points,    \* points[k]: what collection k holds
    indexed,   \* collections with all payload indexes
    alias,     \* the collection the alias names, or Nowhere
    script,    \* script[s]: what process s is doing
    begun, edits, ends,
    exact,     \* history: see SyncedExactly
    kept       \* history: see NothingMissing

libraryVars == <<files, broken, points, indexed, alias, script, begun, edits, ends, exact, kept>>
fileVars == <<files, broken, edits>>
historyVars == <<exact, kept>>

(* A file whose metadata or sections are refused; two files of one runbook and
   version. *)
FileErrors == {"malformed", "duplicate"}

Contents == [Chunks -> 0..MaxEdits + 1]
Empty == [c \in Chunks |-> 0]
Held(contents) == {c \in Chunks : contents[c] # 0}

Steps == {"idle", "preview", "scan", "upsert", "count", "alias", "swap"}
Kinds == {"index", "promote", "switch"}

Off == [at |-> "idle", kind |-> "index", col |-> Nowhere, expected |-> Nowhere, count |-> 0,
        desired |-> Empty, found |-> Empty, todo |-> {}, alone |-> FALSE]

AtStep(s, step) == script[s].at = step
GoTo(s, step) == script' = [script EXCEPT ![s].at = step]
End(s) == script' = [script EXCEPT ![s] = Off]

(* Scripts that write to collection k. *)
On(k) == {s \in Scripts : script[s].col = k /\ script[s].kind # "switch"}

Unsure == [c \in Chunks |-> -1]

(* Each collection is empty or was synchronized when the files were as they
   are now. *)
LibraryInit ==
    /\ files \in {f \in Contents : \A c \in Chunks : f[c] < 2}
    /\ broken = {}
    /\ indexed \in SUBSET Collections
    /\ points = [k \in Collections |-> IF k \in indexed THEN files ELSE Empty]
    /\ alias \in indexed \cup {Nowhere}
    /\ script = [s \in Scripts |-> Off]
    /\ begun = 0 /\ edits = 0 /\ ends = 0
    /\ exact = points
    /\ kept = [k \in Collections |-> Held(points[k])]

(* chunk_runbook cuts the sections of an edited file anew: any of its chunks may
   change, appear or go. *)
Rechunked ==
    {f \in Contents : f # files /\ \A c \in Chunks : f[c] \in {files[c], 0, edits + 2}}

(* An author edits, approves or withdraws a runbook, or breaks a file or mends it. *)
EditFiles ==
    /\ edits < MaxEdits
    /\ edits' = edits + 1
    /\ \/ files' \in Rechunked /\ UNCHANGED broken
       \/ \E e \in FileErrors :
             broken' = (IF e \in broken THEN broken \ {e} ELSE broken \cup {e}) /\ UNCHANGED files
    /\ UNCHANGED <<points, indexed, alias, script, begun, ends, historyVars>>

(* The report of a benchmark allows the promotion it measured. *)
Reports == [collection : Collections, passed : BOOLEAN]

Allows(report, k) == report.passed /\ report.collection = k

(* ensure_collection and apply_missing_payload_indexes: a collection that is
   there keeps its points. *)
Prepared(k) == indexed \cup {k}

(* main of a script, up to its first look at the files: ensure_collection and
   apply_missing_payload_indexes. The operator of a promotion names the
   collection the alias has now, or none. *)
BeginSync(s) ==
    /\ AtStep(s, "idle")
    /\ begun < MaxScripts
    /\ begun' = begun + 1
    /\ \E kind \in {"index", "promote"}, k \in Collections :
          /\ kind = "promote" => \E report \in Reports : Allows(report, k)
          /\ script' = [t \in Scripts |->
                IF t = s THEN [Off EXCEPT !.at = IF kind = "promote" THEN "preview" ELSE "scan",
                                          !.kind = kind, !.col = k, !.alone = (On(k) = {}),
                                          !.expected = IF kind = "promote" THEN alias ELSE Nowhere]
                ELSE IF t \in On(k) THEN [script[t] EXCEPT !.alone = FALSE]
                ELSE script[t]]
          /\ indexed' = Prepared(k)
          /\ exact' = [exact EXCEPT ![k] = Unsure]
    /\ UNCHANGED <<fileVars, points, alias, ends, kept>>

(* manage_qdrant_alias: validate_collection_schema comes first. *)
BeginSwitch(s) ==
    /\ AtStep(s, "idle")
    /\ begun < MaxScripts
    /\ begun' = begun + 1
    /\ \E k \in indexed, expected \in {alias, Anywhere} :
          script' = [script EXCEPT ![s] = [Off EXCEPT !.at = "alias", !.kind = "switch",
                                                      !.col = k, !.expected = expected]]
    /\ UNCHANGED <<fileVars, points, indexed, alias, ends, historyVars>>

(* The dry run of RunbookIndexer.index before a promotion writes anything. *)
Preview(s) ==
    /\ AtStep(s, "preview")
    /\ IF broken = {}
       THEN script' = [script EXCEPT ![s].at = "scan", ![s].count = Cardinality(Held(files))]
       ELSE End(s)
    /\ UNCHANGED <<fileVars, points, indexed, alias, begun, ends, historyVars>>

(* What sync writes: chunks that are not there or whose content_hash differs. *)
OutdatedSlip(desired, found) == Held(desired) \ Held(found)

Outdated(desired, found) == {c \in Held(desired) : found[c] # desired[c]}

(* _existing_payloads *)
Existing(k) == points[k]

(* RunbookIndexer.index: a file with an error keeps the collection as it is;
   otherwise sync reads what is there. *)
Scan(s) ==
    /\ AtStep(s, "scan")
    /\ IF broken = {}
       THEN LET k == script[s].col IN
            /\ script' = [script EXCEPT ![s].at = "upsert", ![s].desired = files,
                             ![s].found = Existing(k), ![s].todo = Outdated(files, Existing(k))]
            /\ kept' = [kept EXCEPT ![k] = @ \cap Held(files)]
       ELSE End(s) /\ UNCHANGED kept
    /\ UNCHANGED <<fileVars, points, indexed, alias, begun, ends, exact>>

(* Batches, here of one chunk. *)
Upsert(s) ==
    /\ AtStep(s, "upsert")
    /\ \E c \in script[s].todo :
          /\ points' = [points EXCEPT ![script[s].col][c] = script[s].desired[c]]
          /\ script' = [script EXCEPT ![s].todo = @ \ {c}]
    /\ UNCHANGED <<fileVars, indexed, alias, begun, ends, historyVars>>

(* What sync removes at the end: what it found and does not want. *)
StaleSlip(desired, found) == {c \in Held(found) : found[c] # desired[c]}

Stale(desired, found) == Held(found) \ Held(desired)

DeleteStale(s) ==
    /\ AtStep(s, "upsert")
    /\ script[s].todo = {}
    /\ LET k == script[s].col
           stale == Stale(script[s].desired, script[s].found)
       IN  /\ points' = [points EXCEPT ![k] = [c \in Chunks |-> IF c \in stale THEN 0 ELSE @[c]]]
           /\ IF script[s].alone
              THEN /\ kept' = [kept EXCEPT ![k] = Held(script[s].desired)]
                   /\ exact' = [exact EXCEPT ![k] = script[s].desired]
              ELSE UNCHANGED historyVars
    /\ IF script[s].kind = "promote"
       THEN script' = [script EXCEPT ![s].at = "count", ![s].desired = Empty, ![s].found = Empty]
       ELSE End(s)
    /\ UNCHANGED <<fileVars, indexed, alias, begun, ends>>

(* _run_smoke_cases: what each runbook of the gold set is asked for is found, or
   not; in an empty collection nothing is. *)
SmokeResults(k) == IF Held(points[k]) = {} THEN {FALSE} ELSE BOOLEAN

(* The exact document count against that of the preview, and the smoke cases. *)
CheckPoints(s) ==
    /\ AtStep(s, "count")
    /\ LET k == script[s].col IN
       \E passed \in SmokeResults(k) :
          IF passed /\ Cardinality(Held(points[k])) = script[s].count
          THEN GoTo(s, "alias") ELSE End(s)
    /\ UNCHANGED <<fileVars, points, indexed, alias, begun, ends, historyVars>>

(* get_aliases and the comparison with --expected-current-collection. *)
CheckAlias(s) ==
    /\ AtStep(s, "alias")
    /\ IF alias # script[s].col /\ script[s].expected \in {alias, Anywhere}
       THEN GoTo(s, "swap") ELSE End(s)
    /\ UNCHANGED <<fileVars, points, indexed, alias, begun, ends, historyVars>>

(* update_collection_aliases *)
SwapAlias(s) ==
    /\ AtStep(s, "swap")
    /\ alias' = script[s].col
    /\ End(s)
    /\ UNCHANGED <<fileVars, points, indexed, begun, ends, historyVars>>

(* RagStoreError after max_retries, or the process is killed. *)
Fails(s) ==
    /\ ~AtStep(s, "idle")
    /\ ends < MaxEnds
    /\ ends' = ends + 1
    /\ End(s)
    /\ UNCHANGED <<fileVars, points, indexed, alias, begun, historyVars>>

ScriptStep(s) ==
    \/ BeginSync(s) \/ BeginSwitch(s) \/ Preview(s) \/ Scan(s) \/ Upsert(s) \/ DeleteStale(s)
    \/ CheckPoints(s) \/ CheckAlias(s) \/ SwapAlias(s) \/ Fails(s)

LibraryNext == EditFiles \/ \E s \in Scripts : ScriptStep(s)

LibrarySpec == LibraryInit /\ [][LibraryNext]_libraryVars

-----------------------------------------------------------------------------
(* Properties *)

LibraryTypeOK ==
    /\ files \in Contents
    /\ broken \subseteq FileErrors
    /\ points \in [Collections -> Contents]
    /\ indexed \subseteq Collections
    /\ alias \in indexed \cup {Nowhere}
    /\ script \in [Scripts -> [at : Steps, kind : Kinds, col : Collections \cup {Nowhere},
                               expected : Collections \cup {Nowhere, Anywhere},
                               count : 0..Cardinality(Chunks), desired : Contents,
                               found : Contents, todo : SUBSET Chunks, alone : BOOLEAN]]
    /\ begun \in 0..MaxScripts /\ edits \in 0..MaxEdits /\ ends \in 0..MaxEnds
    /\ exact \in [Collections -> Contents \cup {Unsure}]
    /\ kept \in [Collections -> SUBSET Chunks]

(* While a collection is synchronized, by several scripts at once or by one
   that ends half way, a search never misses a chunk that was there after the
   last undisturbed synchronization and that every script since has wanted:
   what is new or changed is written before anything is removed, and only what
   is not wanted is removed (qdrant_store.py:164-207). kept[k] is that set. *)
NothingMissing == \A k \in Collections : kept[k] \subseteq Held(points[k])

(* After a synchronization that no other overlapped a collection holds the
   approved runbooks exactly, whatever scripts that ended half way had left in
   it (qdrant_store.py:164-207). exact[k] is what was approved then. *)
SyncedExactly == \A k \in Collections : exact[k] \in {points[k], Unsure}

=============================================================================
