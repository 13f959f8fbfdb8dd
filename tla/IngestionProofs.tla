-------------------------- MODULE IngestionProofs --------------------------
(***************************************************************************)
(* Theorems about Ingestion for any files, and any number of uploads,       *)
(* meters, deletions, creations and faults.                                 *)
(***************************************************************************)
EXTENDS Ingestion, FiniteSetTheorems, WellFoundedInduction, TLAPS

SafeIngestion == Init /\ [][Next]_vars

\* Spec without its fairness.
LEMMA SpecIsSafe == Spec => SafeIngestion
BY PTL DEF Spec, SafeIngestion

-----------------------------------------------------------------------------
(* The choice of a least element.                                           *)

LEMMA LeastExists ==
  ASSUME NEW S \in SUBSET Nat, S # {}
  PROVE  Min(S) \in S /\ \A k \in S : Min(S) <= k
<1>1. PICK m \in S : \A k \in S : <<k, m>> \notin OpToRel(<, Nat)
  BY NatLessThanWellFounded, WFMin
<1>2. OpToRel(<, Nat) = {ss \in Nat \X Nat : ss[1] < ss[2]}
  BY DEF OpToRel
<1>3. \A k \in S : ~ (k < m)
  BY <1>1, <1>2
<1>4. \E x \in S : \A y \in S : x <= y
  BY <1>3
<1>5. QED
  BY <1>4 DEF Min

-----------------------------------------------------------------------------
(* The types.                                                               *)

Rows == [code : Codes \cup {NoCode}, state : {"none", "active", "deleted"}, deletion : Nat,
         tx : Imports \cup {NoImport}, by : Imports \cup {NoImport}]
AnyFile == Seq(Codes \X (Times \cup {"invalid"}))
Positions == {"idle", "parse"} \cup InTransaction \cup Answers
Upload0 == [pc : Positions, file : AnyFile, ids : [Codes -> Meters \cup {NoMeter}],
            target : Meters \cup {NoMeter}, row : Nat, inserted : Nat, created : Nat, restored : Nat]
Batches == [status : {"none", "COMPLETED", "FAILED"}, rows : Nat, inserted : Nat, created : Nat,
            restored : Nat]

Types ==
    /\ meter \in [Meters -> Rows]
    /\ import \in [Imports -> Upload0]
    /\ batch \in [Imports -> Batches]
    /\ IsFiniteSet(reading)
    /\ deletes \in Nat
    /\ disturbed \in BOOLEAN

-----------------------------------------------------------------------------
(* The inductive invariant.                                                 *)

Added(i) == {r \in reading : r.by = i}
MadeBy(i) == {m \in Meters : meter[m].by = i}
Held(i) == {m \in Meters : meter[m].tx = i}

\* A row that is not visible yet is held by the transaction that made it.
HiddenIsHeld ==
    \A m \in Meters : meter[m].state = "none" =>
        meter[m] = NoRow \/ (meter[m].by = meter[m].tx /\ meter[m].tx \in Imports)

Searching == {"find", "restore", "locked", "create"}

\* Nothing is held outside a transaction, and nothing is left without success.
Clean(i) ==
    /\ ~ Open(i) => Held(i) = {}
    /\ import[i].pc \in {"idle", "parse", "error", "rejected"} => Added(i) = {} /\ MadeBy(i) = {}

\* The counters of an upload that is not answered are what it has added.
Counted(i) ==
    import[i].pc \in {"idle", "parse"} \cup InTransaction =>
        import[i].inserted = Cardinality(Added(i)) /\ import[i].created = Cardinality(MadeBy(i))

\* The counts of a completed batch too, and only a commit completes one.
Recorded(i) ==
    batch[i].status = "COMPLETED" =>
        /\ import[i].pc \in {"ok", "unknown"}
        /\ batch[i].inserted = Cardinality(Added(i)) /\ batch[i].created = Cardinality(MadeBy(i))

\* What an open transaction has made is hidden, held and known to it.
Private(i) ==
    Open(i) => \A m \in MadeBy(i) : /\ meter[m].tx = i /\ meter[m].state = "none"
                                    /\ meter[m].code \in Codes
                                    /\ import[i].ids[meter[m].code] # NoMeter

\* Before its search an upload knows no meter; while it searches a row of its
\* file has none yet; and a meter it waits to restore was visible.
Progress(i) ==
    /\ import[i].pc \in {"idle", "parse"} => import[i].ids = [c \in Codes |-> NoMeter]
    /\ import[i].pc \in Searching => UnseenRows(i) # {}
    /\ import[i].pc = "locked" => import[i].target \in Meters /\ meter[import[i].target].state # "none"

\* A code that is about to get a meter has no deleted one, unless a meter was
\* deleted while an import was at work.
Orphan(i) == import[i].pc = "create" /\ ~ disturbed => DeletedMeters(Code(i)) = {}

PerImport(i) == Clean(i) /\ Counted(i) /\ Recorded(i) /\ Private(i) /\ Progress(i) /\ Orphan(i)

IInv == Types /\ HiddenIsHeld /\ \A i \in Imports : PerImport(i)

LEMMA NotImport == NoImport \notin Imports /\ NoMeter \notin Meters
BY DEF NoImport, Imports, NoMeter, Meters

LEMMA InitIInv == Init => IInv
<1> SUFFICES ASSUME Init PROVE IInv
  OBVIOUS
<1> USE DEF Init
<1>1. Types
  <2>1. <<>> \in AnyFile
    BY DEF AnyFile
  <2>2. NoUpload \in Upload0
    BY <2>1 DEF NoUpload, Upload0, Positions
  <2>3. NoRow \in Rows /\ NoBatch \in Batches
    BY DEF NoRow, Rows, NoBatch, Batches
  <2>4. QED
    BY <2>2, <2>3, FS_EmptySet DEF Types
<1>2. HiddenIsHeld
  BY DEF HiddenIsHeld
<1>3. ASSUME NEW i \in Imports PROVE PerImport(i)
  <2>1. Added(i) = {} /\ MadeBy(i) = {} /\ Held(i) = {}
    BY NotImport DEF Added, MadeBy, Held, NoRow
  <2>2. import[i] = NoUpload /\ batch[i] = NoBatch
    OBVIOUS
  <2>3. Clean(i) /\ Recorded(i) /\ Private(i) /\ Progress(i) /\ Orphan(i)
    BY <2>1, <2>2 DEF Clean, Recorded, Private, Progress, Orphan, NoUpload, NoBatch, Open, InTransaction, Searching
  <2>4. Counted(i)
    BY <2>1, <2>2, FS_EmptySet DEF Counted, NoUpload
  <2>5. QED
    BY <2>3, <2>4 DEF PerImport
<1>4. QED
  BY <1>1, <1>2, <1>3 DEF IInv

\* The current code is one of the file.
LEMMA CodeType ==
  ASSUME Types, NEW i \in Imports, UnseenRows(i) # {}
  PROVE  /\ Code(i) \in Codes /\ import[i].ids[Code(i)] = NoMeter
         /\ Min(UnseenRows(i)) \in UnseenRows(i)
<1>1. UnseenRows(i) \in SUBSET Nat
  BY DEF UnseenRows
<1>2. Min(UnseenRows(i)) \in UnseenRows(i)
  BY <1>1, LeastExists
<1>3. import[i].file \in AnyFile
  BY DEF Types, Upload0
<1>4. \A k \in 1..Len(import[i].file) : import[i].file[k][1] \in Codes
  BY <1>3 DEF AnyFile
<1>5. QED
  BY <1>2, <1>4 DEF Code, UnseenRows

\* An import that a step of another leaves alone.
LEMMA Frame ==
  ASSUME Types, NEW j \in Imports, PerImport(j), import'[j] = import[j], batch'[j] = batch[j],
         Added(j)' = Added(j), MadeBy(j)' = MadeBy(j), Held(j)' = Held(j),
         \A m \in Held(j) : meter'[m] = meter[m],
         \A m \in Meters : meter[m].state # "none" => meter'[m].state # "none",
         disturbed' \/ ~ Open(j) \/ \A c \in Codes : DeletedMeters(c)' \subseteq DeletedMeters(c),
         disturbed => disturbed'
  PROVE  PerImport(j)'
<1> USE DEF PerImport
<1>1. Open(j)' <=> Open(j)
  BY DEF Open
<1>2. Clean(j)'
  BY <1>1 DEF Clean
<1>3. Counted(j)'
  BY DEF Counted
<1>4. Recorded(j)'
  BY DEF Recorded
<1>5. Private(j)'
  BY <1>1 DEF Private, MadeBy, Held
<1>6. Progress(j)'
  BY DEF Progress, UnseenRows
<1>7. Orphan(j)'
  <2>1. Code(j)' = Code(j)
    BY DEF Code, UnseenRows
  <2>2. import[j].pc = "create" => Code(j) \in Codes
    BY CodeType DEF Progress, Searching
  <2>3. import[j].pc = "create" => Open(j)
    BY DEF Open, InTransaction
  <2>4. QED
    BY <2>1, <2>2, <2>3 DEF Orphan
<1>8. QED
  BY <1>2, <1>3, <1>4, <1>5, <1>6, <1>7

-----------------------------------------------------------------------------
(* The operators' steps.                                                    *)

LEMMA DeleteStep ==
  ASSUME IInv, NEW m \in Meters, Delete(m)
  PROVE  IInv'
<1> USE DEF IInv
<1>1. /\ meter[m].tx = NoImport /\ meter[m].state = "active"
      /\ UNCHANGED <<reading, batch, import>>
      /\ meter' = [meter EXCEPT ![m].state = "deleted", ![m].deletion = deletes + 1]
      /\ deletes' = deletes + 1
      /\ disturbed' = (disturbed \/ \E i \in Imports : Open(i))
  BY DEF Delete
<1>2. \A n \in Meters : /\ meter'[n].tx = meter[n].tx /\ meter'[n].by = meter[n].by
                        /\ meter'[n].code = meter[n].code
                        /\ n # m => meter'[n] = meter[n]
  BY <1>1 DEF Types, Rows
<1>3. meter'[m].state = "deleted"
  BY <1>1 DEF Types, Rows
<1>4. Types'
  <2>1. deletes + 1 \in Nat /\ deletes' \in Nat /\ disturbed' \in BOOLEAN
    BY <1>1 DEF Types
  <2>2. meter' \in [Meters -> Rows]
    <3>1. [meter[m] EXCEPT !.state = "deleted", !.deletion = deletes + 1] \in Rows
      BY <2>1 DEF Types, Rows
    <3>2. meter' = [meter EXCEPT ![m] = [meter[m] EXCEPT !.state = "deleted", !.deletion = deletes + 1]]
      BY <1>1 DEF Types
    <3>3. QED
      BY <3>1, <3>2 DEF Types
  <2>3. QED
    BY <1>1, <2>1, <2>2 DEF Types
<1>5. HiddenIsHeld'
  BY <1>1, <1>2, <1>3 DEF HiddenIsHeld
<1>6. ASSUME NEW j \in Imports PROVE PerImport(j)'
  <2>1. Added(j)' = Added(j)
    BY <1>1 DEF Added
  <2>2. MadeBy(j)' = MadeBy(j) /\ Held(j)' = Held(j)
    BY <1>2 DEF MadeBy, Held
  <2>3. \A n \in Held(j) : meter'[n] = meter[n]
    BY <1>1, <1>2, NotImport DEF Held
  <2>4. QED
    BY <1>1, <1>2, <1>3, <2>1, <2>2, <2>3, Frame
<1>7. QED
  BY <1>4, <1>5, <1>6

\* A free row becomes a meter.
LEMMA FreeRow ==
  ASSUME Types, FreeRows # {}
  PROVE  Min(FreeRows) \in Meters /\ meter[Min(FreeRows)] = NoRow
<1>1. FreeRows \in SUBSET Nat
  BY DEF FreeRows, Meters
<1>2. QED
  BY <1>1, LeastExists DEF FreeRows

LEMMA PostStep ==
  ASSUME IInv, NEW c \in Codes, Post(c)
  PROVE  IInv'
<1> USE DEF IInv
<1>1. PICK m \in Meters : /\ meter[m] = NoRow
                          /\ meter' = [meter EXCEPT ![m] = [NoRow EXCEPT !.code = c, !.state = "active"]]
  BY FreeRow DEF Post
<1>2. UNCHANGED <<reading, batch, import, deletes, disturbed>>
  BY DEF Post
<1>3. /\ meter'[m].tx = NoImport /\ meter'[m].by = NoImport /\ meter'[m].state = "active"
      /\ \A n \in Meters : n # m => meter'[n] = meter[n]
  BY <1>1 DEF Types, NoRow
<1>4. Types'
  BY <1>1, <1>2 DEF Types, Rows, NoRow
<1>5. HiddenIsHeld'
  BY <1>3 DEF HiddenIsHeld
<1>6. ASSUME NEW j \in Imports PROVE PerImport(j)'
  <2>1. Added(j)' = Added(j)
    BY <1>2 DEF Added
  <2>2. MadeBy(j)' = MadeBy(j) /\ Held(j)' = Held(j)
    BY <1>1, <1>3, NotImport DEF MadeBy, Held, NoRow
  <2>3. \A n \in Held(j) : meter'[n] = meter[n]
    BY <1>1, <1>3, NotImport DEF Held, NoRow
  <2>4. \A d \in Codes : DeletedMeters(d)' \subseteq DeletedMeters(d)
    BY <1>3 DEF DeletedMeters
  <2>5. \A n \in Meters : meter[n].state # "none" => meter'[n].state # "none"
    BY <1>3
  <2>6. QED
    BY <1>2, <2>1, <2>2, <2>3, <2>4, <2>5, Frame
<1>7. QED
  BY <1>4, <1>5, <1>6

-----------------------------------------------------------------------------
(* The steps of an upload that leave the meters alone.                      *)

\* Then the other uploads and the rows not visible yet are as they were.
LEMMA OthersKeep ==
  ASSUME IInv, NEW i \in Imports, UNCHANGED <<meter, disturbed>>,
         \A j \in Imports : j # i => import'[j] = import[j] /\ batch'[j] = batch[j] /\ Added(j)' = Added(j)
  PROVE  HiddenIsHeld' /\ \A j \in Imports : j # i => PerImport(j)'
<1> USE DEF IInv
<1>1. HiddenIsHeld'
  BY DEF HiddenIsHeld
<1>2. ASSUME NEW j \in Imports, j # i PROVE PerImport(j)'
  <2>1. MadeBy(j)' = MadeBy(j) /\ Held(j)' = Held(j) /\ \A c \in Codes : DeletedMeters(c)' = DeletedMeters(c)
    BY DEF MadeBy, Held, DeletedMeters
  <2>2. QED
    BY <1>2, <2>1, Frame
<1>3. QED
  BY <1>1, <1>2

\* The sets an upload's invariant is about, when tables are unchanged.
LEMMA SameSets ==
  ASSUME UNCHANGED <<meter, reading>>, NEW i \in Imports
  PROVE  Added(i)' = Added(i) /\ MadeBy(i)' = MadeBy(i) /\ Held(i)' = Held(i)
BY DEF Added, MadeBy, Held

LEMMA UploadStep ==
  ASSUME IInv, NEW i \in Imports, NEW file \in Files, Upload(i, file)
  PROVE  IInv'
<1> USE DEF IInv
<1>1. /\ import[i].pc = "idle" /\ import'[i] = [import[i] EXCEPT !.pc = "parse", !.file = file]
      /\ import' \in [Imports -> Upload0]
      /\ \A j \in Imports : j # i => import'[j] = import[j]
      /\ UNCHANGED <<meter, reading, batch, deletes, disturbed>>
  <2>1. file \in AnyFile
    BY ImportFiles DEF AnyFile
  <2>2. [import[i] EXCEPT !.pc = "parse", !.file = file] \in Upload0
    BY <2>1 DEF Types, Upload0, Positions
  <2>3. import' = [import EXCEPT ![i] = [import[i] EXCEPT !.pc = "parse", !.file = file]]
    BY DEF Upload, Types
  <2>4. QED
    BY <2>2, <2>3 DEF Upload, Types
<1>2. /\ import'[i].pc = "parse" /\ import'[i].ids = import[i].ids
      /\ import'[i].inserted = import[i].inserted /\ import'[i].created = import[i].created
  BY <1>1 DEF Types, Upload0
<1>3. Types'
  BY <1>1 DEF Types
<1>4. PerImport(i)'
  <2>1. ~ Open(i) /\ ~ Open(i)'
    BY <1>1, <1>2 DEF Open, InTransaction
  <2>2. QED
    BY <1>1, <1>2, <2>1, SameSets
       DEF PerImport, Clean, Counted, Recorded, Private, Progress, Orphan, Searching, Types
<1>5. QED
  BY <1>1, <1>3, <1>4, OthersKeep, SameSets

\* A valid file has a row, and no meter of it is known.
LEMMA ParseStep ==
  ASSUME IInv, NEW i \in Imports, Parse(i)
  PROVE  IInv'
<1> USE DEF IInv
<1>1. /\ import[i].pc = "parse" /\ UNCHANGED <<meter, reading, deletes, disturbed>>
      /\ \A j \in Imports : j # i => import'[j] = import[j] /\ batch'[j] = batch[j]
      /\ import' \in [Imports -> Upload0] /\ batch' \in [Imports -> Batches]
  <2>1. \A pc \in Positions : [import[i] EXCEPT !.pc = pc] \in Upload0
    BY DEF Types, Upload0
  <2>2. \E pc \in Positions : import' = [import EXCEPT ![i] = [import[i] EXCEPT !.pc = pc]]
    <3>1. "find" \in Positions /\ "rejected" \in Positions
      BY DEF Positions, InTransaction, Answers
    <3>2. \A pc : Move(i, pc) => import' = [import EXCEPT ![i] = [import[i] EXCEPT !.pc = pc]]
      BY DEF Move, Types
    <3>3. QED
      BY <3>1, <3>2 DEF Parse
  <2>3. batch' \in [Imports -> Batches] /\ \A j \in Imports : j # i => batch'[j] = batch[j]
    BY DEF Parse, Types, Batches
  <2>4. QED
    BY <2>1, <2>2, <2>3 DEF Parse, Types
<1>2. /\ \/ Valid(import[i].file) /\ import'[i].pc = "find" /\ batch'[i] = batch[i]
         \/ import'[i].pc = "rejected" /\ batch'[i].status \in {"FAILED", batch[i].status}
      /\ import'[i].file = import[i].file /\ import'[i].ids = import[i].ids
      /\ import'[i].inserted = import[i].inserted /\ import'[i].created = import[i].created
  BY DEF Parse, Move, Types, Upload0, Batches
<1>3. Types'
  BY <1>1 DEF Types
<1>4. ~ Open(i) /\ Added(i) = {} /\ MadeBy(i) = {} /\ Held(i) = {} /\ batch[i].status # "COMPLETED"
  BY <1>1 DEF Open, InTransaction, PerImport, Clean, Recorded
<1>5. Added(i)' = {} /\ MadeBy(i)' = {} /\ Held(i)' = {}
  BY <1>1, <1>4, SameSets
<1>6. Progress(i)'
  <2>1. CASE import'[i].pc = "rejected"
    BY <2>1 DEF Progress, Searching
  <2>2. CASE Valid(import[i].file) /\ import'[i].pc = "find"
    <3>1. import[i].file \in AnyFile /\ import[i].file # <<>>
      BY <2>2 DEF Types, Upload0, Valid
    <3>2. 1 \in 1..Len(import[i].file) /\ import[i].file[1][1] \in Codes
      BY <3>1 DEF AnyFile
    <3>3. import[i].ids = [c \in Codes |-> NoMeter]
      BY <1>1 DEF PerImport, Progress
    <3>4. 1 \in UnseenRows(i)'
      BY <1>2, <3>2, <3>3 DEF UnseenRows
    <3>5. QED
      BY <2>2, <3>4 DEF Progress
  <2>3. QED
    BY <1>2, <2>1, <2>2
<1>7. Clean(i)' /\ Recorded(i)' /\ Private(i)' /\ Orphan(i)'
  BY <1>2, <1>4, <1>5 DEF Clean, Recorded, Private, Orphan
<1>8. Counted(i)'
  BY <1>1, <1>2, <1>4, <1>5 DEF PerImport, Counted
<1>9. PerImport(i)'
  BY <1>6, <1>7, <1>8 DEF PerImport
<1>10. QED
  BY <1>1, <1>3, <1>9, OthersKeep, SameSets

-----------------------------------------------------------------------------
(* The search.                                                              *)

\* What Move and Resolve do to an upload.
LEMMA MoveEffect ==
  ASSUME Types, NEW i \in Imports, NEW pc \in Positions, Move(i, pc)
  PROVE  /\ import' \in [Imports -> Upload0]
         /\ \A j \in Imports : j # i => import'[j] = import[j]
         /\ import'[i] = [import[i] EXCEPT !.pc = pc]
         /\ import'[i].pc = pc /\ import'[i].file = import[i].file /\ import'[i].ids = import[i].ids
         /\ import'[i].inserted = import[i].inserted /\ import'[i].created = import[i].created
<1>1. import' = [import EXCEPT ![i] = [import[i] EXCEPT !.pc = pc]]
  BY DEF Move, Types
<1>2. [import[i] EXCEPT !.pc = pc] \in Upload0
  BY DEF Types, Upload0
<1>3. QED
  BY <1>1, <1>2 DEF Types, Upload0

LEMMA ResolveEffect ==
  ASSUME Types, NEW i \in Imports, UnseenRows(i) # {}, NEW m \in Meters, NEW c \in Nat, NEW r \in Nat,
         Resolve(i, m, c, r)
  PROVE  /\ import' \in [Imports -> Upload0]
         /\ \A j \in Imports : j # i => import'[j] = import[j]
         /\ import'[i].pc \in {"insert", "find"} /\ import'[i].ids = [import[i].ids EXCEPT ![Code(i)] = m]
         /\ import'[i].inserted = import[i].inserted /\ import'[i].created = import[i].created + c
         /\ import'[i].pc = "find" => UnseenRows(i)' # {}
         /\ \A d \in Codes : import[i].ids[d] # NoMeter => import'[i].ids[d] # NoMeter
         /\ import'[i].ids[Code(i)] = m
<1> DEFINE ids == [import[i].ids EXCEPT ![Code(i)] = m]
<1> DEFINE next == [import[i] EXCEPT !.ids = ids, !.pc = IF LastCode(i) THEN "insert" ELSE "find",
                                     !.created = import[i].created + c,
                                     !.restored = import[i].restored + r]
<1>1. import' = [import EXCEPT ![i] = next]
  <2>1. import' = [import EXCEPT ![i] =
                     [import[i] EXCEPT !.ids = [import[i].ids EXCEPT ![Code(i)] = m],
                                       !.pc = IF LastCode(i) THEN "insert" ELSE "find",
                                       !.created = import[i].created + c,
                                       !.restored = import[i].restored + r]]
    BY DEF Resolve, Types, Upload0
  <2>2. QED
    BY <2>1
<1>2. Code(i) \in Codes /\ ids \in [Codes -> Meters \cup {NoMeter}]
  BY CodeType DEF Types, Upload0
<1>3. next \in Upload0
  <2>1. import[i] \in Upload0
    BY DEF Types
  <2>2. import[i].created + c \in Nat /\ import[i].restored + r \in Nat
    BY <2>1 DEF Upload0
  <2>3. (IF LastCode(i) THEN "insert" ELSE "find") \in Positions
    BY DEF Positions, InTransaction
  <2>4. QED
    BY <1>2, <2>1, <2>2, <2>3 DEF Upload0
<1>4. /\ import'[i] = next /\ next.ids = ids /\ next.file = import[i].file
      /\ next.pc = IF LastCode(i) THEN "insert" ELSE "find"
      /\ next.inserted = import[i].inserted /\ next.created = import[i].created + c
  BY <1>1 DEF Types, Upload0
<1>5. ids[Code(i)] = m /\ \A d \in Codes : d # Code(i) => ids[d] = import[i].ids[d]
  BY <1>2 DEF Types, Upload0
<1>6. ASSUME ~ LastCode(i) PROVE UnseenRows(i)' # {}
  <2>1. PICK k \in UnseenRows(i) : import[i].file[k][1] # Code(i)
    BY <1>6 DEF LastCode
  <2>2. k \in 1..Len(import[i].file) /\ import[i].ids[import[i].file[k][1]] = NoMeter
    BY <2>1 DEF UnseenRows
  <2>3. import[i].file \in AnyFile
    BY DEF Types, Upload0
  <2>4. import[i].file[k][1] \in Codes
    BY <2>2, <2>3 DEF AnyFile
  <2>5. k \in UnseenRows(i)'
    BY <1>4, <1>5, <2>1, <2>2, <2>4 DEF UnseenRows
  <2>6. QED
    BY <2>5
<1>7. QED
  BY <1>1, <1>3, <1>4, <1>5, <1>6, NotImport DEF Types

\* An upload that searches is in a transaction and has a row without a meter.
LEMMA SearchingIs ==
  ASSUME IInv, NEW i \in Imports, import[i].pc \in Searching
  PROVE  /\ Open(i) /\ UnseenRows(i) # {} /\ Code(i) \in Codes /\ import[i].ids[Code(i)] = NoMeter
         /\ import[i].inserted = Cardinality(Added(i)) /\ import[i].created = Cardinality(MadeBy(i))
         /\ batch[i].status # "COMPLETED"
<1>1. Open(i) /\ import[i].pc \notin {"ok", "unknown"}
  BY DEF Searching, Open, InTransaction
<1>2. UnseenRows(i) # {}
  BY DEF IInv, PerImport, Progress
<1>3. QED
  BY <1>1, <1>2, CodeType DEF IInv, PerImport, Counted, Recorded, Open

\* A step of the search that leaves the tables alone: what the upload has made
\* stays as it was.
LEMMA SearchKeeps ==
  ASSUME IInv, NEW i \in Imports, import[i].pc \in Searching,
         UNCHANGED <<meter, reading, batch, deletes, disturbed>>,
         import' \in [Imports -> Upload0],
         \A j \in Imports : j # i => import'[j] = import[j],
         import'[i].pc \in InTransaction,
         import'[i].inserted = import[i].inserted, import'[i].created = import[i].created,
         \A d \in Codes : import[i].ids[d] # NoMeter => import'[i].ids[d] # NoMeter,
         Progress(i)', Orphan(i)'
  PROVE  IInv'
<1> USE DEF IInv
<1>1. Open(i) /\ Open(i)'
  BY SearchingIs DEF Open
<1>2. Added(i)' = Added(i) /\ MadeBy(i)' = MadeBy(i) /\ Held(i)' = Held(i)
  BY SameSets
<1>3. import'[i].pc \notin {"idle", "parse", "error", "rejected"}
  BY DEF InTransaction
<1>4. Clean(i)' /\ Counted(i)' /\ Recorded(i)'
  BY <1>1, <1>2, <1>3, SearchingIs DEF Clean, Counted, Recorded
<1>5. Private(i)'
  BY <1>1, <1>2 DEF PerImport, Private
<1>6. PerImport(i)'
  BY <1>4, <1>5 DEF PerImport
<1>7. Types'
  BY DEF Types
<1>8. QED
  BY <1>6, <1>7, OthersKeep, SameSets

LEMMA FindStep ==
  ASSUME IInv, NEW i \in Imports, Find(i)
  PROVE  IInv'
<1>1. import[i].pc = "find" /\ UNCHANGED <<meter, reading, batch, deletes, disturbed>>
  BY DEF Find
<1>2. import[i].pc \in Searching
  BY <1>1 DEF Searching
<1>3. CASE \E m \in ActiveMeters(Code(i)) : Resolve(i, m, 0, 0)
  <2>1. PICK m \in Meters : Resolve(i, m, 0, 0)
    BY <1>3 DEF ActiveMeters
  <2>2. /\ import' \in [Imports -> Upload0]
        /\ \A j \in Imports : j # i => import'[j] = import[j]
        /\ import'[i].pc \in {"insert", "find"}
        /\ import'[i].inserted = import[i].inserted /\ import'[i].created = import[i].created
        /\ import'[i].pc = "find" => UnseenRows(i)' # {}
        /\ \A d \in Codes : import[i].ids[d] # NoMeter => import'[i].ids[d] # NoMeter
    <3>1. import[i].created \in Nat
      BY DEF IInv, Types, Upload0
    <3>2. 0 \in Nat /\ import[i].created + 0 = import[i].created
      BY <3>1
    <3>3. Types /\ UnseenRows(i) # {}
      BY <1>2, SearchingIs DEF IInv
    <3>4. QED
      BY <2>1, <3>2, <3>3, ResolveEffect
  <2>3. import'[i].pc \in InTransaction /\ Progress(i)' /\ Orphan(i)'
    BY <2>2 DEF InTransaction, Progress, Orphan, Searching
  <2>4. QED
    BY <1>1, <1>2, <2>2, <2>3, SearchKeeps
<1>4. CASE Move(i, "restore")
  <2>1. "restore" \in Positions /\ "restore" \in InTransaction
    BY DEF Positions, InTransaction
  <2>2. /\ import' \in [Imports -> Upload0]
        /\ \A j \in Imports : j # i => import'[j] = import[j]
        /\ import'[i].pc = "restore" /\ import'[i].file = import[i].file /\ import'[i].ids = import[i].ids
        /\ import'[i].inserted = import[i].inserted /\ import'[i].created = import[i].created
    BY <1>4, <2>1, MoveEffect DEF IInv
  <2>3. Progress(i)' /\ Orphan(i)'
    BY <1>2, <2>2, SearchingIs DEF Progress, Orphan, UnseenRows
  <2>4. QED
    BY <1>1, <1>2, <2>1, <2>2, <2>3, SearchKeeps
<1>5. QED
  BY <1>3, <1>4 DEF Find

\* Nothing deleted is left behind by the search for a deleted meter.
LEMMA RestoreStep ==
  ASSUME IInv, NEW i \in Imports, Restore(i)
  PROVE  IInv'
<1>1. import[i].pc = "restore" /\ UNCHANGED <<meter, reading, batch, deletes, disturbed>>
  BY DEF Restore
<1>2. import[i].pc \in Searching
  BY <1>1 DEF Searching
<1>3. {"create", "locked"} \subseteq Positions \cap InTransaction
  BY DEF Positions, InTransaction
<1>4. CASE DeletedMeters(Code(i)) = {} /\ Move(i, "create")
  <2>1. /\ import' \in [Imports -> Upload0]
        /\ \A j \in Imports : j # i => import'[j] = import[j]
        /\ import'[i].pc = "create" /\ import'[i].file = import[i].file /\ import'[i].ids = import[i].ids
        /\ import'[i].inserted = import[i].inserted /\ import'[i].created = import[i].created
    BY <1>3, <1>4, MoveEffect DEF IInv
  <2>2. Progress(i)'
    BY <1>2, <2>1, SearchingIs DEF Progress, UnseenRows
  <2>3. Orphan(i)'
    BY <1>1, <1>4, <2>1 DEF Orphan, DeletedMeters, Code, UnseenRows
  <2>4. QED
    BY <1>1, <1>2, <1>3, <2>1, <2>2, <2>3, SearchKeeps
<1>5. ASSUME NEW m \in DeletedMeters(Code(i)), import' = [import EXCEPT ![i].pc = "locked", ![i].target = m]
      PROVE  IInv'
  <2>1. m \in Meters /\ meter[m].state = "deleted"
    BY <1>5 DEF DeletedMeters
  <2>2. [import[i] EXCEPT !.pc = "locked", !.target = m] \in Upload0
    BY <1>3, <2>1 DEF IInv, Types, Upload0
  <2>3. import' = [import EXCEPT ![i] = [import[i] EXCEPT !.pc = "locked", !.target = m]]
    BY <1>5 DEF IInv, Types
  <2>4. /\ import' \in [Imports -> Upload0]
        /\ \A j \in Imports : j # i => import'[j] = import[j]
        /\ import'[i] = [import[i] EXCEPT !.pc = "locked", !.target = m]
    BY <2>2, <2>3 DEF IInv, Types
  <2>5. /\ import'[i].pc = "locked" /\ import'[i].target = m
        /\ import'[i].file = import[i].file /\ import'[i].ids = import[i].ids
        /\ import'[i].inserted = import[i].inserted /\ import'[i].created = import[i].created
    BY <2>4 DEF IInv, Types, Upload0
  <2>6. Progress(i)' /\ Orphan(i)'
    BY <1>1, <1>2, <2>1, <2>5, SearchingIs DEF Progress, Orphan, UnseenRows
  <2>7. QED
    BY <1>1, <1>2, <1>3, <2>4, <2>5, <2>6, SearchKeeps
<1>6. QED
  BY <1>4, <1>5 DEF Restore

-----------------------------------------------------------------------------
(* The end of a transaction without a commit.                               *)

LEMMA AbortKeeps ==
  ASSUME IInv, NEW i \in Imports, Open(i), Abort(i), UNCHANGED <<batch, deletes, disturbed>>
  PROVE  IInv'
<1> USE DEF IInv
<1>1. /\ \A m \in Meters : /\ meter[m].tx # i => meter'[m] = meter[m]
                           /\ meter[m].tx = i /\ meter[m].state = "none" => meter'[m] = NoRow
                           /\ meter[m].tx = i /\ meter[m].state # "none" =>
                                meter'[m] = [meter[m] EXCEPT !.tx = NoImport]
      /\ reading' = {r \in reading : r.by # i}
  BY DEF Abort, Rollback
<1>2. \A m \in Meters : meter[m].tx = i /\ meter[m].state # "none" =>
         /\ meter'[m].tx = NoImport /\ meter'[m].by = meter[m].by
         /\ meter'[m].code = meter[m].code /\ meter'[m].state = meter[m].state
  <2>1. \A m \in Meters : meter[m] \in Rows
    BY DEF Types
  <2>2. \A row \in Rows : LET free == [row EXCEPT !.tx = NoImport] IN
           free.tx = NoImport /\ free.by = row.by /\ free.code = row.code /\ free.state = row.state
    BY DEF Rows
  <2>3. QED
    BY <1>1, <2>1, <2>2
<1>3. NoRow \in Rows /\ NoRow.tx = NoImport /\ NoRow.by = NoImport /\ NoRow.state = "none"
  BY DEF NoRow, Rows
<1>4. /\ import' \in [Imports -> Upload0]
      /\ \A j \in Imports : j # i => import'[j] = import[j]
      /\ import'[i].pc = "error"
  <2>1. "error" \in Positions /\ Move(i, "error")
    BY DEF Positions, Answers, Abort
  <2>2. QED
    BY <2>1, MoveEffect
<1>5. Types'
  <2>1. \A m \in Meters : meter[m] \in Rows /\ [meter[m] EXCEPT !.tx = NoImport] \in Rows
    BY DEF Types, Rows
  <2>2. meter' = [m \in Meters |-> meter'[m]]
    BY DEF Abort, Rollback
  <2>3. \A m \in Meters : meter'[m] \in Rows
    BY <1>1, <1>3, <2>1
  <2>4. meter' \in [Meters -> Rows]
    BY <2>2, <2>3
  <2>5. reading' \subseteq reading
    BY <1>1
  <2>6. IsFiniteSet(reading')
    BY <2>5, FS_Subset DEF Types
  <2>7. QED
    BY <1>4, <2>4, <2>6 DEF Types
<1>6. HiddenIsHeld'
  BY <1>1, <1>2 DEF HiddenIsHeld
<1>7. Added(i)' = {} /\ Held(i)' = {}
  BY <1>1, <1>2, <1>3, NotImport DEF Added, Held
<1>8. MadeBy(i)' = {}
  <2>1. \A m \in MadeBy(i) : meter'[m] = NoRow
    BY <1>1 DEF PerImport, Private, MadeBy
  <2>2. \A m \in Meters : meter'[m].by = i => meter[m].by = i
    BY <1>1, <1>2, <1>3, NotImport
  <2>3. QED
    BY <1>3, <2>1, <2>2, NotImport DEF MadeBy
<1>9. PerImport(i)'
  <2>1. ~ Open(i)'
    BY <1>4 DEF Open, InTransaction
  <2>2. batch[i].status # "COMPLETED" /\ batch'[i] = batch[i]
    BY DEF PerImport, Recorded, Open, InTransaction
  <2>3. Clean(i)' /\ Counted(i)' /\ Recorded(i)' /\ Private(i)'
    BY <1>4, <1>7, <1>8, <2>1, <2>2 DEF Clean, Counted, Recorded, Private, InTransaction
  <2>4. Progress(i)' /\ Orphan(i)'
    BY <1>4 DEF Progress, Orphan, Searching
  <2>5. QED
    BY <2>3, <2>4 DEF PerImport
<1>10. ASSUME NEW j \in Imports, j # i PROVE PerImport(j)'
  <2>1. Added(j)' = Added(j)
    BY <1>1, <1>10 DEF Added
  <2>2. ASSUME NEW m \in Meters PROVE meter'[m].by = j <=> meter[m].by = j
    <3>1. CASE meter[m].tx = i /\ meter[m].state = "none"
      <4>1. meter'[m].by = NoImport
        BY <1>1, <1>3, <3>1
      <4>2. meter[m].by \in {NoImport, i}
        BY <1>3, <3>1 DEF HiddenIsHeld
      <4>3. QED
        BY <1>10, <4>1, <4>2, NotImport
    <3>2. QED
      BY <1>1, <1>2, <3>1
  <2>3. MadeBy(j)' = MadeBy(j)
    BY <2>2 DEF MadeBy
  <2>4. Held(j)' = Held(j) /\ \A m \in Held(j) : meter'[m] = meter[m]
    BY <1>1, <1>2, <1>3, <1>10, NotImport DEF Held
  <2>5. \A c \in Codes : DeletedMeters(c)' \subseteq DeletedMeters(c)
    BY <1>1, <1>2, <1>3 DEF DeletedMeters
  <2>6. \A m \in Meters : meter[m].state # "none" => meter'[m].state # "none"
    BY <1>1, <1>2
  <2>7. QED
    BY <1>4, <1>10, <2>1, <2>3, <2>4, <2>5, <2>6, Frame
<1>11. QED
  BY <1>5, <1>6, <1>9, <1>10

LEMMA RefuseStep ==
  ASSUME IInv, NEW i \in Imports, Refuse(i)
  PROVE  IInv'
BY AbortKeeps DEF Refuse

\* One of a cycle of waits is waited for, hence in a transaction.
LEMMA DeadlockStep ==
  ASSUME IInv, NEW i \in Imports, Deadlock(i)
  PROVE  IInv'
<1>1. Open(i)
  BY DEF Deadlock, WaitsFor
<1>2. QED
  BY <1>1, AbortKeeps DEF Deadlock

-----------------------------------------------------------------------------
(* The meters an upload restores and creates.                               *)

LEMMA RestoreLockedStep ==
  ASSUME IInv, NEW i \in Imports, RestoreLocked(i)
  PROVE  IInv'
<1> USE DEF IInv
<1>1. import[i].pc = "locked" /\ import[i].pc \in Searching /\ UNCHANGED <<batch, deletes, disturbed>>
  BY DEF RestoreLocked, Searching
<1>2. Open(i) /\ UnseenRows(i) # {}
  BY <1>1, SearchingIs
<1>3. CASE Abort(i)
  BY <1>1, <1>2, <1>3, AbortKeeps
<1>4. ASSUME NEW m \in Meters, m = import[i].target, meter[m].tx = NoImport, meter[m].state # "none",
             meter' = [meter EXCEPT ![m].tx = i], Resolve(i, m, 0, 1), UNCHANGED reading
      PROVE  IInv'
  <2>1. /\ import' \in [Imports -> Upload0]
        /\ \A j \in Imports : j # i => import'[j] = import[j]
        /\ import'[i].pc \in {"insert", "find"}
        /\ import'[i].inserted = import[i].inserted /\ import'[i].created = import[i].created
        /\ import'[i].pc = "find" => UnseenRows(i)' # {}
        /\ \A d \in Codes : import[i].ids[d] # NoMeter => import'[i].ids[d] # NoMeter
    <3>1. import[i].created \in Nat
      BY DEF Types, Upload0
    <3>2. 0 \in Nat /\ 1 \in Nat /\ import[i].created + 0 = import[i].created
      BY <3>1
    <3>3. QED
      BY <1>2, <1>4, <3>2, ResolveEffect
  <2>2. /\ meter'[m] = [meter[m] EXCEPT !.tx = i]
        /\ meter'[m].tx = i /\ meter'[m].by = meter[m].by /\ meter'[m].state = meter[m].state
        /\ \A n \in Meters : n # m => meter'[n] = meter[n]
    BY <1>4 DEF Types, Rows
  <2>3. Types'
    <3>1. meter'[m] \in Rows
      BY <2>2 DEF Types, Rows
    <3>2. meter' = [meter EXCEPT ![m] = meter'[m]]
      BY <1>4, <2>2 DEF Types
    <3>3. QED
      BY <1>1, <1>4, <2>1, <3>1, <3>2 DEF Types
  <2>4. HiddenIsHeld'
    BY <1>4, <2>2 DEF HiddenIsHeld
  <2>5. \A j \in Imports : Added(j)' = Added(j) /\ MadeBy(j)' = MadeBy(j)
    BY <1>4, <2>2 DEF Added, MadeBy
  <2>6. PerImport(i)'
    <3>1. Open(i)'
      BY <2>1 DEF Open, InTransaction
    <3>2. import'[i].pc \notin {"idle", "parse", "error", "rejected"}
      BY <2>1
    <3>3. Clean(i)' /\ Counted(i)' /\ Recorded(i)'
      BY <1>1, <2>1, <2>5, <3>1, <3>2, SearchingIs DEF Clean, Counted, Recorded
    <3>4. m \notin MadeBy(i)
      BY <1>2, <1>4 DEF PerImport, Private
    <3>5. Private(i)'
      BY <1>2, <2>1, <2>2, <2>5, <3>4 DEF PerImport, Private, MadeBy
    <3>6. Progress(i)' /\ Orphan(i)'
      BY <2>1 DEF Progress, Orphan, Searching
    <3>7. QED
      BY <3>3, <3>5, <3>6 DEF PerImport
  <2>7. ASSUME NEW j \in Imports, j # i PROVE PerImport(j)'
    <3>1. Held(j)' = Held(j) /\ \A n \in Held(j) : meter'[n] = meter[n]
      BY <1>4, <2>2, <2>7, NotImport DEF Held
    <3>2. \A c \in Codes : DeletedMeters(c)' \subseteq DeletedMeters(c)
      <4>1. meter'[m].code = meter[m].code
        BY <2>2 DEF Types, Rows
      <4>2. QED
        BY <2>2, <4>1 DEF DeletedMeters
    <3>3. \A n \in Meters : meter[n].state # "none" => meter'[n].state # "none"
      BY <2>2
    <3>4. QED
      BY <1>1, <2>1, <2>5, <2>7, <3>1, <3>2, <3>3, Frame
  <2>8. QED
    BY <2>3, <2>4, <2>6, <2>7
<1>5. import[i].target \in Meters /\ meter[import[i].target].state # "none"
  BY <1>1 DEF PerImport, Progress
<1>6. QED
  BY <1>3, <1>4, <1>5 DEF RestoreLocked

LEMMA CreateStep ==
  ASSUME IInv, NEW i \in Imports, Create(i)
  PROVE  IInv'
<1> USE DEF IInv
<1>1. import[i].pc = "create" /\ import[i].pc \in Searching /\ UNCHANGED <<batch, deletes, disturbed>>
  BY DEF Create, Searching
<1>2. Open(i) /\ UnseenRows(i) # {} /\ Code(i) \in Codes
  BY <1>1, SearchingIs
<1>3. CASE Abort(i)
  BY <1>1, <1>2, <1>3, AbortKeeps
<1>4. ASSUME NEW m \in Meters, meter[m] = NoRow, Resolve(i, m, 1, 0), UNCHANGED reading,
             meter' = [meter EXCEPT ![m] = [NoRow EXCEPT !.code = Code(i), !.tx = i, !.by = i]]
      PROVE  IInv'
  <2>1. /\ import' \in [Imports -> Upload0]
        /\ \A j \in Imports : j # i => import'[j] = import[j]
        /\ import'[i].pc \in {"insert", "find"}
        /\ import'[i].inserted = import[i].inserted /\ import'[i].created = import[i].created + 1
        /\ import'[i].pc = "find" => UnseenRows(i)' # {}
        /\ \A d \in Codes : import[i].ids[d] # NoMeter => import'[i].ids[d] # NoMeter
        /\ import'[i].ids[Code(i)] = m
    <3>1. import'[i].created = import[i].created + 1
      BY <1>4 DEF Resolve, Types, Upload0
    <3>2. 0 \in Nat /\ 1 \in Nat
      OBVIOUS
    <3>3. QED
      BY <1>2, <1>4, <3>1, <3>2, ResolveEffect
  <2>2. /\ meter'[m] \in Rows
        /\ meter'[m].tx = i /\ meter'[m].by = i /\ meter'[m].state = "none" /\ meter'[m].code = Code(i)
        /\ \A n \in Meters : n # m => meter'[n] = meter[n]
    BY <1>2, <1>4 DEF Types, Rows, NoRow
  <2>3. meter[m].by = NoImport /\ meter[m].tx = NoImport /\ meter[m].state = "none"
    BY <1>4 DEF NoRow
  <2>4. Types'
    <3>1. meter' = [meter EXCEPT ![m] = meter'[m]]
      BY <1>4, <2>2 DEF Types
    <3>2. QED
      BY <1>1, <1>4, <2>1, <2>2, <3>1 DEF Types
  <2>5. HiddenIsHeld'
    BY <2>2 DEF HiddenIsHeld
  <2>6. Added(i)' = Added(i) /\ MadeBy(i)' = MadeBy(i) \cup {m} /\ m \notin MadeBy(i)
    BY <1>4, <2>2, <2>3, NotImport DEF Added, MadeBy
  <2>7. Cardinality(MadeBy(i)') = Cardinality(MadeBy(i)) + 1
    <3>1. IsFiniteSet(Meters)
      BY ImportBounds, FS_Interval DEF Meters
    <3>2. IsFiniteSet(MadeBy(i))
      BY <3>1, FS_Subset DEF MadeBy
    <3>3. QED
      BY <2>6, <3>2, FS_AddElement
  <2>8. PerImport(i)'
    <3>1. Open(i)' /\ import'[i].pc \notin {"idle", "parse", "error", "rejected"}
      BY <2>1 DEF Open, InTransaction
    <3>2. Clean(i)' /\ Counted(i)' /\ Recorded(i)'
      BY <1>1, <2>1, <2>6, <2>7, <3>1, SearchingIs DEF Clean, Counted, Recorded
    <3>3. ASSUME NEW n \in MadeBy(i)'
          PROVE  /\ meter'[n].tx = i /\ meter'[n].state = "none" /\ meter'[n].code \in Codes
                 /\ import'[i].ids[meter'[n].code] # NoMeter
      <4>1. CASE n = m
        BY <1>2, <2>1, <2>2, <4>1, NotImport
      <4>2. CASE n # m
        <5>1. n \in MadeBy(i) /\ meter'[n] = meter[n]
          BY <2>2, <2>6, <4>2 DEF MadeBy
        <5>2. QED
          BY <1>2, <2>1, <5>1 DEF PerImport, Private
      <4>3. QED
        BY <4>1, <4>2
    <3>4. Private(i)'
      BY <3>3 DEF Private
    <3>5. Progress(i)' /\ Orphan(i)'
      BY <2>1 DEF Progress, Orphan, Searching
    <3>6. QED
      BY <3>2, <3>4, <3>5 DEF PerImport
  <2>9. ASSUME NEW j \in Imports, j # i PROVE PerImport(j)'
    <3>1. Held(j)' = Held(j) /\ MadeBy(j)' = MadeBy(j) /\ \A n \in Held(j) : meter'[n] = meter[n]
      BY <2>2, <2>3, <2>9, NotImport DEF Held, MadeBy
    <3>2. Added(j)' = Added(j)
      BY <1>4 DEF Added
    <3>3. \A c \in Codes : DeletedMeters(c)' \subseteq DeletedMeters(c)
      BY <2>2 DEF DeletedMeters
    <3>4. \A n \in Meters : meter[n].state # "none" => meter'[n].state # "none"
      BY <2>2, <2>3
    <3>5. QED
      BY <1>1, <2>1, <2>9, <3>1, <3>2, <3>3, <3>4, Frame
  <2>10. QED
    BY <2>4, <2>5, <2>8, <2>9
<1>5. QED
  BY <1>3, <1>4, FreeRow DEF Create

-----------------------------------------------------------------------------
(* The rows and the commit.                                                 *)

LEMMA InsertRowStep ==
  ASSUME IInv, NEW i \in Imports, InsertRow(i)
  PROVE  IInv'
<1> USE DEF IInv
<1>1. import[i].pc = "insert" /\ UNCHANGED <<meter, batch, deletes, disturbed>>
  BY DEF InsertRow, Inserting
<1>2. Open(i) /\ import[i].pc \notin Searching \cup {"idle", "parse", "error", "rejected", "ok", "unknown"}
  BY <1>1 DEF Open, InTransaction, Searching
<1>3. ASSUME NEW added \in {0, 1}, Cardinality(Added(i)') = Cardinality(Added(i)) + added,
             IsFiniteSet(reading'), \A j \in Imports : j # i => Added(j)' = Added(j),
             import' = [import EXCEPT ![i] = [import[i] EXCEPT !.row = import[i].row + 1,
                                                              !.inserted = import[i].inserted + added]]
      PROVE  IInv'
  <2>1. [import[i] EXCEPT !.row = import[i].row + 1, !.inserted = import[i].inserted + added] \in Upload0
    <3>1. import[i].row + 1 \in Nat /\ import[i].inserted + added \in Nat
      BY <1>3 DEF Types, Upload0
    <3>2. QED
      BY <3>1 DEF Types, Upload0
  <2>2. /\ import' \in [Imports -> Upload0]
        /\ \A j \in Imports : j # i => import'[j] = import[j]
        /\ import'[i].pc = import[i].pc /\ import'[i].ids = import[i].ids
        /\ import'[i].inserted = import[i].inserted + added /\ import'[i].created = import[i].created
    BY <1>3, <2>1 DEF Types, Upload0
  <2>3. Types'
    BY <1>1, <1>3, <2>2 DEF Types
  <2>4. MadeBy(i)' = MadeBy(i) /\ Open(i)'
    BY <1>1, <1>2, <2>2 DEF MadeBy, Open
  <2>5. Counted(i)'
    BY <1>1, <1>3, <2>2, <2>4 DEF PerImport, Counted, InTransaction
  <2>6. Clean(i)' /\ Recorded(i)' /\ Private(i)' /\ Progress(i)' /\ Orphan(i)'
    BY <1>1, <1>2, <2>2, <2>4
       DEF PerImport, Clean, Recorded, Private, Progress, Orphan
  <2>7. PerImport(i)'
    BY <2>5, <2>6 DEF PerImport
  <2>8. QED
    BY <1>1, <1>3, <2>2, <2>3, <2>7, OthersKeep
<1>4. CASE import' = [import EXCEPT ![i].row = @ + 1] /\ UNCHANGED reading
  <2>1. import[i].inserted + 0 = import[i].inserted /\ Cardinality(Added(i)) + 0 = Cardinality(Added(i))
    <3>1. import[i].inserted \in Nat /\ import[i].inserted = Cardinality(Added(i))
      BY <1>1 DEF Types, Upload0, PerImport, Counted, InTransaction
    <3>2. QED
      BY <3>1
  <2>2. import' = [import EXCEPT ![i] = [import[i] EXCEPT !.row = import[i].row + 1,
                                                         !.inserted = import[i].inserted + 0]]
    BY <1>4, <2>1 DEF Types, Upload0
  <2>3. \A j \in Imports : Added(j)' = Added(j)
    BY <1>4 DEF Added
  <2>4. QED
    BY <1>3, <1>4, <2>1, <2>2, <2>3 DEF Types
<1>5. ASSUME NEW m, NEW t, [meter |-> m, time |-> t, by |-> i] \notin reading,
             reading' = reading \cup {[meter |-> m, time |-> t, by |-> i]},
             import' = [import EXCEPT ![i].row = @ + 1, ![i].inserted = @ + 1]
      PROVE  IInv'
  <2> DEFINE row == [meter |-> m, time |-> t, by |-> i]
  <2>1. row \notin Added(i) /\ Added(i)' = Added(i) \cup {row}
    BY <1>5 DEF Added
  <2>2. \A j \in Imports : j # i => Added(j)' = Added(j)
    BY <1>5 DEF Added
  <2>3. IsFiniteSet(reading') /\ IsFiniteSet(Added(i))
    BY <1>5, FS_AddElement, FS_Subset DEF Types, Added
  <2>4. Cardinality(Added(i)') = Cardinality(Added(i)) + 1
    BY <2>1, <2>3, FS_AddElement
  <2>5. import' = [import EXCEPT ![i] = [import[i] EXCEPT !.row = import[i].row + 1,
                                                         !.inserted = import[i].inserted + 1]]
    BY <1>5 DEF Types
  <2>6. QED
    BY <1>3, <2>2, <2>3, <2>4, <2>5
<1>6. CASE /\ Conflict(i) = {}
           /\ reading' = reading \cup {[meter |-> import[i].ids[Row(i)[1]], time |-> Row(i)[2], by |-> i]}
           /\ import' = [import EXCEPT ![i].row = @ + 1, ![i].inserted = @ + 1]
  <2>1. [meter |-> import[i].ids[Row(i)[1]], time |-> Row(i)[2], by |-> i] \notin reading
    BY <1>6 DEF Conflict
  <2>2. QED
    BY <1>5, <1>6, <2>1
<1>7. QED
  BY <1>4, <1>6 DEF InsertRow

LEMMA CommitStep ==
  ASSUME IInv, NEW i \in Imports, Commit(i)
  PROVE  IInv'
<1> USE DEF IInv
<1>1. /\ import[i].pc = "insert" /\ UNCHANGED <<reading, deletes, disturbed>>
      /\ \A m \in Meters :
           meter'[m] = IF meter[m].tx # i THEN meter[m] ELSE [meter[m] EXCEPT !.state = "active", !.tx = NoImport]
      /\ meter' = [m \in Meters |-> meter'[m]]
  BY DEF Commit
<1>2. Open(i)
  BY <1>1 DEF Open, InTransaction
<1>3. \A m \in Meters :
         /\ meter'[m] \in Rows /\ meter'[m].by = meter[m].by /\ meter'[m].code = meter[m].code
         /\ meter[m].tx # i => meter'[m] = meter[m]
         /\ meter[m].tx = i => meter'[m].tx = NoImport /\ meter'[m].state = "active"
  <2>1. \A row \in Rows : LET seen == [row EXCEPT !.state = "active", !.tx = NoImport] IN
           /\ seen \in Rows /\ seen.by = row.by /\ seen.code = row.code
           /\ seen.tx = NoImport /\ seen.state = "active"
    BY DEF Rows
  <2>2. \A m \in Meters : meter[m] \in Rows
    BY DEF Types
  <2>3. ASSUME NEW m \in Meters, meter[m].tx = i
        PROVE  /\ meter'[m] \in Rows /\ meter'[m].by = meter[m].by /\ meter'[m].code = meter[m].code
               /\ meter'[m].tx = NoImport /\ meter'[m].state = "active"
    <3>1. meter'[m] = [meter[m] EXCEPT !.state = "active", !.tx = NoImport]
      BY <1>1, <2>3
    <3>2. QED
      BY <2>1, <2>2, <3>1
  <2>4. QED
    BY <1>1, <2>2, <2>3
<1>4. /\ import' \in [Imports -> Upload0]
      /\ \A j \in Imports : j # i => import'[j] = import[j]
      /\ import'[i].pc \in {"ok", "unknown"}
  <2>1. "ok" \in Positions /\ "unknown" \in Positions
    BY DEF Positions, Answers
  <2>2. Move(i, "ok") \/ Move(i, "unknown")
    BY DEF Commit
  <2>3. QED
    BY <2>1, <2>2, MoveEffect
<1>5. /\ batch' \in [Imports -> Batches]
      /\ \A j \in Imports : j # i => batch'[j] = batch[j]
      /\ batch'[i].inserted = import[i].inserted /\ batch'[i].created = import[i].created
  <2> DEFINE done == [status |-> "COMPLETED", rows |-> Len(import[i].file), inserted |-> import[i].inserted,
                      created |-> import[i].created, restored |-> import[i].restored]
  <2>1. import[i].file \in AnyFile /\ import[i] \in Upload0
    BY DEF Types, Upload0
  <2>2. Len(import[i].file) \in Nat
    BY <2>1 DEF AnyFile
  <2>3. done \in Batches
    BY <2>1, <2>2 DEF Batches, Upload0
  <2>4. batch' = [batch EXCEPT ![i] = done]
    BY DEF Commit
  <2>5. QED
    BY <2>3, <2>4 DEF Types
<1>6. Types'
  <2>1. meter' \in [Meters -> Rows]
    BY <1>1, <1>3
  <2>2. QED
    BY <1>1, <1>4, <1>5, <2>1 DEF Types
<1>7. HiddenIsHeld'
  BY <1>3 DEF HiddenIsHeld
<1>8. \A j \in Imports : Added(j)' = Added(j) /\ MadeBy(j)' = MadeBy(j)
  BY <1>1, <1>3 DEF Added, MadeBy
<1>9. PerImport(i)'
  <2>1. ~ Open(i)' /\ import'[i].pc \notin {"idle", "parse", "error", "rejected"} \cup InTransaction \cup Searching
    BY <1>4 DEF Open, InTransaction, Searching
  <2>2. Held(i)' = {}
    BY <1>3, NotImport DEF Held
  <2>3. import[i].inserted = Cardinality(Added(i)) /\ import[i].created = Cardinality(MadeBy(i))
    BY <1>2 DEF PerImport, Counted, Open
  <2>4. Clean(i)' /\ Counted(i)' /\ Recorded(i)' /\ Private(i)'
    BY <1>4, <1>5, <1>8, <2>1, <2>2, <2>3 DEF Clean, Counted, Recorded, Private
  <2>5. Progress(i)' /\ Orphan(i)'
    BY <1>4, <2>1 DEF Progress, Orphan, Searching
  <2>6. QED
    BY <2>4, <2>5 DEF PerImport
<1>10. ASSUME NEW j \in Imports, j # i PROVE PerImport(j)'
  <2>1. Held(j)' = Held(j) /\ \A m \in Held(j) : meter'[m] = meter[m]
    BY <1>3, <1>10, NotImport DEF Held
  <2>2. \A c \in Codes : DeletedMeters(c)' \subseteq DeletedMeters(c)
    BY <1>3 DEF DeletedMeters
  <2>3. \A m \in Meters : meter[m].state # "none" => meter'[m].state # "none"
    BY <1>3
  <2>4. QED
    BY <1>1, <1>4, <1>5, <1>8, <1>10, <2>1, <2>2, <2>3, Frame
<1>11. QED
  BY <1>6, <1>7, <1>9, <1>10

-----------------------------------------------------------------------------
(* The theorems.                                                            *)

LEMMA StepIInv == IInv /\ [Next]_vars => IInv'
<1> SUFFICES ASSUME IInv, [Next]_vars PROVE IInv'
  OBVIOUS
<1>1. ASSUME NEW i \in Imports, ImportStep(i) PROVE IInv'
  BY <1>1, ParseStep, FindStep, RestoreStep, RestoreLockedStep, CreateStep, InsertRowStep, CommitStep,
     DeadlockStep DEF ImportStep
<1>2. ASSUME NEW i \in Imports, Refuse(i) PROVE IInv'
  BY <1>2, RefuseStep
<1>3. ASSUME NEW i \in Imports, NEW file \in Files, Upload(i, file) PROVE IInv'
  BY <1>3, UploadStep
<1>4. ASSUME NEW m \in Meters, Delete(m) PROVE IInv'
  BY <1>4, DeleteStep
<1>5. ASSUME NEW c \in Codes, Post(c) PROVE IInv'
  BY <1>5, PostStep
<1>6. CASE UNCHANGED vars
  <2>1. /\ UNCHANGED <<meter, disturbed, reading, batch, deletes, import>>
    BY <1>6 DEF vars
  <2>2. \A i \in Imports : Added(i)' = Added(i) /\ MadeBy(i)' = MadeBy(i) /\ Held(i)' = Held(i)
    BY <2>1, SameSets
  <2>3. \A c \in Codes : DeletedMeters(c)' = DeletedMeters(c)
    BY <2>1 DEF DeletedMeters
  <2>4. \A i \in Imports : PerImport(i)'
    BY <2>1, <2>2, <2>3, Frame DEF IInv
  <2>5. Types' /\ HiddenIsHeld'
    BY <2>1 DEF IInv, Types, HiddenIsHeld
  <2>6. QED
    BY <2>4, <2>5 DEF IInv
<1>7. QED
  BY <1>1, <1>2, <1>3, <1>4, <1>5, <1>6 DEF Next

\* The inductive invariant holds at every state of the specification.
THEOREM ImportInvariant == Spec => []IInv
<1>1. SafeIngestion => []IInv
  BY InitIInv, StepIInv, PTL DEF SafeIngestion
<1>2. QED
  BY <1>1, SpecIsSafe, PTL

\* For any files, codes and number of imports, the counts of the history are
\* the rows and the meters the import added.
THEOREM BatchCountsAreTrueHolds == Spec => []BatchCountsAreTrue
<1>1. IInv => BatchCountsAreTrue
  BY DEF IInv, PerImport, Recorded, BatchCountsAreTrue, Added, MadeBy
<1>2. QED
  BY <1>1, ImportInvariant, PTL

\* And an import that is refused or ends in an error leaves nothing behind.
THEOREM ErrorLeavesNothingHolds == Spec => []ErrorLeavesNothing
<1>1. IInv => ErrorLeavesNothing
  <2> SUFFICES ASSUME IInv, NEW i \in Imports, import[i].pc \in {"error", "rejected"}
               PROVE  /\ batch[i].status # "COMPLETED"
                      /\ \A r \in reading : r.by # i
                      /\ \A m \in Meters : meter[m].by # i /\ meter[m].tx # i
    BY DEF ErrorLeavesNothing
  <2>1. ~ Open(i)
    BY DEF Open, InTransaction
  <2>2. QED
    BY <2>1 DEF IInv, PerImport, Clean, Recorded, Added, MadeBy, Held
<1>2. QED
  BY <1>1, ImportInvariant, PTL

\* A meter appears for an import only by Create.
LEMMA OnlyCreate ==
  ASSUME IInv, Next, NEW m \in Meters, meter[m] = NoRow, meter'[m].by # NoImport
  PROVE  \E i \in Imports : Create(i) /\ ~ Abort(i) /\ meter'[m].code = Code(i)
<1>1. meter[m].tx = NoImport /\ meter[m].by = NoImport /\ meter[m].state = "none" /\ meter \in [Meters -> Rows]
  BY DEF NoRow, IInv, Types
<1>2. meter' # meter
  BY <1>1
<1>3. ASSUME NEW i \in Imports, Rollback(i) PROVE FALSE
  BY <1>1, <1>3, NotImport DEF Rollback
<1>4. ASSUME NEW i \in Imports, Commit(i) PROVE FALSE
  BY <1>1, <1>4, NotImport DEF Commit
<1>5. ASSUME NEW n \in Meters, Delete(n) PROVE FALSE
  <2>1. n # m /\ meter'[m] = meter[m]
    BY <1>1, <1>5 DEF Delete
  <2>2. QED
    BY <1>1, <2>1
<1>6. ASSUME NEW c \in Codes, Post(c) PROVE FALSE
  <2>1. PICK n \in Meters : meter' = [meter EXCEPT ![n] = [NoRow EXCEPT !.code = c, !.state = "active"]]
    BY <1>6, FreeRow DEF Post, IInv
  <2>2. meter'[m].by = NoImport
    BY <1>1, <2>1 DEF NoRow
  <2>3. QED
    BY <2>2
<1>7. ASSUME NEW i \in Imports, RestoreLocked(i) PROVE FALSE
  <2>1. import[i].target \in Meters /\ meter[import[i].target].state # "none"
    BY <1>7 DEF RestoreLocked, IInv, PerImport, Progress
  <2>2. meter'[m] = meter[m]
    BY <1>1, <1>3, <1>7, <2>1 DEF RestoreLocked, Abort
  <2>3. QED
    BY <1>1, <2>2
<1>8. ASSUME NEW i \in Imports, Create(i) PROVE ~ Abort(i) /\ meter'[m].code = Code(i)
  <2>1. ~ Abort(i)
    BY <1>3 DEF Abort
  <2>2. PICK n \in Meters : meter' = [meter EXCEPT ![n] = [NoRow EXCEPT !.code = Code(i), !.tx = i, !.by = i]]
    BY <1>8, <2>1, FreeRow DEF Create, IInv
  <2>3. n = m
    BY <1>1, <2>2
  <2>4. meter'[m].code = Code(i)
    BY <1>1, <2>2, <2>3 DEF NoRow
  <2>5. QED
    BY <2>1, <2>4
<1>9. QED
  BY <1>2, <1>3, <1>4, <1>5, <1>6, <1>7, <1>8
     DEF Next, ImportStep, Parse, Find, Restore, InsertRow, Deadlock, Refuse, Abort, Upload

\* A meter is created only for a code no meter has had: not an active one, not
\* one that another import is creating or restoring, not one this import has
\* created before and, unless a deletion disturbed it, not a deleted one.
THEOREM HistoryInOneMeterHolds == Spec => HistoryInOneMeter
<1>1. ASSUME IInv, [Next]_vars, NEW m \in Meters, meter[m] = NoRow, meter'[m].by # NoImport, ~ disturbed,
             NEW n \in Meters
      PROVE  meter[n].code # meter'[m].code
  <2>1. Next
    <3>1. meter[m].by = NoImport
      BY <1>1 DEF NoRow
    <3>2. QED
      BY <1>1, <3>1 DEF vars
  <2>2. PICK i \in Imports : Create(i) /\ ~ Abort(i) /\ meter'[m].code = Code(i)
    BY <1>1, <2>1, OnlyCreate
  <2>3. /\ import[i].pc = "create" /\ import[i].pc \in Searching
        /\ ActiveMeters(Code(i)) = {} /\ PendingEntries(Code(i), i) = {}
    BY <2>2 DEF Create, Searching
  <2>4. Open(i) /\ Code(i) \in Codes /\ import[i].ids[Code(i)] = NoMeter
    BY <1>1, <2>3, SearchingIs
  <2>5. DeletedMeters(Code(i)) = {}
    BY <1>1, <2>3 DEF IInv, PerImport, Orphan
  <2>6. SUFFICES ASSUME meter[n].code = Code(i) PROVE FALSE
    BY <2>2
  <2>7. meter[n].state = "none"
    <3>1. meter[n].state \in {"none", "active", "deleted"}
      BY <1>1 DEF IInv, Types, Rows
    <3>2. QED
      BY <2>3, <2>5, <2>6, <3>1 DEF ActiveMeters, DeletedMeters
  <2>8. meter[n] # NoRow
    BY <2>4, <2>6, NoCodeIsNoCode DEF NoRow
  <2>9. meter[n].by = meter[n].tx /\ meter[n].tx \in Imports
    BY <1>1, <2>7, <2>8 DEF IInv, HiddenIsHeld
  <2>10. meter[n].tx = i
    BY <2>3, <2>6, <2>7, <2>9, NotImport DEF PendingEntries
  <2>11. n \in MadeBy(i)
    BY <2>9, <2>10 DEF MadeBy
  <2>12. QED
    BY <1>1, <2>4, <2>6, <2>11 DEF IInv, PerImport, Private
<1>2. IInv /\ [Next]_vars =>
        [\A m \in Meters : (meter[m] = NoRow /\ meter'[m].by # NoImport /\ ~ disturbed)
            => \A n \in Meters : meter[n].code # meter'[m].code]_vars
  BY <1>1
<1>3. SafeIngestion /\ []IInv => HistoryInOneMeter
  BY <1>2, PTL DEF SafeIngestion, HistoryInOneMeter
<1>4. QED
  BY <1>3, ImportInvariant, SpecIsSafe, PTL

-----------------------------------------------------------------------------
(* The rows of an import answered with success are stored: a second         *)
(* invariant, over the first.                                               *)

Finished == {"ok", "unknown"}
Inserted(i) == import[i].pc \in {"insert"} \cup Finished

\* The meters an upload knows have their code, and stay: they are visible or
\* its own.
Known(i) ==
    import[i].pc \in InTransaction \cup Finished =>
        \A c \in Codes : import[i].ids[c] # NoMeter =>
            /\ meter[import[i].ids[c]].code = c
            /\ meter[import[i].ids[c]].state # "none" \/ meter[import[i].ids[c]].by = i
Targeted(i) == import[i].pc = "locked" => meter[import[i].target].code = Code(i)

\* A row of the file that is stored by this upload, or by one that committed.
StoredRow(i, k) ==
    \E r \in reading : /\ r.meter = import[i].ids[import[i].file[k][1]] /\ r.time = import[i].file[k][2]
                       /\ r.by = i \/ import[r.by].pc \in Finished

\* The rows before the next one are stored; after the last, all.
Stored(i) ==
    /\ ~ Inserted(i) /\ import[i].pc \notin {"error", "rejected"} => import[i].row = 1
    /\ Inserted(i) => /\ UnseenRows(i) = {}
                      /\ \A k \in 1..Len(import[i].file) : k < import[i].row => StoredRow(i, k)
    /\ import[i].pc \in Finished => import[i].row > Len(import[i].file)

Saved(i) == Known(i) /\ Targeted(i) /\ Stored(i)

SInv == (\A r \in reading : r.by \in Imports) /\ \A i \in Imports : Saved(i)

LEMMA InitSInv == Init => SInv
<1> SUFFICES ASSUME Init PROVE SInv
  OBVIOUS
<1>1. \A i \in Imports : import[i].pc = "idle" /\ import[i].row = 1
  BY DEF Init, NoUpload
<1>2. \A i \in Imports : Saved(i)
  BY <1>1 DEF Saved, Known, Targeted, Stored, Inserted, InTransaction, Finished
<1>3. QED
  BY <1>2 DEF Init, SInv

-----------------------------------------------------------------------------
(* An upload that a step of another leaves alone.                           *)

LEMMA SavedFrame ==
  ASSUME IInv, NEW j \in Imports, Saved(j), \A r \in reading : r.by \in Imports,
         import'[j] = import[j],
         \A k \in Imports : import[k].pc \in Finished => import'[k].pc \in Finished,
         \A r \in reading : r.by = j \/ import[r.by].pc \in Finished => r \in reading',
         \A m \in Meters : meter[m].state # "none" \/ meter[m].by = j =>
             /\ meter'[m].code = meter[m].code
             /\ meter'[m].state # "none" \/ meter'[m].by = j
  PROVE  Saved(j)'
<1>1. import[j] \in Upload0 /\ UnseenRows(j)' = UnseenRows(j) /\ Code(j)' = Code(j)
  BY DEF IInv, Types, UnseenRows, Code
<1>2. Known(j)'
  <2> SUFFICES ASSUME import[j].pc \in InTransaction \cup Finished, NEW c \in Codes,
                      import[j].ids[c] # NoMeter
               PROVE  /\ meter'[import[j].ids[c]].code = c
                      /\ meter'[import[j].ids[c]].state # "none" \/ meter'[import[j].ids[c]].by = j
    BY DEF Known
  <2>1. import[j].ids[c] \in Meters
    BY <1>1 DEF Upload0
  <2>2. QED
    BY <2>1 DEF Saved, Known
<1>3. Targeted(j)'
  <2> SUFFICES ASSUME import[j].pc = "locked" PROVE meter'[import[j].target].code = Code(j)
    BY <1>1 DEF Targeted
  <2>1. import[j].target \in Meters /\ meter[import[j].target].state # "none"
    BY DEF IInv, PerImport, Progress
  <2>2. QED
    BY <2>1 DEF Saved, Targeted
<1>4. Stored(j)'
  <2>1. \A k : StoredRow(j, k) => StoredRow(j, k)'
    BY DEF StoredRow
  <2>2. QED
    BY <1>1, <2>1 DEF Saved, Stored, Inserted
<1>5. QED
  BY <1>2, <1>3, <1>4 DEF Saved

\* A step of an upload that leaves the meters alone and removes no row.
LEMMA SavedOthers ==
  ASSUME IInv, SInv, NEW i \in Imports, UNCHANGED meter, reading \subseteq reading',
         import[i].pc \notin Finished, \A j \in Imports : j # i => import'[j] = import[j],
         \A r \in reading' \ reading : r.by = i, Saved(i)'
  PROVE  SInv'
<1>1. \A r \in reading' : r.by \in Imports
  BY DEF SInv
<1>2. ASSUME NEW j \in Imports, j # i PROVE Saved(j)'
  <2>1. \A k \in Imports : import[k].pc \in Finished => import'[k].pc \in Finished
    OBVIOUS
  <2>2. QED
    BY <1>2, <2>1, SavedFrame DEF SInv
<1>3. QED
  BY <1>1, <1>2 DEF SInv

\* An upload that knows the same meters and has inserted nothing yet.
LEMMA SavedSame ==
  ASSUME IInv, SInv, NEW i \in Imports, import[i].pc \in {"idle", "parse"} \cup Searching,
         UNCHANGED meter, import'[i].pc \in {"parse"} \cup Searching,
         import'[i].ids = import[i].ids, import'[i].row = import[i].row,
         import'[i].pc = "locked" => meter[import'[i].target].code = Code(i)',
         import[i].pc \in {"idle", "parse"} => import[i].ids = [c \in Codes |-> NoMeter]
  PROVE  Saved(i)'
<1>1. Stored(i)'
  BY DEF SInv, Saved, Stored, Inserted, Finished, Searching
<1>2. Known(i)'
  BY DEF SInv, Saved, Known, InTransaction, Finished, Searching
<1>3. Targeted(i)'
  BY DEF Targeted
<1>4. QED
  BY <1>1, <1>2, <1>3 DEF Saved

LEMMA SavedEnded ==
  ASSUME NEW i \in Imports, import'[i].pc \in {"error", "rejected"}
  PROVE  Saved(i)'
BY DEF Saved, Known, Targeted, Stored, Inserted, InTransaction, Finished

-----------------------------------------------------------------------------
(* The steps.                                                               *)

LEMMA SavedUpload ==
  ASSUME IInv, SInv, NEW i \in Imports, NEW file \in Files, Upload(i, file)
  PROVE  SInv'
<1>1. /\ import[i].pc = "idle" /\ UNCHANGED <<meter, reading>>
      /\ \A j \in Imports : j # i => import'[j] = import[j]
      /\ import'[i].pc = "parse" /\ import'[i].ids = import[i].ids /\ import'[i].row = import[i].row
  BY DEF Upload, IInv, Types, Upload0
<1>2. import[i].ids = [c \in Codes |-> NoMeter]
  BY <1>1 DEF IInv, PerImport, Progress
<1>3. Saved(i)'
  BY <1>1, <1>2, SavedSame
<1>4. QED
  BY <1>1, <1>3, SavedOthers DEF Finished

LEMMA MoveKeeps ==
  ASSUME IInv, NEW i \in Imports, NEW pc, Move(i, pc)
  PROVE  /\ import'[i].pc = pc /\ import'[i].ids = import[i].ids /\ import'[i].row = import[i].row
         /\ import'[i].file = import[i].file
         /\ \A j \in Imports : j # i => import'[j] = import[j]
BY DEF Move, IInv, Types, Upload0

LEMMA SavedParse ==
  ASSUME IInv, SInv, NEW i \in Imports, Parse(i)
  PROVE  SInv'
<1>1. import[i].pc = "parse" /\ UNCHANGED <<meter, reading>>
  BY DEF Parse
<1>2. import[i].ids = [c \in Codes |-> NoMeter]
  BY <1>1 DEF IInv, PerImport, Progress
<1>3. CASE Move(i, "find")
  <2>1. Saved(i)'
    BY <1>1, <1>2, <1>3, MoveKeeps, SavedSame DEF Searching
  <2>2. QED
    BY <1>1, <1>3, <2>1, MoveKeeps, SavedOthers DEF Finished
<1>4. CASE Move(i, "rejected")
  <2>1. Saved(i)'
    BY <1>4, MoveKeeps, SavedEnded
  <2>2. QED
    BY <1>1, <1>4, <2>1, MoveKeeps, SavedOthers DEF Finished
<1>5. QED
  BY <1>3, <1>4 DEF Parse

LEMMA SavedRestore ==
  ASSUME IInv, SInv, NEW i \in Imports, Restore(i)
  PROVE  SInv'
<1>1. import[i].pc = "restore" /\ import[i].pc \in Searching /\ UNCHANGED <<meter, reading>>
  BY DEF Restore, Searching
<1>2. CASE Move(i, "create")
  <2>1. Saved(i)'
    BY <1>1, <1>2, MoveKeeps, SavedSame DEF Searching
  <2>2. QED
    BY <1>1, <1>2, <2>1, MoveKeeps, SavedOthers DEF Finished
<1>3. ASSUME NEW m \in DeletedMeters(Code(i)), import' = [import EXCEPT ![i].pc = "locked", ![i].target = m]
      PROVE  SInv'
  <2>1. /\ import'[i].pc = "locked" /\ import'[i].target = m /\ import'[i].ids = import[i].ids
        /\ import'[i].row = import[i].row /\ import'[i].file = import[i].file
        /\ \A j \in Imports : j # i => import'[j] = import[j]
    BY <1>3 DEF IInv, Types, Upload0
  <2>2. Code(i)' = Code(i) /\ meter[m].code = Code(i)
    BY <2>1 DEF Code, UnseenRows, DeletedMeters
  <2>3. Saved(i)'
    BY <1>1, <2>1, <2>2, SavedSame DEF Searching
  <2>4. QED
    BY <1>1, <2>1, <2>3, SavedOthers DEF Finished
<1>4. QED
  BY <1>2, <1>3 DEF Restore

\* The meter of the current code is found, restored or created.
LEMMA SavedResolve ==
  ASSUME IInv, SInv, NEW i \in Imports, import[i].pc \in Searching, NEW m \in Meters, NEW a, NEW b,
         Resolve(i, m, a, b),
         \A n \in Meters : meter[n].state # "none" \/ meter[n].by = i =>
             /\ meter'[n].code = meter[n].code
             /\ meter'[n].state # "none" \/ meter'[n].by = i,
         meter'[m].code = Code(i), meter'[m].state # "none" \/ meter'[m].by = i
  PROVE  /\ Saved(i)'
         /\ \A j \in Imports : j # i => import'[j] = import[j]
<1>1. UnseenRows(i) # {} /\ Code(i) \in Codes /\ import[i] \in Upload0
  BY SearchingIs DEF IInv, Types
<1>2. /\ import'[i].ids = [import[i].ids EXCEPT ![Code(i)] = m]
      /\ import'[i].pc = IF LastCode(i) THEN "insert" ELSE "find"
      /\ import'[i].file = import[i].file /\ import'[i].row = import[i].row
      /\ \A j \in Imports : j # i => import'[j] = import[j]
  BY <1>1 DEF Resolve, IInv, Types, Upload0
<1>3. /\ import'[i].ids[Code(i)] = m
      /\ \A c \in Codes : c # Code(i) => import'[i].ids[c] = import[i].ids[c]
  BY <1>1, <1>2 DEF Upload0
<1>4. Known(i)'
  <2> SUFFICES ASSUME NEW c \in Codes, import'[i].ids[c] # NoMeter
               PROVE  /\ meter'[import'[i].ids[c]].code = c
                      /\ meter'[import'[i].ids[c]].state # "none" \/ meter'[import'[i].ids[c]].by = i
    BY DEF Known
  <2>1. CASE c = Code(i)
    BY <1>3, <2>1
  <2>2. CASE c # Code(i)
    <3>1. import'[i].ids[c] = import[i].ids[c] /\ import[i].ids[c] \in Meters
      BY <1>1, <1>3, <2>2 DEF Upload0
    <3>2. import[i].pc \in InTransaction
      BY DEF Searching, InTransaction
    <3>3. QED
      BY <3>1, <3>2 DEF SInv, Saved, Known
  <2>3. QED
    BY <2>1, <2>2
<1>5. LastCode(i) => UnseenRows(i)' = {}
  <2> SUFFICES ASSUME LastCode(i), NEW k \in UnseenRows(i)' PROVE FALSE
    OBVIOUS
  <2>1. k \in 1..Len(import[i].file) /\ import'[i].ids[import[i].file[k][1]] = NoMeter
    BY <1>2 DEF UnseenRows
  <2>2. import[i].file[k][1] \in Codes
    BY <1>1, <2>1 DEF Upload0, AnyFile
  <2>3. import[i].file[k][1] # Code(i)
    BY <1>3, <2>1, NotImport
  <2>4. k \in UnseenRows(i)
    BY <1>3, <2>1, <2>2, <2>3 DEF UnseenRows
  <2>5. QED
    BY <2>3, <2>4 DEF LastCode
<1>6. Stored(i)'
  <2>1. import[i].row = 1
    BY DEF SInv, Saved, Stored, Inserted, Finished, Searching
  <2>2. \A k \in 1..Len(import'[i].file) : ~ (k < import'[i].row)
    BY <1>2, <2>1
  <2>3. QED
    BY <1>2, <1>5, <2>1, <2>2 DEF Stored, Inserted, Finished
<1>7. Targeted(i)'
  BY <1>2 DEF Targeted
<1>8. QED
  BY <1>2, <1>4, <1>6, <1>7 DEF Saved

LEMMA SavedFind ==
  ASSUME IInv, SInv, NEW i \in Imports, Find(i)
  PROVE  SInv'
<1>1. import[i].pc = "find" /\ import[i].pc \in Searching /\ UNCHANGED <<meter, reading>>
  BY DEF Find, Searching
<1>2. CASE Move(i, "restore")
  <2>1. Saved(i)'
    BY <1>1, <1>2, MoveKeeps, SavedSame DEF Searching
  <2>2. QED
    BY <1>1, <1>2, <2>1, MoveKeeps, SavedOthers DEF Finished
<1>3. ASSUME NEW m \in ActiveMeters(Code(i)), Resolve(i, m, 0, 0) PROVE SInv'
  <2>1. m \in Meters /\ meter[m].code = Code(i) /\ meter[m].state # "none"
    BY DEF ActiveMeters
  <2>2. Saved(i)' /\ \A j \in Imports : j # i => import'[j] = import[j]
    BY <1>1, <1>3, <2>1, SavedResolve
  <2>3. QED
    BY <1>1, <2>2, SavedOthers DEF Finished
<1>4. QED
  BY <1>2, <1>3 DEF Find

\* The end without a commit takes away what only this upload had.
LEMMA SavedAbort ==
  ASSUME IInv, SInv, NEW i \in Imports, Open(i), Abort(i)
  PROVE  SInv'
<1>1. /\ \A m \in Meters : /\ meter[m].tx # i => meter'[m] = meter[m]
                           /\ meter[m].tx = i /\ meter[m].state # "none" =>
                                meter'[m] = [meter[m] EXCEPT !.tx = NoImport]
      /\ reading' = {r \in reading : r.by # i}
  BY DEF Abort, Rollback
<1>2. import'[i].pc = "error" /\ \A j \in Imports : j # i => import'[j] = import[j]
  BY MoveKeeps DEF Abort
<1>3. import[i].pc \notin Finished
  BY DEF Open, InTransaction, Finished
<1>4. ASSUME NEW j \in Imports, j # i PROVE Saved(j)'
  <2>1. ASSUME NEW m \in Meters, meter[m].state # "none" \/ meter[m].by = j
        PROVE  meter'[m].code = meter[m].code /\ (meter'[m].state # "none" \/ meter'[m].by = j)
    <3>1. CASE meter[m].tx # i
      BY <1>1, <2>1, <3>1
    <3>2. CASE meter[m].tx = i /\ meter[m].state # "none"
      <4>1. meter[m] \in Rows /\ meter'[m] = [meter[m] EXCEPT !.tx = NoImport]
        BY <1>1, <3>2 DEF IInv, Types
      <4>2. QED
        BY <3>2, <4>1 DEF Rows
    <3>3. CASE meter[m].tx = i /\ meter[m].state = "none"
      <4>1. meter[m].by = j
        BY <2>1, <3>3
      <4>2. meter[m] # NoRow
        BY <4>1, NotImport DEF NoRow
      <4>3. meter[m].by = i
        BY <3>3, <4>2 DEF IInv, HiddenIsHeld
      <4>4. QED
        BY <1>4, <4>1, <4>3
    <3>4. QED
      BY <3>1, <3>2, <3>3
  <2>2. \A r \in reading : r.by = j \/ import[r.by].pc \in Finished => r \in reading'
    BY <1>1, <1>3, <1>4
  <2>3. \A k \in Imports : import[k].pc \in Finished => import'[k].pc \in Finished
    BY <1>2, <1>3
  <2>4. QED
    BY <1>2, <1>4, <2>1, <2>2, <2>3, SavedFrame DEF SInv
<1>5. Saved(i)'
  BY <1>2, SavedEnded
<1>6. \A r \in reading' : r.by \in Imports
  BY <1>1 DEF SInv
<1>7. QED
  BY <1>4, <1>5, <1>6 DEF SInv

\* A row of the meter table changes, in a way no other upload depends on.
LEMMA SavedRow ==
  ASSUME IInv, SInv, NEW i \in Imports, import[i].pc \notin Finished, UNCHANGED reading,
         \A j \in Imports : j # i => import'[j] = import[j], Saved(i)',
         \A m \in Meters : \A by \in Imports : meter[m].state # "none" \/ meter[m].by = by =>
             meter'[m].code = meter[m].code /\ (meter'[m].state # "none" \/ meter'[m].by = by)
  PROVE  SInv'
<1>1. ASSUME NEW j \in Imports, j # i PROVE Saved(j)'
  <2>1. \A k \in Imports : import[k].pc \in Finished => import'[k].pc \in Finished
    OBVIOUS
  <2>2. QED
    BY <1>1, <2>1, SavedFrame DEF SInv
<1>2. QED
  BY <1>1 DEF SInv

LEMMA SavedRestoreLocked ==
  ASSUME IInv, SInv, NEW i \in Imports, RestoreLocked(i)
  PROVE  SInv'
<1>1. import[i].pc = "locked" /\ import[i].pc \in Searching /\ Open(i) /\ import[i].pc \notin Finished
  BY DEF RestoreLocked, Searching, Open, InTransaction, Finished
<1>2. CASE Abort(i)
  BY <1>1, <1>2, SavedAbort
<1>3. CASE /\ meter' = [meter EXCEPT ![import[i].target].tx = i]
           /\ Resolve(i, import[i].target, 0, 1) /\ UNCHANGED reading
  <2> DEFINE m == import[i].target
  <2>1. m \in Meters /\ meter[m].state # "none" /\ meter[m].code = Code(i)
    BY <1>1 DEF IInv, PerImport, Progress, SInv, Saved, Targeted
  <2>2. /\ \A n \in Meters : n # m => meter'[n] = meter[n]
        /\ meter'[m].code = meter[m].code /\ meter'[m].state = meter[m].state /\ meter'[m].by = meter[m].by
    BY <1>3, <2>1 DEF IInv, Types, Rows
  <2>3. \A n \in Meters : \A by \in Imports : meter[n].state # "none" \/ meter[n].by = by =>
            meter'[n].code = meter[n].code /\ (meter'[n].state # "none" \/ meter'[n].by = by)
    BY <2>2
  <2>4. Saved(i)' /\ \A j \in Imports : j # i => import'[j] = import[j]
    BY <1>1, <1>3, <2>1, <2>2, <2>3, SavedResolve
  <2>5. QED
    BY <1>1, <1>3, <2>3, <2>4, SavedRow
<1>4. QED
  BY <1>2, <1>3 DEF RestoreLocked

LEMMA SavedCreate ==
  ASSUME IInv, SInv, NEW i \in Imports, Create(i)
  PROVE  SInv'
<1>1. import[i].pc = "create" /\ import[i].pc \in Searching /\ Open(i) /\ import[i].pc \notin Finished
  BY DEF Create, Searching, Open, InTransaction, Finished
<1>2. CASE Abort(i)
  BY <1>1, <1>2, SavedAbort
<1>3. ASSUME NEW m \in Meters, meter[m] = NoRow, Resolve(i, m, 1, 0), UNCHANGED reading,
             meter' = [meter EXCEPT ![m] = [NoRow EXCEPT !.code = Code(i), !.tx = i, !.by = i]]
      PROVE  SInv'
  <2>1. meter[m].state = "none" /\ meter[m].by = NoImport
    BY <1>3 DEF NoRow
  <2>2. /\ \A n \in Meters : n # m => meter'[n] = meter[n]
        /\ meter'[m].code = Code(i) /\ meter'[m].by = i
    BY <1>3 DEF IInv, Types, NoRow
  <2>3. \A n \in Meters : \A by \in Imports : meter[n].state # "none" \/ meter[n].by = by =>
            meter'[n].code = meter[n].code /\ (meter'[n].state # "none" \/ meter'[n].by = by)
    BY <2>1, <2>2, NotImport
  <2>4. Saved(i)' /\ \A j \in Imports : j # i => import'[j] = import[j]
    BY <1>1, <1>3, <2>2, <2>3, SavedResolve
  <2>5. QED
    BY <1>1, <1>3, <2>3, <2>4, SavedRow
<1>4. QED
  BY <1>2, <1>3, FreeRow DEF Create, IInv

LEMMA SavedInsertRow ==
  ASSUME IInv, SInv, NEW i \in Imports, InsertRow(i)
  PROVE  SInv'
<1>1. /\ import[i].pc = "insert" /\ import[i].row <= Len(import[i].file) /\ UNCHANGED meter
      /\ reading \subseteq reading' /\ \A r \in reading' \ reading : r.by = i
  BY DEF InsertRow, Inserting
<1>2. /\ import'[i].row = import[i].row + 1
      /\ import'[i].pc = import[i].pc /\ import'[i].file = import[i].file /\ import'[i].ids = import[i].ids
      /\ \A j \in Imports : j # i => import'[j] = import[j]
      /\ import[i].row \in Nat /\ import[i].file \in AnyFile
  BY DEF InsertRow, IInv, Types, Upload0
<1>3. \A k \in Imports : import[k].pc \in Finished => import'[k].pc = import[k].pc
  BY <1>2
<1>4. \A k : StoredRow(i, k) => StoredRow(i, k)'
  <2> SUFFICES ASSUME NEW k, StoredRow(i, k) PROVE StoredRow(i, k)'
    OBVIOUS
  <2>1. PICK r \in reading : /\ r.meter = import[i].ids[import[i].file[k][1]] /\ r.time = import[i].file[k][2]
                             /\ r.by = i \/ import[r.by].pc \in Finished
    BY DEF StoredRow
  <2>2. r \in reading' /\ (r.by = i \/ import'[r.by].pc \in Finished)
    BY <1>1, <1>3, <2>1 DEF SInv
  <2>3. QED
    BY <1>2, <2>1, <2>2 DEF StoredRow
<1>5. ASSUME NEW n, n = import[i].row PROVE StoredRow(i, n)'
  <2>1. CASE \E r \in Conflict(i) : r.by = i \/ ~ Open(r.by)
    <3>1. PICK r \in reading : /\ r.meter = import[i].ids[Row(i)[1]] /\ r.time = Row(i)[2]
                               /\ r.by = i \/ ~ Open(r.by)
      BY <2>1 DEF Conflict
    <3>2. r.by \in Imports /\ r \in Added(r.by)
      BY <3>1 DEF SInv, Added
    <3>3. r.by = i \/ import[r.by].pc \in Finished
      <4>1. import[r.by].pc \in Positions
        BY <3>2 DEF IInv, Types, Upload0
      <4>2. import[r.by].pc \notin {"idle", "parse", "error", "rejected"}
        BY <3>2 DEF IInv, PerImport, Clean
      <4>3. QED
        BY <3>1, <4>1, <4>2 DEF Open, Positions, Answers, Finished
    <3>4. StoredRow(i, n)
      BY <1>5, <3>1, <3>3 DEF StoredRow, Row
    <3>5. QED
      BY <1>4, <3>4
  <2>2. CASE reading' = reading \cup {[meter |-> import[i].ids[Row(i)[1]], time |-> Row(i)[2], by |-> i]}
    <3> DEFINE added == [meter |-> import[i].ids[Row(i)[1]], time |-> Row(i)[2], by |-> i]
    <3>1. /\ added \in reading' /\ added.by = i
          /\ added.meter = import[i].ids[Row(i)[1]] /\ added.time = Row(i)[2]
      BY <2>2
    <3> HIDE DEF added
    <3>2. QED
      BY <1>2, <1>5, <3>1 DEF StoredRow, Row
  <2>3. QED
    BY <2>1, <2>2 DEF InsertRow
<1>6. Stored(i)'
  <2>1. UnseenRows(i)' = {}
    <3>1. UnseenRows(i)' = UnseenRows(i)
      BY <1>2 DEF UnseenRows
    <3>2. QED
      BY <1>1, <3>1 DEF SInv, Saved, Stored, Inserted, Finished
  <2>2. ASSUME NEW k \in 1..Len(import'[i].file), k < import'[i].row PROVE StoredRow(i, k)'
    <3>1. CASE k = import[i].row
      BY <1>5, <3>1
    <3>2. CASE k # import[i].row
      <4>1. k < import[i].row
        BY <1>2, <2>2, <3>2
      <4>2. StoredRow(i, k)
        BY <1>1, <1>2, <2>2, <4>1 DEF SInv, Saved, Stored, Inserted, Finished
      <4>3. QED
        BY <1>4, <4>2
    <3>3. QED
      BY <3>1, <3>2
  <2>3. Inserted(i)' /\ import'[i].pc \notin Finished
    BY <1>1, <1>2 DEF Inserted, Finished
  <2>4. QED
    BY <2>1, <2>2, <2>3 DEF Stored
<1>7. Known(i)' /\ Targeted(i)'
  BY <1>1, <1>2 DEF SInv, Saved, Known, Targeted
<1>8. Saved(i)'
  BY <1>6, <1>7 DEF Saved
<1>9. QED
  BY <1>1, <1>2, <1>8, SavedOthers DEF Finished

LEMMA SavedCommit ==
  ASSUME IInv, SInv, NEW i \in Imports, Commit(i)
  PROVE  SInv'
<1>1. import[i].pc = "insert" /\ ~ Inserting(i) /\ UNCHANGED reading /\ import[i].pc \notin Finished
  BY DEF Commit, Finished
<1>2. /\ import'[i].pc \in Finished /\ import'[i].ids = import[i].ids /\ import'[i].row = import[i].row
      /\ import'[i].file = import[i].file
      /\ \A j \in Imports : j # i => import'[j] = import[j]
  BY MoveKeeps DEF Commit, Finished
<1>3. ASSUME NEW m \in Meters
      PROVE  /\ meter'[m].code = meter[m].code /\ meter'[m].by = meter[m].by
             /\ meter'[m].state # meter[m].state => meter'[m].state = "active"
  <2>1. /\ meter[m] \in Rows
        /\ meter'[m] = IF meter[m].tx # i THEN meter[m] ELSE [meter[m] EXCEPT !.state = "active", !.tx = NoImport]
    BY DEF Commit, IInv, Types
  <2>2. QED
    BY <2>1 DEF Rows
<1>4. \A m \in Meters : \A by \in Imports : meter[m].state # "none" \/ meter[m].by = by =>
          meter'[m].code = meter[m].code /\ (meter'[m].state # "none" \/ meter'[m].by = by)
  BY <1>3
<1>5. Known(i)'
  <2> SUFFICES ASSUME NEW c \in Codes, import[i].ids[c] # NoMeter
               PROVE  /\ meter'[import[i].ids[c]].code = c
                      /\ meter'[import[i].ids[c]].state # "none" \/ meter'[import[i].ids[c]].by = i
    BY <1>2 DEF Known
  <2>1. import[i].ids[c] \in Meters
    BY DEF IInv, Types, Upload0
  <2>2. import[i].pc \in InTransaction
    BY <1>1 DEF InTransaction
  <2>3. QED
    BY <1>4, <2>1, <2>2 DEF SInv, Saved, Known
<1>6. Stored(i)'
  <2>1. import[i].row > Len(import[i].file)
    <3>1. import[i].row \in Nat /\ import[i].file \in AnyFile
      BY DEF IInv, Types, Upload0
    <3>2. Len(import[i].file) \in Nat
      BY <3>1 DEF AnyFile
    <3>3. QED
      BY <1>1, <3>1, <3>2 DEF Inserting
  <2>2. UnseenRows(i)' = UnseenRows(i) /\ \A k : StoredRow(i, k) => StoredRow(i, k)'
    <3>1. \A k \in Imports : import[k].pc \in Finished => import'[k].pc \in Finished
      BY <1>1, <1>2
    <3>2. QED
      BY <1>1, <1>2, <3>1 DEF UnseenRows, StoredRow, SInv
  <2>3. QED
    BY <1>1, <1>2, <2>1, <2>2 DEF SInv, Saved, Stored, Inserted, Finished
<1>7. Targeted(i)'
  BY <1>2 DEF Targeted, Finished
<1>8. Saved(i)'
  BY <1>5, <1>6, <1>7 DEF Saved
<1>9. QED
  BY <1>1, <1>2, <1>4, <1>8, SavedRow

\* A step that changes no upload.
LEMMA SavedElsewhere ==
  ASSUME IInv, SInv, UNCHANGED <<import, reading>>,
         \A m \in Meters : \A by \in Imports : meter[m].state # "none" \/ meter[m].by = by =>
             meter'[m].code = meter[m].code /\ (meter'[m].state # "none" \/ meter'[m].by = by)
  PROVE  SInv'
<1>1. ASSUME NEW j \in Imports PROVE Saved(j)'
  BY SavedFrame DEF SInv
<1>2. QED
  BY <1>1 DEF SInv

-----------------------------------------------------------------------------
LEMMA StepSInv == IInv /\ SInv /\ [Next]_vars => SInv'
<1> SUFFICES ASSUME IInv, SInv, [Next]_vars PROVE SInv'
  OBVIOUS
<1>1. ASSUME NEW i \in Imports, Refuse(i) PROVE SInv'
  BY <1>1, SavedAbort DEF Refuse
<1>2. ASSUME NEW i \in Imports, Deadlock(i) PROVE SInv'
  <2>1. Open(i)
    BY <1>2 DEF Deadlock, WaitsFor
  <2>2. QED
    BY <1>2, <2>1, SavedAbort DEF Deadlock
<1>3. ASSUME NEW i \in Imports, ImportStep(i) PROVE SInv'
  BY <1>2, <1>3, SavedParse, SavedFind, SavedRestore, SavedRestoreLocked, SavedCreate, SavedInsertRow,
     SavedCommit DEF ImportStep
<1>4. ASSUME NEW i \in Imports, NEW file \in Files, Upload(i, file) PROVE SInv'
  BY <1>4, SavedUpload
<1>5. ASSUME NEW m \in Meters, Delete(m) PROVE SInv'
  <2>1. /\ UNCHANGED <<import, reading>> /\ meter[m].state = "active"
        /\ \A n \in Meters : n # m => meter'[n] = meter[n]
        /\ meter'[m].code = meter[m].code /\ meter'[m].state = "deleted"
    BY <1>5 DEF Delete, IInv, Types, Rows
  <2>2. QED
    BY <2>1, SavedElsewhere
<1>6. ASSUME NEW c \in Codes, Post(c) PROVE SInv'
  <2>1. PICK m \in Meters : meter[m] = NoRow /\ \A n \in Meters : n # m => meter'[n] = meter[n]
    BY <1>6, FreeRow DEF Post, IInv, Types
  <2>2. meter[m].state = "none" /\ meter[m].by = NoImport
    BY <2>1 DEF NoRow
  <2>3. UNCHANGED <<import, reading>>
    BY <1>6 DEF Post
  <2>4. QED
    BY <2>1, <2>2, <2>3, NotImport, SavedElsewhere
<1>7. CASE UNCHANGED vars
  BY <1>7, SavedElsewhere DEF vars
<1>8. QED
  BY <1>1, <1>3, <1>4, <1>5, <1>6, <1>7 DEF Next

\* For any files and any number of uploads, deletions and faults: after an
\* answer of success every row of the file is stored for good.
THEOREM SuccessMeansStoredHolds == Spec => []SuccessMeansStored
<1>1. SafeIngestion => [](IInv /\ SInv)
  BY InitIInv, StepIInv, InitSInv, StepSInv, PTL DEF SafeIngestion
<1>2. IInv /\ SInv => SuccessMeansStored
  <2> SUFFICES ASSUME IInv, SInv, NEW i \in Imports, import[i].pc = "ok", NEW k \in 1..Len(import[i].file)
               PROVE  \E r \in reading : /\ meter[r.meter].code = import[i].file[k][1]
                                         /\ r.time = import[i].file[k][2] /\ ~ Open(r.by)
    BY DEF SuccessMeansStored
  <2>1. import[i].row \in Nat /\ import[i].file \in AnyFile
    BY DEF IInv, Types, Upload0
  <2>2. import[i].row > Len(import[i].file) /\ UnseenRows(i) = {}
        /\ \A n \in 1..Len(import[i].file) : n < import[i].row => StoredRow(i, n)
    BY DEF SInv, Saved, Stored, Inserted, Finished
  <2>3. Len(import[i].file) \in Nat /\ import[i].file[k][1] \in Codes
    BY <2>1 DEF AnyFile
  <2>4. k < import[i].row
    BY <2>1, <2>2, <2>3
  <2>5. PICK r \in reading : /\ r.meter = import[i].ids[import[i].file[k][1]] /\ r.time = import[i].file[k][2]
                             /\ r.by = i \/ import[r.by].pc \in Finished
    BY <2>2, <2>4 DEF StoredRow
  <2>6. import[i].ids[import[i].file[k][1]] # NoMeter
    BY <2>2 DEF UnseenRows
  <2>7. meter[r.meter].code = import[i].file[k][1]
    BY <2>3, <2>5, <2>6 DEF SInv, Saved, Known, Finished
  <2>8. ~ Open(r.by)
    BY <2>5 DEF Open, InTransaction, Finished
  <2>9. QED
    BY <2>5, <2>7, <2>8
<1>3. QED
  BY <1>1, <1>2, SpecIsSafe, PTL

=============================================================================
