---------------------------- MODULE MetersProofs ----------------------------
(***************************************************************************)
(* Theorems about Meters for any codes, page size, writes in flight and     *)
(* numbers of clicks and surprises.                                         *)
(***************************************************************************)
EXTENDS Meters, FiniteSetTheorems, TLAPS

SafeMeters == Init /\ [][Next]_vars

\* Spec without its fairness.
LEMMA SpecIsSafe == Spec => SafeMeters
BY PTL DEF Spec, SafeMeters

-----------------------------------------------------------------------------
(* The types.                                                               *)

Rows == [code : Nat, live : BOOLEAN, status : {"OK", "CRITICAL"}, version : Nat]
AnyQuery == [search : {"", "text"}, status : {"any", "CRITICAL"}, page : Nat]
AnyPage == [of : AnyQuery, rows : SUBSET [id : Ids, version : Nat], total : Nat, at : Nat]
Loads == [pc : {"off", "sent", "counting", "answered", "failed"}, page : AnyPage]
Forms == [kind : {"none", "create", "edit"}, id : Ids \cup {0}, slot : Slots \cup {0}]
Writes == [pc : {"off", "sent", "answered"}, kind : {"none", "create", "edit", "delete"},
           id : Ids \cup {0}, code : Nat, of : AnyQuery, version : Nat, mounted : BOOLEAN]

Types ==
    /\ meter \in [Ids -> Rows]
    /\ completed \in Nat /\ announced \in Nat
    /\ url \in AnyQuery /\ input \in {"", "text"} /\ debounced \in {"", "text"}
    /\ data \in AnyPage /\ failed \in BOOLEAN /\ load \in Loads
    /\ form \in Forms /\ asked \in Ids \cup {0} /\ write \in [Slots -> Writes]
    /\ told \in [Ids -> Nat]
    /\ dismissed \in BOOLEAN

-----------------------------------------------------------------------------
(* The inductive invariant.                                                 *)

\* Nobody is told of a version the table does not have.
Versions ==
    /\ announced <= completed
    /\ \A i \in Ids : told[i] <= meter[i].version
    /\ \A s \in Slots : write[s].version # 0 =>
          write[s].id \in Ids /\ write[s].version <= meter[write[s].id].version

OneDialog == form = NoForm \/ asked = 0

\* Unless a dialog was left with its write in flight, one write is in flight
\* at most, the dialog that sent it is still open, and the query is the one it
\* was sent with.
Attended(s) ==
    write[s].pc # "off" =>
        /\ write[s].mounted /\ write[s].of = url /\ input = debounced
        /\ IF write[s].kind = "delete" THEN asked # 0 ELSE form.slot = s
Alone(s) == \A r \in Slots : write[r].pc # "off" /\ write[s].pc # "off" => r = s
Waiting == ~ dismissed => \A s \in Slots : Attended(s) /\ Alone(s)

\* The request of the list, or what it answered, is of the query of the URL.
OfUrl ==
    ~ dismissed =>
        /\ load.pc # "off" => load.page.of = url
        /\ load.pc = "off" /\ ~ failed => data.of = url

\* It is not older than what the operator was told of.
NotOlder(page) ==
    /\ page.at >= announced
    /\ ~ dismissed => \A row \in page.rows : row.version >= told[row.id]
Fresh ==
    /\ load.pc \in {"counting", "answered"} => NotOlder(load.page)
    /\ load.pc = "off" /\ ~ failed => NotOlder(data)

IInv == Types /\ Versions /\ OneDialog /\ Waiting /\ OfUrl /\ Fresh

LEMMA SlotIsNotZero == 0 \notin Slots
BY MetersBounds

LEMMA HomeType == Home \in AnyQuery /\ [NoPage EXCEPT !.of = Home] \in AnyPage /\ Free \in Writes
                  /\ NoPage \in AnyPage /\ NoForm \in Forms /\ NoForm.slot = 0
BY DEF Home, AnyQuery, NoPage, AnyPage, Free, Writes, NoForm, Forms

LEMMA SeededType == \A i \in Ids : i <= Len(Seeded) => Seeded[i] \in Nat
<1>1. Seeded \in Seq(Codes) /\ Codes \subseteq Nat /\ MaxRows \in Nat
  BY MetersBounds
<1>2. Len(Seeded) \in Nat /\ \A i \in 1..Len(Seeded) : Seeded[i] \in Codes
  BY <1>1
<1>3. \A i \in Ids : i <= Len(Seeded) => i \in 1..Len(Seeded)
  BY <1>1, <1>2 DEF Ids
<1>4. QED
  BY <1>1, <1>2, <1>3

LEMMA InitIInv == Init => IInv
<1> SUFFICES ASSUME Init PROVE IInv
  OBVIOUS
<1> USE DEF Init
<1>1. Types
  <2>1. meter \in [Ids -> Rows]
    <3>1. \A i \in Ids : i <= Len(Seeded) => Seeded[i] \in Nat
      BY SeededType
    <3>2. NoRow \in Rows
      BY DEF NoRow, Rows
    <3>3. QED
      BY <3>1, <3>2 DEF Rows
  <2>2. load \in Loads
    BY HomeType DEF Loads
  <2>3. QED
    BY <2>1, <2>2, HomeType DEF Types, Forms
<1>2. Versions
  <2>1. \A i \in Ids : meter[i].version \in Nat
    BY <1>1 DEF Types, Rows
  <2>2. /\ announced = 0 /\ completed = 0 /\ \A i \in Ids : told[i] = 0
        /\ \A s \in Slots : write[s].version = 0
    BY DEF Free
  <2> HIDE DEF Init
  <2>3. QED
    BY <2>1, <2>2 DEF Versions
<1>3. Waiting
  BY DEF Waiting, Attended, Alone, Free
<1>4. OfUrl
  BY DEF OfUrl, NoPage
<1>5. Fresh
  BY DEF Fresh
<1>6. QED
  BY <1>1, <1>2, <1>3, <1>4, <1>5 DEF IInv, OneDialog

-----------------------------------------------------------------------------
(* The request of the list.                                                 *)

LEMMA ExecuteEffect ==
  ASSUME Types, NEW q \in AnyQuery, Execute(q)
  PROVE  /\ load' \in Loads /\ load'.pc = "sent" /\ load'.page.of = q
         /\ failed' = FALSE /\ data' = data
<1>1. [NoPage EXCEPT !.of = q] \in AnyPage /\ [NoPage EXCEPT !.of = q].of = q
  BY HomeType DEF AnyPage
<1>2. QED
  BY <1>1 DEF Execute, Send, Loads


LEMMA GoToEffect ==
  ASSUME IInv, NEW q \in AnyQuery, GoTo(q), UNCHANGED <<dismissed, told, announced>>
  PROVE  /\ url' = q /\ load' \in Loads /\ failed' \in BOOLEAN /\ data' \in AnyPage
         /\ OfUrl' /\ Fresh'
<1>1. CASE q = url
  <2>1. UNCHANGED <<url, data, failed, load>>
    BY <1>1 DEF GoTo, list
  <2>2. QED
    BY <1>1, <2>1 DEF IInv, Types, OfUrl, Fresh, NotOlder
<1>2. CASE q # url
  <2>1. url' = q /\ Execute(q)
    BY <1>2 DEF GoTo
  <2>2. load' \in Loads /\ load'.pc = "sent" /\ load'.page.of = q /\ failed' = FALSE /\ data' = data
    BY <2>1, ExecuteEffect DEF IInv
  <2>3. QED
    BY <2>1, <2>2 DEF IInv, Types, OfUrl, Fresh
<1>3. QED
  BY <1>1, <1>2

\* The page is asked for again with the query of the URL.
LEMMA ExecuteKeeps ==
  ASSUME IInv, NEW q \in AnyQuery, q = url, Execute(q), UNCHANGED <<url, dismissed>>
  PROVE  load' \in Loads /\ failed' \in BOOLEAN /\ data' \in AnyPage /\ OfUrl' /\ Fresh'
<1>1. load' \in Loads /\ load'.pc = "sent" /\ load'.page.of = q /\ failed' = FALSE /\ data' = data
  BY ExecuteEffect DEF IInv
<1>2. QED
  BY <1>1 DEF IInv, Types, OfUrl, Fresh

-----------------------------------------------------------------------------
(* The steps of others and of the service.                                  *)

\* The rows of the table only get newer.
Grows == meter' \in [Ids -> Rows] /\ \A i \in Ids : meter[i].version <= meter'[i].version

LEMMA RowFacts ==
  ASSUME NEW row \in Rows
  PROVE  /\ row.version \in Nat
         /\ [row EXCEPT !.live = FALSE, !.version = row.version + 1] \in Rows
         /\ [row EXCEPT !.live = FALSE, !.version = row.version + 1].version = row.version + 1
         /\ [row EXCEPT !.version = row.version + 1] \in Rows
         /\ [row EXCEPT !.version = row.version + 1].version = row.version + 1
         /\ \A status \in {"OK", "CRITICAL"} : /\ [row EXCEPT !.status = status] \in Rows
                                              /\ [row EXCEPT !.status = status].version = row.version
<1>1. row.version \in Nat /\ row.version + 1 \in Nat
  BY DEF Rows
<1>2. QED
  BY <1>1 DEF Rows

LEMMA SetRowGrows ==
  ASSUME meter \in [Ids -> Rows], NEW id \in Ids, NEW row \in Rows, meter[id].version <= row.version,
         meter' = [meter EXCEPT ![id] = row]
  PROVE  Grows /\ meter'[id] = row
<1>1. meter' \in [Ids -> Rows] /\ meter'[id] = row /\ \A i \in Ids : i # id => meter'[i] = meter[i]
  OBVIOUS
<1>2. \A i \in Ids : meter[i].version \in Nat
  BY RowFacts
<1>3. QED
  BY <1>1, <1>2 DEF Grows

LEMMA InsertGrows ==
  ASSUME Types, NEW code \in Nat, Insert(code)
  PROVE  Grows /\ NewId \in Ids /\ meter'[NewId].version = 1
<1>1. NewId \in Ids /\ meter[NewId] = NoRow
  BY DEF Insert, Created, NewId
<1> DEFINE row == [code |-> code, live |-> TRUE, status |-> "OK", version |-> 1]
<1>2. row \in Rows /\ row.version = 1
  BY DEF Rows
<1>3. NoRow.version = 0 /\ 0 <= 1
  BY DEF NoRow
<1>4. meter \in [Ids -> Rows] /\ meter' = [meter EXCEPT ![NewId] = row]
  BY DEF Insert, Types
<1> HIDE DEF row
<1>5. QED
  BY <1>1, <1>2, <1>3, <1>4, SetRowGrows

LEMMA ChangeGrows ==
  ASSUME Types, NEW id \in Ids,
         \/ SoftDelete(id)
         \/ meter' = [meter EXCEPT ![id].version = @ + 1]
  PROVE  Grows /\ meter'[id].version = meter[id].version + 1
<1>1. meter \in [Ids -> Rows] /\ meter[id] \in Rows
  BY DEF Types
<1>2. PICK row \in Rows : row.version = meter[id].version + 1 /\ meter' = [meter EXCEPT ![id] = row]
  <2>1. \/ meter' = [meter EXCEPT ![id] = [meter[id] EXCEPT !.live = FALSE, !.version = meter[id].version + 1]]
        \/ meter' = [meter EXCEPT ![id] = [meter[id] EXCEPT !.version = meter[id].version + 1]]
    BY <1>1 DEF SoftDelete
  <2> DEFINE gone == [meter[id] EXCEPT !.live = FALSE, !.version = meter[id].version + 1]
  <2> DEFINE edited == [meter[id] EXCEPT !.version = meter[id].version + 1]
  <2>2. /\ gone \in Rows /\ gone.version = meter[id].version + 1
        /\ edited \in Rows /\ edited.version = meter[id].version + 1
    BY <1>1, RowFacts
  <2> HIDE DEF gone, edited
  <2>3. QED
    BY <2>1, <2>2 DEF gone, edited
<1>3. meter[id].version <= row.version
  <2>1. meter[id].version \in Nat
    BY <1>1, RowFacts
  <2>2. QED
    BY <1>2, <2>1
<1>4. QED
  BY <1>1, <1>2, <1>3, SetRowGrows

\* The query stays: so do the dialogs that wait.
LEMMA SameQuery ==
  ASSUME IInv, UNCHANGED <<query, dialogs, dismissed>>
  PROVE  /\ Waiting'
         /\ url' \in AnyQuery /\ input' \in {"", "text"} /\ debounced' \in {"", "text"}
<1>1. UNCHANGED <<url, input, debounced, form, write, asked, dismissed>>
  BY DEF query, dialogs
<1>2. Waiting'
  BY <1>1 DEF IInv, Waiting, Attended, Alone
<1>3. url \in AnyQuery /\ input \in {"", "text"} /\ debounced \in {"", "text"}
  BY DEF IInv, Types
<1>4. QED
  BY <1>1, <1>2, <1>3

\* A step that only moves the table on.
LEMMA TableKeeps ==
  ASSUME IInv, Grows, completed' \in Nat, completed <= completed',
         UNCHANGED <<query, list, dialogs, told, announced, dismissed>>
  PROVE  IInv'
<1>1. UNCHANGED <<url, input, debounced, data, failed, load, form, asked, write, told, announced, dismissed>>
  BY DEF query, list, dialogs
<1>2. Types'
  BY <1>1 DEF IInv, Types, Grows
<1>3. OneDialog' /\ Waiting'
  BY <1>1, SameQuery DEF IInv, OneDialog
<1>4. OfUrl' /\ Fresh'
  BY <1>1 DEF IInv, OfUrl, Fresh, NotOlder
<1>5. Versions'
  <2>1. \A i \in Ids : meter[i].version \in Nat /\ meter'[i].version \in Nat /\ told[i] \in Nat
    BY RowFacts DEF IInv, Types, Grows
  <2>2. \A s \in Slots : write[s].version \in Nat
    BY DEF IInv, Types, Writes
  <2>3. announced \in Nat /\ completed \in Nat
    BY DEF IInv, Types
  <2>4. QED
    BY <1>1, <2>1, <2>2, <2>3 DEF IInv, Versions, Grows
<1>6. QED
  BY <1>2, <1>3, <1>4, <1>5 DEF IInv

LEMMA OtherWritesStep ==
  ASSUME IInv, OtherWrites
  PROVE  IInv'
<1>1. Grows
  <2>1. Codes \subseteq Nat
    BY MetersBounds
  <2>2. Live \subseteq Ids
    BY DEF Live
  <2>3. QED
    BY <2>1, <2>2, InsertGrows, ChangeGrows DEF OtherWrites, IInv
<1>2. UNCHANGED <<completed, query, list, dialogs, told, announced, dismissed>>
  BY DEF OtherWrites
<1>3. completed' \in Nat /\ completed <= completed'
  <2>1. completed \in Nat /\ completed' = completed
    BY <1>2 DEF IInv, Types
  <2>2. QED
    BY <2>1
<1>4. QED
  BY <1>1, <1>2, <1>3, TableKeeps

LEMMA CompleteAnalysisStep ==
  ASSUME IInv, CompleteAnalysis
  PROVE  IInv'
<1>1. PICK critical \in SUBSET Live :
         meter' = [i \in Ids |-> IF i \in Live
                                 THEN [meter[i] EXCEPT !.status = IF i \in critical THEN "CRITICAL" ELSE "OK"]
                                 ELSE meter[i]]
  BY DEF CompleteAnalysis
<1>2. \A i \in Ids : meter[i] \in Rows
  BY DEF IInv, Types
<1>3. Grows
  <2>1. \A i \in Ids : meter'[i] = meter[i] \/ \E status \in {"OK", "CRITICAL"} :
                          meter'[i] = [meter[i] EXCEPT !.status = status]
    BY <1>1
  <2>2. meter' = [i \in Ids |-> meter'[i]]
    BY <1>1
  <2>3. ASSUME NEW i \in Ids PROVE meter'[i] \in Rows /\ meter'[i].version = meter[i].version
    <3>1. meter[i] \in Rows
      BY <1>2
    <3>2. CASE meter'[i] = meter[i]
      BY <3>1, <3>2
    <3>3. ASSUME NEW status \in {"OK", "CRITICAL"}, meter'[i] = [meter[i] EXCEPT !.status = status]
          PROVE  meter'[i] \in Rows /\ meter'[i].version = meter[i].version
      <4> DEFINE row == [meter[i] EXCEPT !.status = status]
      <4>1. row \in Rows /\ row.version = meter[i].version
        BY <3>1, RowFacts
      <4> HIDE DEF row
      <4>2. meter'[i] = row
        BY <3>3 DEF row
      <4>3. QED
        BY <4>1, <4>2
    <3>4. QED
      BY <2>1, <3>2, <3>3
  <2>4. meter' \in [Ids -> Rows]
    BY <2>2, <2>3
  <2>5. \A i \in Ids : meter[i].version <= meter'[i].version
    <3>1. \A i \in Ids : meter[i].version \in Nat
      BY <1>2, RowFacts
    <3>2. QED
      BY <2>3, <3>1
  <2>6. QED
    BY <2>4, <2>5 DEF Grows
<1>4. completed' \in Nat /\ completed <= completed'
  <2>1. completed \in Nat /\ completed' = completed + 1
    BY DEF CompleteAnalysis, IInv, Types
  <2>2. QED
    BY <2>1
<1>5. QED
  BY <1>3, <1>4, TableKeeps DEF CompleteAnalysis

-----------------------------------------------------------------------------
(* The list.                                                                *)

\* A step that only reads or asks for the list, or changes its query.
LEMMA ReadKeeps ==
  ASSUME IInv, UNCHANGED <<server, dialogs, told, dismissed>>,
         url' \in AnyQuery, input' \in {"", "text"}, debounced' \in {"", "text"},
         load' \in Loads, failed' \in BOOLEAN, data' \in AnyPage,
         announced' \in Nat, announced' <= completed,
         Waiting', OfUrl', Fresh'
  PROVE  IInv'
<1>1. UNCHANGED <<meter, completed, form, asked, write, told, dismissed>>
  BY DEF server, dialogs
<1>2. Types'
  BY <1>1 DEF IInv, Types
<1>3. Versions' /\ OneDialog'
  BY <1>1 DEF IInv, Versions, OneDialog
<1>4. QED
  BY <1>2, <1>3 DEF IInv

LEMMA SameAnnounced == IInv /\ announced' = announced => announced' \in Nat /\ announced' <= completed
BY DEF IInv, Types, Versions

\* What the server answers now is as new as anybody was told of.
LEMMA PageRowsFacts ==
  ASSUME IInv, NEW q
  PROVE  /\ PageRows(q) \in SUBSET [id : Ids, version : Nat]
         /\ \A row \in PageRows(q) : row.version >= told[row.id]
<1>1. \A i \in Ids : meter[i].version \in Nat /\ told[i] \in Nat /\ told[i] <= meter[i].version
  BY RowFacts DEF IInv, Types, Versions
<1>2. \A row \in PageRows(q) : \E i \in Ids : row = [id |-> i, version |-> meter[i].version]
  BY DEF PageRows, Matching, Live
<1>3. QED
  BY <1>1, <1>2

LEMMA HandlePageStep ==
  ASSUME IInv, HandlePage
  PROVE  IInv'
<1> DEFINE rows == PageRows(load.page.of)
<1>1. rows \in SUBSET [id : Ids, version : Nat] /\ \A row \in rows : row.version >= told[row.id]
  BY PageRowsFacts
<1>2. load \in Loads /\ completed \in Nat /\ announced \in Nat /\ announced <= completed
  BY DEF IInv, Types, Versions
<1>3. load' = [load EXCEPT !.pc = "counting", !.page.rows = rows, !.page.at = completed]
  BY DEF HandlePage
<1> HIDE DEF rows
<1>4. /\ load' \in Loads /\ load'.pc = "counting" /\ load'.page.of = load.page.of
      /\ load'.page.rows = rows /\ load'.page.at = completed
  BY <1>1, <1>2, <1>3 DEF Loads, AnyPage
<1>5. UNCHANGED <<server, url, query, data, failed, dialogs, told, announced, dismissed>> /\ load.pc = "sent"
  BY DEF HandlePage, query
<1>6. OfUrl'
  BY <1>4, <1>5 DEF IInv, OfUrl
<1>7. Fresh'
  BY <1>1, <1>2, <1>4, <1>5 DEF Fresh, NotOlder
<1>8. data' \in AnyPage /\ failed' \in BOOLEAN
  BY <1>5 DEF IInv, Types
<1>9. QED
  BY <1>4, <1>5, <1>6, <1>7, <1>8, SameQuery, SameAnnounced, ReadKeeps

LEMMA HandleCountStep ==
  ASSUME IInv, HandleCount
  PROVE  IInv'
<1> DEFINE total == Cardinality(Matching(load.page.of))
<1>1. total \in Nat
  <2>1. IsFiniteSet(Ids)
    BY MetersBounds, FS_Interval DEF Ids
  <2>2. Matching(load.page.of) \subseteq Ids
    BY DEF Matching, Live
  <2>3. QED
    BY <2>1, <2>2, FS_Subset, FS_CardinalityType
<1>2. load \in Loads
  BY DEF IInv, Types
<1>3. load' = [load EXCEPT !.pc = "answered", !.page.total = total]
  BY DEF HandleCount
<1> HIDE DEF total
<1>4. /\ load' \in Loads /\ load'.pc = "answered" /\ load'.page.of = load.page.of
      /\ load'.page.rows = load.page.rows /\ load'.page.at = load.page.at
  BY <1>1, <1>2, <1>3 DEF Loads, AnyPage
<1>5. UNCHANGED <<server, url, query, data, failed, dialogs, told, announced, dismissed>> /\ load.pc = "counting"
  BY DEF HandleCount, query
<1>6. OfUrl'
  BY <1>4, <1>5 DEF IInv, OfUrl
<1>7. Fresh'
  BY <1>4, <1>5 DEF IInv, Fresh, NotOlder
<1>8. data' \in AnyPage /\ failed' \in BOOLEAN
  BY <1>5 DEF IInv, Types
<1>9. QED
  BY <1>4, <1>5, <1>6, <1>7, <1>8, SameQuery, SameAnnounced, ReadKeeps

LEMMA LoadFailsStep ==
  ASSUME IInv, LoadFails
  PROVE  IInv'
<1>1. load \in Loads /\ load' = [load EXCEPT !.pc = "failed"]
  BY DEF IInv, Types, LoadFails
<1>2. load' \in Loads /\ load'.pc = "failed" /\ load'.page = load.page
  BY <1>1 DEF Loads
<1>3. UNCHANGED <<server, url, query, data, failed, dialogs, told, announced, dismissed>> /\ load.pc # "off"
  BY DEF LoadFails, query
<1>4. OfUrl' /\ Fresh'
  BY <1>2, <1>3 DEF IInv, OfUrl, Fresh
<1>5. data' \in AnyPage /\ failed' \in BOOLEAN
  BY <1>3 DEF IInv, Types
<1>6. QED
  BY <1>2, <1>3, <1>4, <1>5, SameQuery, SameAnnounced, ReadKeeps

LEMMA DeliverLoadStep ==
  ASSUME IInv, DeliverLoad
  PROVE  IInv'
<1>1. load \in Loads /\ data \in AnyPage
  BY DEF IInv, Types
<1>2. /\ load.pc \in {"answered", "failed"} /\ load' = Idle /\ failed' = (load.pc = "failed")
      /\ data' = IF load.pc = "failed" THEN data ELSE load.page
  BY DEF DeliverLoad
<1>3. load' \in Loads /\ load'.pc = "off"
  BY <1>2, HomeType DEF Idle, Loads
<1>4. UNCHANGED <<server, url, query, dialogs, told, announced, dismissed>>
  BY DEF DeliverLoad, query
<1>5. data' \in AnyPage /\ failed' \in BOOLEAN
  BY <1>1, <1>2 DEF Loads
<1>6. OfUrl' /\ Fresh'
  BY <1>2, <1>3, <1>4 DEF IInv, OfUrl, Fresh, NotOlder
<1>7. QED
  BY <1>3, <1>4, <1>5, <1>6, SameQuery, SameAnnounced, ReadKeeps

LEMMA AnnounceStep ==
  ASSUME IInv, Announce
  PROVE  IInv'
<1>1. url \in AnyQuery /\ completed \in Nat
  BY DEF IInv, Types
<1>2. announced' = completed /\ Execute(url) /\ UNCHANGED <<server, url, query, dialogs, told, dismissed>>
  BY DEF Announce, query
<1>3. load' \in Loads /\ failed' \in BOOLEAN /\ data' \in AnyPage /\ OfUrl' /\ Fresh'
  BY <1>1, <1>2, ExecuteKeeps
<1>4. announced' \in Nat /\ announced' <= completed
  BY <1>1, <1>2
<1>5. QED
  BY <1>2, <1>3, <1>4, SameQuery, ReadKeeps

LEMMA RetryStep ==
  ASSUME IInv, Retry
  PROVE  IInv'
<1>1. url \in AnyQuery
  BY DEF IInv, Types
<1>2. Execute(url) /\ UNCHANGED <<server, url, query, dialogs, told, announced, dismissed>>
  BY DEF Retry, query
<1>3. load' \in Loads /\ failed' \in BOOLEAN /\ data' \in AnyPage /\ OfUrl' /\ Fresh'
  BY <1>1, <1>2, ExecuteKeeps
<1>4. QED
  BY <1>2, <1>3, SameQuery, SameAnnounced, ReadKeeps

-----------------------------------------------------------------------------
(* The query.                                                               *)

\* A page whose dialogs are closed waits for nothing, and so does one whose
\* search is not in the URL yet.
LEMMA NothingInFlight ==
  ASSUME IInv, ~ dismissed, NoDialog \/ input # debounced
  PROVE  \A s \in Slots : write[s].pc = "off"
<1>1. \A s \in Slots : Attended(s)
  BY DEF IInv, Waiting
<1>2. NoDialog => asked = 0 /\ form.slot \notin Slots
  BY HomeType, SlotIsNotZero DEF NoDialog
<1>3. QED
  BY <1>1, <1>2 DEF Attended

LEMMA SameDismissed ==
  ASSUME dismissed \in BOOLEAN, dismissed' = dismissed
  PROVE  ~ dismissed' => ~ dismissed
OBVIOUS

LEMMA QueryKeeps ==
  ASSUME IInv, NoDialog \/ input # debounced, NEW q \in AnyQuery, GoTo(q),
         input' \in {"", "text"}, debounced' \in {"", "text"},
         UNCHANGED <<server, dialogs, told, announced, dismissed>>
  PROVE  IInv'
<1>1. /\ url' = q /\ load' \in Loads /\ failed' \in BOOLEAN /\ data' \in AnyPage
      /\ OfUrl' /\ Fresh'
  BY GoToEffect
<1>2. write' = write /\ dismissed' = dismissed /\ announced' = announced
  BY DEF dialogs
<1>3. Waiting'
  <2>1. ~ dismissed => \A s \in Slots : write[s].pc = "off"
    BY NothingInFlight
  <2>2. dismissed \in BOOLEAN
    BY DEF IInv, Types
  <2>3. ~ dismissed' => \A s \in Slots : write'[s].pc = "off"
    BY <1>2, <2>1, <2>2, SameDismissed
  <2>4. QED
    BY <2>3 DEF Waiting, Attended, Alone
<1>4. QED
  BY <1>1, <1>2, <1>3, SameAnnounced, ReadKeeps

LEMMA TypeStep ==
  ASSUME IInv, NEW text \in {"", "text"}, Type(text)
  PROVE  IInv'
<1>1. /\ NoDialog /\ input' = text
      /\ UNCHANGED <<server, url, debounced, list, dialogs, told, announced, dismissed>>
  BY DEF Type
<1>2. GoTo(url)
  BY <1>1 DEF GoTo
<1>3. url \in AnyQuery /\ debounced \in {"", "text"}
  BY DEF IInv, Types
<1>4. QED
  BY <1>1, <1>2, <1>3, QueryKeeps

LEMMA QueryFacts ==
  ASSUME NEW q \in AnyQuery
  PROVE  /\ \A text \in {"", "text"} : [q EXCEPT !.search = text, !.page = 1] \in AnyQuery
         /\ \A status \in {"any", "CRITICAL"} : [q EXCEPT !.status = status, !.page = 1] \in AnyQuery
         /\ \A page \in Nat : [q EXCEPT !.page = page] \in AnyQuery
         /\ \A text \in {"", "text"} : [Home EXCEPT !.search = text] \in AnyQuery
BY DEF AnyQuery, Home

LEMMA PauseStep ==
  ASSUME IInv, Pause
  PROVE  IInv'
<1>1. url \in AnyQuery /\ input \in {"", "text"}
  BY DEF IInv, Types
<1>2. /\ input # debounced /\ debounced' = input /\ input' = input
      /\ UNCHANGED <<server, dialogs, told, announced, dismissed>>
  BY DEF Pause
<1>3. GoTo(url) \/ GoTo([url EXCEPT !.search = input, !.page = 1])
  BY DEF Pause, GoTo, list
<1>4. [url EXCEPT !.search = input, !.page = 1] \in AnyQuery
  BY <1>1, QueryFacts
<1>5. QED
  BY <1>1, <1>2, <1>3, <1>4, QueryKeeps

LEMMA RefineStep ==
  ASSUME IInv, Refine
  PROVE  IInv'
<1>1. url \in AnyQuery /\ input \in {"", "text"} /\ debounced \in {"", "text"}
  BY DEF IInv, Types
<1>2. PICK status \in {"any", "CRITICAL"} : GoTo([url EXCEPT !.status = status, !.page = 1])
  BY DEF Refine
<1>3. [url EXCEPT !.status = status, !.page = 1] \in AnyQuery
  BY <1>1, QueryFacts
<1>4. NoDialog /\ UNCHANGED <<server, input, debounced, dialogs, told, announced, dismissed>>
  BY DEF Refine
<1>5. QED
  BY <1>1, <1>2, <1>3, <1>4, QueryKeeps

LEMMA TurnStep ==
  ASSUME IInv, Turn
  PROVE  IInv'
<1>1. url \in AnyQuery /\ input \in {"", "text"} /\ debounced \in {"", "text"}
  BY DEF IInv, Types
<1>2. data.of.page \in Nat
  BY DEF IInv, Types, AnyPage, AnyQuery
<1>3. PICK page \in Nat : GoTo([url EXCEPT !.page = page])
  <2>1. CASE data.of.page > 1 /\ GoTo([url EXCEPT !.page = data.of.page - 1])
    <3>1. data.of.page - 1 \in Nat
      BY <1>2, <2>1
    <3>2. QED
      BY <2>1, <3>1
  <2>2. CASE GoTo([url EXCEPT !.page = data.of.page + 1])
    <3>1. data.of.page + 1 \in Nat
      BY <1>2
    <3>2. QED
      BY <2>2, <3>1
  <2>3. QED
    BY <2>1, <2>2 DEF Turn
<1>4. [url EXCEPT !.page = page] \in AnyQuery
  BY <1>1, QueryFacts
<1>5. NoDialog /\ UNCHANGED <<server, input, debounced, dialogs, told, announced, dismissed>>
  BY DEF Turn
<1>6. QED
  BY <1>1, <1>3, <1>4, <1>5, QueryKeeps

LEMMA SidebarStep ==
  ASSUME IInv, Sidebar
  PROVE  IInv'
<1>1. url \in AnyQuery /\ input \in {"", "text"} /\ debounced \in {"", "text"}
  BY DEF IInv, Types
<1>2. GoTo([Home EXCEPT !.search = debounced]) /\ [Home EXCEPT !.search = debounced] \in AnyQuery
  BY <1>1, QueryFacts DEF Sidebar
<1>3. NoDialog /\ UNCHANGED <<server, input, debounced, dialogs, told, announced, dismissed>>
  BY DEF Sidebar
<1>4. QED
  BY <1>1, <1>2, <1>3, QueryKeeps

-----------------------------------------------------------------------------
(* The dialogs.                                                             *)

\* A step of the dialogs that tells nobody of a version.
LEMMA DialogKeeps ==
  ASSUME IInv, UNCHANGED <<server, query, list, told, announced>>,
         form' \in Forms, asked' \in Ids \cup {0}, write' \in [Slots -> Writes],
         dismissed' \in BOOLEAN, dismissed => dismissed',
         OneDialog', Waiting',
         \A s \in Slots : \/ write'[s].version = 0
                          \/ write'[s].version = write[s].version /\ write'[s].id = write[s].id
  PROVE  IInv'
<1>1. UNCHANGED <<meter, completed, url, input, debounced, data, failed, load, told, announced>>
  BY DEF server, query, list
<1>2. Types'
  BY <1>1 DEF IInv, Types
<1>3. Versions'
  BY <1>1 DEF IInv, Versions
<1>4. OfUrl' /\ Fresh'
  BY <1>1 DEF IInv, OfUrl, Fresh, NotOlder
<1>5. QED
  BY <1>2, <1>3, <1>4 DEF IInv

LEMMA DialogTypes ==
  IInv => /\ form \in Forms /\ asked \in Ids \cup {0} /\ write \in [Slots -> Writes]
          /\ dismissed \in BOOLEAN
BY DEF IInv, Types

\* The rows on screen are rows of the table.
LEMMA OnScreenType == IInv => OnScreen \subseteq Ids
BY DEF IInv, Types, AnyPage, OnScreen

\* With no write in flight any dialog may open or close.
LEMMA OpenOrCloseKeeps ==
  ASSUME IInv, UNCHANGED <<server, query, list, write, told, announced>>,
         form' \in Forms, asked' \in Ids \cup {0}, OneDialog',
         dismissed' \in BOOLEAN, dismissed => dismissed',
         ~ dismissed' => \A s \in Slots : write[s].pc = "off"
  PROVE  IInv'
<1>1. write' = write /\ write \in [Slots -> Writes]
  BY DialogTypes
<1>2. Waiting'
  BY <1>1 DEF Waiting, Attended, Alone
<1>3. QED
  BY <1>1, <1>2, DialogKeeps

LEMMA OpenFormStep ==
  ASSUME IInv, OpenForm
  PROVE  IInv'
<1>1. NoDialog /\ UNCHANGED <<server, query, list, asked, write, told, announced, dismissed>>
  BY DEF OpenForm
<1>2. form' \in Forms
  BY OnScreenType DEF OpenForm, NoForm, Forms
<1>3. OneDialog'
  BY <1>1 DEF NoDialog, OneDialog
<1>4. QED
  BY <1>1, <1>2, <1>3, DialogTypes, NothingInFlight, OpenOrCloseKeeps

LEMMA AskToDeleteStep ==
  ASSUME IInv, AskToDelete
  PROVE  IInv'
<1>1. NoDialog /\ UNCHANGED <<server, query, list, form, write, told, announced, dismissed>>
  BY DEF AskToDelete
<1>2. asked' \in Ids
  BY OnScreenType DEF AskToDelete
<1>3. OneDialog'
  BY <1>1 DEF NoDialog, OneDialog
<1>4. QED
  BY <1>1, <1>2, <1>3, DialogTypes, NothingInFlight, OpenOrCloseKeeps

LEMMA CancelStep ==
  ASSUME IInv, Cancel
  PROVE  IInv'
<1>1. form' = NoForm /\ asked' = 0 /\ UNCHANGED <<server, query, list, write, told, announced, dismissed>>
  BY DEF Cancel
<1>2. OneDialog' /\ form' \in Forms
  BY <1>1, HomeType DEF OneDialog
<1>3. ASSUME ~ dismissed, NEW s \in Slots PROVE write[s].pc = "off"
  <2>1. Attended(s)
    BY <1>3 DEF IInv, Waiting
  <2>2. CASE form # NoForm /\ form.slot = 0
    <3>1. asked = 0
      BY <2>2 DEF IInv, OneDialog
    <3>2. QED
      BY <2>1, <2>2, <3>1, SlotIsNotZero DEF Attended
  <2>3. CASE asked # 0 /\ ~ IsDeleting
    <3>1. form.slot = 0
      BY <2>3, HomeType DEF IInv, OneDialog
    <3>2. QED
      BY <2>1, <2>3, <3>1, SlotIsNotZero DEF Attended, IsDeleting, InFlight
  <2>4. QED
    BY <2>2, <2>3 DEF Cancel
<1>4. QED
  BY <1>1, <1>2, <1>3, DialogTypes, OpenOrCloseKeeps

LEMMA DismissStep ==
  ASSUME IInv, Dismiss
  PROVE  IInv'
<1>1. form' = NoForm /\ asked' = 0 /\ UNCHANGED <<server, query, list, write, told, announced>>
  BY DEF Dismiss
<1>2. OneDialog' /\ form' \in Forms
  BY <1>1, HomeType DEF OneDialog
<1>3. dismissed' = (dismissed \/ InFlight # {})
  BY DEF Dismiss
<1>4. ~ dismissed' => \A s \in Slots : write[s].pc = "off"
  BY <1>3 DEF InFlight
<1>5. QED
  BY <1>1, <1>2, <1>3, <1>4, DialogTypes, OpenOrCloseKeeps

LEMMA ReopenStep ==
  ASSUME IInv, Reopen
  PROVE  IInv'
<1>1. /\ url' = Home /\ input' = "" /\ debounced' = "" /\ data' = NoPage /\ failed' = FALSE
      /\ load' = [pc |-> "sent", page |-> [NoPage EXCEPT !.of = Home]]
      /\ form' = NoForm /\ asked' = 0
      /\ write' = [s \in Slots |-> [write[s] EXCEPT !.mounted = FALSE]]
      /\ dismissed' = (InFlight # {})
      /\ UNCHANGED <<meter, completed, told, announced>>
  BY DEF Reopen, server
<1>2. write \in [Slots -> Writes]
  BY DEF IInv, Types
<1>3. \A s \in Slots : /\ write'[s] \in Writes /\ write'[s].pc = write[s].pc
                       /\ write'[s].version = write[s].version /\ write'[s].id = write[s].id
  BY <1>1, <1>2 DEF Writes
<1>4. write' \in [Slots -> Writes]
  BY <1>1, <1>3
<1>5. Types'
  <2>1. load' \in Loads /\ load'.pc = "sent"
    BY <1>1, HomeType DEF Loads
  <2>2. QED
    BY <1>1, <1>4, <2>1, HomeType DEF IInv, Types
<1>6. Versions'
  BY <1>1, <1>3 DEF IInv, Versions
<1>7. OneDialog'
  BY <1>1 DEF OneDialog
<1>8. Waiting'
  <2>1. ~ dismissed' => \A s \in Slots : write'[s].pc = "off"
    BY <1>1, <1>3 DEF InFlight
  <2>2. QED
    BY <2>1 DEF Waiting, Attended, Alone
<1>9. OfUrl' /\ Fresh'
  BY <1>1 DEF OfUrl, Fresh, NoPage
<1>10. QED
  BY <1>5, <1>6, <1>7, <1>8, <1>9 DEF IInv

-----------------------------------------------------------------------------
(* The writes.                                                              *)

LEMMA RequestFacts ==
  ASSUME NEW kind \in {"none", "create", "edit", "delete"}, NEW id \in Ids \cup {0}, NEW code \in Nat, Types
  PROVE  LET r == Request(kind, id, code) IN
         /\ r \in Writes /\ r.version = 0 /\ r.mounted /\ r.of = url /\ r.kind = kind
BY DEF Request, Writes, Types

\* A dialog sends its request when nothing else of the page is in flight.
LEMMA SendKeeps ==
  ASSUME IInv, NEW s \in Slots, NEW w \in Writes,
         w.version = 0, w.mounted, w.of = url, input = debounced,
         IF w.kind = "delete" THEN asked # 0 ELSE form'.slot = s,
         ~ dismissed => \A r \in Slots : write[r].pc = "off",
         write' = [write EXCEPT ![s] = w],
         form' \in Forms, OneDialog', asked' = asked,
         UNCHANGED <<server, query, list, told, announced, dismissed>>
  PROVE  IInv'
<1>1. /\ write \in [Slots -> Writes] /\ asked' \in Ids \cup {0}
      /\ dismissed' \in BOOLEAN
      /\ dismissed => dismissed'
  BY DialogTypes
<1>2. /\ write' \in [Slots -> Writes] /\ write'[s] = w
      /\ \A r \in Slots : r # s => write'[r] = write[r]
  BY <1>1
<1>3. Waiting'
  <2>1. SUFFICES ASSUME ~ dismissed, NEW r \in Slots, write'[r].pc # "off"
                 PROVE  /\ r = s
                        /\ write'[r].mounted /\ write'[r].of = url' /\ input' = debounced'
                        /\ IF write'[r].kind = "delete" THEN asked' # 0 ELSE form'.slot = r
    BY DEF Waiting, Attended, Alone
  <2>2. r = s
    BY <1>2, <2>1
  <2>3. url' = url /\ input' = input /\ debounced' = debounced
    BY DEF query
  <2>4. QED
    BY <1>2, <2>2, <2>3
<1>4. \A r \in Slots : \/ write'[r].version = 0
                       \/ write'[r].version = write[r].version /\ write'[r].id = write[r].id
  BY <1>2
<1>5. QED
  BY <1>1, <1>2, <1>3, <1>4, DialogKeeps

LEMMA SubmitStep ==
  ASSUME IInv, NEW s \in Slots, Submit(s)
  PROVE  IInv'
<1>1. /\ form # NoForm /\ form.slot = 0 /\ input = debounced
      /\ form' = [form EXCEPT !.slot = s] /\ asked' = asked
      /\ UNCHANGED <<server, query, list, told, announced, dismissed>>
  BY DEF Submit
<1>2. PICK code \in Codes : write' = [write EXCEPT ![s] = Request(form.kind, form.id, code)]
  BY DEF Submit
<1>3. form \in Forms /\ Types
  BY DialogTypes DEF IInv
<1>4. form' \in Forms /\ form'.slot = s
  BY <1>1, <1>3 DEF Forms
<1>5. code \in Nat /\ form.kind \in {"none", "create", "edit"} /\ form.id \in Ids \cup {0}
  BY <1>3, MetersBounds DEF Forms
<1> DEFINE w == Request(form.kind, form.id, code)
<1>6. w \in Writes /\ w.version = 0 /\ w.mounted /\ w.of = url /\ w.kind = form.kind
  BY <1>3, <1>5, RequestFacts
<1> HIDE DEF w
<1>7. asked = 0 /\ OneDialog'
  BY <1>1 DEF IInv, OneDialog
<1>8. ~ dismissed => \A r \in Slots : write[r].pc = "off"
  BY <1>1, <1>7, SlotIsNotZero DEF IInv, Waiting, Attended, Alone
<1>9. write' = [write EXCEPT ![s] = w]
  BY <1>2 DEF w
<1>10. QED
  BY <1>1, <1>4, <1>5, <1>6, <1>7, <1>8, <1>9, SendKeeps

LEMMA ConfirmStep ==
  ASSUME IInv, NEW s \in Slots, Confirm(s)
  PROVE  IInv'
<1>1. /\ asked # 0 /\ ~ IsDeleting /\ input = debounced /\ form' = form /\ asked' = asked
      /\ write' = [write EXCEPT ![s] = Request("delete", asked, meter[asked].code)]
      /\ UNCHANGED <<server, query, list, told, announced, dismissed>>
  BY DEF Confirm
<1>2. form \in Forms /\ asked \in Ids /\ Types
  BY <1>1, DialogTypes DEF IInv
<1>3. meter[asked].code \in Nat
  BY <1>2 DEF Types, Rows
<1> DEFINE w == Request("delete", asked, meter[asked].code)
<1>4. w \in Writes /\ w.version = 0 /\ w.mounted /\ w.of = url /\ w.kind = "delete"
  BY <1>2, <1>3, RequestFacts
<1>5. write' = [write EXCEPT ![s] = w]
  BY <1>1
<1> HIDE DEF w
<1>6. form = NoForm /\ OneDialog'
  BY <1>1 DEF IInv, OneDialog
<1>7. ASSUME ~ dismissed, NEW r \in Slots PROVE write[r].pc = "off"
  <2>1. Attended(r)
    BY <1>7 DEF IInv, Waiting
  <2>2. form.slot # r
    BY <1>6, HomeType, SlotIsNotZero
  <2>3. QED
    BY <1>1, <2>1, <2>2 DEF Attended, IsDeleting, InFlight
<1>8. QED
  BY <1>1, <1>2, <1>4, <1>5, <1>6, <1>7, SendKeeps

LEMMA WriteFailsStep ==
  ASSUME IInv, NEW s \in Slots, WriteFails(s)
  PROVE  IInv'
<1>1. /\ write[s].pc = "sent" /\ write' = [write EXCEPT ![s].pc = "answered"]
      /\ form' = form /\ asked' = asked
      /\ UNCHANGED <<server, query, list, told, announced, dismissed>>
  BY DEF WriteFails, Refuse
<1>2. form \in Forms /\ asked \in Ids \cup {0} /\ write \in [Slots -> Writes] /\ dismissed \in BOOLEAN
  BY DialogTypes
<1>3. /\ write' \in [Slots -> Writes]
      /\ \A r \in Slots : /\ write'[r].pc # "off" => write[r].pc # "off"
                          /\ write'[r].version = write[r].version /\ write'[r].id = write[r].id
                          /\ write'[r].kind = write[r].kind /\ write'[r].of = write[r].of
                          /\ write'[r].mounted = write[r].mounted
  BY <1>1, <1>2 DEF Writes
<1>4. url' = url /\ input' = input /\ debounced' = debounced
  BY <1>1 DEF query
<1>5. Waiting'
  BY <1>1, <1>3, <1>4 DEF IInv, Waiting, Attended, Alone
<1>6. OneDialog'
  BY <1>1 DEF IInv, OneDialog
<1>7. QED
  BY <1>1, <1>2, <1>3, <1>5, <1>6, DialogKeeps

LEMMA HandleWriteStep ==
  ASSUME IInv, NEW s \in Slots, HandleWrite(s)
  PROVE  IInv'
<1>1. /\ write[s].pc = "sent"
      /\ UNCHANGED <<completed, url, input, debounced, data, failed, load, form, asked, told, announced, dismissed>>
  BY DEF HandleWrite, query, list
<1>2. write \in [Slots -> Writes] /\ Types
  BY DEF IInv, Types
<1>3. meter' = meter => Grows
  <2>1. meter \in [Ids -> Rows]
    BY <1>2 DEF Types
  <2>2. \A i \in Ids : meter[i].version \in Nat
    BY <2>1, RowFacts
  <2>3. QED
    BY <2>1, <2>2 DEF Grows
<1>4. Grows /\ (Refuse(s) \/ \E id \in Ids, version \in Nat : Done(s, id, version) /\ version = meter'[id].version)
  <2>1. CASE Create(s)
    <3>1. write[s].code \in Nat
      BY <1>2 DEF Writes
    <3>2. CASE Insert(write[s].code) /\ (Done(s, NewId, 1) \/ Refuse(s))
      BY <1>2, <3>1, <3>2, InsertGrows
    <3>3. CASE Refuse(s) /\ meter' = meter
      BY <1>3, <3>3
    <3>4. QED
      BY <2>1, <3>2, <3>3 DEF Create
  <2>2. CASE Change(s, write[s].id)
    <3> DEFINE id == write[s].id
    <3>1. CASE /\ id \in Live
               /\ SoftDelete(id) \/ meter' = [meter EXCEPT ![id].version = @ + 1]
               /\ Done(s, id, meter[id].version + 1) \/ Refuse(s)
      <4>1. id \in Ids
        BY <3>1 DEF Live
      <4>2. Grows /\ meter'[id].version = meter[id].version + 1
        BY <1>2, <3>1, <4>1, ChangeGrows
      <4>3. meter'[id].version \in Nat
        BY <4>1, <4>2, RowFacts DEF Grows
      <4>4. QED
        BY <3>1, <4>1, <4>2, <4>3
    <3>2. CASE Refuse(s) /\ meter' = meter
      BY <1>3, <3>2
    <3>3. QED
      BY <2>2, <3>1, <3>2 DEF Change
  <2>3. QED
    BY <2>1, <2>2 DEF HandleWrite
<1>5. /\ write' \in [Slots -> Writes]
      /\ \A r \in Slots : /\ write'[r].pc # "off" => write[r].pc # "off"
                          /\ write'[r].kind = write[r].kind /\ write'[r].of = write[r].of
                          /\ write'[r].mounted = write[r].mounted
                          /\ write'[r].version # 0 =>
                                \/ write'[r].version = write[r].version /\ write'[r].id = write[r].id
                                \/ write'[r].id \in Ids /\ write'[r].version = meter'[write'[r].id].version
  <2>1. PICK w \in Writes :
           /\ write' = [write EXCEPT ![s] = w]
           /\ w.kind = write[s].kind /\ w.of = write[s].of /\ w.mounted = write[s].mounted
           /\ \/ w.version = write[s].version /\ w.id = write[s].id
              \/ w.id \in Ids /\ w.version = meter'[w.id].version
    <3>1. write[s] \in Writes
      BY <1>2
    <3>2. CASE Refuse(s)
      <4> DEFINE refused == [write[s] EXCEPT !.pc = "answered"]
      <4>1. write' = [write EXCEPT ![s] = refused]
        BY <3>2 DEF Refuse
      <4>2. /\ refused \in Writes /\ refused.id = write[s].id /\ refused.version = write[s].version
            /\ refused.kind = write[s].kind /\ refused.of = write[s].of
            /\ refused.mounted = write[s].mounted
        BY <3>1 DEF Writes
      <4> HIDE DEF refused
      <4>3. QED
        BY <4>1, <4>2
    <3>3. ASSUME NEW id \in Ids, NEW version \in Nat, Done(s, id, version), version = meter'[id].version
          PROVE  \E w \in Writes :
                   /\ write' = [write EXCEPT ![s] = w]
                   /\ w.kind = write[s].kind /\ w.of = write[s].of /\ w.mounted = write[s].mounted
                   /\ w.id \in Ids /\ w.version = meter'[w.id].version
      <4> DEFINE done == [write[s] EXCEPT !.pc = "answered", !.id = id, !.version = version]
      <4>1. write' = [write EXCEPT ![s] = done]
        BY <1>2, <3>3 DEF Done
      <4>2. /\ done \in Writes /\ done.id = id /\ done.version = version
            /\ done.kind = write[s].kind /\ done.of = write[s].of /\ done.mounted = write[s].mounted
        BY <3>1 DEF Writes
      <4> HIDE DEF done
      <4>3. QED
        BY <3>3, <4>1, <4>2
    <3>4. QED
      BY <1>4, <3>2, <3>3
  <2>2. write'[s] = w /\ \A r \in Slots : r # s => write'[r] = write[r]
    BY <1>2, <2>1
  <2>3. write' \in [Slots -> Writes]
    BY <1>2, <2>1
  <2>4. QED
    BY <1>1, <2>1, <2>2, <2>3
<1>6. Types'
  BY <1>1, <1>2, <1>4, <1>5 DEF Types, Grows
<1>7. Versions'
  <2>1. \A i \in Ids : meter[i].version \in Nat /\ meter'[i].version \in Nat /\ told[i] \in Nat
    BY <1>2, <1>4, RowFacts DEF Types, Grows
  <2>2. \A i \in Ids : told[i] <= meter[i].version /\ meter[i].version <= meter'[i].version
    BY <1>4 DEF IInv, Versions, Grows
  <2>3. announced' <= completed'
    BY <1>1 DEF IInv, Versions
  <2>4. \A r \in Slots : write'[r].version \in Nat /\ write[r].version \in Nat
    BY <1>2, <1>5 DEF Writes
  <2>5. ASSUME NEW r \in Slots, write'[r].version # 0
        PROVE  write'[r].id \in Ids /\ write'[r].version <= meter'[write'[r].id].version
    <3>1. CASE write'[r].version = write[r].version /\ write'[r].id = write[r].id
      <4>1. write[r].id \in Ids /\ write[r].version <= meter[write[r].id].version
        BY <2>5, <3>1 DEF IInv, Versions
      <4>2. QED
        BY <2>1, <2>2, <2>4, <3>1, <4>1
    <3>2. CASE write'[r].id \in Ids /\ write'[r].version = meter'[write'[r].id].version
      BY <2>4, <3>2
    <3>3. QED
      BY <1>5, <2>5, <3>1, <3>2
  <2>6. \A i \in Ids : told'[i] <= meter'[i].version
    BY <1>1, <2>1, <2>2
  <2>7. QED
    BY <2>3, <2>5, <2>6 DEF Versions
<1>8. OneDialog' /\ OfUrl' /\ Fresh'
  BY <1>1 DEF IInv, OneDialog, OfUrl, Fresh, NotOlder
<1>9. Waiting'
  BY <1>1, <1>5 DEF IInv, Waiting, Attended, Alone
<1>10. QED
  BY <1>6, <1>7, <1>8, <1>9 DEF IInv

\* What is told is in the table.
LEMMA TellFacts ==
  ASSUME IInv, NEW s \in Slots, Tell(write[s]), meter' = meter
  PROVE  /\ told' \in [Ids -> Nat]
         /\ \A i \in Ids : told'[i] <= meter'[i].version
         /\ write[s].version = 0 => told' = told
<1>1. told \in [Ids -> Nat] /\ \A i \in Ids : told[i] <= meter[i].version
  BY DEF IInv, Types, Versions
<1>2. CASE write[s].version = 0
  BY <1>1, <1>2 DEF Tell
<1>3. CASE write[s].version # 0
  <2>1. write[s].id \in Ids /\ write[s].version <= meter[write[s].id].version /\ write[s].version \in Nat
    BY <1>3 DEF IInv, Versions, Types, Writes
  <2>2. told' = [told EXCEPT ![write[s].id] = write[s].version]
    BY <1>3 DEF Tell
  <2>3. QED
    BY <1>1, <1>3, <2>1, <2>2
<1>4. QED
  BY <1>2, <1>3

LEMMA DeliverWriteStep ==
  ASSUME IInv, NEW s \in Slots, DeliverWrite(s)
  PROVE  IInv'
<1>1. /\ write' = [write EXCEPT ![s] = Free] /\ Tell(write[s])
      /\ UNCHANGED <<meter, completed, url, input, debounced, announced, dismissed>>
      /\ write[s].pc = "answered"
  BY DEF DeliverWrite, server, query
<1>2. /\ form \in Forms /\ asked \in Ids \cup {0} /\ write \in [Slots -> Writes] /\ dismissed \in BOOLEAN
      /\ url \in AnyQuery /\ load \in Loads /\ data \in AnyPage /\ failed \in BOOLEAN
  BY DEF IInv, Types
<1>3. /\ write' \in [Slots -> Writes] /\ write'[s] = Free /\ Free.pc = "off" /\ Free.version = 0
      /\ \A r \in Slots : r # s => write'[r] = write[r]
  BY <1>1, <1>2, HomeType DEF Free
<1>4. told' \in [Ids -> Nat] /\ \A i \in Ids : told'[i] <= meter'[i].version
  BY <1>1, TellFacts
<1>5. ~ dismissed => write[s].mounted /\ write[s].of = url
  BY <1>1 DEF IInv, Waiting, Attended
<1>6. ~ dismissed => \A r \in Slots : write'[r].pc = "off"
  BY <1>1, <1>3 DEF IInv, Waiting, Alone
<1>7. Waiting'
  <2>1. ~ dismissed' => ~ dismissed
    BY <1>1, <1>2, SameDismissed
  <2>2. ~ dismissed' => \A r \in Slots : write'[r].pc = "off"
    BY <1>6, <2>1
  <2>3. QED
    BY <2>2 DEF Waiting, Attended, Alone
<1>8. \A r \in Slots : \/ write'[r].version = 0
                       \/ write'[r].version = write[r].version /\ write'[r].id = write[r].id
  BY <1>3
<1>9. Versions'
  <2>1. announced' <= completed'
    BY <1>1 DEF IInv, Versions
  <2>2. ASSUME NEW r \in Slots, write'[r].version # 0
        PROVE  write'[r].id \in Ids /\ write'[r].version <= meter'[write'[r].id].version
    BY <1>1, <1>8, <2>2 DEF IInv, Versions
  <2>3. QED
    BY <1>4, <2>1, <2>2 DEF Versions
<1>10. CASE write[s].version # 0 /\ write[s].mounted
  <2>1. /\ Execute(write[s].of)
        /\ \/ asked' = 0 /\ form' = form
           \/ form' = NoForm /\ asked' = asked
    BY <1>10 DEF DeliverWrite
  <2>2. write[s].of \in AnyQuery
    BY <1>2 DEF Writes
  <2>3. /\ load' \in Loads /\ load'.pc = "sent" /\ load'.page.of = write[s].of
        /\ failed' = FALSE /\ data' = data
    BY <2>1, <2>2, ExecuteEffect DEF IInv
  <2>4. Types'
    BY <1>1, <1>2, <1>3, <1>4, <2>1, <2>3, HomeType DEF IInv, Types
  <2>5. OneDialog'
    BY <2>1 DEF IInv, OneDialog
  <2>6. OfUrl'
    <3>1. ~ dismissed' => ~ dismissed
      BY <1>1, <1>2, SameDismissed
    <3>2. ~ dismissed' => load'.page.of = url'
      BY <1>1, <1>5, <2>3, <3>1
    <3>3. QED
      BY <2>3, <3>2 DEF OfUrl
  <2>7. Fresh'
    BY <2>3 DEF Fresh
  <2>8. QED
    BY <1>7, <1>9, <2>4, <2>5, <2>6, <2>7 DEF IInv
<1>11. CASE ~ (write[s].version # 0 /\ write[s].mounted)
  <2>1. form' = [form EXCEPT !.slot = IF @ = s THEN 0 ELSE @] /\ UNCHANGED <<data, failed, load, asked>>
    BY <1>11 DEF DeliverWrite, list
  <2>2. form' \in Forms
    BY <1>2, <2>1 DEF Forms
  <2>3. Types'
    BY <1>1, <1>2, <1>3, <1>4, <2>1, <2>2 DEF IInv, Types
  <2>4. OneDialog'
    <3>1. form = NoForm => form' = NoForm
      BY <2>1, SlotIsNotZero DEF NoForm
    <3>2. QED
      BY <2>1, <3>1 DEF IInv, OneDialog
  <2>5. OfUrl'
    BY <1>1, <2>1 DEF IInv, OfUrl
  <2>6. ~ dismissed => told' = told
    <3>1. ~ dismissed => write[s].version = 0
      BY <1>5, <1>11
    <3>2. QED
      BY <1>1, <3>1, TellFacts
  <2>7. Fresh'
    <3>1. ~ dismissed' => ~ dismissed
      BY <1>1, <1>2, SameDismissed
    <3>2. \A page : NotOlder(page) =>
             /\ page.at >= announced'
             /\ ~ dismissed' => \A row \in page.rows : row.version >= told'[row.id]
      BY <1>1, <2>6, <3>1 DEF NotOlder
    <3>3. QED
      BY <2>1, <3>2 DEF IInv, Fresh, NotOlder
  <2>8. QED
    BY <1>7, <1>9, <2>3, <2>4, <2>5, <2>7 DEF IInv
<1>12. QED
  BY <1>10, <1>11

-----------------------------------------------------------------------------
(* Every step.                                                              *)

LEMMA StepIInv ==
  ASSUME IInv, [Next]_vars
  PROVE  IInv'
<1>1. CASE Server
  BY <1>1, OtherWritesStep, CompleteAnalysisStep, HandlePageStep, HandleCountStep, LoadFailsStep,
     HandleWriteStep, WriteFailsStep DEF Server
<1>2. CASE Operator
  BY <1>2, TypeStep, RetryStep, RefineStep, TurnStep, SidebarStep, ReopenStep, OpenFormStep,
     AskToDeleteStep, CancelStep, DismissStep, SubmitStep, ConfirmStep DEF Operator
<1>3. CASE Page
  BY <1>3, PauseStep, DeliverLoadStep, AnnounceStep, DeliverWriteStep DEF Page
<1>4. CASE UNCHANGED vars
  <2>1. UNCHANGED <<server, url, query, dialogs, told, announced, dismissed, data, failed, load>>
    BY <1>4 DEF vars, query, list
  <2>2. OfUrl' /\ Fresh'
    BY <2>1 DEF IInv, OfUrl, Fresh, NotOlder
  <2>3. load' \in Loads /\ failed' \in BOOLEAN /\ data' \in AnyPage
    BY <2>1 DEF IInv, Types
  <2>4. QED
    BY <2>1, <2>2, <2>3, SameQuery, SameAnnounced, ReadKeeps
<1>5. QED
  BY <1>1, <1>2, <1>3, <1>4 DEF Next

\* Nobody is told of a version the table does not have, one write is in
\* flight at most with its dialog open, and the list is asked for, or shown,
\* for the query of the URL and not older than what was told.
THEOREM MetersInvariant == Spec => []IInv
<1>1. IInv /\ [Next]_vars => IInv'
  BY StepIInv
<1>2. QED
  BY InitIInv, <1>1, SpecIsSafe, PTL DEF SafeMeters

\* Unless a dialog was left with its write in flight, a page at rest answers
\* the query of the URL (useFetch.ts, MetersPage.tsx): a refresh of an older
\* render runs only while the query cannot have changed.
THEOREM ListMatchesQueryHolds == Spec => []ListMatchesQuery
<1>1. IInv => ListMatchesQuery
  BY DEF IInv, OfUrl, ListMatchesQuery, Resting
<1>2. QED
  BY MetersInvariant, <1>1, PTL

\* A page at rest shows nothing older than what the operator was told, nor
\* than the last analysis announced (MetersPage.tsx, handleSaved,
\* confirmDelete and the effect of completedVersion).
THEOREM NothingToldIsMissingHolds == Spec => []NothingToldIsMissing
<1>1. IInv => NothingToldIsMissing
  BY DEF IInv, Fresh, NotOlder, NothingToldIsMissing, Resting
<1>2. QED
  BY MetersInvariant, <1>1, PTL

\* Only the delivery of an answer frees the slot of a write.
LEMMA OnlyDeliveryFrees ==
  ASSUME IInv, [Next]_vars, NEW s \in Slots, write[s].pc = "answered", write'[s].pc = "off"
  PROVE  DeliverWrite(s)
<1>1. write \in [Slots -> Writes] /\ write' # write
  BY DEF IInv, Types
<1>2. CASE Server
  <2>1. CASE \E r \in Slots : HandleWrite(r) \/ WriteFails(r)
    <3>1. PICK r \in Slots : HandleWrite(r) \/ WriteFails(r)
      BY <2>1
    <3>2. r # s
      BY <3>1 DEF HandleWrite, WriteFails
    <3>3. Refuse(r) \/ \E id, version : Done(r, id, version)
      BY <3>1 DEF HandleWrite, WriteFails, Create, Change
    <3>4. write'[s] = write[s]
      BY <1>1, <3>2, <3>3 DEF Refuse, Done
    <3>5. QED
      BY <3>4
  <2>2. CASE OtherWrites \/ CompleteAnalysis \/ HandlePage \/ HandleCount \/ LoadFails
    BY <1>1, <2>2 DEF OtherWrites, CompleteAnalysis, HandlePage, HandleCount, LoadFails, dialogs
  <2>3. QED
    BY <1>2, <2>1, <2>2 DEF Server
<1>3. CASE Operator
  <2>1. CASE \E r \in Slots : Submit(r) \/ Confirm(r)
    <3>1. PICK r \in Slots : Submit(r) \/ Confirm(r)
      BY <2>1
    <3>2. r # s
      BY <3>1 DEF Submit, Confirm, NextSlot
    <3>3. \E w : write' = [write EXCEPT ![r] = w]
      BY <3>1 DEF Submit, Confirm
    <3>4. QED
      BY <1>1, <3>2, <3>3
  <2>2. CASE Reopen
    <3>1. write'[s] = [write[s] EXCEPT !.mounted = FALSE]
      BY <2>2 DEF Reopen
    <3>2. QED
      BY <1>1, <3>1 DEF Writes
  <2>3. CASE \/ \E text \in {"", "text"} : Type(text)
             \/ Retry \/ Refine \/ Turn \/ Sidebar
             \/ OpenForm \/ AskToDelete \/ Cancel \/ Dismiss
    BY <1>1, <2>3 DEF Type, Retry, Refine, Turn, Sidebar, OpenForm, AskToDelete, Cancel, Dismiss, dialogs
  <2>4. QED
    BY <1>3, <2>1, <2>2, <2>3 DEF Operator
<1>4. CASE Page
  <2>1. CASE \E r \in Slots : DeliverWrite(r)
    <3>1. PICK r \in Slots : DeliverWrite(r)
      BY <2>1
    <3>2. write' = [write EXCEPT ![r] = Free]
      BY <3>1 DEF DeliverWrite
    <3>3. r = s
      BY <1>1, <3>2
    <3>4. QED
      BY <3>1, <3>3
  <2>2. CASE Pause \/ DeliverLoad \/ Announce
    BY <1>1, <2>2 DEF Pause, DeliverLoad, Announce, dialogs
  <2>3. QED
    BY <1>4, <2>1, <2>2 DEF Page
<1>5. CASE UNCHANGED vars
  BY <1>1, <1>5 DEF vars, dialogs
<1>6. QED
  BY <1>2, <1>3, <1>4, <1>5 DEF Next

\* Unless a dialog was left with its write in flight, an answer closes only
\* the dialog that sent its request (MeterFormModal.tsx, MetersPage.tsx).
THEOREM DraftKeptHolds == Spec => DraftKept
<1> DEFINE Kept ==
      \A s \in Slots :
         write[s].pc = "answered" /\ write'[s].pc = "off" /\ ~ dismissed =>
             /\ form # NoForm /\ form.slot # s => form' = form
             /\ write[s].kind # "delete" => asked' = asked
<1>1. ASSUME IInv, [Next]_vars PROVE Kept
  <2>1. SUFFICES ASSUME NEW s \in Slots, write[s].pc = "answered", write'[s].pc = "off", ~ dismissed
                 PROVE  /\ form # NoForm /\ form.slot # s => form' = form
                        /\ write[s].kind # "delete" => asked' = asked
    OBVIOUS
  <2>2. DeliverWrite(s)
    BY <1>1, <2>1, OnlyDeliveryFrees
  <2>3. IF write[s].kind = "delete" THEN asked # 0 ELSE form.slot = s
    BY <1>1, <2>1 DEF IInv, Waiting, Attended
  <2>4. form \in Forms /\ OneDialog
    BY <1>1 DEF IInv, Types
  <2>5. [form EXCEPT !.slot = form.slot] = form
    BY <2>4 DEF Forms
  <2>6. CASE write[s].version # 0 /\ write[s].mounted
    BY <2>2, <2>3, <2>4, <2>6 DEF DeliverWrite, OneDialog
  <2>7. CASE ~ (write[s].version # 0 /\ write[s].mounted)
    BY <2>2, <2>5, <2>7 DEF DeliverWrite
  <2>8. QED
    BY <2>6, <2>7
<1>2. IInv /\ [Next]_vars => [Kept]_vars
  BY <1>1
<1>3. QED
  BY MetersInvariant, SpecIsSafe, <1>2, PTL DEF SafeMeters, DraftKept
=============================================================================
