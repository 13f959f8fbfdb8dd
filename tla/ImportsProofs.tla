--------------------------- MODULE ImportsProofs ----------------------------
(***************************************************************************)
(* Theorems about Imports for any cards and files, length of the history    *)
(* and numbers of uploads and turns.                                        *)
(***************************************************************************)
EXTENDS Imports, FiniteSetTheorems, TLAPS

SafeImports == Init /\ [][Next]_vars

\* Spec without its fairness.
LEMMA SpecIsSafe == Spec => SafeImports
BY PTL DEF Spec, SafeImports

-----------------------------------------------------------------------------
(* The types.                                                               *)

AnyFile == Files \cup Refused \cup {NoFile}
Sendings == [pc : {"idle", "sent", "begun", "ended", "answered"}, card : Cards \cup {Nobody},
             file : AnyFile, here : BOOLEAN, number : Nat,
             status : {"none", "COMPLETED", "FAILED"}, inserted : BOOLEAN]
AnyCard == [file : AnyFile, uploading : BOOLEAN,
            outcome : [kind : {"none", "error", "rows", "success"}, of : AnyFile]]
Histories == [data : SUBSET Uploads, loaded : BOOLEAN, error : BOOLEAN,
              load : [pc : {"off", "sent", "answered"}, answer : SUBSET Uploads]]

Types ==
    /\ upload \in [Uploads -> Sendings]
    /\ begun \in Nat
    /\ card \in [Cards -> AnyCard]
    /\ history \in Histories
    /\ banner \in BOOLEAN
    /\ shown \in BOOLEAN

-----------------------------------------------------------------------------
(* The inductive invariant.                                                 *)

\* The batch of an upload is visible once the service is done with it, and
\* only what was committed inserted rows.
Settled(i) ==
    /\ upload[i].status # "none" => upload[i].pc \in {"ended", "answered"}
    /\ upload[i].inserted => upload[i].status = "COMPLETED"

\* An upload the page waits for.
Awaited(i) == upload[i].here /\ upload[i].pc \in {"sent", "begun", "ended"}

\* It is of a card that shows its file and that it is uploading.
OfItsCard(i) ==
    Awaited(i) => /\ upload[i].card \in Cards
                  /\ card[upload[i].card].uploading
                  /\ card[upload[i].card].file = upload[i].file
                  /\ upload[i].file # NoFile

\* A card has one upload at a time, and has it while it says so.
OneEach == \A i, j \in Uploads : Awaited(i) /\ Awaited(j) /\ upload[i].card = upload[j].card => i = j
HasItsUpload(c) == card[c].uploading => \E i \in Uploads : Awaited(i) /\ upload[i].card = c

\* While the operator is on another page no upload is of this one.
Away == ~ shown => \A i \in Uploads : ~ upload[i].here

\* What the history shows at rest, or is about to show, has the upload.
InHistory(i, shows) == i \in shows \/ Cardinality(Newer(i)) >= Limit
Listed(i) ==
    upload[i].here /\ upload[i].pc = "answered" =>
        /\ upload[i].inserted => banner
        /\ i \in Recorded =>
             /\ history.load.pc = "answered" => InHistory(i, history.load.answer)
             /\ history.load.pc = "off" /\ ~ history.error => InHistory(i, history.data)

IInv ==
    /\ Types /\ OneEach /\ Away
    /\ \A i \in Uploads : Settled(i) /\ OfItsCard(i) /\ Listed(i)
    /\ \A c \in Cards : HasItsUpload(c)
    /\ OutcomeIsOfTheFile

LEMMA InitIInv == Init => IInv
<1> SUFFICES ASSUME Init PROVE IInv
  OBVIOUS
<1>1. \A i \in Uploads : upload[i] = NoUpload
  BY DEF Init
<1>2. \A c \in Cards : card[c] = EmptyCard
  BY DEF Init
<1>3. Types
  BY DEF Init, Types, Sendings, AnyCard, Histories, NoUpload, EmptyCard, NoOutcome, Fresh, Reading, AnyFile
<1>4. \A i \in Uploads : ~ upload[i].here /\ upload[i].pc = "idle" /\ upload[i].status = "none" /\ ~ upload[i].inserted
  BY <1>1 DEF NoUpload
<1>5. \A c \in Cards : ~ card[c].uploading /\ card[c].file = NoFile
  BY <1>2 DEF EmptyCard
<1>6. OneEach /\ Away /\ (\A i \in Uploads : Settled(i) /\ OfItsCard(i) /\ Listed(i))
  BY <1>4 DEF OneEach, Away, Settled, OfItsCard, Listed, Awaited
<1>7. (\A c \in Cards : HasItsUpload(c)) /\ OutcomeIsOfTheFile
  BY <1>5 DEF HasItsUpload, OutcomeIsOfTheFile
<1>8. QED
  BY <1>3, <1>6, <1>7 DEF IInv

-----------------------------------------------------------------------------
(* Steps of the history.                                                    *)

LEMMA UploadType ==
  ASSUME Types, NEW i \in Uploads
  PROVE  /\ upload[i].pc \in {"idle", "sent", "begun", "ended", "answered"}
         /\ upload[i].card \in Cards \cup {Nobody} /\ upload[i].file \in AnyFile
         /\ upload[i].here \in BOOLEAN /\ upload[i].inserted \in BOOLEAN
         /\ upload[i].number \in Nat /\ upload[i].status \in {"none", "COMPLETED", "FAILED"}
BY DEF Types, Sendings

LEMMA CardType ==
  ASSUME Types, NEW c \in Cards
  PROVE  /\ card[c].file \in AnyFile /\ card[c].uploading \in BOOLEAN
         /\ card[c].outcome \in [kind : {"none", "error", "rows", "success"}, of : AnyFile]
BY DEF Types, AnyCard

LEMMA HistoryType ==
  ASSUME Types
  PROVE  /\ history.load.pc \in {"off", "sent", "answered"} /\ history.error \in BOOLEAN
         /\ history.data \subseteq Uploads /\ history.load.answer \subseteq Uploads
BY DEF Types, Histories

\* A request that is sent starts with nothing to show.
LEMMA ExecuteSends ==
  ASSUME Types
  PROVE  Execute(history) \in Histories /\ Execute(history).load.pc = "sent"
BY DEF Types, Histories, Execute, Reading

\* The latest batches have every visible one, or there are newer ones enough.
LEMMA LatestHas ==
  ASSUME NEW i \in Recorded
  PROVE  InHistory(i, Latest)
<1>1. IsFiniteSet(Newer(i))
  <2>1. IsFiniteSet(Uploads)
    BY ImportsBounds, FS_Interval DEF Uploads
  <2>2. QED
    BY <2>1, FS_Subset DEF Newer, Recorded
<1>2. Cardinality(Newer(i)) \in Nat
  BY <1>1, FS_CardinalityType
<1>3. QED
  BY <1>2, ImportsBounds DEF InHistory, Latest

\* What leaves the uploads and the cards alone.
LEMMA HistoryStep ==
  ASSUME IInv, UNCHANGED <<upload, begun, card, banner, shown>>, history' \in Histories,
         \A i \in Recorded : history'.load.pc = "answered" =>
             history.load = history'.load \/ InHistory(i, history'.load.answer),
         history'.load.pc = "off" /\ ~ history'.error =>
             \/ history.load.pc = "answered" /\ history'.data = history.load.answer
             \/ history.load.pc = "off" /\ ~ history.error /\ history'.data = history.data
  PROVE  IInv'
<1>1. Types'
  BY DEF IInv, Types
<1>2. OneEach' /\ Away'
  BY DEF IInv, OneEach, Away, Awaited
<1>3. ASSUME NEW i \in Uploads PROVE (Settled(i) /\ OfItsCard(i))'
  BY <1>3 DEF IInv, Settled, OfItsCard, Awaited
<1>4. ASSUME NEW i \in Uploads PROVE Listed(i)'
  <2>1. Listed(i)
    BY DEF IInv
  <2>2. (i \in Recorded') = (i \in Recorded) /\ Newer(i)' = Newer(i)
    BY DEF Recorded, Newer
  <2>3. ASSUME NEW S PROVE InHistory(i, S) = (i \in S \/ Cardinality(Newer(i)') >= Limit)
    BY <2>2 DEF InHistory
  <2>4. QED
    BY <2>1, <2>2, <2>3 DEF Listed, InHistory
<1>5. ASSUME NEW c \in Cards PROVE HasItsUpload(c)'
  BY DEF IInv, HasItsUpload, Awaited
<1>6. OutcomeIsOfTheFile'
  BY DEF IInv, OutcomeIsOfTheFile
<1>7. QED
  BY <1>1, <1>2, <1>3, <1>4, <1>5, <1>6 DEF IInv

LEMMA HistorySteps ==
  ASSUME IInv, ReadHistory \/ DeliverHistory \/ FailHistory \/ Retry
  PROVE  IInv'
<1>1. Types
  BY DEF IInv
<1>2. CASE ReadHistory
  <2>1. /\ history' \in Histories /\ history'.load = [pc |-> "answered", answer |-> Latest]
        /\ UNCHANGED <<upload, begun, card, banner, shown>>
    BY <1>1, <1>2 DEF ReadHistory, Types, Histories, Latest, Recorded
  <2>2. QED
    BY <2>1, LatestHas, HistoryStep
<1>3. CASE DeliverHistory
  <2>1. /\ history' \in Histories /\ history'.load.pc = "off" /\ history'.data = history.load.answer
        /\ history.load.pc = "answered"
        /\ UNCHANGED <<upload, begun, card, banner, shown>>
    BY <1>1, <1>3 DEF DeliverHistory, Types, Histories, Off
  <2>2. QED
    BY <2>1, HistoryStep
<1>4. CASE FailHistory
  <2>1. /\ history' \in Histories /\ history'.load.pc = "off" /\ history'.error
        /\ UNCHANGED <<upload, begun, card, banner, shown>>
    BY <1>1, <1>4 DEF FailHistory, Types, Histories, Off
  <2>2. QED
    BY <2>1, HistoryStep
<1>5. CASE Retry
  <2>1. /\ history' \in Histories /\ history'.load.pc = "sent"
        /\ UNCHANGED <<upload, begun, card, banner, shown>>
    BY <1>1, <1>5, ExecuteSends DEF Retry
  <2>2. QED
    BY <2>1, HistoryStep
<1>6. QED
  BY <1>2, <1>3, <1>4, <1>5

-----------------------------------------------------------------------------
(* Steps of the cards.                                                      *)

\* What changes one card that has no upload, and nothing else.
LEMMA CardStep ==
  ASSUME IInv, NEW c \in Cards, NEW new \in AnyCard,
         UNCHANGED <<upload, begun, history, banner, shown>>,
         card' = [card EXCEPT ![c] = new],
         card[c].file = NoFile \/ ~ card[c].uploading,
         new.uploading = card[c].uploading,
         new.file # NoFile => new.outcome = NoOutcome
  PROVE  IInv'
<1>1. Types'
  BY DEF IInv, Types
<1>2. OneEach' /\ Away'
  BY DEF IInv, OneEach, Away, Awaited
<1>3. card'[c] = new /\ \A d \in Cards : d # c => card'[d] = card[d]
  BY DEF IInv, Types
<1>4. ASSUME NEW i \in Uploads PROVE (Settled(i) /\ OfItsCard(i) /\ Listed(i))'
  <2>1. Settled(i) /\ OfItsCard(i) /\ Listed(i)
    BY DEF IInv
  <2>2. Settled(i)' /\ Listed(i)'
    BY <2>1 DEF Settled, Listed, InHistory, Newer, Recorded
  <2>3. OfItsCard(i)'
    BY <2>1, <1>3 DEF OfItsCard, Awaited
  <2>4. QED
    BY <2>2, <2>3
<1>5. ASSUME NEW d \in Cards PROVE HasItsUpload(d)'
  <2>1. HasItsUpload(d) /\ card'[d].uploading = card[d].uploading
    BY <1>3 DEF IInv
  <2>2. QED
    BY <2>1 DEF HasItsUpload, Awaited
<1>6. OutcomeIsOfTheFile'
  BY <1>3 DEF IInv, OutcomeIsOfTheFile
<1>7. QED
  BY <1>1, <1>2, <1>4, <1>5, <1>6 DEF IInv

LEMMA CardSteps ==
  ASSUME IInv, NEW c \in Cards, Remove(c) \/ \E f \in Files \cup Refused : Choose(c, f)
  PROVE  IInv'
<1>1. Types /\ NoOutcome \in [kind : {"none", "error", "rows", "success"}, of : AnyFile]
  BY DEF IInv, NoOutcome, AnyFile
<1>2. CASE Remove(c)
  <2> DEFINE new == [card[c] EXCEPT !.file = NoFile, !.outcome = NoOutcome]
  <2>1. new \in AnyCard /\ new.uploading = card[c].uploading /\ new.file = NoFile
    BY <1>1 DEF Types, AnyCard, AnyFile
  <2>2. card' = [card EXCEPT ![c] = new] /\ ~ card[c].uploading
    BY <1>1, <1>2 DEF Remove, Types
  <2> HIDE DEF new
  <2>3. QED
    BY <1>2, <2>1, <2>2, CardStep DEF Remove
<1>3. ASSUME NEW f \in Files, card[c].file = NoFile, UNCHANGED <<upload, begun, history, banner, shown>>,
             card' = [card EXCEPT ![c].file = f, ![c].outcome = NoOutcome]
      PROVE  IInv'
  <2> DEFINE new == [card[c] EXCEPT !.file = f, !.outcome = NoOutcome]
  <2>1. new \in AnyCard /\ new.uploading = card[c].uploading /\ new.outcome = NoOutcome
    BY <1>1 DEF Types, AnyCard, AnyFile
  <2>2. card' = [card EXCEPT ![c] = new]
    BY <1>1, <1>3 DEF Types
  <2> HIDE DEF new
  <2>3. QED
    BY <1>3, <2>1, <2>2, CardStep
<1>4. ASSUME NEW f \in Refused, card[c].file = NoFile, UNCHANGED <<upload, begun, history, banner, shown>>,
             card' = [card EXCEPT ![c].outcome = [kind |-> "error", of |-> f]]
      PROVE  IInv'
  <2> DEFINE new == [card[c] EXCEPT !.outcome = [kind |-> "error", of |-> f]]
  <2>1. new \in AnyCard /\ new.uploading = card[c].uploading /\ new.file = NoFile
    BY <1>1, <1>4 DEF Types, AnyCard, AnyFile
  <2>2. card' = [card EXCEPT ![c] = new]
    BY <1>1, <1>4 DEF Types
  <2> HIDE DEF new
  <2>3. QED
    BY <1>4, <2>1, <2>2, CardStep
<1>5. QED
  BY <1>2, <1>3, <1>4 DEF Choose

-----------------------------------------------------------------------------
(* Steps that send an upload.                                               *)

\* The upload that is sent was never used, and is then the one of its card.
LEMMA SendStep ==
  ASSUME IInv, NEW by \in Cards \cup {Nobody}, NEW f \in AnyFile, NEW here \in BOOLEAN,
         Send(by, f, here), UNCHANGED <<begun, history, banner, shown>>,
         here => by \in Cards /\ shown /\ ~ card[by].uploading /\ f # NoFile /\ f = card[by].file
                 /\ card' = [card EXCEPT ![by].uploading = TRUE],
         ~ here => UNCHANGED card
  PROVE  IInv'
<1>1. PICK n \in Uploads : /\ upload[n] = NoUpload
                           /\ upload' = [upload EXCEPT ![n] = [NoUpload EXCEPT
                                            !.pc = "sent", !.card = by, !.file = f, !.here = here]]
  BY DEF Send
<1>2. Types
  BY DEF IInv
<1>3. /\ upload'[n].pc = "sent" /\ upload'[n].card = by /\ upload'[n].file = f /\ upload'[n].here = here
      /\ upload'[n].status = "none" /\ upload'[n].inserted = FALSE
      /\ \A i \in Uploads : i # n => upload'[i] = upload[i]
  BY <1>1, <1>2 DEF Types, NoUpload
<1>4. ~ Awaited(n) /\ upload[n].status = "none" /\ upload[n].number = upload'[n].number
  BY <1>1, <1>2 DEF Awaited, NoUpload, Types
<1>5. Types'
  <2>1. [NoUpload EXCEPT !.pc = "sent", !.card = by, !.file = f, !.here = here] \in Sendings
    BY DEF NoUpload, Sendings
  <2>2. upload' \in [Uploads -> Sendings]
    BY <2>1, <1>1, <1>2 DEF Types
  <2>3. card' \in [Cards -> AnyCard]
    BY <1>2 DEF Types, AnyCard
  <2>4. QED
    BY <2>2, <2>3, <1>2 DEF Types
<1>6. \A d \in Cards : /\ card'[d].file = card[d].file /\ card'[d].outcome = card[d].outcome
                       /\ card[d].uploading => card'[d].uploading
                       /\ d # by \/ ~ here => card'[d] = card[d]
  BY <1>2 DEF Types, AnyCard
<1>7. here => card'[by].uploading /\ card'[by].file = f /\ by \in Cards
  BY <1>2 DEF Types, AnyCard
<1>8. \A i \in Uploads : Awaited(i)' = IF i = n THEN here ELSE Awaited(i)
  BY <1>3, <1>2, UploadType DEF Awaited
<1>9. OneEach'
  <2>1. \A i \in Uploads : Awaited(i) /\ here => upload[i].card # by
    BY DEF IInv, OfItsCard
  <2>2. QED
    BY <2>1, <1>3, <1>8 DEF IInv, OneEach
<1>10. Away'
  BY <1>3 DEF IInv, Away
<1>11. ASSUME NEW i \in Uploads PROVE (Settled(i) /\ OfItsCard(i) /\ Listed(i))'
  <2>1. Settled(i) /\ OfItsCard(i) /\ Listed(i)
    BY DEF IInv
  <2>2. Settled(i)'
    BY <2>1, <1>3 DEF Settled
  <2>3. OfItsCard(i)'
    <3>1. CASE i = n
      BY <3>1, <1>3, <1>7, <1>8 DEF OfItsCard
    <3>2. CASE i # n
      BY <3>2, <2>1, <1>3, <1>6, <1>8 DEF OfItsCard
    <3>3. QED
      BY <3>1, <3>2
  <2>4. (Recorded' = Recorded /\ Newer(i)' = Newer(i)) \/ i = n
    BY <1>3, <1>4 DEF Recorded, Newer
  <2>5. Listed(i)'
    BY <2>1, <2>4, <1>3 DEF Listed, InHistory
  <2>6. QED
    BY <2>2, <2>3, <2>5
<1>12. ASSUME NEW d \in Cards PROVE HasItsUpload(d)'
  <2>1. CASE here /\ d = by
    BY <2>1, <1>3, <1>8 DEF HasItsUpload
  <2>2. CASE ~ (here /\ d = by)
    <3>1. HasItsUpload(d) /\ card'[d] = card[d]
      BY <2>2, <1>6 DEF IInv
    <3>2. QED
      BY <3>1, <1>3, <1>4, <1>8 DEF HasItsUpload
  <2>3. QED
    BY <2>1, <2>2
<1>13. OutcomeIsOfTheFile'
  BY <1>6 DEF IInv, OutcomeIsOfTheFile
<1>14. QED
  BY <1>5, <1>9, <1>10, <1>11, <1>12, <1>13 DEF IInv

LEMMA SendSteps ==
  ASSUME IInv, UploadOfOthers \/ \E c \in Cards : Upload(c)
  PROVE  IInv'
<1>1. CASE UploadOfOthers
  <2>1. PICK f \in Good : Send(Nobody, f, FALSE) /\ UNCHANGED <<begun, card, history, banner, shown>>
    BY <1>1 DEF UploadOfOthers
  <2>2. f \in AnyFile
    BY DEF AnyFile, Files
  <2>3. QED
    BY <2>1, <2>2, SendStep
<1>2. ASSUME NEW c \in Cards, Upload(c) PROVE IInv'
  <2>1. card[c].file \in AnyFile
    BY CardType DEF IInv
  <2>2. QED
    BY <1>2, <2>1, SendStep DEF Upload
<1>3. QED
  BY <1>1, <1>2

-----------------------------------------------------------------------------
(* Steps of the service.                                                    *)

\* A batch that becomes visible only adds to what is newer than another.
LEMMA NewerGrows ==
  ASSUME NEW i \in Uploads,
         \A j \in Recorded : j \in Recorded' /\ upload'[j].number = upload[j].number, i \in Recorded,
         NEW S, InHistory(i, S)
  PROVE  i \in S \/ Cardinality(Newer(i)') >= Limit
<1>1. Newer(i) \subseteq Newer(i)'
  BY DEF Newer, Recorded
<1>2. IsFiniteSet(Newer(i)')
  <2>1. IsFiniteSet(Uploads)
    BY ImportsBounds, FS_Interval DEF Uploads
  <2>2. QED
    BY <2>1, FS_Subset DEF Newer, Recorded
<1>3. Cardinality(Newer(i)) <= Cardinality(Newer(i)') /\ Cardinality(Newer(i)) \in Nat /\ Cardinality(Newer(i)') \in Nat
  BY <1>1, <1>2, FS_Subset, FS_CardinalityType
<1>4. QED
  BY <1>3, ImportsBounds DEF InHistory

\* What the service does with an upload leaves the page alone.
LEMMA ServiceStep ==
  ASSUME IInv, NEW n \in Uploads, NEW new \in Sendings,
         UNCHANGED <<card, history, banner, shown>>, begun' \in Nat,
         upload' = [upload EXCEPT ![n] = new],
         upload[n].pc \in {"sent", "begun"}, new.pc \in {"begun", "ended"},
         new.card = upload[n].card, new.file = upload[n].file, new.here = upload[n].here,
         new.status # "none" => new.pc = "ended",
         new.inserted => new.status = "COMPLETED"
  PROVE  IInv'
<1>1. Types
  BY DEF IInv
<1>2. upload'[n] = new /\ \A i \in Uploads : i # n => upload'[i] = upload[i]
  BY <1>1 DEF Types
<1>3. Types'
  BY <1>1 DEF Types
<1>4. \A i \in Uploads : /\ Awaited(i)' = Awaited(i)
                         /\ upload'[i].card = upload[i].card /\ upload'[i].file = upload[i].file
                         /\ upload'[i].here = upload[i].here
  BY <1>1, <1>2, UploadType DEF Awaited
<1>5. OneEach' /\ Away'
  BY <1>4 DEF IInv, OneEach, Away
<1>6. n \notin Recorded
  BY DEF IInv, Settled, Recorded
<1>7. \A j \in Recorded : j \in Recorded' /\ upload'[j].number = upload[j].number
  BY <1>2, <1>6 DEF Recorded
<1>8. ASSUME NEW i \in Uploads PROVE (Settled(i) /\ OfItsCard(i) /\ Listed(i))'
  <2>1. Settled(i) /\ OfItsCard(i) /\ Listed(i)
    BY DEF IInv
  <2>2. Settled(i)'
    BY <2>1, <1>2 DEF Settled
  <2>3. OfItsCard(i)'
    BY <2>1, <1>4 DEF OfItsCard
  <2>4. Listed(i)'
    <3>1. CASE i = n
      BY <3>1, <1>2 DEF Listed
    <3>2. CASE i # n
      <4>1. (i \in Recorded') = (i \in Recorded)
        BY <3>2, <1>2 DEF Recorded
      <4>2. ASSUME NEW S, i \in Recorded, InHistory(i, S)
            PROVE  i \in S \/ Cardinality(Newer(i)') >= Limit
        BY <4>2, <1>7, NewerGrows
      <4>3. QED
        BY <2>1, <3>2, <4>1, <4>2, <1>2 DEF Listed, InHistory
    <3>3. QED
      BY <3>1, <3>2
  <2>5. QED
    BY <2>2, <2>3, <2>4
<1>9. ASSUME NEW c \in Cards PROVE HasItsUpload(c)'
  BY <1>4 DEF IInv, HasItsUpload
<1>10. OutcomeIsOfTheFile'
  BY DEF IInv, OutcomeIsOfTheFile
<1>11. QED
  BY <1>3, <1>5, <1>8, <1>9, <1>10 DEF IInv

LEMMA ServiceSteps ==
  ASSUME IInv, NEW n \in Uploads, Begin(n) \/ End(n) \/ Reject(n)
  PROVE  IInv'
<1>1. Types /\ Settled(n)
  BY DEF IInv
<1> DEFINE begin(k) == [upload[n] EXCEPT !.pc = "begun", !.number = k]
           commit == [upload[n] EXCEPT !.pc = "ended", !.status = "COMPLETED", !.inserted = AnyNew(n)]
           fail == [upload[n] EXCEPT !.pc = "ended"]
           reject(k) == [upload[n] EXCEPT !.pc = "ended", !.number = k, !.status = "FAILED"]
<1>2. begun \in Nat /\ begun + 1 \in Nat
  BY <1>1 DEF Types
<1>3. ASSUME NEW k \in Nat, upload[n].pc = "sent", upload' = [upload EXCEPT ![n] = begin(k)], begun' = k,
             UNCHANGED <<card, history, banner, shown>>
      PROVE  IInv'
  <2>1. /\ begin(k) \in Sendings /\ begin(k).pc = "begun" /\ begin(k).card = upload[n].card
        /\ begin(k).file = upload[n].file /\ begin(k).here = upload[n].here
        /\ begin(k).status = upload[n].status /\ begin(k).inserted = upload[n].inserted
    BY <1>1 DEF Types, Sendings
  <2> HIDE DEF begin
  <2>2. begin(k).status = "none" /\ ~ begin(k).inserted
    BY <1>1, <1>3, <2>1, UploadType DEF Settled
  <2>3. QED
    BY <1>3, <2>1, <2>2, ServiceStep
<1>4. ASSUME upload[n].pc = "begun", upload' = [upload EXCEPT ![n] = commit],
             UNCHANGED <<begun, card, history, banner, shown>>
      PROVE  IInv'
  <2>1. AnyNew(n) \in BOOLEAN
    BY DEF AnyNew
  <2>2. /\ commit \in Sendings /\ commit.pc = "ended" /\ commit.card = upload[n].card
        /\ commit.file = upload[n].file /\ commit.here = upload[n].here /\ commit.status = "COMPLETED"
    BY <1>1, <2>1 DEF Types, Sendings
  <2> HIDE DEF commit
  <2>3. QED
    BY <1>2, <1>4, <2>2, ServiceStep
<1>5. ASSUME upload[n].pc \in {"sent", "begun"}, upload' = [upload EXCEPT ![n] = fail],
             UNCHANGED <<begun, card, history, banner, shown>>
      PROVE  IInv'
  <2>1. /\ fail \in Sendings /\ fail.pc = "ended" /\ fail.card = upload[n].card
        /\ fail.file = upload[n].file /\ fail.here = upload[n].here
        /\ fail.status = upload[n].status /\ fail.inserted = upload[n].inserted
    BY <1>1 DEF Types, Sendings
  <2> HIDE DEF fail
  <2>2. QED
    BY <1>1, <1>2, <1>5, <2>1, ServiceStep DEF Settled
<1>6. ASSUME NEW k \in Nat, upload[n].pc = "sent", upload' = [upload EXCEPT ![n] = reject(k)], begun' = k,
             UNCHANGED <<card, history, banner, shown>>
      PROVE  IInv'
  <2>1. /\ reject(k) \in Sendings /\ reject(k).pc = "ended" /\ reject(k).card = upload[n].card
        /\ reject(k).file = upload[n].file /\ reject(k).here = upload[n].here
        /\ reject(k).status = "FAILED" /\ reject(k).inserted = upload[n].inserted
    BY <1>1 DEF Types, Sendings
  <2> HIDE DEF reject
  <2>2. ~ reject(k).inserted
    BY <1>1, <1>6, <2>1, UploadType DEF Settled
  <2>3. QED
    BY <1>6, <2>1, <2>2, ServiceStep
<1>7. CASE Begin(n)
  BY <1>2, <1>3, <1>7 DEF Begin
<1>8. CASE End(n)
  BY <1>4, <1>5, <1>8 DEF End
<1>9. CASE Reject(n)
  BY <1>2, <1>5, <1>6, <1>9 DEF Reject
<1>10. QED
  BY <1>7, <1>8, <1>9

-----------------------------------------------------------------------------
(* Steps that end the wait for an upload.                                   *)

\* The card of an upload shows its outcome, and the history is read again.
LEMMA EndStep ==
  ASSUME IInv, NEW n \in Uploads, Awaited(n), NEW new \in Sendings, NEW shows \in AnyCard,
         upload' = [upload EXCEPT ![n] = new], UNCHANGED <<begun, shown>>,
         (new.here /\ new.pc = "answered") \/ (~ new.here /\ new.pc = upload[n].pc),
         new.here => upload[n].here /\ upload[n].pc = "ended",
         new.status = upload[n].status, new.number = upload[n].number, new.inserted = upload[n].inserted,
         card' = [card EXCEPT ![upload[n].card] = shows],
         ~ shows.uploading, shows.outcome.of = upload[n].file,
         shows.file = NoFile \/ shows.file = upload[n].file,
         history' = Execute(history), banner' \in BOOLEAN, banner => banner',
         new.here /\ new.inserted => banner'
  PROVE  IInv'
<1>1. Types /\ OfItsCard(n) /\ upload[n].card \in Cards
  BY DEF IInv, OfItsCard
<1>2. upload'[n] = new /\ \A i \in Uploads : i # n => upload'[i] = upload[i]
  BY <1>1 DEF Types
<1>3. Types'
  BY <1>1, ExecuteSends DEF Types
<1>4. ~ Awaited(n)' /\ \A i \in Uploads : i # n => Awaited(i)' = Awaited(i)
  BY <1>2 DEF Awaited
<1>5. OneEach' /\ Away'
  BY <1>2, <1>4 DEF IInv, OneEach, Away
<1>6. \A i \in Uploads : i # n /\ Awaited(i) => upload[i].card # upload[n].card
  BY DEF IInv, OneEach
<1>7. card'[upload[n].card] = shows /\ \A c \in Cards : c # upload[n].card => card'[c] = card[c]
  BY <1>1 DEF Types
<1>8. ASSUME NEW i \in Uploads PROVE (Settled(i) /\ OfItsCard(i) /\ Listed(i))'
  <2>1. Settled(i) /\ OfItsCard(i) /\ Listed(i)
    BY DEF IInv
  <2>2. Settled(i)'
    BY <2>1, <1>2 DEF Settled, Awaited
  <2>3. OfItsCard(i)'
    BY <2>1, <1>2, <1>4, <1>6, <1>7 DEF OfItsCard
  <2>4. Listed(i)'
    <3>1. history'.load.pc = "sent"
      BY <1>1, ExecuteSends
    <3>2. CASE i = n
      BY <3>1, <3>2, <1>2 DEF Listed
    <3>3. CASE i # n
      BY <3>1, <3>3, <2>1, <1>2 DEF Listed
    <3>4. QED
      BY <3>2, <3>3
  <2>5. QED
    BY <2>2, <2>3, <2>4
<1>9. ASSUME NEW c \in Cards PROVE HasItsUpload(c)'
  <2>1. CASE c = upload[n].card
    BY <2>1, <1>7 DEF HasItsUpload
  <2>2. CASE c # upload[n].card
    BY <2>2, <1>2, <1>4, <1>7 DEF IInv, HasItsUpload
  <2>3. QED
    BY <2>1, <2>2
<1>10. OutcomeIsOfTheFile'
  BY <1>1, <1>7 DEF IInv, OutcomeIsOfTheFile, OfItsCard
<1>11. QED
  BY <1>3, <1>5, <1>8, <1>9, <1>10 DEF IInv

\* What Fail and Succeed do, for EndStep.
LEMMA FailEffect ==
  ASSUME IInv, NEW n \in Uploads, Awaited(n), Fail(n, [kind |-> "error", of |-> upload[n].file])
                                              \/ Fail(n, OutcomeOf(n))
  PROVE  /\ history' = Execute(history) /\ banner' = banner
         /\ \E shows \in AnyCard : /\ card' = [card EXCEPT ![upload[n].card] = shows]
                                   /\ ~ shows.uploading /\ shows.outcome.of = upload[n].file
                                   /\ shows.file = upload[n].file
<1>1. Types /\ upload[n].card \in Cards /\ card[upload[n].card].file = upload[n].file
  BY DEF IInv, OfItsCard
<1>2. PICK outcome \in [kind : {"none", "error", "rows", "success"}, of : AnyFile] :
          Fail(n, outcome) /\ outcome.of = upload[n].file
  BY <1>1, UploadType DEF OutcomeOf
<1> DEFINE shows == [card[upload[n].card] EXCEPT !.uploading = FALSE, !.outcome = outcome]
<1>3. shows \in AnyCard /\ ~ shows.uploading /\ shows.outcome = outcome /\ shows.file = upload[n].file
  BY <1>1 DEF Types, AnyCard
<1>4. card' = [card EXCEPT ![upload[n].card] = shows] /\ history' = Execute(history) /\ banner' = banner
  BY <1>1, <1>2 DEF Fail, Types
<1> HIDE DEF shows
<1>5. QED
  BY <1>2, <1>3, <1>4

LEMMA SucceedEffect ==
  ASSUME IInv, NEW n \in Uploads, Awaited(n), Succeed(n)
  PROVE  /\ history' = Execute(history) /\ banner' = (banner \/ upload[n].inserted)
         /\ \E shows \in AnyCard : /\ card' = [card EXCEPT ![upload[n].card] = shows]
                                   /\ ~ shows.uploading /\ shows.outcome.of = upload[n].file
                                   /\ shows.file = NoFile
<1> DEFINE shows == [EmptyCard EXCEPT !.outcome = OutcomeOf(n)]
<1>1. upload[n].file \in AnyFile
  BY UploadType DEF IInv
<1>2. OutcomeOf(n) \in [kind : {"none", "error", "rows", "success"}, of : AnyFile] /\ OutcomeOf(n).of = upload[n].file
  BY <1>1 DEF OutcomeOf
<1>3. shows \in AnyCard /\ ~ shows.uploading /\ shows.outcome = OutcomeOf(n) /\ shows.file = NoFile
  BY <1>2 DEF EmptyCard, AnyCard, AnyFile
<1>4. card' = [card EXCEPT ![upload[n].card] = shows] /\ history' = Execute(history) /\ banner' = (banner \/ upload[n].inserted)
  BY DEF Succeed
<1> HIDE DEF shows
<1>5. QED
  BY <1>2, <1>3, <1>4

LEMMA AnswerStep ==
  ASSUME IInv, NEW n \in Uploads, Answer(n)
  PROVE  IInv'
<1> DEFINE new == [upload[n] EXCEPT !.pc = "answered"]
<1>1. Types /\ Settled(n) /\ Awaited(n) /\ upload[n].pc = "ended" /\ upload[n].here
  BY DEF IInv, Answer, Awaited
<1>2. /\ new \in Sendings /\ new.pc = "answered" /\ new.here /\ new.status = upload[n].status
      /\ new.number = upload[n].number /\ new.inserted = upload[n].inserted
      /\ new.inserted => upload[n].inserted
  BY <1>1 DEF Types, Sendings
<1>3. upload' = [upload EXCEPT ![n] = new] /\ UNCHANGED <<begun, shown>>
  BY <1>1 DEF Answer, Types
<1> HIDE DEF new
<1>4. banner \in BOOLEAN /\ upload[n].inserted \in BOOLEAN
  BY <1>1, UploadType DEF Types
<1>5. CASE upload[n].status = "COMPLETED"
  <2>1. Succeed(n)
    BY <1>5 DEF Answer
  <2>2. banner' \in BOOLEAN /\ (banner => banner') /\ (new.here /\ new.inserted => banner')
    BY <1>1, <1>2, <1>4, <2>1, SucceedEffect
  <2>3. PICK shows \in AnyCard : /\ card' = [card EXCEPT ![upload[n].card] = shows]
                                 /\ ~ shows.uploading /\ shows.outcome.of = upload[n].file
                                 /\ shows.file = NoFile
    BY <1>1, <2>1, SucceedEffect
  <2>4. history' = Execute(history)
    BY <2>1 DEF Succeed
  <2>5. QED
    BY <1>1, <1>2, <1>3, <2>2, <2>3, <2>4, EndStep
<1>6. CASE upload[n].status # "COMPLETED"
  <2>1. Fail(n, OutcomeOf(n)) /\ ~ upload[n].inserted
    BY <1>1, <1>6 DEF Answer, Settled
  <2>2. banner' \in BOOLEAN /\ (banner => banner') /\ ~ new.inserted
    BY <1>1, <1>2, <1>4, <2>1, FailEffect
  <2>3. PICK shows \in AnyCard : /\ card' = [card EXCEPT ![upload[n].card] = shows]
                                 /\ ~ shows.uploading /\ shows.outcome.of = upload[n].file
                                 /\ shows.file = upload[n].file
    BY <1>1, <2>1, FailEffect
  <2>4. history' = Execute(history)
    BY <2>1 DEF Fail
  <2>5. QED
    BY <1>1, <1>2, <1>3, <2>1, <2>2, <2>3, <2>4, EndStep
<1>7. QED
  BY <1>5, <1>6

LEMMA LoseStep ==
  ASSUME IInv, NEW n \in Uploads, Lose(n)
  PROVE  IInv'
<1> DEFINE new == [upload[n] EXCEPT !.here = FALSE]
<1>1. Types /\ Awaited(n)
  BY DEF IInv, Lose, Awaited
<1>2. /\ new \in Sendings /\ new.pc = upload[n].pc /\ ~ new.here /\ new.status = upload[n].status
      /\ new.number = upload[n].number /\ new.inserted = upload[n].inserted
  BY <1>1 DEF Types, Sendings
<1>3. upload' = [upload EXCEPT ![n] = new] /\ UNCHANGED <<begun, shown>>
  BY <1>1 DEF Lose, Types
<1> HIDE DEF new
<1>4. Fail(n, [kind |-> "error", of |-> upload[n].file])
  BY DEF Lose
<1>5. banner' \in BOOLEAN /\ (banner => banner')
  BY <1>1, <1>4, FailEffect DEF Types
<1>6. QED
  BY <1>1, <1>2, <1>3, <1>4, <1>5, FailEffect, EndStep

-----------------------------------------------------------------------------
(* Pages.                                                                   *)

LEMMA PageStep ==
  ASSUME IInv, Leave \/ Return
  PROVE  IInv'
<1>1. Types
  BY DEF IInv
<1>2. \A i \in Uploads : /\ ~ upload'[i].here /\ upload'[i].pc = upload[i].pc
                         /\ upload'[i].status = upload[i].status /\ upload'[i].inserted = upload[i].inserted
  BY <1>1 DEF IInv, Away, Leave, Return, Types, Sendings
<1>3. Types'
  <2>1. CASE Leave
    <3>1. upload' \in [Uploads -> Sendings]
      BY <1>1, <2>1 DEF Leave, Types, Sendings
    <3>2. card' \in [Cards -> AnyCard]
      BY <2>1 DEF Leave, AnyCard, EmptyCard, NoOutcome, AnyFile
    <3>3. history' \in Histories
      BY <2>1 DEF Leave, Histories, Fresh, Off, Reading
    <3>4. QED
      BY <1>1, <2>1, <3>1, <3>2, <3>3 DEF Leave, Types
  <2>2. CASE Return
    BY <1>1, <2>2 DEF Return, Types, Histories, Fresh, Reading
  <2>3. QED
    BY <2>1, <2>2
<1>4. OneEach' /\ Away'
  BY <1>2 DEF OneEach, Away, Awaited
<1>5. ASSUME NEW i \in Uploads PROVE (Settled(i) /\ OfItsCard(i) /\ Listed(i))'
  BY <1>2 DEF IInv, Settled, OfItsCard, Listed, Awaited
<1>6. \A c \in Cards : HasItsUpload(c)' /\ (card'[c] = card[c] \/ card'[c] = EmptyCard)
  <2>1. CASE Leave
    <3>1. \A c \in Cards : card'[c] = EmptyCard
      BY <2>1 DEF Leave
    <3>2. \A c \in Cards : ~ card'[c].uploading
      BY <3>1 DEF EmptyCard
    <3>3. QED
      BY <3>1, <3>2 DEF HasItsUpload
  <2>2. CASE Return
    <3>1. \A c \in Cards : ~ card[c].uploading
      BY <2>2 DEF IInv, Return, Away, HasItsUpload, Awaited
    <3>2. QED
      BY <2>2, <3>1 DEF Return, HasItsUpload
  <2>3. QED
    BY <2>1, <2>2
<1>7. OutcomeIsOfTheFile'
  BY <1>6 DEF IInv, OutcomeIsOfTheFile, EmptyCard
<1>8. QED
  BY <1>3, <1>4, <1>5, <1>6, <1>7 DEF IInv

-----------------------------------------------------------------------------
(* The theorems.                                                            *)

LEMMA StepIInv == IInv /\ [Next]_vars => IInv'
<1> SUFFICES ASSUME IInv, [Next]_vars PROVE IInv'
  OBVIOUS
<1>1. CASE UNCHANGED vars
  <2>1. UNCHANGED <<upload, begun, card, history, banner, shown>>
    BY <1>1 DEF vars
  <2>2. \A i \in Uploads : /\ Settled(i)' = Settled(i) /\ Awaited(i)' = Awaited(i) /\ Newer(i)' = Newer(i)
                           /\ OfItsCard(i)' = OfItsCard(i)
    BY <2>1 DEF Settled, Awaited, OfItsCard, Newer, Recorded
  <2>3. \A i \in Uploads : Listed(i)' = Listed(i)
    BY <2>1, <2>2 DEF Listed, InHistory, Recorded
  <2>4. Types' /\ OneEach' /\ Away' /\ OutcomeIsOfTheFile' /\ \A c \in Cards : HasItsUpload(c)'
    BY <2>1, <2>2 DEF IInv, Types, OneEach, Away, OutcomeIsOfTheFile, HasItsUpload
  <2>5. QED
    BY <2>2, <2>3, <2>4 DEF IInv
<1>2. CASE Network
  BY <1>2, HistorySteps, ServiceSteps, AnswerStep DEF Network
<1>3. CASE FailHistory \/ Retry
  BY <1>3, HistorySteps
<1>4. CASE UploadOfOthers \/ \E c \in Cards : Upload(c)
  BY <1>4, SendSteps
<1>5. CASE Leave \/ Return
  BY <1>5, PageStep
<1>6. CASE \E c \in Cards : Remove(c) \/ \E f \in Files \cup Refused : Choose(c, f)
  BY <1>6, CardSteps
<1>7. CASE \E i \in Uploads : Lose(i)
  BY <1>7, LoseStep
<1>8. QED
  BY <1>1, <1>2, <1>3, <1>4, <1>5, <1>6, <1>7 DEF Next

\* The page of the imports is well typed, an upload it waits for is of a card
\* that shows its file, and a card that says it is uploading has one upload.
THEOREM ImportsInvariant == Spec => []IInv
<1>1. SafeImports => []IInv
  BY InitIInv, StepIInv, PTL DEF SafeImports
<1>2. QED
  BY <1>1, SpecIsSafe, PTL

\* Every upload of the page that was answered is in the history at rest, or
\* newer ones fill it, and the banner is there if it inserted rows.
THEOREM AnsweredIsShownHolds == Spec => []AnsweredIsShown
<1>1. IInv => AnsweredIsShown
  <2> SUFFICES ASSUME IInv, NEW i \in Uploads, upload[i].here, upload[i].pc = "answered"
               PROVE  /\ upload[i].inserted => banner
                      /\ history.load = Off /\ ~ history.error /\ i \in Recorded =>
                            i \in history.data \/ Cardinality(Newer(i)) >= Limit
    BY DEF AnsweredIsShown
  <2>1. Listed(i)
    BY DEF IInv
  <2>2. QED
    BY <2>1 DEF Listed, InHistory, Off
<1>2. QED
  BY <1>1, ImportsInvariant, PTL

\* A card never shows the outcome of another file than the one it has.
THEOREM OutcomeIsOfTheFileHolds == Spec => []OutcomeIsOfTheFile
<1>1. IInv => OutcomeIsOfTheFile
  BY DEF IInv
<1>2. QED
  BY <1>1, ImportsInvariant, PTL
=============================================================================
