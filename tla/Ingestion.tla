------------------------------ MODULE Ingestion ------------------------------
(***************************************************************************)
(* The import of CSV files: each upload is parsed and then saved in one     *)
(* transaction of Postgres (read committed) that creates the batch, finds,  *)
(* restores or creates the meter of every code, inserts the rows that are   *)
(* not stored yet and completes the batch.  Several imports run at once,    *)
(* beside operators who delete and create meters; the unique indexes make   *)
(* them wait for each other, and a cycle of waits is broken by the database.*)
(***************************************************************************)
EXTENDS Naturals, FiniteSets, Sequences, FiniteSetsExt

CONSTANTS
    Codes,       \* meter codes
    Times,       \* timestamps of readings
    Files,       \* files to upload: sequences of rows, a code and a time each
    MaxImports,  \* bound: uploads
    MaxMeters,   \* bound: rows of the meter table
    MaxDeletes,  \* bound: meters deleted by operators
    MaxPosts,    \* bound: meters created by operators
    MaxFaults    \* bound: failed calls and lost answers

ASSUME ImportBounds == {MaxImports, MaxMeters, MaxDeletes, MaxPosts, MaxFaults} \subseteq Nat
ASSUME ImportFiles == Files \subseteq Seq(Codes \X (Times \cup {"invalid"}))

VARIABLES
    meter,      \* the meter table, with the open transaction that holds a row
    reading,    \* the reading table; rows of an open transaction included
    batch,      \* the import_batch table, by upload
    import,     \* each upload, from its arrival to its answer
    deletes, posts, faults,
    disturbed   \* TRUE once a meter was deleted while an import was at work

vars == <<meter, reading, batch, import, deletes, posts, faults, disturbed>>

Imports == 1..MaxImports
Meters == 1..MaxMeters
NoImport == 0
NoMeter == 0
NoCode == "none"
ASSUME NoCodeIsNoCode == NoCode \notin Codes

NoRow == [code |-> NoCode, state |-> "none", deletion |-> 0, tx |-> NoImport, by |-> NoImport]
NoBatch == [status |-> "none", rows |-> 0, inserted |-> 0, created |-> 0, restored |-> 0]
NoUpload == [pc |-> "idle", file |-> <<>>, ids |-> [c \in Codes |-> NoMeter], target |-> NoMeter,
             row |-> 1, inserted |-> 0, created |-> 0, restored |-> 0]

Init ==
    /\ meter = [m \in Meters |-> NoRow]
    /\ reading = {}
    /\ batch = [i \in Imports |-> NoBatch]
    /\ import = [i \in Imports |-> NoUpload]
    /\ deletes = 0 /\ posts = 0 /\ faults = 0
    /\ disturbed = FALSE

InTransaction == {"find", "restore", "locked", "create", "insert"}
Open(i) == import[i].pc \in InTransaction
Answers == {"ok", "error", "unknown", "rejected"}

Fault == faults < MaxFaults /\ faults' = faults + 1

Move(i, pc) == import' = [import EXCEPT ![i].pc = pc]

-----------------------------------------------------------------------------
(* The meter table.                                                         *)

ActiveMeters(c) == {m \in Meters : meter[m].code = c /\ meter[m].state = "active"}
DeletedMeters(c) == {m \in Meters : meter[m].code = c /\ meter[m].state = "deleted"}
FreeRows == {m \in Meters : meter[m] = NoRow}

\* Entries of the index on active codes that an open transaction of another
\* import has made.
PendingEntries(c, i) ==
    {m \in Meters : /\ meter[m].code = c
                    /\ meter[m].state # "active"
                    /\ meter[m].tx \notin {NoImport, i}}

\* SoftDeleteMeter waits for a row that a transaction holds.
Delete(m) ==
    /\ deletes < MaxDeletes
    /\ meter[m].state = "active" /\ meter[m].tx = NoImport
    /\ deletes' = deletes + 1
    /\ meter' = [meter EXCEPT ![m].state = "deleted", ![m].deletion = deletes + 1]
    /\ disturbed' = (disturbed \/ \E i \in Imports : Open(i))
    /\ UNCHANGED <<reading, batch, import, posts, faults>>

\* POST /meters: a code that is active is refused, and nothing is restored.
Post(c) ==
    /\ posts < MaxPosts
    /\ ActiveMeters(c) = {} /\ PendingEntries(c, NoImport) = {} /\ FreeRows # {}
    /\ posts' = posts + 1
    /\ meter' = [meter EXCEPT ![Min(FreeRows)] = [NoRow EXCEPT !.code = c, !.state = "active"]]
    /\ UNCHANGED <<reading, batch, import, deletes, faults, disturbed>>

-----------------------------------------------------------------------------
(* The upload.                                                              *)

Valid(file) == file # <<>> /\ \A k \in 1..Len(file) : file[k][2] # "invalid"

Upload(i, file) ==
    /\ import[i].pc = "idle" /\ (i > 1 => import[i - 1].pc # "idle")
    /\ import' = [import EXCEPT ![i].pc = "parse", ![i].file = file]
    /\ UNCHANGED <<meter, reading, batch, deletes, posts, faults, disturbed>>

\* A file with invalid rows, or without any, is recorded as a failed batch;
\* when that cannot be recorded it is only logged.  A valid file opens a
\* transaction with its batch.
Parse(i) ==
    /\ import[i].pc = "parse"
    /\ \/ Valid(import[i].file) /\ Move(i, "find") /\ UNCHANGED <<batch, faults>>
       \/ /\ ~ Valid(import[i].file)
          /\ Move(i, "rejected")
          /\ \/ batch' = [batch EXCEPT ![i].status = "FAILED"] /\ UNCHANGED faults
             \/ Fault /\ UNCHANGED batch
    /\ UNCHANGED <<meter, reading, deletes, posts, disturbed>>

\* Mutant: the rows stay when the transaction ends.
RollbackKeepsReadings(i) ==
    /\ meter' = [m \in Meters |->
                    IF meter[m].tx # i THEN meter[m]
                    ELSE IF meter[m].state = "none" THEN NoRow
                    ELSE [meter[m] EXCEPT !.tx = NoImport]]
    /\ UNCHANGED reading

\* The end of the transaction without a commit.
Rollback(i) ==
    /\ meter' = [m \in Meters |->
                    IF meter[m].tx # i THEN meter[m]
                    ELSE IF meter[m].state = "none" THEN NoRow
                    ELSE [meter[m] EXCEPT !.tx = NoImport]]
    /\ reading' = {r \in reading : r.by # i}

\* Mutant: no deferred rollback, the transaction stays open.
AbortWithoutRollback(i) ==
    /\ Move(i, "error")
    /\ UNCHANGED <<meter, reading>>

Abort(i) == Rollback(i) /\ Move(i, "error")

\* A statement fails, or the client goes away and its context ends.
Refuse(i) ==
    /\ Open(i)
    /\ Fault
    /\ Abort(i)
    /\ UNCHANGED <<batch, deletes, posts, disturbed>>

-----------------------------------------------------------------------------
(* ensureMeters: the codes of the file in order of appearance.              *)

UnseenRows(i) ==
    {k \in 1..Len(import[i].file) : import[i].ids[import[i].file[k][1]] = NoMeter}
Code(i) == import[i].file[Min(UnseenRows(i))][1]
LastCode(i) == \A k \in UnseenRows(i) : import[i].file[k][1] = Code(i)

\* The meter of the current code is known; created and restored count it.
Resolve(i, m, created, restored) ==
    import' = [import EXCEPT ![i].ids[Code(i)] = m,
                             ![i].pc = IF LastCode(i) THEN "insert" ELSE "find",
                             ![i].created = @ + created,
                             ![i].restored = @ + restored]

\* GetMeterByCode.
Find(i) ==
    /\ import[i].pc = "find"
    /\ \/ \E m \in ActiveMeters(Code(i)) : Resolve(i, m, 0, 0)
       \/ ActiveMeters(Code(i)) = {} /\ Move(i, "restore")
    /\ UNCHANGED <<meter, reading, batch, deletes, posts, faults, disturbed>>

\* Mutant: deleted meters are not looked for.
RestoreNothing(i) ==
    /\ import[i].pc = "restore"
    /\ Move(i, "create")
    /\ UNCHANGED <<meter, reading, batch, deletes, posts, faults, disturbed>>

\* RestoreMeterByCode picks the meter deleted last.
Restore(i) ==
    /\ import[i].pc = "restore"
    /\ \/ DeletedMeters(Code(i)) = {} /\ Move(i, "create")
       \/ \E m \in DeletedMeters(Code(i)) :
             /\ \A n \in DeletedMeters(Code(i)) : meter[n].deletion <= meter[m].deletion
             /\ import' = [import EXCEPT ![i].pc = "locked", ![i].target = m]
    /\ UNCHANGED <<meter, reading, batch, deletes, posts, faults, disturbed>>

\* It waits for the row and for the index; the row may have been restored by
\* another import by then, and is restored again.  Another active meter with
\* the code is a violation of the index.
RestoreLocked(i) ==
    /\ import[i].pc = "locked"
    /\ meter[import[i].target].tx = NoImport
    /\ PendingEntries(Code(i), i) = {}
    /\ \/ /\ ActiveMeters(Code(i)) \subseteq {import[i].target}
          /\ meter' = [meter EXCEPT ![import[i].target].tx = i]
          /\ Resolve(i, import[i].target, 0, 1)
          /\ UNCHANGED reading
       \/ ~ ActiveMeters(Code(i)) \subseteq {import[i].target} /\ Abort(i)
    /\ UNCHANGED <<batch, deletes, posts, faults, disturbed>>

\* CreateMeter waits for the index, and fails if the code is active by then.
Create(i) ==
    /\ import[i].pc = "create"
    /\ PendingEntries(Code(i), i) = {}
    /\ \/ /\ ActiveMeters(Code(i)) = {} /\ FreeRows # {}
          /\ meter' = [meter EXCEPT ![Min(FreeRows)] =
                          [NoRow EXCEPT !.code = Code(i), !.tx = i, !.by = i]]
          /\ Resolve(i, Min(FreeRows), 1, 0)
          /\ UNCHANGED reading
       \/ ActiveMeters(Code(i)) # {} /\ Abort(i)
    /\ UNCHANGED <<batch, deletes, posts, faults, disturbed>>

-----------------------------------------------------------------------------
(* The rows, and the end of the transaction.                                *)

Row(i) == import[i].file[import[i].row]

\* The stored row the next row of the file conflicts with.
Conflict(i) ==
    {r \in reading : r.meter = import[i].ids[Row(i)[1]] /\ r.time = Row(i)[2]}

Inserting(i) == import[i].pc = "insert" /\ import[i].row <= Len(import[i].file)

\* Mutants: skipped rows are counted as inserted; a row of an open
\* transaction is taken for stored.
InsertRowCountsAll(i) ==
    /\ Inserting(i)
    /\ \A r \in Conflict(i) : r.by = i \/ ~ Open(r.by)
    /\ reading' = IF Conflict(i) # {} THEN reading
                  ELSE reading \cup {[meter |-> import[i].ids[Row(i)[1]], time |-> Row(i)[2], by |-> i]}
    /\ import' = [import EXCEPT ![i].row = @ + 1, ![i].inserted = @ + 1]
    /\ UNCHANGED <<meter, batch, deletes, posts, faults, disturbed>>
InsertRowWithoutWaiting(i) ==
    /\ Inserting(i)
    /\ \/ /\ Conflict(i) # {}
          /\ import' = [import EXCEPT ![i].row = @ + 1]
          /\ UNCHANGED reading
       \/ /\ Conflict(i) = {}
          /\ reading' = reading \cup
                {[meter |-> import[i].ids[Row(i)[1]], time |-> Row(i)[2], by |-> i]}
          /\ import' = [import EXCEPT ![i].row = @ + 1, ![i].inserted = @ + 1]
    /\ UNCHANGED <<meter, batch, deletes, posts, faults, disturbed>>

\* InsertReadings, ON CONFLICT DO NOTHING: a row that is stored, in this file
\* or before, is skipped; a row of an open transaction is waited for.
InsertRow(i) ==
    /\ Inserting(i)
    /\ \/ /\ \E r \in Conflict(i) : r.by = i \/ ~ Open(r.by)
          /\ import' = [import EXCEPT ![i].row = @ + 1]
          /\ UNCHANGED reading
       \/ /\ Conflict(i) = {}
          /\ reading' = reading \cup
                {[meter |-> import[i].ids[Row(i)[1]], time |-> Row(i)[2], by |-> i]}
          /\ import' = [import EXCEPT ![i].row = @ + 1, ![i].inserted = @ + 1]
    /\ UNCHANGED <<meter, batch, deletes, posts, faults, disturbed>>

\* CompleteImportBatch and the commit, whose answer can be lost.
Commit(i) ==
    /\ import[i].pc = "insert" /\ ~ Inserting(i)
    /\ meter' = [m \in Meters |->
                    IF meter[m].tx # i THEN meter[m]
                    ELSE [meter[m] EXCEPT !.state = "active", !.tx = NoImport]]
    /\ batch' = [batch EXCEPT ![i] =
                    [status |-> "COMPLETED", rows |-> Len(import[i].file), inserted |-> import[i].inserted,
                     created |-> import[i].created, restored |-> import[i].restored]]
    /\ \/ Move(i, "ok") /\ UNCHANGED faults
       \/ Move(i, "unknown") /\ Fault
    /\ UNCHANGED <<reading, deletes, posts, disturbed>>

-----------------------------------------------------------------------------
(* Waits.                                                                   *)

\* The transactions i waits for.
WaitsFor(i) ==
    {j \in Imports \ {i} : Open(j) /\
        \/ /\ import[i].pc = "locked"
           /\ meter[import[i].target].tx = j \/ \E m \in PendingEntries(Code(i), i) : meter[m].tx = j
        \/ import[i].pc = "create" /\ \E m \in PendingEntries(Code(i), i) : meter[m].tx = j
        \/ Inserting(i) /\ \E r \in Conflict(i) : r.by = j}

\* The database ends one transaction of a cycle of waits.
Deadlock(i) ==
    /\ \E S \in SUBSET Imports :
          i \in S /\ \A j \in S : WaitsFor(j) \cap S # {} /\ \E k \in S : j \in WaitsFor(k)
    /\ Abort(i)
    /\ UNCHANGED <<batch, deletes, posts, faults, disturbed>>

-----------------------------------------------------------------------------
ImportStep(i) ==
    \/ Parse(i) \/ Find(i) \/ Restore(i) \/ RestoreLocked(i) \/ Create(i)
    \/ InsertRow(i) \/ Commit(i) \/ Deadlock(i)

Next ==
    \/ \E i \in Imports : ImportStep(i) \/ Refuse(i) \/ \E file \in Files : Upload(i, file)
    \/ \E m \in Meters : Delete(m)
    \/ \E c \in Codes : Post(c)

\* A statement that can run runs.
Fairness == \A i \in Imports : WF_vars(ImportStep(i))

Spec == Init /\ [][Next]_vars /\ Fairness

-----------------------------------------------------------------------------
(* Properties.                                                              *)

\* The type of every variable; only an open transaction holds rows.
TypeOK ==
    /\ meter \in [Meters -> [code : Codes \cup {NoCode}, state : {"none", "active", "deleted"},
                             deletion : 0..MaxDeletes, tx : Imports \cup {NoImport},
                             by : Imports \cup {NoImport}]]
    /\ \A m \in Meters : meter[m].tx # NoImport => Open(meter[m].tx)
    /\ reading \subseteq [meter : Meters, time : Times, by : Imports]
    /\ \A i \in Imports :
          /\ import[i].pc \in {"idle", "parse"} \cup InTransaction \cup Answers
          /\ import[i].ids \in [Codes -> Meters \cup {NoMeter}]
          /\ batch[i].status \in {"none", "COMPLETED", "FAILED"}
    /\ disturbed \in BOOLEAN

\* The counts of the history are the rows and meters the import really added,
\* whatever the imports beside it added, skipped or rolled back.
BatchCountsAreTrue ==
    \A i \in Imports : batch[i].status = "COMPLETED" =>
        /\ batch[i].inserted = Cardinality({r \in reading : r.by = i})
        /\ batch[i].created = Cardinality({m \in Meters : meter[m].by = i})

\* Once an import is answered with success every row of its file is stored,
\* by it or by an import that committed, under a meter with the row's code.
SuccessMeansStored ==
    \A i \in Imports : import[i].pc = "ok" =>
        \A k \in 1..Len(import[i].file) : \E r \in reading :
            /\ meter[r.meter].code = import[i].file[k][1] /\ r.time = import[i].file[k][2]
            /\ ~ Open(r.by)

\* An import that is refused or ends in an error leaves nothing behind: no
\* row, no meter and no completed batch.
ErrorLeavesNothing ==
    \A i \in Imports : import[i].pc \in {"error", "rejected"} =>
        /\ batch[i].status # "COMPLETED"
        /\ \A r \in reading : r.by # i
        /\ \A m \in Meters : meter[m].by # i /\ meter[m].tx # i

\* The history of a code stays in one meter: an import creates a meter only
\* for a code that no meter has ever had, whatever other imports restore and
\* create, as long as no meter is deleted while an import is at work.
HistoryInOneMeter ==
    [][\A m \in Meters :
        (meter[m] = NoRow /\ meter'[m].by # NoImport /\ ~ disturbed)
            => \A n \in Meters : meter[n].code # meter'[m].code]_vars

\* Every upload is answered: imports that wait for each other do not wait for
\* ever.
EveryUploadEnds == \A i \in Imports : import[i].pc # "idle" ~> import[i].pc \in Answers

=============================================================================
