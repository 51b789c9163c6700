------------------------------- MODULE TeLoad -------------------------------
(***************************************************************************)
(* Loads into one T&E table (te_loader.py, upload_te).  A load checks its  *)
(* rows against the columns' types, inserts the survivors in chunks under  *)
(* a savepoint, and goes through a chunk row by row, each under a          *)
(* savepoint of its own, when the database refuses any of its rows.  Loads *)
(* of several files may run at once, each in its own transaction.          *)
(*                                                                         *)
(* The table has one UNIQUE key.  A tuple whose key an open transaction    *)
(* holds waits for that transaction or savepoint to end; a deadlock makes  *)
(* PostgreSQL fail one of the waiting statements.                          *)
(***************************************************************************)
EXTENDS Naturals, Sequences, FiniteSets

CONSTANTS
    Loads,      \* the uploads with mode 'te', each served once
    Keys,       \* values of the table's unique key
    Files,      \* what they may upload
    ChunkSize,  \* chunk_size, 500 in the code
    MaxRows,    \* settings.MAX_ROWS
    MaxErrors,  \* settings.MAX_ROW_ERRORS_REPORTED
    None        \* no key, no load

\* A row has cells beyond the header, or a cell its column's type refuses, or
\* one only the database refuses (an enum, a foreign key), or is in order.
RowKinds == {"wide", "mistyped", "refused", "fine"}
Row == [kind : RowKinds, key : Keys \cup {None}]

\* A file: whether its columns all exist on the table, and its data rows.
File == [known : BOOLEAN, rows : Seq(Row)]

ASSUME ConstantsAssumption ==
    /\ Files \subseteq File
    /\ ChunkSize \in Nat \ {0}
    /\ MaxRows \in Nat
    /\ MaxErrors \in Nat
    /\ None \notin Keys \cup Loads

VARIABLES
    table,   \* committed rows: their key, the load they came with, their number
    file,    \* the file of each load
    pc,      \* where each load is
    load,    \* upload_te's locals
    answer   \* what the client was told

vars == <<table, file, pc, load, answer>>

Tuple == [key : Keys \cup {None}, from : Loads \cup {None}, row : Nat]

\* survivors: to_insert, as numbers of rows; start, at: positions in it, of
\* the chunk and of the next tuple; mine: positions inserted and kept;
\* checked: rows validated; inserted, failed, errors: the counts answered.
Locals == [survivors : Seq(Nat), start : Nat, at : Nat, mine : SUBSET Nat,
           checked : Nat, inserted : Nat, failed : Nat, errors : Nat]

NoLocals == [survivors |-> <<>>, start |-> 1, at |-> 1, mine |-> {}, checked |-> 0,
             inserted |-> 0, failed |-> 0, errors |-> 0]

Steps == {"idle", "validate", "chunk", "row", "register", "commit", "done"}
Answers == {"none", "ok", "error", "invalid_structure", "failed"}

TypeOK ==
    /\ table \in SUBSET Tuple
    /\ file \in [Loads -> Files]
    /\ pc \in [Loads -> Steps]
    /\ load \in [Loads -> Locals]
    /\ answer \in [Loads -> Answers]

-----------------------------------------------------------------------------
(* What a load holds, and whom it waits for. *)

RowsOf(l) == file[l].rows
RowAt(l, p) == RowsOf(l)[load[l].survivors[p]]

\* Positions whose tuples the load's open savepoint holds besides mine.
Pending(l) == IF pc[l] = "chunk" THEN load[l].start .. load[l].at - 1 ELSE {}
Held(l) == load[l].mine \cup Pending(l)
HeldKeys(l) == {RowAt(l, p).key : p \in Held(l)} \ {None}

Committed == {t.key : t \in table}

Left(l) == Len(load[l].survivors)
ChunkEnd(l) ==
    IF load[l].start + ChunkSize - 1 <= Left(l) THEN load[l].start + ChunkSize - 1 ELSE Left(l)

Inserting(l) == pc[l] \in {"chunk", "row"} /\ load[l].at <= ChunkEnd(l)
Current(l) == RowAt(l, load[l].at)

\* The database refuses the tuple for good.
Refused(l) ==
    \/ Current(l).kind = "refused"
    \/ Current(l).key # None /\ Current(l).key \in Committed \cup HeldKeys(l)

\* The open loads that hold the tuple's key.
WaitsFor(l) ==
    IF Inserting(l) /\ ~Refused(l)
    THEN {q \in Loads \ {l} : Current(l).key \in HeldKeys(q)} ELSE {}

Deadlocked(l) ==
    \E D \in SUBSET Loads : l \in D /\ \A q \in D : WaitsFor(q) \cap D # {}

-----------------------------------------------------------------------------
(* Control of one load. *)

Set(l, locals, step) ==
    /\ load' = [load EXCEPT ![l] = locals]
    /\ pc' = [pc EXCEPT ![l] = step]
    /\ UNCHANGED <<table, file, answer>>

\* The transaction, if there is one, is rolled back and the client answered.
GiveUp(l, told) ==
    /\ pc' = [pc EXCEPT ![l] = "done"]
    /\ load' = [load EXCEPT ![l].mine = {}]
    /\ answer' = [answer EXCEPT ![l] = told]
    /\ UNCHANGED <<table, file>>

\* _err: the count is true, the list is capped.
Fail(locals) ==
    [locals EXCEPT !.failed = @ + 1,
                   !.errors = IF @ < MaxErrors THEN @ + 1 ELSE @]

RefuseFile(l) ==
    /\ pc[l] = "idle"
    /\ \/ RowsOf(l) = <<>> /\ GiveUp(l, "invalid_structure")
       \/ RowsOf(l) # <<>> /\ Len(RowsOf(l)) > MaxRows /\ GiveUp(l, "error")
       \/ RowsOf(l) # <<>> /\ ~file[l].known /\ GiveUp(l, "error")

Begin(l) ==
    /\ pc[l] = "idle"
    /\ Len(RowsOf(l)) \in 1 .. MaxRows
    /\ file[l].known
    /\ Set(l, NoLocals, "validate")

\* A row that is too wide or mistyped never reaches the database.
ValidateRow(l) ==
    /\ pc[l] = "validate"
    /\ load[l].checked < Len(RowsOf(l))
    /\ LET n == load[l].checked + 1
           seen == [load[l] EXCEPT !.checked = n]
       IN  Set(l, IF RowsOf(l)[n].kind \in {"wide", "mistyped"} THEN Fail(seen)
                  ELSE [seen EXCEPT !.survivors = Append(@, n)],
               "validate")

\* The loop over chunks goes on at position p, or ends.
NextChunk(l, locals) ==
    Set(l, [locals EXCEPT !.start = locals.at],
        IF locals.at <= Len(locals.survivors) THEN "chunk" ELSE "register")

EndValidation(l) ==
    /\ pc[l] = "validate"
    /\ load[l].checked = Len(RowsOf(l))
    /\ NextChunk(l, load[l])

-----------------------------------------------------------------------------
(* Insertion: the tuples of a chunk, or the rows of a refused one. *)

InsertTuple(l) ==
    /\ Inserting(l)
    /\ ~Refused(l)
    /\ WaitsFor(l) = {}
    /\ Set(l, IF pc[l] = "chunk" THEN [load[l] EXCEPT !.at = @ + 1]
              ELSE [load[l] EXCEPT !.mine = @ \cup {load[l].at}, !.at = @ + 1,
                                   !.inserted = @ + 1],
           pc[l])

\* Mutant: the rest of a chunk is given up with the row that was refused.
RollbackToSavepointSkipsChunk(l) ==
    IF pc[l] = "chunk" THEN Set(l, [Fail(load[l]) EXCEPT !.at = ChunkEnd(l) + 1], "row")
    ELSE Set(l, [Fail(load[l]) EXCEPT !.at = @ + 1], "row")

\* Mutant: a refused chunk is tried again as it is.
RollbackToSavepointRetriesChunk(l) ==
    IF pc[l] = "chunk" THEN Set(l, [load[l] EXCEPT !.at = load[l].start], "chunk")
    ELSE Set(l, [Fail(load[l]) EXCEPT !.at = @ + 1], "row")

\* The chunk's tuples are undone and its rows tried one by one; a row's own
\* failure is counted and passed over.
RollbackToSavepoint(l) ==
    IF pc[l] = "chunk" THEN Set(l, [load[l] EXCEPT !.at = load[l].start], "row")
    ELSE Set(l, [Fail(load[l]) EXCEPT !.at = @ + 1], "row")

TupleRefused(l) ==
    /\ Inserting(l)
    /\ Refused(l)
    /\ RollbackToSavepoint(l)

\* Any error of the statement is caught, that of a deadlock's victim too.
DeadlockVictim(l) ==
    /\ WaitsFor(l) # {}
    /\ Deadlocked(l)
    /\ RollbackToSavepoint(l)

\* Mutant: inserted counts the chunk once more after its rows were tried.
EndChunkCountsAgain(l) ==
    /\ pc[l] \in {"chunk", "row"}
    /\ load[l].at > ChunkEnd(l)
    /\ NextChunk(l, [load[l] EXCEPT !.mine = @ \cup Pending(l),
                                    !.inserted = @ + (load[l].at - load[l].start)])

\* RELEASE SAVEPOINT chunk_sp: the whole chunk counts as inserted.
EndChunk(l) ==
    /\ pc[l] \in {"chunk", "row"}
    /\ load[l].at > ChunkEnd(l)
    /\ NextChunk(l, IF pc[l] = "row" THEN load[l]
                    ELSE [load[l] EXCEPT !.mine = @ \cup Pending(l),
                                         !.inserted = @ + (load[l].at - load[l].start)])

-----------------------------------------------------------------------------
(* The end of a load. *)

\* Cleanup of prior entries and INSERT INTO csv_files (UploadRegistry).
Register(l) ==
    /\ pc[l] = "register"
    /\ Set(l, load[l], "commit")

\* A concurrent load of the same file registered first: everything is undone.
LoseRace(l) ==
    /\ pc[l] = "register"
    /\ GiveUp(l, "error")

TuplesOf(l) ==
    {[key |-> RowAt(l, p).key, from |-> l, row |-> load[l].survivors[p]] : p \in load[l].mine}

Commit(l) ==
    /\ pc[l] = "commit"
    /\ table' = table \cup TuplesOf(l)
    /\ pc' = [pc EXCEPT ![l] = "done"]
    /\ answer' = [answer EXCEPT ![l] = "ok"]
    /\ UNCHANGED <<file, load>>

\* The connection breaks: not even ROLLBACK TO SAVEPOINT works, the request
\* fails and the server rolls the transaction back.
LoseConnection(l) ==
    /\ pc[l] \in {"validate", "chunk", "row", "register", "commit"}
    /\ GiveUp(l, "failed")

-----------------------------------------------------------------------------
Init ==
    /\ file \in [Loads -> Files]
    /\ \E K \in SUBSET Keys : table = [key : K, from : {None}, row : {0}]
    /\ pc = [l \in Loads |-> "idle"]
    /\ load = [l \in Loads |-> NoLocals]
    /\ answer = [l \in Loads |-> "none"]

Step(l) ==
    \/ RefuseFile(l) \/ Begin(l) \/ ValidateRow(l) \/ EndValidation(l)
    \/ InsertTuple(l) \/ TupleRefused(l) \/ DeadlockVictim(l) \/ EndChunk(l)
    \/ Register(l) \/ LoseRace(l) \/ Commit(l)

Next == \E l \in Loads : Step(l) \/ LoseConnection(l)

Fairness == \A l \in Loads : WF_vars(Step(l))

Spec == Init /\ [][Next]_vars /\ Fairness

-----------------------------------------------------------------------------
(* What a load promises. *)

\* The counts the client is given add up to the rows of the file, the reported
\* errors are as many as failed up to the cap, and exactly the rows counted as
\* inserted are in the table: through chunks, fallbacks, deadlocks and lost
\* races (te_loader 211-301, #39).
CountsTrue ==
    \A l \in Loads :
        LET landed == {t \in table : t.from = l}
        IN  IF answer[l] # "ok" THEN landed = {}
            ELSE /\ load[l].inserted = Cardinality(landed)
                 /\ load[l].inserted + load[l].failed = Len(RowsOf(l))
                 /\ load[l].errors = IF load[l].failed < MaxErrors
                                     THEN load[l].failed ELSE MaxErrors

\* Of the rows in order that share a key, a load that succeeds keeps the first,
\* unless another load has the key too or it was there: no bad row takes a good
\* one down with its chunk, and the result is the one of inserting row by row
\* (te_loader 258-292).
FirstOfKeyWins ==
    \A l \in Loads :
        answer[l] = "ok" =>
            \A n \in DOMAIN RowsOf(l) :
                LET r == RowsOf(l)[n]
                    alone == \A t \in table : t.key = r.key => t.from = l
                    disputed == \E q \in Loads \ {l} : \E m \in DOMAIN RowsOf(q) :
                                    RowsOf(q)[m].key = r.key
                    first == \A m \in 1 .. n - 1 : RowsOf(l)[m] # r
                    kept == [key |-> r.key, from |-> l, row |-> n] \in table
                IN  /\ kept => r.kind = "fine" /\ (r.key = None \/ first \/ disputed)
                    /\ r.kind = "fine" /\ (r.key = None \/ (first /\ alone /\ ~disputed)) => kept

\* Every load is answered: loads that wait for each other do not wait for
\* ever, and falling back to rows ends.
EveryLoadAnswered == \A l \in Loads : <>(answer[l] # "none")
=============================================================================
