--------------------------- MODULE UploadRegistry ---------------------------
(***************************************************************************)
(* The registry of uploaded files (csv_files) and the tables it names      *)
(* (csv_<hash>), as the API's requests change them: dynamic uploads        *)
(* (dynamic_loader.py), loads into a T&E table (te_loader.py), deletions   *)
(* and reads of a table's rows (csv_routes.py).                            *)
(*                                                                         *)
(* Each request runs one PostgreSQL transaction at READ COMMITTED; one     *)
(* action is one statement.  A statement sees what was committed when it   *)
(* starts, less what its own transaction removed; it waits for the table   *)
(* lock, row lock or unique-index entry another transaction holds, and is  *)
(* evaluated again when that transaction ends.  A table is named by its    *)
(* content's hash, so the hash stands for the table's name.                *)
(***************************************************************************)
EXTENDS Naturals, FiniteSets

CONSTANTS
    Requests,          \* the requests, each served once
    Names,             \* file names
    Hashes,            \* content hashes
    Kinds,             \* the kinds of request that arrive
    Overwrites,        \* the values a client gives the overwrite flag
    AllowDestructive,  \* settings.allow_destructive
    MaxLoaded,         \* how many files may be registered at the start
    None               \* no file, no name, no hash

AllKinds == {"dynamic", "te", "delete", "rows"}
Modes == {"dynamic", "te"}

ASSUME ConstantsAssumption ==
    /\ Kinds \subseteq AllKinds
    /\ Overwrites \subseteq BOOLEAN
    /\ AllowDestructive \in BOOLEAN
    /\ MaxLoaded \in Nat
    /\ None \notin Names \cup Hashes

\* A row of csv_files.  counted: row_count is the number of rows its content
\* put into the table, rather than 0.
File == [id : Nat, name : Names, hash : Hashes, mode : Modes, counted : BOOLEAN]

ASSUME NoneAssumption == None \notin File

\* An upload has a name and content, a read a table; a deletion names a row.
Request ==
    [kind : Modes, name : Names, hash : Hashes, overwrite : BOOLEAN]
        \cup [kind : {"delete", "rows"}, name : {None}, hash : Hashes \cup {None},
              overwrite : {FALSE}]

NoRequest == [kind |-> "rows", name |-> None, hash |-> None, overwrite |-> FALSE]

\* What a transaction still has to do (tables to drop, the rows its DELETE
\* names, the statement after that DELETE) and what it has done (tables
\* dropped, rows deleted, whether it created the table of its own hash, the
\* row it inserted).
Txn == [toDrop : SUBSET Hashes, victims : SUBSET Nat,
        next : {"content", "create", "register", "commit"},
        dropped : SUBSET Hashes, deleted : SUBSET Nat, created : BOOLEAN,
        entry : File \cup {None}]

EmptyTxn == [toDrop |-> {}, victims |-> {}, next |-> "commit", dropped |-> {},
             deleted |-> {}, created |-> FALSE, entry |-> None]

VARIABLES
    files,   \* committed rows of csv_files
    tables,  \* hashes whose table csv_<hash> is committed
    nextId,  \* the id sequence of csv_files, which no rollback turns back
    pc,      \* the statement each request is at
    req,     \* the request's parameters
    txn,     \* its open transaction
    answer   \* what the client was told

vars == <<files, tables, nextId, pc, req, txn, answer>>

Steps == {"idle", "name", "content", "scan", "find", "lookup", "drop", "rescan",
          "delete", "create", "creating", "load", "register",
          "commit", "read", "done"}
Answers == {"none", "ok", "duplicate", "error", "failed", "notfound", "forbidden"}

TypeOK ==
    /\ files \in SUBSET File
    /\ tables \in SUBSET Hashes
    /\ nextId \in Nat
    /\ pc \in [Requests -> Steps]
    /\ req \in [Requests -> Request]
    /\ txn \in [Requests -> Txn]
    /\ answer \in [Requests -> Answers]

-----------------------------------------------------------------------------
(* What a statement sees, and whom it waits for. *)

Ids(F) == {f.id : f \in F}

\* The tables this application made for the files of F; a T&E row names a
\* shared T&E table, which is never dropped.
DynamicTables(F) == {f.hash : f \in {g \in F : g.mode = "dynamic"}}

\* The registry as request r's next statement sees it.
Visible(r) == {f \in files : f.id \notin txn[r].deleted}

SameFile(r) == {f \in files : f.name = req[r].name \/ f.hash = req[r].hash}

\* The table named by h exists for r's next statement.
Exists(r, h) == h \in tables /\ h \notin txn[r].dropped

\* r's rows are in its table, which it keeps from being dropped until it ends.
HasLoaded(r) == req[r].kind = "dynamic" /\ pc[r] \in {"register", "commit"}

Others(r) == Requests \ {r}

\* Transactions that dropped the table named by h: nobody else may touch it.
Droppers(r, h) == {q \in Others(r) : h \in txn[q].dropped}

\* Mutant: a DROP TABLE that rows being loaded do not hold up.
HoldersLoadUnlocked(r, h) == IF Exists(r, h) THEN Droppers(r, h) ELSE {}

\* Droppers, and the loaders of its rows: whom a DROP TABLE of it waits for.
Holders(r, h) ==
    IF Exists(r, h)
    THEN Droppers(r, h) \cup {q \in Others(r) : HasLoaded(q) /\ req[q].hash = h}
    ELSE {}

Creators(r) == {q \in Others(r) : txn[q].created /\ req[q].hash = req[r].hash}

\* Transactions that already deleted a row r's DELETE names.
Deleters(r) == {q \in Others(r) : txn[q].deleted \cap txn[r].victims \cap Ids(files) # {}}

\* Transactions whose uncommitted insert or delete decides whether r's row is
\* unique by name and by hash.
Rivals(r) ==
    {q \in Others(r) :
        \/ /\ txn[q].entry # None
           /\ \/ txn[q].entry.name = req[r].name
              \/ txn[q].entry.hash = req[r].hash
        \/ txn[q].deleted \cap Ids(SameFile(r)) # {}}

WaitsFor(r) ==
    CASE pc[r] = "drop" /\ \A h \in txn[r].toDrop : Holders(r, h) # {} ->
            UNION {Holders(r, h) : h \in txn[r].toDrop}
      [] pc[r] = "delete" -> Deleters(r)
      [] pc[r] = "creating" -> Creators(r)
      [] pc[r] = "load" /\ ~txn[r].created -> Droppers(r, req[r].hash)
      [] pc[r] = "register" -> Rivals(r)
      [] pc[r] = "read" -> Droppers(r, req[r].hash)
      [] OTHER -> {}

\* Waiting requests, each for another of the set and each waited for.
Deadlocked(r) ==
    \E D \in SUBSET Requests :
        /\ r \in D
        /\ \A q \in D : WaitsFor(q) \cap D # {} /\ \E p \in D : q \in WaitsFor(p)

-----------------------------------------------------------------------------
(* Control of one request. *)

Goto(r, step) == pc' = [pc EXCEPT ![r] = step]

\* The transaction ends, by commit or rollback, and the client is answered.
Finish(r, told) ==
    /\ Goto(r, "done")
    /\ txn' = [txn EXCEPT ![r] = EmptyTxn]
    /\ answer' = [answer EXCEPT ![r] = told]

\* psycopg2.Error: dynamic uploads answer a structured error, the other
\* handlers have no clause for it and the request fails.
DatabaseError(r) == IF req[r].kind = "dynamic" THEN "error" ELSE "failed"

Rollback(r, told) ==
    /\ Finish(r, told)
    /\ UNCHANGED <<files, tables, nextId, req>>

\* r goes on in its transaction, which becomes t.
Proceed(r, t, step) ==
    /\ txn' = [txn EXCEPT ![r] = t]
    /\ Goto(r, step)
    /\ UNCHANGED <<files, tables, nextId, req, answer>>

\* The statement after a DROP TABLE that leaves todo still to drop.
AfterDrop(r, todo) ==
    IF todo # {} THEN "drop" ELSE IF req[r].kind = "te" THEN "rescan" ELSE "delete"

\* Mutant: the rows of the files F are deleted and their tables left behind.
ReplaceKeepsTables(r, F, next) ==
    Proceed(r, [txn[r] EXCEPT !.victims = Ids(F), !.next = next], AfterDrop(r, {}))

\* Drop the tables of the files F, then delete F's rows, then go to next.
Replace(r, F, next) ==
    Proceed(r, [txn[r] EXCEPT !.toDrop = DynamicTables(F), !.victims = Ids(F), !.next = next],
            AfterDrop(r, DynamicTables(F)))

-----------------------------------------------------------------------------
(* Requests arrive. *)

Start(r, first, what, victims) ==
    /\ pc[r] = "idle"
    /\ what.kind \in Kinds
    /\ req' = [req EXCEPT ![r] = what]
    /\ txn' = [txn EXCEPT ![r].victims = victims]
    /\ Goto(r, first)
    /\ UNCHANGED <<files, tables, nextId, answer>>

UploadDynamic(r) ==
    \E n \in Names, h \in Hashes, o \in Overwrites :
        Start(r, "name", [kind |-> "dynamic", name |-> n, hash |-> h, overwrite |-> o], {})

\* The T&E rows are inserted before the registry is touched; that part is
\* abstracted to its success.
UploadTe(r) ==
    \E n \in Names, h \in Hashes :
        Start(r, "scan", [kind |-> "te", name |-> n, hash |-> h, overwrite |-> FALSE], {})

DeleteFile(r) ==
    \E i \in 1 .. nextId - 1 :
        Start(r, "find", [NoRequest EXCEPT !.kind = "delete"], {i})

TableRows(r) ==
    \E h \in Hashes : Start(r, "lookup", [NoRequest EXCEPT !.hash = h], {})

-----------------------------------------------------------------------------
(* The duplicate checks of a dynamic upload, and the cleanup of a T&E load. *)

\* Mutant: the overwrite flag is not looked at.
CheckPriorAlwaysReplaces(r, prior, next) ==
    IF prior = {} THEN Proceed(r, txn[r], next) ELSE Replace(r, prior, next)

\* Prior files stop an upload that may not overwrite; otherwise they are
\* replaced.
CheckPrior(r, prior, next) ==
    IF prior = {} THEN Proceed(r, txn[r], next)
    ELSE IF ~req[r].overwrite THEN Rollback(r, "duplicate")
    ELSE Replace(r, prior, next)

CheckName(r) ==
    /\ pc[r] = "name"
    /\ CheckPrior(r, {f \in Visible(r) : f.name = req[r].name}, "content")

CheckContent(r) ==
    /\ pc[r] = "content"
    /\ CheckPrior(r, {f \in Visible(r) : f.hash = req[r].hash}, "create")

CleanupScan(r) ==
    /\ pc[r] = "scan"
    /\ Replace(r, SameFile(r), "register")

\* DROP TABLE IF EXISTS, of the table that has the name once nobody holds it.
DropTable(r) ==
    /\ pc[r] = "drop"
    /\ \E h \in txn[r].toDrop :
        /\ Holders(r, h) = {}
        /\ Proceed(r, [txn[r] EXCEPT !.toDrop = @ \ {h},
                                     !.dropped = IF Exists(r, h) THEN @ \cup {h} ELSE @],
                   AfterDrop(r, txn[r].toDrop \ {h}))

\* A T&E load's DELETE names the rows by file name or hash, afresh.
RescanForDelete(r) ==
    /\ pc[r] = "rescan"
    /\ Proceed(r, [txn[r] EXCEPT !.victims = Ids(SameFile(r))], "delete")

DeleteRows(r) ==
    /\ pc[r] = "delete"
    /\ Deleters(r) = {}
    /\ Proceed(r, [txn[r] EXCEPT !.deleted = @ \cup (txn[r].victims \cap Ids(files)),
                                 !.victims = {}],
               txn[r].next)

-----------------------------------------------------------------------------
(* The new table, its rows, and its registration. *)

\* The header or the column types are refused, after prior files were dropped.
RefuseColumns(r) ==
    /\ pc[r] = "create"
    /\ Rollback(r, "error")

\* CREATE TABLE IF NOT EXISTS: nothing if a visible table has the name, a wait
\* if an uncommitted one has it.
CreateTable(r) ==
    /\ pc[r] = "create"
    /\ IF Exists(r, req[r].hash) THEN Proceed(r, txn[r], "load")
       ELSE IF Creators(r) # {} THEN Proceed(r, txn[r], "creating")
       ELSE Proceed(r, [txn[r] EXCEPT !.created = TRUE], "load")

\* Mutant: any wait for another creator is taken for a lost race.
CreateAfterWaitAlwaysDuplicate(r) ==
    /\ pc[r] = "creating"
    /\ Creators(r) = {}
    /\ Rollback(r, "duplicate")

\* The other creator ended: the name is taken (UniqueViolation) or free.
CreateAfterWait(r) ==
    /\ pc[r] = "creating"
    /\ Creators(r) = {}
    /\ IF Exists(r, req[r].hash) THEN Rollback(r, "duplicate")
       ELSE Proceed(r, [txn[r] EXCEPT !.created = TRUE], "load")

\* Every row failed its cast.
RefuseRows(r) ==
    /\ pc[r] = "load"
    /\ Rollback(r, "error")

\* INSERT ... ON CONFLICT DO NOTHING into the table of that name, or an
\* undefined-table error if it is gone by now.
LoadRows(r) ==
    /\ pc[r] = "load"
    /\ txn[r].created \/ Droppers(r, req[r].hash) = {}
    /\ IF txn[r].created \/ Exists(r, req[r].hash)
       THEN Proceed(r, txn[r], "register")
       ELSE Rollback(r, DatabaseError(r))

\* A committed table already has the content's rows, so only the creator of
\* the table inserts any.
NewFile(r) ==
    [id |-> nextId, name |-> req[r].name, hash |-> req[r].hash, mode |-> req[r].kind,
     counted |-> txn[r].created \/ req[r].kind = "te"]

\* Mutant: the registry without its UNIQUE constraints.
RegisterWithoutIndexes(r) ==
    /\ pc[r] = "register"
    /\ nextId' = nextId + 1
    /\ txn' = [txn EXCEPT ![r].entry = NewFile(r)]
    /\ Goto(r, "commit")
    /\ UNCHANGED <<files, tables, req, answer>>

\* INSERT INTO csv_files, under UNIQUE (file_name) and UNIQUE (file_hash).
Register(r) ==
    /\ pc[r] = "register"
    /\ Rivals(r) = {}
    /\ SameFile(r) \cap Visible(r) = {}
    /\ nextId' = nextId + 1
    /\ txn' = [txn EXCEPT ![r].entry = NewFile(r)]
    /\ Goto(r, "commit")
    /\ UNCHANGED <<files, tables, req, answer>>

\* Mutant: the insert is tried again and again.
LoseRaceRetries(r) ==
    /\ pc[r] = "register"
    /\ Rivals(r) = {}
    /\ SameFile(r) \cap Visible(r) # {}
    /\ Proceed(r, txn[r], "register")

\* ... which an earlier committer has already satisfied: roll back and say so.
LoseRace(r) ==
    /\ pc[r] = "register"
    /\ Rivals(r) = {}
    /\ SameFile(r) \cap Visible(r) # {}
    /\ nextId' = nextId + 1
    /\ Finish(r, IF req[r].kind = "dynamic" THEN "duplicate" ELSE "error")
    /\ UNCHANGED <<files, tables, req>>

\* The commit takes effect; the client hears of it, or its connection is lost.
Commit(r) ==
    /\ pc[r] = "commit"
    /\ files' = Visible(r) \cup ({txn[r].entry} \ {None})
    /\ tables' = (tables \ txn[r].dropped)
                    \cup (IF txn[r].created THEN {req[r].hash} ELSE {})
    /\ \E told \in {"ok", DatabaseError(r)} : Finish(r, told)
    /\ UNCHANGED <<nextId, req>>

-----------------------------------------------------------------------------
(* Deleting a file, and reading a table's rows. *)

FindFile(r) ==
    /\ pc[r] = "find"
    /\ LET row == {f \in files : f.id \in txn[r].victims}
       IN  IF ~AllowDestructive THEN Rollback(r, "forbidden")
           ELSE IF row = {} THEN Rollback(r, "notfound")
           ELSE Replace(r, row, "commit")

\* Only a registered table is served ...
LookupTable(r) ==
    /\ pc[r] = "lookup"
    /\ IF req[r].hash \in DynamicTables(files)
       THEN Proceed(r, txn[r], "read")
       ELSE Rollback(r, "notfound")

\* ... by a second statement, which finds the table or fails.
ReadRows(r) ==
    /\ pc[r] = "read"
    /\ Droppers(r, req[r].hash) = {}
    /\ Rollback(r, IF Exists(r, req[r].hash) THEN "ok" ELSE "failed")

-----------------------------------------------------------------------------
(* Failures. *)

Open(r) == pc[r] \notin {"idle", "done"}

\* A statement fails: the connection is lost, or the server gives up on it.
StatementFails(r) ==
    /\ Open(r)
    /\ Rollback(r, DatabaseError(r))

\* The server aborts one transaction of a deadlock.
AbortDeadlocked(r) ==
    /\ Deadlocked(r)
    /\ Rollback(r, DatabaseError(r))

-----------------------------------------------------------------------------

Arrive(r) == UploadDynamic(r) \/ UploadTe(r) \/ DeleteFile(r) \/ TableRows(r)

Serve(r) ==
    \/ CheckName(r) \/ CheckContent(r) \/ CleanupScan(r) \/ DropTable(r)
    \/ RescanForDelete(r) \/ DeleteRows(r)
    \/ RefuseColumns(r) \/ CreateTable(r) \/ CreateAfterWait(r)
    \/ RefuseRows(r) \/ LoadRows(r) \/ Register(r) \/ LoseRace(r) \/ Commit(r)
    \/ FindFile(r) \/ LookupTable(r) \/ ReadRows(r)
    \/ AbortDeadlocked(r)

AllServed == (\A r \in Requests : pc[r] = "done") /\ UNCHANGED vars

Next ==
    \/ \E r \in Requests : Arrive(r) \/ Serve(r) \/ StatementFails(r)
    \/ AllServed

\* A registry in good order: distinct ids, names and hashes, a table for every
\* dynamic file and no other.
InGoodOrder(F, T) ==
    /\ \A f, g \in F : f.id = g.id \/ f.name = g.name \/ f.hash = g.hash => f = g
    /\ \A f \in F : f.counted
    /\ T = DynamicTables(F)

Init ==
    /\ nextId \in 1 .. MaxLoaded + 1
    /\ files \in SUBSET [id : 1 .. MaxLoaded, name : Names, hash : Hashes,
                            mode : Modes \cap Kinds, counted : {TRUE}]
    /\ Ids(files) = 1 .. nextId - 1
    /\ tables = DynamicTables(files)
    /\ InGoodOrder(files, tables)
    /\ pc = [r \in Requests |-> "idle"]
    /\ req = [r \in Requests |-> NoRequest]
    /\ txn = [r \in Requests |-> EmptyTxn]
    /\ answer = [r \in Requests |-> "none"]

Safety == Init /\ [][Next]_vars

\* Every handler runs on its own thread, and the server grants locks and
\* breaks deadlocks.
Spec == Safety /\ \A r \in Requests : WF_vars(Serve(r))

-----------------------------------------------------------------------------
(* The inductive invariant: what the locks protect while requests are open. *)

\* Where a request (what) with transaction t can be, and where its DELETE leads.
Controlled(what, t, step) ==
    /\ step = "idle" => t = EmptyTxn
    /\ step \in {"name", "content", "create", "creating", "load"} => what.kind = "dynamic"
    /\ step \in {"scan", "rescan"} => what.kind = "te"
    /\ step = "register" => what.kind \in Modes
    /\ step = "find" => what.kind = "delete"
    /\ step \in {"drop", "rescan", "delete"} =>
            \/ what.kind = "dynamic" /\ t.next \in {"content", "create"}
            \/ what.kind = "te" /\ t.next = "register"
            \/ what.kind = "delete" /\ t.next = "commit"
    /\ step \in {"rescan", "delete"} => t.toDrop = {}
    /\ t.created => what.kind = "dynamic" /\ step \in {"load", "register", "commit"}
    /\ t.entry # None => step = "commit"
    /\ step = "commit" => \/ what.kind \in Modes /\ t.entry # None
                          \/ what.kind = "delete" /\ t.entry = None
    /\ what.kind \in Kinds \cup {"rows"}

ControlInv == \A r \in Requests : Controlled(req[r], txn[r], pc[r])

\* Ids, names and hashes are unique; ids come from the sequence.
FilesInv ==
    /\ \A f, g \in files : f.id = g.id \/ f.name = g.name \/ f.hash = g.hash => f = g
    /\ \A f \in files : f.id < nextId

\* A table has one dropper and a row one deleter, until they end.
LocksInv ==
    /\ \A r \in Requests : txn[r].dropped \subseteq tables /\ txn[r].deleted \subseteq Ids(files)
    /\ \A q, r \in Requests :
            q # r => /\ \A h \in txn[q].dropped : h \notin txn[r].dropped
                     /\ \A i \in txn[q].deleted : i \notin txn[r].deleted

\* A new table's name is free, and has one creator.
CreatedInv ==
    \A r \in Requests : txn[r].created =>
        /\ ~Exists(r, req[r].hash)
        /\ \A q \in Others(r) : txn[q].created => req[q].hash # req[r].hash

\* A row inserted is still unique when its transaction commits.
EntriesInv ==
    \A r \in Requests : txn[r].entry # None =>
        /\ txn[r].entry.name = req[r].name
        /\ txn[r].entry.hash = req[r].hash
        /\ txn[r].entry.mode = req[r].kind
        /\ txn[r].entry.id < nextId
        /\ txn[r].entry.id \notin Ids(files)
        /\ \A f \in SameFile(r) : f.id \in txn[r].deleted
        /\ \A q \in Others(r) : txn[q].entry # None =>
                /\ txn[q].entry.id # txn[r].entry.id
                /\ txn[q].entry.name # txn[r].entry.name
                /\ txn[q].entry.hash # txn[r].entry.hash

\* A DELETE names no row that is not committed yet; an upload's names only the
\* files it replaces.
DeletesInv ==
    \A r \in Requests :
        /\ pc[r] \in {"drop", "rescan", "delete"} =>
                \A i \in txn[r].victims :
                    /\ i < nextId
                    /\ \A q \in Requests : txn[q].entry # None => txn[q].entry.id # i
        /\ req[r].kind \in Modes =>
                \A f \in files :
                    \/ f.id \in txn[r].deleted
                    \/ f.id \in txn[r].victims /\ pc[r] \in {"drop", "rescan", "delete"}
                    => f \in SameFile(r)
        /\ req[r].kind = "delete" =>
                /\ \A i, j \in txn[r].victims : i = j
                /\ pc[r] # "commit" => txn[r].deleted = {}
                /\ \A i, j \in txn[r].deleted : i = j

\* Rows loaded into a table that was there keep it from being dropped.
LoadedInv ==
    \A r \in Requests : HasLoaded(r) /\ ~txn[r].created =>
        /\ req[r].hash \in tables
        /\ \A q \in Requests : req[r].hash \notin txn[q].dropped

RegistryInv ==
    /\ TypeOK /\ ControlInv /\ FilesInv /\ LocksInv /\ CreatedInv /\ EntriesInv
    /\ DeletesInv /\ LoadedInv

-----------------------------------------------------------------------------
(* Properties. *)

\* A dynamic file that is registered has its table: what the duplicate answer
\* and the rows endpoint rely on.
RegisteredHasTable == DynamicTables(files) \subseteq tables

\* A table that exists is registered: an upload never leaves a table that
\* nothing lists, no later upload replaces and no request can delete.
NoOrphanTables == tables \subseteq DynamicTables(files)

\* A registered file counts the rows it loaded: no upload is reported ok after
\* inserting nothing into a table another upload had filled.
RowsCounted == \A f \in files : f.counted

\* Without T&E loads, a row is deleted only with its table, unless the table
\* was gone already; then no table is left behind and every upload counts.
PairedInv ==
    /\ NoOrphanTables
    /\ RowsCounted
    /\ \A r \in Requests : txn[r].entry # None => txn[r].entry.counted
    /\ \A r \in Requests, f \in files : f.mode = "dynamic" /\ f.hash \in tables =>
            /\ f.id \in txn[r].deleted => f.hash \in txn[r].dropped
            /\ f.id \in txn[r].victims /\ pc[r] \in {"drop", "delete"} =>
                    f.hash \in txn[r].toDrop \cup txn[r].dropped

\* Whatever tables were dropped and made again since its statements looked, a
\* dynamic upload that commits leaves its own file registered and its table there.
CommitLeavesTable ==
    [][\A f \in files' \ files : f.mode = "dynamic" => f.hash \in tables']_vars

\* An upload is turned away as a duplicate only while a registered file really
\* has its name or its content.
DuplicateIsReal ==
    [][\A r \in Requests :
            answer'[r] = "duplicate" /\ answer[r] = "none" => SameFile(r) # {}]_vars

\* Only uploads that may not overwrite, and reads, so far.
ReplacesNothing ==
    \A r \in Requests : req[r].kind \in {"dynamic", "rows"} /\ ~req[r].overwrite

\* Uploads that may not overwrite never cost a registered file its table.
PlainUploadsKeepTables == ReplacesNothing => RegisteredHasTable

\* Nor do they fail a reader: the rows endpoint finds every table it looked up.
PlainUploadsKeepReaders ==
    [][\A r \in Requests : ReplacesNothing' /\ ReadRows(r) => answer'[r] = "ok"]_vars

\* Every request is answered, deadlocks among overwrites included.
EveryRequestAnswered == \A r \in Requests : Open(r) ~> pc[r] = "done"

\* The registry is the store of FileStore: whatever its requests interleave,
\* each commit replaces what it replaces and touches no other file.
Store == INSTANCE FileStore WITH store <- files

ImplementsFileStore == Store!StoreSpec
=============================================================================
