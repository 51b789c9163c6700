------------------------------- MODULE Review --------------------------------
(***************************************************************************)
(* Row decisions and cell edits of a stored upload (review.py,             *)
(* review_routes.py), with the audit rows they and other requests write.   *)
(*                                                                         *)
(* A change is one transaction at READ COMMITTED: it reads the current     *)
(* value, inserts a version (row_decisions or cell_edits) and an audit     *)
(* row, and commits.  A version's time is its transaction's start, its id  *)
(* comes from its table's sequence when it is inserted.  The version with  *)
(* the highest id is in force; the history lists versions by time.         *)
(***************************************************************************)
EXTENDS AuditChain

CONSTANTS
    Rows,      \* rows of the upload: one decision each
    Cells,     \* cells of the upload
    Values,    \* values of a cell
    Uploaded   \* the value of every cell in the stored original

Items == Rows \cup Cells
Decisions == {"include", "exclude"}

ASSUME ReviewAssumption ==
    /\ None \notin Writers \cup Items \cup Values \cup Decisions
    /\ Rows \cap Cells = {}
    /\ Uploaded \in Values

Choices(i) == IF i \in Rows THEN Decisions ELSE Values
Original(i) == IF i \in Rows THEN "include" ELSE Uploaded
AnyValue == Decisions \cup Values

Version == [id : Nat, item : Items, old : AnyValue, new : AnyValue, at : Nat]

\* What an audit row says: a version's values, or an upload, deletion or
\* password reset, whose values do not matter here.
Other == [item |-> None, before |-> None, after |-> None]
Change == [item : Items, before : AnyValue, after : AnyValue] \cup {Other}

\* The writers of the audit log are the requests, and this is what they record.
ASSUME ChangesAssumption == Changes = Change

ChangeOf(v) == [item |-> v.item, before |-> v.old, after |-> v.new]

Table(i) == IF i \in Rows THEN "row_decisions" ELSE "cell_edits"

VARIABLES
    versions,     \* committed rows of row_decisions and cell_edits
    nextVersion,  \* the id sequence of each of the two tables
    clock,        \* the server's clock
    pc,           \* where each request is, until it writes its audit row
    work          \* the version it is making

reviewVars == <<versions, nextVersion, clock, pc, work>>
vars == <<reviewVars, chainVars>>

Work == [id : Nat, item : Items \cup {None}, old : AnyValue \cup {None},
         new : AnyValue \cup {None}, at : Nat]
NoWork == [id |-> 0, item |-> None, old |-> None, new |-> None, at |-> 0]

ReviewTypeOK ==
    /\ versions \in SUBSET Version
    /\ nextVersion \in [{"row_decisions", "cell_edits"} -> Nat \ {0}]
    /\ clock \in Nat
    /\ pc \in [Writers -> {"idle", "current", "insert", "audit", "done"}]
    /\ work \in [Writers -> Work]

Goto(w, to) == pc' = [pc EXCEPT ![w] = to]

Done(w) == Goto(w, "done") /\ work' = [work EXCEPT ![w] = NoWork]

-----------------------------------------------------------------------------

\* decide and edit: the transaction starts with the read of the upload.
Open(w) ==
    /\ pc[w] = "idle"
    /\ \E i \in Items : \E v \in Choices(i) :
            work' = [work EXCEPT ![w] = [NoWork EXCEPT !.item = i, !.new = v, !.at = clock]]
    /\ clock' = clock + 1
    /\ Goto(w, "current")
    /\ UNCHANGED <<versions, nextVersion, chainVars>>

\* An upload, a deletion or a password reset comes to its audit row.
AuditOther(w) ==
    /\ pc[w] = "idle"
    /\ WriteAudit(w, Other)
    /\ Goto(w, "audit")
    /\ UNCHANGED <<versions, nextVersion, clock, work>>

\* The request is refused, or its statement fails: nothing was written.
End(w) ==
    /\ Done(w)
    /\ UNCHANGED <<versions, nextVersion, clock, chainVars>>

\* No such row or column, not a decision, no reason; or the connection is lost.
Refuse(w) == pc[w] \in {"current", "insert"} /\ End(w)

OfItem(i) == {v \in versions : v.item = i}

\* v is the value in force: that of the version with the highest id, else the
\* original.
InForce(i, v) ==
    \/ OfItem(i) = {} /\ v = Original(i)
    \/ \E u \in OfItem(i) : v = u.new /\ \A t \in OfItem(i) : t.id <= u.id

\* A cell that already has the new value.
Same(w) == work[w].item \in Cells /\ InForce(work[w].item, work[w].new)

ReadCurrent(w) ==
    /\ pc[w] = "current"
    /\ ~Same(w)
    /\ \E v \in AnyValue :
        /\ InForce(work[w].item, v)
        /\ work' = [work EXCEPT ![w].old = v]
    /\ Goto(w, "insert")
    /\ UNCHANGED <<versions, nextVersion, clock, chainVars>>

RefuseSame(w) == pc[w] = "current" /\ Same(w) /\ End(w)

\* Mutant: the old value is read after the insertion, which it then sees.
InsertVersionThenRead(w) ==
    LET table == Table(work[w].item)
        made == [work[w] EXCEPT !.id = nextVersion[table], !.old = work[w].new]
    IN  /\ pc[w] = "insert"
        /\ work' = [work EXCEPT ![w] = made]
        /\ nextVersion' = [nextVersion EXCEPT ![table] = @ + 1]
        /\ WriteAudit(w, ChangeOf(made))
        /\ Goto(w, "audit")
        /\ UNCHANGED <<versions, clock>>

\* The version is inserted, which waits for nobody, and its audit row issued.
InsertVersion(w) ==
    LET table == Table(work[w].item)
    IN  /\ pc[w] = "insert"
        /\ work' = [work EXCEPT ![w].id = nextVersion[table]]
        /\ nextVersion' = [nextVersion EXCEPT ![table] = @ + 1]
        /\ WriteAudit(w, ChangeOf(work[w]))
        /\ Goto(w, "audit")
        /\ UNCHANGED <<versions, clock>>

\* Mutant: the trigger links to the number before.
ChainByNumber(w) ==
    /\ TakeLock(w) \/ TakeId(w) \/ ReadLastByNumber(w)
    /\ UNCHANGED reviewVars

\* The trigger of the audit row.
Chain(w) ==
    /\ TakeLock(w) \/ TakeId(w) \/ ReadLast(w)
    /\ UNCHANGED reviewVars

\* Mutant: every request commits a version.
CommitAlways(w) ==
    /\ CommitRow(w)
    /\ versions' = versions \cup {work[w]}
    /\ Done(w)
    /\ UNCHANGED <<nextVersion, clock>>

\* Version and audit row are committed together.
Commit(w) ==
    /\ CommitRow(w)
    /\ versions' = versions \cup (IF work[w].item = None THEN {} ELSE {work[w]})
    /\ Done(w)
    /\ UNCHANGED <<nextVersion, clock>>

\* Mutant: only the audit row is rolled back.
RollbackAuditOnly(w) ==
    /\ RollbackRow(w)
    /\ versions' = versions \cup (IF work[w].item = None THEN {} ELSE {work[w]})
    /\ Done(w)
    /\ UNCHANGED <<nextVersion, clock>>

\* Mutant: a session lock, which no rollback releases.
RollbackKeepsLock(w) ==
    /\ step[w] \in Locked \cup {"lock"}
    /\ step' = [step EXCEPT ![w] = "done"]
    /\ Done(w)
    /\ UNCHANGED <<versions, nextVersion, clock, log, nextId, holder, row>>

Rollback(w) ==
    /\ RollbackRow(w)
    /\ Done(w)
    /\ UNCHANGED <<versions, nextVersion, clock>>

-----------------------------------------------------------------------------

Serve(w) ==
    \/ ReadCurrent(w) \/ RefuseSame(w) \/ InsertVersion(w) \/ Chain(w) \/ Commit(w)

AllServed == (\A w \in Writers : pc[w] = "done") /\ UNCHANGED vars

Next ==
    \/ \E w \in Writers : Open(w) \/ AuditOther(w) \/ Serve(w) \/ Refuse(w) \/ Rollback(w)
    \/ AllServed

Init ==
    /\ versions = {}
    /\ nextVersion = [t \in {"row_decisions", "cell_edits"} |-> 1]
    /\ clock = 1
    /\ pc = [w \in Writers |-> "idle"]
    /\ work = [w \in Writers |-> NoWork]
    /\ ChainInit
    /\ \A e \in log : e.change = Other

Safety == Init /\ [][Next]_vars

\* Every handler runs on its own thread, and the server grants the lock.
Spec == Safety /\ \A w \in Writers : WF_vars(Serve(w))

-----------------------------------------------------------------------------

(* The inductive invariant. *)

\* v is the original value of item i, or that of one of its versions in V
\* below id n.
ReadOf(V, i, v, n) ==
    v = Original(i) \/ \E u \in V : u.item = i /\ u.id < n /\ u.new = v

\* Where a request is, and what its audit row will say.
Control(w) ==
    /\ pc[w] = "audit" <=> step[w] \notin {"idle", "done"}
    /\ pc[w] \in {"idle", "done"} => work[w] = NoWork
    /\ pc[w] \in {"current", "insert"} => work[w].item \in Items /\ work[w].new \in AnyValue
    /\ pc[w] \in {"idle", "current", "insert"} => step[w] = "idle"
    /\ pc[w] = "audit" =>
            \/ work[w] = NoWork /\ row[w].change = Other
            \/ work[w] \in Version /\ row[w].change = ChangeOf(work[w])

\* The old value a request has read is there to be read, and its version is
\* after it.
WorkFits(w) ==
    /\ pc[w] = "insert" =>
            /\ work[w].old \in AnyValue
            /\ ReadOf(versions, work[w].item, work[w].old, nextVersion[Table(work[w].item)])
    /\ pc[w] = "audit" /\ work[w].item # None =>
            /\ work[w].id < nextVersion[Table(work[w].item)]
            /\ ReadOf(versions, work[w].item, work[w].old, work[w].id)

-----------------------------------------------------------------------------
(* Properties. *)

\* Every version is in the audit log with the values it has, and every change
\* the log tells of was made, whatever failed halfway.
VersionsAudited ==
    {ChangeOf(v) : v \in versions} = {e.change : e \in log} \ {Other}

\* An edit's old value was in force once: it is the original, or the value of
\* a version of the same item with a lower id, though not always the previous
\* version's.
OldValueExisted == \A v \in versions : ReadOf(versions, v.item, v.old, v.id)

ReviewInv ==
    /\ ReviewTypeOK
    /\ \A w \in Writers : Control(w) /\ WorkFits(w)
    /\ \A v \in versions : v.id < nextVersion[Table(v.item)]

\* The last entry of an item's history is the one in force.
LatestWins ==
    \A v \in versions : (\A u \in OfItem(v.item) : u.at <= v.at) => InForce(v.item, v.new)

\* Every request that came to its audit row ends: the lock is always released.
EveryChangeEnds == \A w \in Writers : pc[w] \in {"current", "insert", "audit"} ~> pc[w] = "done"

\* The requests write the log as the writers of AuditChain do.
ImplementsAuditChain == ChainSafety
=============================================================================
