------------------------------ MODULE AuditChain ------------------------------
(***************************************************************************)
(* audit_log and the trigger that numbers and chains its rows (migration   *)
(* 0006), under the concurrent inserts of write_audit (audit.py).          *)
(*                                                                         *)
(* Each writer inserts one row in a transaction of its own.  The trigger   *)
(* waits for an advisory lock that the end of the transaction releases,    *)
(* takes the next id, and reads the hash of the last row that is committed *)
(* by then.  A row's hash covers its id, so the id stands for the hash;    *)
(* updates, deletions and truncations are refused by triggers.             *)
(***************************************************************************)
EXTENDS Naturals

CONSTANTS
    Writers,   \* transactions that write an audit row
    Changes,   \* what a row records: action, object, values
    MaxRows,   \* how many rows the log may hold at the start
    None       \* no writer, no change

ASSUME ChainAssumption == None \notin Writers /\ None \notin Changes /\ MaxRows \in Nat

Row == [id : Nat \ {0}, prev : Nat, change : Changes]

NoRow == [id |-> 0, prev |-> 0, change |-> None]

VARIABLES
    log,     \* committed rows
    nextId,  \* the id sequence, which no rollback turns back
    holder,  \* who holds the advisory lock
    step,    \* where each writer's INSERT is
    row      \* the row it is making

chainVars == <<log, nextId, holder, step, row>>

Steps == {"idle", "lock", "number", "link", "written", "done"}
Locked == {"number", "link", "written"}

ChainTypeOK ==
    /\ log \in SUBSET Row
    /\ nextId \in Nat \ {0}
    /\ holder \in Writers \cup {None}
    /\ step \in [Writers -> Steps]
    /\ row \in [Writers -> [id : Nat, prev : Nat, change : Changes \cup {None}]]

Ids == {e.id : e \in log}

-----------------------------------------------------------------------------

\* write_audit: the INSERT is issued.
WriteAudit(w, change) ==
    /\ step[w] = "idle"
    /\ change \in Changes
    /\ row' = [row EXCEPT ![w] = [id |-> 0, prev |-> 0, change |-> change]]
    /\ step' = [step EXCEPT ![w] = "lock"]
    /\ UNCHANGED <<log, nextId, holder>>

TakeLock(w) ==
    /\ step[w] = "lock"
    /\ holder = None
    /\ holder' = w
    /\ step' = [step EXCEPT ![w] = "number"]
    /\ UNCHANGED <<log, nextId, row>>

TakeId(w) ==
    /\ step[w] = "number"
    /\ row' = [row EXCEPT ![w].id = nextId]
    /\ nextId' = nextId + 1
    /\ step' = [step EXCEPT ![w] = "link"]
    /\ UNCHANGED <<log, holder>>

\* The link taken from the number before the row's: for mutants only.
ReadLastByNumber(w) ==
    /\ step[w] = "link"
    /\ row' = [row EXCEPT ![w].prev = row[w].id - 1]
    /\ step' = [step EXCEPT ![w] = "written"]
    /\ UNCHANGED <<log, nextId, holder>>

\* The hash of the last committed row, if there is one.
ReadLast(w) ==
    /\ step[w] = "link"
    /\ \E last \in {0} \cup Ids :
        /\ \A i \in Ids : i <= last
        /\ row' = [row EXCEPT ![w].prev = last]
    /\ step' = [step EXCEPT ![w] = "written"]
    /\ UNCHANGED <<log, nextId, holder>>

\* The transaction ends, and the lock it holds with it.
EndTxn(w) ==
    /\ holder' = IF holder = w THEN None ELSE holder
    /\ step' = [step EXCEPT ![w] = "done"]
    /\ row' = [row EXCEPT ![w] = NoRow]
    /\ UNCHANGED nextId

\* The transaction commits: its row is visible, then the lock is free.
CommitRow(w) ==
    /\ step[w] = "written"
    /\ log' = log \cup {row[w]}
    /\ EndTxn(w)

\* The transaction fails, or its connection is lost.
RollbackRow(w) ==
    /\ step[w] \in Locked \cup {"lock"}
    /\ EndTxn(w)
    /\ UNCHANGED log

-----------------------------------------------------------------------------

Insert(w) == TakeLock(w) \/ TakeId(w) \/ ReadLast(w) \/ CommitRow(w)

ChainNext ==
    \E w \in Writers :
        (\E change \in Changes : WriteAudit(w, change)) \/ Insert(w) \/ RollbackRow(w)

ChainInit ==
    /\ nextId \in 1 .. MaxRows + 1
    /\ \E change \in [1 .. nextId - 1 -> Changes] :
            log = {[id |-> i, prev |-> i - 1, change |-> change[i]] : i \in 1 .. nextId - 1}
    /\ holder = None
    /\ step = [w \in Writers |-> "idle"]
    /\ row = [w \in Writers |-> NoRow]

ChainSafety == ChainInit /\ [][ChainNext]_chainVars

-----------------------------------------------------------------------------

Log == INSTANCE AuditLog

\* Whoever is between taking the lock and its end is the holder.
LockInv == \A w \in Writers : step[w] \in Locked <=> holder = w

\* A row being made records a change.
ChangeInv == \A w \in Writers : step[w] \notin {"idle", "done"} => row[w].change \in Changes

\* A number taken is after every row and before the next number.
NumberInv ==
    /\ \A e \in log : e.id < nextId
    /\ \A w \in Writers : step[w] \in {"link", "written"} =>
            /\ row[w].id \in 1 .. nextId - 1
            /\ \A e \in log : e.id < row[w].id

\* A link read is still the link to the last row.
LinkInv ==
    \A w \in Writers : step[w] = "written" =>
        /\ row[w].prev \in {0} \cup Ids
        /\ \A i \in Ids : i <= row[w].prev

\* verify_chain always finds the chain intact: every committed row names the
\* one before it, whichever transactions overlapped or rolled back.
ChainIntact == Log!Intact(log)

ChainInv == ChainTypeOK /\ LockInv /\ ChangeInv /\ NumberInv /\ LinkInv /\ ChainIntact

\* The log is the append-only log of AuditLog.
ImplementsAuditLog == Log!LogSpec
=============================================================================
