--------------------------- MODULE ConnectionPool ---------------------------
(***************************************************************************)
(* The pool of database connections behind every request (db.py): each     *)
(* `with Conn()` block asks a small executor for a connection, waits for   *)
(* it with a deadline, and puts it back when the block ends.  A connection *)
(* that arrives after the deadline is put back by a callback.              *)
(*                                                                         *)
(* The pool itself is psycopg2's ThreadedConnectionPool: one lock around   *)
(* getconn, putconn and closeall, held while a new connection is made; it  *)
(* keeps up to MinConn idle connections and closes what is put back beyond *)
(* them; it counts a connection as used until putconn succeeds.            *)
(***************************************************************************)
EXTENDS Naturals, FiniteSets

CONSTANTS
    Borrows,   \* the Conn blocks, each entered once
    First,     \* the connection the pool is created with
    None,      \* no connection
    MinConn,   \* idle connections kept
    MaxConn,   \* connections in use at most
    Workers,   \* threads of the executor
    MaySever   \* the server may close connections

ASSUME PoolAssumption ==
    /\ IsFiniteSet(Borrows)
    /\ First \notin Borrows
    /\ None \notin Borrows \cup {First}
    /\ MinConn \in Nat /\ MaxConn \in Nat \ {0} /\ Workers \in Nat \ {0}
    /\ MaySever \in BOOLEAN

\* A connection has the name of the block it was first made for.
Conns == Borrows \cup {First}

VARIABLES
    pc,       \* where the thread of each block is
    future,   \* where the executor's getconn call for it is
    used,     \* the pool's connection for each call
    free,     \* the pool's idle connections
    open,     \* connections that are open
    severed,  \* ... which the server has closed meanwhile
    late,     \* calls with a callback that puts the connection back
    up,       \* the pool is not closed
    answer    \* what the block's request was told

vars == <<pc, future, used, free, open, severed, late, up, answer>>
poolVars == <<used, free, open>>

TypeOK ==
    /\ pc \in [Borrows -> {"idle", "waiting", "giving up", "using", "returning", "done"}]
    /\ future \in [Borrows -> {"none", "queued", "running", "connecting", "got",
                               "exhausted", "failed", "cancelled"}]
    /\ used \in [Borrows -> Conns \cup {None}]
    /\ free \in SUBSET Conns
    /\ open \in SUBSET Conns
    /\ severed \in SUBSET Conns
    /\ late \in SUBSET Borrows
    /\ up \in BOOLEAN
    /\ answer \in [Borrows -> {"none", "ok", "busy", "error"}]

-----------------------------------------------------------------------------
(* The pool. *)

InUse == {b \in Borrows : used[b] # None}

Connecting == {b \in Borrows : future[b] = "connecting"}

\* Nobody holds the pool's lock across a wait.
LockFree == Connecting = {}

\* putconn of a connection in good order.
PutBack(b) ==
    /\ LockFree
    /\ used' = [used EXCEPT ![b] = None]
    /\ IF Cardinality(free) < MinConn
       THEN free' = free \cup {used[b]} /\ UNCHANGED open
       ELSE open' = open \ {used[b]} /\ UNCHANGED free

\* A call has put its connection back late, in its worker's thread.
LatePending(b) == b \in late /\ future[b] = "got" /\ used[b] # None /\ up

\* Workers occupied by a call.
Busy == {b \in Borrows : future[b] \in {"running", "connecting"} \/ LatePending(b)}

-----------------------------------------------------------------------------
(* The thread of a Conn block. *)

Goto(b, to) == pc' = [pc EXCEPT ![b] = to]
Tell(b, what) == answer' = [answer EXCEPT ![b] = what]
Resolve(b, what) == future' = [future EXCEPT ![b] = what]

Enter(b) ==
    /\ pc[b] = "idle" /\ up
    /\ Goto(b, "waiting")
    /\ Resolve(b, "queued")
    /\ UNCHANGED <<poolVars, severed, late, up, answer>>

TakeResult(b) ==
    /\ pc[b] = "waiting"
    /\ \/ future[b] = "got" /\ Goto(b, "using") /\ UNCHANGED answer
       \/ future[b] = "exhausted" /\ Goto(b, "done") /\ Tell(b, "busy")
       \/ future[b] = "failed" /\ Goto(b, "done") /\ Tell(b, "error")
    /\ UNCHANGED <<future, poolVars, severed, late, up>>

\* Mutant: future.result() without its timeout.
NeverGiveUp(b) == FALSE /\ UNCHANGED vars

\* The deadline passes.
GiveUp(b) ==
    /\ pc[b] = "waiting"
    /\ future[b] \in {"queued", "running", "connecting"}
    /\ Goto(b, "giving up")
    /\ UNCHANGED <<future, poolVars, severed, late, up, answer>>

\* Mutant: the timeout is reported and the call forgotten.
ForgetCall(b) ==
    /\ pc[b] = "giving up"
    /\ Tell(b, "busy")
    /\ Goto(b, "done")
    /\ UNCHANGED <<future, poolVars, severed, late, up>>

\* The callback is added; a call that has ended by now runs it in this thread.
AddCallback(b) ==
    /\ pc[b] = "giving up"
    /\ Tell(b, "busy")
    /\ IF future[b] = "got"
       THEN Goto(b, "returning") /\ UNCHANGED late
       ELSE Goto(b, "done") /\ late' = late \cup {b}
    /\ UNCHANGED <<future, poolVars, severed, up>>

BlockEnds(b) ==
    /\ pc[b] = "using"
    /\ Goto(b, "returning")
    /\ Tell(b, "ok")
    /\ UNCHANGED <<future, poolVars, severed, late, up>>

\* The exception leaves __exit__ before putconn.
RaiseWithoutPut(b) ==
    /\ pc[b] = "using"
    /\ Goto(b, "done")
    /\ Tell(b, "error")
    /\ UNCHANGED <<future, poolVars, severed, late, up>>

\* rollback() returns: the connection works, or no transaction was begun on it.
BlockRaises(b) ==
    /\ pc[b] = "using"
    /\ Goto(b, "returning")
    /\ Tell(b, "error")
    /\ UNCHANGED <<future, poolVars, severed, late, up>>

\* rollback() raises on a connection that is gone, so putconn is not called.
BlockLosesConnection(b) ==
    /\ used[b] \in severed
    /\ RaiseWithoutPut(b)

Return(b) ==
    /\ pc[b] = "returning"
    /\ PutBack(b)
    /\ Goto(b, "done")
    /\ UNCHANGED <<future, severed, late, up, answer>>

\* putconn itself rolls back a transaction that was only read in, before it
\* stops counting the connection.
ReturnFails(b) ==
    /\ pc[b] = "returning"
    /\ answer[b] = "ok"
    /\ used[b] \in severed
    /\ Cardinality(free) < MinConn
    /\ LockFree
    /\ Goto(b, "done")
    /\ Tell(b, "error")
    /\ UNCHANGED <<future, poolVars, severed, late, up>>

-----------------------------------------------------------------------------
(* The executor. *)

\* A worker takes a call; which of the queued ones is left open.
TakeTask(b) ==
    /\ future[b] = "queued"
    /\ Cardinality(Busy) < Workers
    /\ Resolve(b, "running")
    /\ UNCHANGED <<pc, poolVars, severed, late, up, answer>>

\* An idle connection, or none left, or a new one, made under the lock.
GetConn(b) ==
    /\ future[b] = "running"
    /\ LockFree
    /\ \/ /\ ~up \/ (free = {} /\ Cardinality(InUse) >= MaxConn)
          /\ Resolve(b, "exhausted")
          /\ UNCHANGED poolVars
       \/ /\ up
          /\ \E c \in free : used' = [used EXCEPT ![b] = c] /\ free' = free \ {c}
          /\ Resolve(b, "got")
          /\ UNCHANGED open
       \/ /\ up /\ free = {} /\ Cardinality(InUse) < MaxConn
          /\ Resolve(b, "connecting")
          /\ UNCHANGED poolVars
    /\ UNCHANGED <<pc, severed, late, up, answer>>

Connected(b) ==
    /\ future[b] = "connecting"
    /\ Resolve(b, "got")
    /\ used' = [used EXCEPT ![b] = b]
    /\ open' = open \cup {b}
    /\ UNCHANGED <<pc, free, severed, late, up, answer>>

ConnectFails(b) ==
    /\ future[b] = "connecting"
    /\ Resolve(b, "failed")
    /\ UNCHANGED <<pc, poolVars, severed, late, up, answer>>

ReturnLate(b) ==
    /\ LatePending(b)
    /\ PutBack(b)
    /\ UNCHANGED <<pc, future, severed, late, up, answer>>

-----------------------------------------------------------------------------
(* The server, and the end of the process. *)

\* Mutant: the executor is shut down and the pool forgotten.
ShutdownWithoutClose ==
    /\ up /\ LockFree
    /\ \A b \in Borrows : pc[b] \in {"idle", "done"}
    /\ up' = FALSE
    /\ future' = [b \in Borrows |-> IF future[b] = "queued" THEN "cancelled" ELSE future[b]]
    /\ UNCHANGED <<pc, poolVars, severed, late, answer>>

\* close_pool, once the server has let the running requests end; calls nobody
\* waits for may still be queued or running.
Shutdown ==
    /\ up /\ LockFree
    /\ \A b \in Borrows : pc[b] \in {"idle", "done"}
    /\ up' = FALSE
    /\ open' = {}
    /\ free' = {}
    /\ future' = [b \in Borrows |-> IF future[b] = "queued" THEN "cancelled" ELSE future[b]]
    /\ UNCHANGED <<pc, used, severed, late, answer>>

Sever ==
    /\ MaySever
    /\ \E c \in open \ severed : severed' = severed \cup {c}
    /\ UNCHANGED <<pc, future, poolVars, late, up, answer>>

-----------------------------------------------------------------------------

Thread(b) ==
    \/ TakeResult(b) \/ GiveUp(b) \/ AddCallback(b)
    \/ BlockEnds(b) \/ BlockRaises(b) \/ BlockLosesConnection(b)
    \/ Return(b) \/ ReturnFails(b)

Worker(b) == TakeTask(b) \/ GetConn(b) \/ ReturnLate(b)

Connect(b) == Connected(b) \/ ConnectFails(b)

\* The process has ended, and no call is left.
Ended ==
    /\ ~up
    /\ \A b \in Borrows : future[b] \notin {"running", "connecting"}
    /\ UNCHANGED vars

Next ==
    \/ \E b \in Borrows : Enter(b) \/ Thread(b) \/ Worker(b) \/ Connect(b)
    \/ Shutdown \/ Sever \/ Ended

Init ==
    /\ pc = [b \in Borrows |-> "idle"]
    /\ future = [b \in Borrows |-> "none"]
    /\ used = [b \in Borrows |-> None]
    /\ free = {First} /\ open = {First}
    /\ severed = {}
    /\ late = {}
    /\ up = TRUE
    /\ answer = [b \in Borrows |-> "none"]

Safety == Init /\ [][Next]_vars

\* Threads run and deadlines pass; making a connection may hang.
Spec ==
    /\ Safety
    /\ \A b \in Borrows : WF_vars(Thread(b)) /\ WF_vars(Worker(b))

-----------------------------------------------------------------------------
(* The inductive invariant. *)

\* A connection is idle or used by one call, and open while the pool is.
ConnsInv ==
    /\ \A a, b \in InUse : used[a] = used[b] => a = b
    /\ \A b \in InUse : used[b] \notin free
    /\ up => open = free \cup {used[b] : b \in InUse}
    /\ ~up => open = {} /\ free = {}

\* One new connection at a time; with the idle ones, no more than are allowed.
SlotsInv ==
    /\ \A a, b \in Connecting : a = b
    /\ Cardinality(InUse \cup Connecting) + Cardinality(free) <= MaxConn
    /\ Connecting # {} => up /\ free = {}

\* Whose a call's connection is.
Owned(b) ==
    \/ pc[b] \in {"waiting", "giving up"} /\ future[b] = "got"
    \/ pc[b] \in {"using", "returning"}
    \/ b \in late
    \/ used[b] \in severed

\* Where a block and its call can be; its connection is new once.
Control(b) ==
    /\ b \in open => future[b] = "got"
    /\ used[b] # None => future[b] = "got" /\ Owned(b)
    /\ future[b] = "none" <=> pc[b] = "idle"
    /\ pc[b] \in {"using", "returning"} => used[b] # None
    /\ pc[b] \in {"waiting", "giving up"} /\ future[b] = "got" => used[b] # None
    /\ future[b] \in {"queued", "running", "connecting"} =>
            pc[b] \in {"waiting", "giving up"} \/ b \in late
    /\ b \in late => pc[b] = "done"
    /\ pc[b] \in {"waiting", "giving up", "using", "returning"} => up

ControlInv == \A b \in Borrows : Control(b)

PoolInv == TypeOK /\ ConnsInv /\ SlotsInv /\ ControlInv

-----------------------------------------------------------------------------
(* Properties. *)

\* Blocks never share a connection, and never work on one that is idle: a late
\* return cannot give away a connection that its block has taken after all.
NotShared ==
    \A b \in Borrows : pc[b] = "using" =>
        /\ used[b] \in Conns \ free
        /\ \A a \in Borrows \ {b} : used[a] # used[b]

\* A slot is lost only together with its connection: a block that is over has
\* put its connection back, will do so from its callback, or lost it.
LostOnlyWhenSevered ==
    \A b \in InUse : up /\ pc[b] = "done" => b \in late \/ used[b] \in severed

\* What the comment on Conn says: it "always returns" its connection.
AlwaysReturned == \A b \in InUse : up /\ pc[b] = "done" => b \in late

\* close_pool leaves no connection open, not even to a call that was running.
NoneOpenAfterShutdown == ~up => open = {}

\* No request waits for a connection for ever, though making one may hang.
BorrowAnswered == \A b \in Borrows : pc[b] = "waiting" ~> pc[b] # "waiting"

\* If no new connection hangs, every slot is free again, unless its connection
\* was severed.
SlotsComeBack ==
    []<>LockFree =>
        \A b \in Borrows : used[b] # None ~> (used[b] = None \/ ~up \/ used[b] \in severed)
=============================================================================
