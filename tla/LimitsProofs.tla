---------------------------- MODULE LimitsProofs ----------------------------
(* Proofs about what limits the requests to a process: ConnectionPool, with  *)
(* the invariant PoolInv and what it promises about sharing, lost slots and  *)
(* the end of the process; and RateLimiter, with the invariant LimiterInv    *)
(* and what it promises about budgets and about coming back.                 *)
EXTENDS ConnectionPool, RateLimiter, FiniteSetTheorems, SequenceTheorems,
        WellFoundedInduction, TLAPS

-----------------------------------------------------------------------------
(* Counting the slots. *)

\* The calls that take up a slot are finitely many.
LEMMA SlotsFinite ==
    /\ IsFiniteSet(InUse) /\ IsFiniteSet(Connecting) /\ IsFiniteSet(InUse \cup Connecting)
    /\ Cardinality(InUse) \in Nat /\ Cardinality(InUse \cup Connecting) \in Nat
  <1>1. InUse \subseteq Borrows /\ Connecting \subseteq Borrows
    BY DEF InUse, Connecting
  <1>2. InUse \cup Connecting \subseteq Borrows
    BY <1>1
  <1> QED BY <1>1, <1>2, PoolAssumption, FS_Subset, FS_CardinalityType

LEMMA IdleFinite == ASSUME TypeOK PROVE IsFiniteSet(free) /\ Cardinality(free) \in Nat
  <1>1. IsFiniteSet(Conns)
    BY PoolAssumption, FS_AddElement DEF Conns
  <1> QED BY <1>1, FS_Subset, FS_CardinalityType DEF TypeOK

\* One element more or less changes a cardinality by one at most.
LEMMA AddOne ==
    ASSUME NEW S, NEW x, IsFiniteSet(S)
    PROVE  Cardinality(S \cup {x}) \in Nat /\ Cardinality(S \cup {x}) <= Cardinality(S) + 1
  <1>1. Cardinality(S) \in Nat
    BY FS_CardinalityType
  <1>2. CASE x \in S
    <2>1. S \cup {x} = S
      BY <1>2
    <2> QED BY <1>1, <2>1
  <1>3. CASE x \notin S
    <2>1. Cardinality(S \cup {x}) = Cardinality(S) + 1
      BY <1>3, FS_AddElement
    <2> QED BY <1>1, <2>1
  <1> QED BY <1>2, <1>3

LEMMA RemoveOne ==
    ASSUME NEW S, NEW x \in S, IsFiniteSet(S)
    PROVE  Cardinality(S \ {x}) \in Nat /\ Cardinality(S \ {x}) = Cardinality(S) - 1
  BY FS_RemoveElement, FS_CardinalityType

\* Steps that move no connection and start no new one keep the slots.
LEMMA SlotsKept ==
    ASSUME TypeOK, SlotsInv, UNCHANGED <<used, free, up>>, Connecting' \subseteq Connecting
    PROVE  SlotsInv'
  <1>1. InUse' = InUse
    BY DEF InUse
  <1>2. Cardinality(InUse' \cup Connecting') \in Nat
        /\ Cardinality(InUse' \cup Connecting') <= Cardinality(InUse \cup Connecting)
    BY <1>1, SlotsFinite, FS_Subset, FS_CardinalityType
  <1>3. Cardinality(free) \in Nat /\ Cardinality(InUse \cup Connecting) \in Nat
    BY SlotsFinite, IdleFinite
  <1> QED BY <1>2, <1>3, PoolAssumption DEF SlotsInv

-----------------------------------------------------------------------------
(* putconn. *)

\* A connection put back leaves one slot and takes at most one idle place.
LEMMA PutBackKeeps ==
    ASSUME PoolInv, NEW b \in Borrows, used[b] # None, up, PutBack(b),
           UNCHANGED <<future, severed, late, up>>
    PROVE  /\ free' \in SUBSET Conns /\ open' \in SUBSET Conns
           /\ used' \in [Borrows -> Conns \cup {None}]
           /\ ConnsInv' /\ SlotsInv'
  <1> USE DEF PutBack
  <1>1. /\ used' = [used EXCEPT ![b] = None] /\ used \in [Borrows -> Conns \cup {None}]
        /\ used[b] \in Conns /\ b \in InUse /\ LockFree
        /\ free \in SUBSET Conns /\ open \in SUBSET Conns
    BY DEF PoolInv, TypeOK, InUse
  <1>2. InUse' = InUse \ {b}
    BY <1>1 DEF InUse
  <1>3. free' \in SUBSET Conns /\ open' \in SUBSET Conns /\ used' \in [Borrows -> Conns \cup {None}]
    BY <1>1
  <1>4. ConnsInv'
    <2>1. \A a \in InUse' : used'[a] = used[a] /\ a \in InUse /\ used[a] # used[b]
      BY <1>1, <1>2 DEF PoolInv, ConnsInv, InUse
    <2>2. {used'[a] : a \in InUse'} = {used[a] : a \in InUse} \ {used[b]}
      BY <1>1, <1>2, <2>1
    <2>3. used[b] \notin free
      BY <1>1 DEF PoolInv, ConnsInv
    <2>4. up => open' = free' \cup {used'[a] : a \in InUse'}
      BY <2>2, <2>3, <1>1 DEF PoolInv, ConnsInv
    <2> QED BY <2>1, <2>4, <1>1 DEF PoolInv, ConnsInv
  <1>5. SlotsInv'
    <2>1. Connecting = {} /\ Connecting' = {}
      BY <1>1 DEF LockFree, Connecting
    <2>2. Cardinality(InUse') = Cardinality(InUse) - 1 /\ Cardinality(InUse') \in Nat
      BY <1>1, <1>2, SlotsFinite, RemoveOne
    <2>3. Cardinality(free') \in Nat /\ Cardinality(free') <= Cardinality(free) + 1
      <3>1. TypeOK /\ IsFiniteSet(free) /\ Cardinality(free) \in Nat
        BY IdleFinite DEF PoolInv
      <3>2. free' = free \/ free' = free \cup {used[b]}
        OBVIOUS
      <3>3. /\ Cardinality(free \cup {used[b]}) \in Nat
            /\ Cardinality(free \cup {used[b]}) <= Cardinality(free) + 1
        BY <3>1, AddOne
      <3>4. CASE free' = free
        BY <3>1, <3>4
      <3>5. CASE free' = free \cup {used[b]}
        BY <3>3, <3>5
      <3> QED BY <3>2, <3>4, <3>5
    <2>4. InUse \cup Connecting = InUse /\ InUse' \cup Connecting' = InUse'
      BY <2>1
    <2>5. Cardinality(InUse) + Cardinality(free) <= MaxConn
      BY <2>4 DEF PoolInv, SlotsInv
    <2>6. Cardinality(InUse' \cup Connecting') + Cardinality(free') <= MaxConn
      <3>1. MaxConn \in Nat /\ Cardinality(InUse) \in Nat /\ Cardinality(free) \in Nat
        BY IdleFinite, SlotsFinite, PoolAssumption DEF PoolInv
      <3>2. Cardinality(InUse') + Cardinality(free') <= MaxConn
        BY <2>2, <2>3, <2>5, <3>1
      <3> QED BY <2>4, <3>2
    <2> QED BY <2>1, <2>6 DEF SlotsInv
  <1> QED BY <1>3, <1>4, <1>5

-----------------------------------------------------------------------------
(* The steps. *)

\* Steps that move no connection keep the pool's own invariants.
LEMMA ConnsKept ==
    ASSUME ConnsInv, UNCHANGED <<poolVars, up>>
    PROVE  ConnsInv'
  BY DEF ConnsInv, InUse, poolVars

\* So do calls whose own state and connection stay.
LEMMA ControlKept ==
    ASSUME NEW a \in Borrows, Control(a), pc'[a] = pc[a], future'[a] = future[a],
           used'[a] = used[a], a \in late' <=> a \in late, a \in open' => a \in open,
           severed \subseteq severed', up' = up
    PROVE  Control(a)'
  BY DEF Control, Owned

\* The thread of a block moves, and the executor's calls stay where they are.
LEMMA ThreadKeeps ==
    ASSUME PoolInv, NEW b \in Borrows, Thread(b), ~Return(b)
    PROVE  PoolInv'
  <1> USE DEF PoolInv, Goto, Tell, poolVars
  <1>0. /\ pc \in [Borrows -> {"idle", "waiting", "giving up", "using", "returning", "done"}]
        /\ late \in SUBSET Borrows
        /\ answer \in [Borrows -> {"none", "ok", "busy", "error"}]
        /\ Control(b)
    BY DEF TypeOK, ControlInv
  <1>1. UNCHANGED <<future, used, free, open, severed, up>>
    BY DEF Thread, TakeResult, GiveUp, AddCallback, BlockEnds, BlockRaises,
           BlockLosesConnection, RaiseWithoutPut, ReturnFails
  <1>2. PICK to \in {"giving up", "using", "returning", "done"} : pc' = [pc EXCEPT ![b] = to]
    BY DEF Thread, TakeResult, GiveUp, AddCallback, BlockEnds, BlockRaises,
           BlockLosesConnection, RaiseWithoutPut, ReturnFails
  <1>3. late' = late \/ (late' = late \cup {b} /\ to = "done")
    BY <1>0, <1>2 DEF Thread, TakeResult, GiveUp, AddCallback, BlockEnds, BlockRaises,
           BlockLosesConnection, RaiseWithoutPut, ReturnFails
  <1>4. answer' = answer \/ \E what \in {"ok", "busy", "error"} : answer' = [answer EXCEPT ![b] = what]
    BY DEF Thread, TakeResult, GiveUp, AddCallback, BlockEnds, BlockRaises,
           BlockLosesConnection, RaiseWithoutPut, ReturnFails
  <1>5. TypeOK'
    BY <1>0, <1>1, <1>2, <1>3, <1>4 DEF TypeOK
  <1>6. ConnsInv'
    BY <1>1, ConnsKept
  <1>7. SlotsInv'
    BY <1>1, SlotsKept DEF Connecting
  <1>8. Control(b)'
    <2>0. pc'[b] = to /\ up
      BY <1>0, <1>2 DEF Control, Thread, TakeResult, GiveUp, AddCallback, BlockEnds, BlockRaises,
           BlockLosesConnection, RaiseWithoutPut, ReturnFails
    <2>a. up'
      BY <1>1, <2>0
    <2> USE <1>0, <1>1, <2>0, <2>a DEF Control, Owned
    <2>1. CASE TakeResult(b)
      BY <2>1 DEF TakeResult
    <2>2. CASE GiveUp(b)
      BY <2>2 DEF GiveUp
    <2>3. CASE AddCallback(b)
      BY <2>3 DEF AddCallback
    <2>4. CASE BlockEnds(b)
      BY <2>4 DEF BlockEnds
    <2>5. CASE BlockRaises(b)
      BY <2>5 DEF BlockRaises
    <2>6. CASE BlockLosesConnection(b)
      BY <2>6 DEF BlockLosesConnection, RaiseWithoutPut
    <2>7. CASE ReturnFails(b)
      BY <2>7 DEF ReturnFails
    <2> QED BY <2>1, <2>2, <2>3, <2>4, <2>5, <2>6, <2>7 DEF Thread
  <1>9. ASSUME NEW a \in Borrows, a # b PROVE Control(a)'
    <2>1. Control(a)
      BY DEF ControlInv
    <2> QED BY <1>0, <1>1, <1>2, <1>3, <1>9, <2>1, ControlKept
  <1> QED BY <1>5, <1>6, <1>7, <1>8, <1>9 DEF ControlInv

\* A connection is put back by its block or by its callback.
LEMMA ReturnsKeep ==
    ASSUME PoolInv, NEW b \in Borrows, Return(b) \/ ReturnLate(b)
    PROVE  PoolInv'
  <1>1. used[b] # None /\ up /\ PutBack(b) /\ UNCHANGED <<future, severed, late, up, answer>>
    BY DEF PoolInv, ControlInv, Control, Return, ReturnLate, LatePending
  <1>2. /\ free' \in SUBSET Conns /\ open' \in SUBSET Conns
        /\ used' \in [Borrows -> Conns \cup {None}] /\ ConnsInv' /\ SlotsInv'
    BY <1>1, PutBackKeeps
  <1>3. /\ pc' = [pc EXCEPT ![b] = "done"] \/ (pc' = pc /\ b \in late)
        /\ pc[b] \in {"returning", "done"}
    BY DEF PoolInv, ControlInv, Control, Return, ReturnLate, LatePending, Goto
  <1>4. TypeOK'
    BY <1>1, <1>2, <1>3 DEF PoolInv, TypeOK
  <1>5. used' = [used EXCEPT ![b] = None]
    BY <1>1 DEF PutBack
  <1>6. open' \subseteq open
    BY <1>1 DEF PutBack
  <1>7. Control(b)'
    BY <1>1, <1>3, <1>5, <1>6 DEF PoolInv, TypeOK, ControlInv, Control, Owned
  <1>8. ASSUME NEW a \in Borrows, a # b PROVE Control(a)'
    <2>1. Control(a) /\ pc \in [Borrows -> {"idle", "waiting", "giving up", "using", "returning", "done"}]
          /\ used \in [Borrows -> Conns \cup {None}]
      BY DEF PoolInv, TypeOK, ControlInv
    <2> QED BY <1>1, <1>3, <1>5, <1>6, <1>8, <2>1, ControlKept
  <1> QED BY <1>2, <1>4, <1>7, <1>8 DEF PoolInv, ControlInv

\* A call gets an idle connection, or starts to make one, or neither.
LEMMA GetConnKeeps ==
    ASSUME PoolInv, NEW b \in Borrows, GetConn(b)
    PROVE  PoolInv'
  <1> USE DEF PoolInv, Resolve, poolVars
  <1>1. /\ future[b] = "running" /\ used[b] = None /\ Connecting = {}
        /\ UNCHANGED <<pc, severed, late, up, answer, open>>
    BY DEF GetConn, ControlInv, Control, LockFree
  <1>a. /\ future \in [Borrows -> {"none", "queued", "running", "connecting", "got",
                                    "exhausted", "failed", "cancelled"}]
        /\ used \in [Borrows -> Conns \cup {None}]
        /\ \A a \in Borrows : Control(a)
    BY DEF TypeOK, ControlInv
  <1>2. CASE future' = [future EXCEPT ![b] = "exhausted"] /\ UNCHANGED poolVars
    <2>1. TypeOK'
      BY <1>1, <1>2 DEF TypeOK
    <2>2. ConnsInv'
      BY <1>1, <1>2, ConnsKept
    <2>3. Connecting' \subseteq Connecting
      BY <1>2 DEF Connecting, TypeOK
    <2>4. SlotsInv'
      BY <1>1, <1>2, <2>3, SlotsKept
    <2>5. ControlInv'
      <3>1. Control(b)'
        BY <1>1, <1>a, <1>2 DEF Control, Owned
      <3>2. ASSUME NEW a \in Borrows, a # b PROVE Control(a)'
        BY <1>1, <1>a, <1>2, <3>2, ControlKept
      <3> QED BY <3>1, <3>2 DEF ControlInv
    <2> QED BY <2>1, <2>2, <2>4, <2>5
  <1>3. ASSUME NEW c \in free, up, used' = [used EXCEPT ![b] = c], free' = free \ {c},
               future' = [future EXCEPT ![b] = "got"]
        PROVE  PoolInv'
    <2> c \in Conns /\ c # None
      BY <1>3, PoolAssumption DEF TypeOK, Conns
    <2>1. TypeOK'
      BY <1>1, <1>3 DEF TypeOK
    <2>2. InUse' = InUse \cup {b}
      BY <1>3 DEF InUse, TypeOK
    <2>3. ConnsInv'
      <3>1. \A a \in InUse : used'[a] = used[a] /\ a # b /\ used[a] # c
        BY <1>1, <1>3 DEF InUse, TypeOK, ConnsInv
      <3>2. used'[b] = c
        BY <1>3 DEF TypeOK
      <3>3. {used'[a] : a \in InUse'} = {used[a] : a \in InUse} \cup {c}
        BY <2>2, <3>1, <3>2
      <3> QED BY <1>1, <1>3, <2>2, <3>1, <3>2, <3>3 DEF ConnsInv
    <2>4. SlotsInv'
      <3>1. Connecting' = {}
        BY <1>1, <1>3 DEF Connecting, TypeOK
      <3>2. InUse \cup Connecting = InUse /\ InUse' \cup Connecting' = InUse \cup {b}
        BY <1>1, <2>2, <3>1
      <3>3. /\ Cardinality(InUse \cup {b}) \in Nat
            /\ Cardinality(InUse \cup {b}) <= Cardinality(InUse) + 1
        BY SlotsFinite, AddOne
      <3>4. Cardinality(free \ {c}) \in Nat /\ Cardinality(free \ {c}) = Cardinality(free) - 1
        BY <1>3, IdleFinite, RemoveOne
      <3>5. Cardinality(InUse) + Cardinality(free) <= MaxConn
        BY <3>2 DEF SlotsInv
      <3>6. Cardinality(InUse \cup {b}) + Cardinality(free \ {c}) <= MaxConn
        BY <3>3, <3>4, <3>5, SlotsFinite, IdleFinite, PoolAssumption
      <3>7. Cardinality(InUse' \cup Connecting') + Cardinality(free') <= MaxConn
        BY <1>3, <3>2, <3>6
      <3> QED BY <3>1, <3>7 DEF SlotsInv
    <2>5. ControlInv'
      <3>0. Control(b) /\ up /\ up'
        BY <1>1, <1>a, <1>3
      <3>1. Control(b)'
        BY <1>1, <1>a, <1>3, <3>0 DEF Control, Owned
      <3>2. ASSUME NEW a \in Borrows, a # b PROVE Control(a)'
        BY <1>1, <1>a, <1>3, <3>2, ControlKept
      <3> QED BY <3>1, <3>2 DEF ControlInv
    <2> QED BY <2>1, <2>3, <2>4, <2>5
  <1>4. CASE /\ up /\ free = {} /\ Cardinality(InUse) < MaxConn
             /\ future' = [future EXCEPT ![b] = "connecting"] /\ UNCHANGED poolVars
    <2>1. TypeOK'
      BY <1>1, <1>4 DEF TypeOK
    <2>2. ConnsInv'
      BY <1>1, <1>4, ConnsKept
    <2>3. SlotsInv'
      <3>1. Connecting' = {b} /\ InUse' = InUse
        BY <1>1, <1>4 DEF Connecting, InUse, TypeOK
      <3>2. /\ Cardinality(InUse \cup {b}) \in Nat
            /\ Cardinality(InUse \cup {b}) <= Cardinality(InUse) + 1
        BY SlotsFinite, AddOne
      <3>3. Cardinality(InUse \cup {b}) + 0 <= MaxConn
        BY <1>4, <3>2, SlotsFinite, PoolAssumption
      <3>4. Cardinality({}) = 0
        BY FS_EmptySet
      <3>5. free' = {} /\ Cardinality(InUse' \cup Connecting') + Cardinality(free') <= MaxConn
        BY <1>4, <3>1, <3>3, <3>4
      <3> QED BY <1>1, <1>4, <3>1, <3>5 DEF SlotsInv
    <2>4. ControlInv'
      <3>1. Control(b)'
        BY <1>1, <1>a, <1>4 DEF Control, Owned
      <3>2. ASSUME NEW a \in Borrows, a # b PROVE Control(a)'
        BY <1>1, <1>a, <1>4, <3>2, ControlKept
      <3> QED BY <3>1, <3>2 DEF ControlInv
    <2> QED BY <2>1, <2>2, <2>3, <2>4
  <1> QED BY <1>1, <1>2, <1>3, <1>4 DEF GetConn

\* A new connection takes the slot that was counted for it.
LEMMA ConnectedKeeps ==
    ASSUME PoolInv, NEW b \in Borrows, Connected(b)
    PROVE  PoolInv'
  <1> USE DEF PoolInv, Resolve
  <1>1. /\ future[b] = "connecting" /\ used[b] = None /\ up /\ b \notin open
        /\ future' = [future EXCEPT ![b] = "got"] /\ used' = [used EXCEPT ![b] = b]
        /\ open' = open \cup {b}
        /\ UNCHANGED <<pc, free, severed, late, up, answer>>
    BY DEF Connected, ControlInv, Control, SlotsInv, Connecting
  <1>2. /\ future \in [Borrows -> {"none", "queued", "running", "connecting", "got",
                                    "exhausted", "failed", "cancelled"}]
        /\ used \in [Borrows -> Conns \cup {None}]
        /\ b \in Conns /\ b # None
        /\ \A a \in Borrows : Control(a)
    BY PoolAssumption DEF TypeOK, ControlInv, Conns
  <1>3. TypeOK'
    BY <1>1, <1>2 DEF TypeOK
  <1>4. InUse' = InUse \cup {b}
    BY <1>1, <1>2 DEF InUse
  <1>5. ConnsInv'
    <2>1. b \notin free /\ open = free \cup {used[a] : a \in InUse}
      BY <1>1 DEF ConnsInv
    <2>2. \A a \in InUse : used'[a] = used[a] /\ a # b /\ used[a] # b
      BY <1>1, <1>2, <2>1 DEF InUse
    <2>3. used'[b] = b
      BY <1>1, <1>2
    <2>4. {used'[a] : a \in InUse'} = {used[a] : a \in InUse} \cup {b}
      BY <1>4, <2>2, <2>3
    <2> QED BY <1>1, <1>4, <2>1, <2>2, <2>3, <2>4 DEF ConnsInv
  <1>6. SlotsInv'
    <2>1. Connecting = {b} /\ Connecting' = {}
      BY <1>1, <1>2 DEF SlotsInv, Connecting
    <2>2. InUse' \cup Connecting' = InUse \cup Connecting
      BY <1>4, <2>1
    <2> QED BY <1>1, <2>1, <2>2 DEF SlotsInv
  <1>7. Control(b)'
    <2>1. Control(b) /\ up'
      BY <1>1, <1>2
    <2> QED BY <1>1, <1>2, <2>1 DEF Control, Owned
  <1>8. ASSUME NEW a \in Borrows, a # b PROVE Control(a)'
    BY <1>1, <1>2, <1>8, ControlKept
  <1> QED BY <1>3, <1>5, <1>6, <1>7, <1>8 DEF ControlInv

\* A request enters, a worker takes its call, or no connection can be made.
LEMMA CallsKeep ==
    ASSUME PoolInv, NEW b \in Borrows, Enter(b) \/ TakeTask(b) \/ ConnectFails(b)
    PROVE  PoolInv'
  <1> USE DEF PoolInv, Goto, Resolve, poolVars
  <1>0. /\ pc \in [Borrows -> {"idle", "waiting", "giving up", "using", "returning", "done"}]
        /\ future \in [Borrows -> {"none", "queued", "running", "connecting", "got",
                                    "exhausted", "failed", "cancelled"}]
        /\ \A a \in Borrows : Control(a)
    BY DEF TypeOK, ControlInv
  <1>1. UNCHANGED <<used, free, open, severed, late, up, answer>>
    BY DEF Enter, TakeTask, ConnectFails
  <1>2. PICK to \in {"queued", "running", "failed"} :
            /\ future' = [future EXCEPT ![b] = to]
            /\ \/ pc[b] = "idle" /\ up /\ to = "queued" /\ pc' = [pc EXCEPT ![b] = "waiting"]
               \/ future[b] \in {"queued", "connecting"} /\ pc' = pc
    BY DEF Enter, TakeTask, ConnectFails
  <1>3. TypeOK'
    BY <1>1, <1>2 DEF TypeOK
  <1>4. ConnsInv'
    BY <1>1, ConnsKept
  <1>5. Connecting' \subseteq Connecting
    BY <1>0, <1>2 DEF Connecting
  <1>6. SlotsInv'
    BY <1>1, <1>5, SlotsKept
  <1>7. Control(b)'
    <2>1. pc[b] = "idle" \/ future[b] \in {"queued", "connecting"}
      BY <1>2
    <2>2. Control(b) /\ (up => up')
      BY <1>0, <1>1
    <2> QED BY <1>0, <1>1, <1>2, <2>1, <2>2 DEF Control, Owned
  <1>8. ASSUME NEW a \in Borrows, a # b PROVE Control(a)'
    BY <1>0, <1>1, <1>2, <1>8, ControlKept
  <1> QED BY <1>3, <1>4, <1>6, <1>7, <1>8 DEF ControlInv

LEMMA ShutdownKeeps == ASSUME PoolInv, Shutdown PROVE PoolInv'
  <1> USE DEF PoolInv
  <1>0. /\ \A b \in Borrows : future'[b] = IF future[b] = "queued" THEN "cancelled" ELSE future[b]
        /\ \A b \in Borrows : pc[b] \in {"idle", "done"}
        /\ open' = {} /\ free' = {} /\ up' = FALSE /\ Connecting = {}
        /\ UNCHANGED <<pc, used, severed, late, answer>>
    BY DEF Shutdown, LockFree
  <1>1. TypeOK'
    BY <1>0 DEF TypeOK, Shutdown
  <1>2. ConnsInv'
    BY <1>0 DEF ConnsInv, InUse
  <1>3. SlotsInv'
    <2>1. InUse' = InUse /\ Connecting' = {}
      BY <1>0 DEF InUse, Connecting
    <2>2. InUse' \cup Connecting' = InUse \cup Connecting
      BY <1>0, <2>1
    <2>3. Cardinality({}) = 0
      BY FS_EmptySet
    <2>4. Cardinality(InUse \cup Connecting) + 0 <= MaxConn
      BY SlotsFinite, IdleFinite, PoolAssumption DEF SlotsInv
    <2> QED BY <1>0, <2>1, <2>2, <2>3, <2>4 DEF SlotsInv
  <1>4. ControlInv'
    BY <1>0 DEF ControlInv, Control, Owned
  <1> QED BY <1>1, <1>2, <1>3, <1>4

LEMMA SeverKeeps == ASSUME PoolInv, Sever PROVE PoolInv'
  <1> USE DEF PoolInv
  <1>1. /\ severed \subseteq severed' /\ severed' \in SUBSET Conns
        /\ UNCHANGED <<pc, future, used, free, open, late, up, answer>>
    BY DEF Sever, TypeOK, poolVars
  <1>2. TypeOK'
    BY <1>1 DEF TypeOK
  <1>3. ConnsInv' /\ SlotsInv'
    BY <1>1, ConnsKept, SlotsKept DEF Connecting, poolVars
  <1>4. ControlInv'
    BY <1>1, ControlKept DEF ControlInv
  <1> QED BY <1>2, <1>3, <1>4

-----------------------------------------------------------------------------
(* The theorems. *)

LEMMA PoolInit == Init => PoolInv
  <1> SUFFICES ASSUME Init PROVE PoolInv
    OBVIOUS
  <1>1. InUse = {} /\ Connecting = {} /\ free = {First}
    BY DEF Init, InUse, Connecting
  <1>2. Cardinality({}) = 0 /\ Cardinality({First}) = 1
    BY FS_EmptySet, FS_Singleton
  <1>3. SlotsInv
    BY <1>1, <1>2, PoolAssumption DEF SlotsInv
  <1>4. ConnsInv
    BY <1>1 DEF ConnsInv, Init
  <1>5. TypeOK
    BY PoolAssumption DEF Init, TypeOK, Conns
  <1>6. ControlInv
    BY PoolAssumption DEF Init, ControlInv, Control
  <1> QED BY <1>3, <1>4, <1>5, <1>6 DEF PoolInv

LEMMA PoolNext == PoolInv /\ [Next]_vars => PoolInv'
  <1> SUFFICES ASSUME PoolInv, [Next]_vars PROVE PoolInv'
    OBVIOUS
  <1>1. CASE UNCHANGED vars
    BY <1>1, ConnsKept, SlotsKept, ControlKept
       DEF vars, poolVars, PoolInv, TypeOK, ControlInv, Connecting
  <1>2. ASSUME NEW b \in Borrows, Enter(b) \/ Thread(b) \/ Worker(b) \/ Connect(b) PROVE PoolInv'
    <2>1. CASE Enter(b) \/ TakeTask(b) \/ ConnectFails(b)
      BY <2>1, CallsKeep
    <2>2. CASE Return(b) \/ ReturnLate(b)
      BY <2>2, ReturnsKeep
    <2>3. CASE Thread(b) /\ ~Return(b)
      BY <2>3, ThreadKeeps
    <2>4. CASE GetConn(b)
      BY <2>4, GetConnKeeps
    <2>5. CASE Connected(b)
      BY <2>5, ConnectedKeeps
    <2> QED BY <1>2, <2>1, <2>2, <2>3, <2>4, <2>5 DEF Worker, Connect
  <1>3. CASE Shutdown
    BY <1>3, ShutdownKeeps
  <1>4. CASE Sever
    BY <1>4, SeverKeeps
  <1> QED BY <1>1, <1>2, <1>3, <1>4 DEF Next, Ended

\* Whatever times out, arrives late, breaks or is put back, in any order: at
\* most MaxConn connections, each with one owner.
THEOREM PoolInvariant == Safety => []PoolInv
  BY PoolInit, PoolNext, PTL DEF Safety

\* The blocks of two requests never work on one connection.
THEOREM BlocksApart == Safety => []NotShared
  <1>1. PoolInv => NotShared
    <2> SUFFICES ASSUME PoolInv, NEW b \in Borrows, pc[b] = "using"
                 PROVE  used[b] \in Conns \ free /\ \A a \in Borrows \ {b} : used[a] # used[b]
      BY DEF NotShared
    <2>1. b \in InUse
      BY DEF PoolInv, ControlInv, Control, InUse
    <2>2. used[b] \in Conns \ free
      <3>1. used[b] # None /\ used[b] \in Conns \cup {None}
        BY <2>1 DEF PoolInv, TypeOK, InUse
      <3> QED BY <2>1, <3>1 DEF PoolInv, ConnsInv
    <2>3. \A a \in Borrows \ {b} : used[a] # used[b]
      BY <2>1 DEF PoolInv, ConnsInv, InUse
    <2> QED BY <2>2, <2>3
  <1> QED BY <1>1, PoolInvariant, PTL

\* A slot is lost only with a connection the server has closed.
THEOREM SlotsLostWithConnections == Safety => []LostOnlyWhenSevered
  <1>1. PoolInv => LostOnlyWhenSevered
    BY DEF PoolInv, ControlInv, Control, Owned, LostOnlyWhenSevered, InUse
  <1> QED BY <1>1, PoolInvariant, PTL

\* close_pool leaves no connection open.
THEOREM ShutdownCloses == Safety => []NoneOpenAfterShutdown
  <1>1. PoolInv => NoneOpenAfterShutdown
    BY DEF PoolInv, ConnsInv, NoneOpenAfterShutdown
  <1> QED BY <1>1, PoolInvariant, PTL

-----------------------------------------------------------------------------
(* The limiter: sequences of times. *)

\* A set of numbers has a least one.
LEMMA LeastNat ==
    ASSUME NEW S, S \subseteq Nat, S # {}
    PROVE  Min(S) \in S /\ \A y \in S : Min(S) <= y
  <1> DEFINE R == OpToRel(<, Nat)
  <1>1. IsWellFoundedOn(R, Nat)
    BY NatLessThanWellFounded
  <1> HIDE DEF R
  <1>2. PICK x \in S : \A y \in S : ~ (<<y, x>> \in R)
    BY <1>1, WFMin
  <1> USE DEF R
  <1>3. \A y \in S : ~ (y < x)
    BY <1>2 DEF OpToRel
  <1>4. \A y \in S : x <= y
    BY <1>3
  <1> QED BY <1>4 DEF Min

Ordered(s) == \A i, j \in 1 .. Len(s) : i <= j => s[i] <= s[j]

\* Of an ordered sequence, the hits that have expired are its first ones.
LEMMA ExpiredAre ==
    ASSUME NEW s \in Seq(Nat), NEW m \in Nat, Ordered(s)
    PROVE  /\ Expired(s, m) \in 0 .. Len(s)
           /\ \A i \in 1 .. Len(s) : i <= Expired(s, m) <=> s[i] + Window <= m
  <1> DEFINE S == {n \in 0 .. Len(s) : n < Len(s) => s[n + 1] + Window > m}
             c == Expired(s, m)
  <1>1. Len(s) \in Nat /\ Window \in Nat /\ \A i \in 1 .. Len(s) : s[i] \in Nat
    BY LimiterAssumption, LenProperties, ElementOfSeq
  <1>2. S \subseteq Nat /\ Len(s) \in S
    BY <1>1
  <1>3. c \in S /\ \A y \in S : c <= y
    BY <1>2, LeastNat DEF Expired
  <1> HIDE DEF c
  <1>4. ASSUME NEW i \in 1 .. Len(s), i <= c PROVE s[i] + Window <= m
    <2>1. i - 1 \in 0 .. Len(s) /\ i - 1 < Len(s) /\ ~(c <= i - 1)
      BY <1>1, <1>3, <1>4
    <2>2. i - 1 \notin S
      BY <1>3, <2>1
    <2>3. ~(s[i - 1 + 1] + Window > m)
      BY <2>1, <2>2
    <2>4. i - 1 + 1 = i /\ s[i] \in Nat
      BY <1>1
    <2> QED BY <1>1, <2>3, <2>4
  <1>5. ASSUME NEW i \in 1 .. Len(s), ~(i <= c) PROVE s[i] + Window > m
    <2>1. c + 1 \in 1 .. Len(s) /\ c + 1 <= i /\ c < Len(s)
      BY <1>1, <1>3, <1>5
    <2>2. s[c + 1] + Window > m
      BY <1>3, <2>1
    <2>3. s[c + 1] <= s[i] /\ s[c + 1] \in Nat /\ s[i] \in Nat
      BY <1>1, <2>1 DEF Ordered
    <2> QED BY <1>1, <2>2, <2>3
  <1>6. \A i \in 1 .. Len(s) : i <= c <=> s[i] + Window <= m
    BY <1>1, <1>4, <1>5
  <1>7. c \in 0 .. Len(s)
    BY <1>3
  <1> QED BY <1>6, <1>7 DEF c

\* Second and its multiples: what Retry-After promises is late enough.
LEMMA SecondsEnough ==
    ASSUME NEW t \in Nat
    PROVE  Seconds(t) \in Nat /\ Second * Seconds(t) >= t
  <1>1. Second \in Nat \ {0}
    BY LimiterAssumption
  <1> DEFINE d == (t + Second - 1) \div Second
             m == (t + Second - 1) % Second
  <1>2. t + Second - 1 \in Nat
    BY <1>1
  <1>3. d \in Nat /\ m \in 0 .. Second - 1 /\ t + Second - 1 = Second * d + m
    BY <1>1, <1>2
  <1> QED BY <1>1, <1>3 DEF Seconds

\* What is left of an ordered sequence is its end: the hits in the window.
LEMMA RecentIs ==
    ASSUME NEW T \in SUBSET Nat, NEW s \in Seq(T), NEW m \in Nat, Ordered(s)
    PROVE  /\ Recent(s, m) \in Seq(T)
           /\ Expired(s, m) \in 0 .. Len(s)
           /\ Len(Recent(s, m)) = Len(s) - Expired(s, m)
           /\ \A i \in 1 .. Len(Recent(s, m)) : Recent(s, m)[i] = s[Expired(s, m) + i]
           /\ \A i \in 1 .. Len(Recent(s, m)) : Recent(s, m)[i] + Window > m
           /\ \A i \in 1 .. Expired(s, m) : s[i] + Window <= m
           /\ Ordered(Recent(s, m))
  <1> DEFINE c == Expired(s, m)
             r == Recent(s, m)
  <1>1. Len(s) \in Nat /\ Window \in Nat /\ \A i \in 1 .. Len(s) : s[i] \in T /\ s[i] \in Nat
    BY LimiterAssumption, LenProperties, ElementOfSeq
  <1>2. s \in Seq(Nat)
    BY SeqMonotonic
  <1>3. c \in 0 .. Len(s) /\ \A i \in 1 .. Len(s) : i <= c <=> s[i] + Window <= m
    BY <1>2, ExpiredAre
  <1>4. r = SubSeq(s, c + 1, Len(s))
    BY DEF Recent
  <1> HIDE DEF c, r
  <1>5. c + 1 \in Int /\ Len(s) \in Int /\ \A i \in c + 1 .. Len(s) : s[i] \in T
    BY <1>1, <1>3
  <1>6. /\ r \in Seq(T)
        /\ Len(r) = IF c + 1 <= Len(s) THEN Len(s) - (c + 1) + 1 ELSE 0
        /\ \A i \in 1 .. Len(s) - (c + 1) + 1 : r[i] = s[c + 1 + i - 1]
    BY <1>4, <1>5, SubSeqProperties
  <1>7. Len(r) = Len(s) - c
    BY <1>1, <1>3, <1>6
  <1>8. \A i \in 1 .. Len(r) : c + i \in 1 .. Len(s) /\ r[i] = s[c + i] /\ ~(c + i <= c)
    BY <1>1, <1>3, <1>6, <1>7
  <1>9. \A i \in 1 .. Len(r) : r[i] + Window > m
    BY <1>1, <1>3, <1>8
  <1>10. \A i \in 1 .. c : s[i] + Window <= m
    BY <1>1, <1>3
  <1>11. Ordered(r)
    <2>1. ASSUME NEW i \in 1 .. Len(r), NEW j \in 1 .. Len(r), i <= j PROVE r[i] <= r[j]
      <3>1. c + i <= c + j
        BY <1>3, <1>7, <2>1
      <3> QED BY <1>8, <3>1 DEF Ordered
    <2> QED BY <2>1 DEF Ordered
  <1> QED BY <1>3, <1>6, <1>7, <1>8, <1>9, <1>10, <1>11 DEF c, r

\* Of no hits none are left.
LEMMA RecentOfNothing ==
    ASSUME NEW m \in Nat
    PROVE  Len(Recent(<<>>, m)) = 0
  <1>1. <<>> \in Seq(Nat) /\ Len(<<>>) = 0 /\ Nat \in SUBSET Nat
    BY EmptySeq
  <1>2. Ordered(<<>>)
    BY <1>1 DEF Ordered
  <1>3. Expired(<<>>, m) \in 0 .. 0 /\ Len(Recent(<<>>, m)) = 0 - Expired(<<>>, m)
    BY <1>1, <1>2, RecentIs
  <1> QED BY <1>3

-----------------------------------------------------------------------------
(* Hits that a bucket no longer knows of. *)

\* t is the end of s: the first Lost(s, t) of s are not in t.
Lost(s, t) == Len(s) - Len(t)

EndOf(s, t) ==
    /\ Len(t) <= Len(s)
    /\ \A i \in 1 .. Len(t) : t[i] = s[Lost(s, t) + i]

\* What is lost of the hits still in the window was lost before.
LEMMA RecentEnd ==
    ASSUME NEW s \in Seq(Nat), NEW t \in Seq(Nat), NEW m \in Nat, Ordered(s), Ordered(t),
           EndOf(s, t)
    PROVE  /\ EndOf(Recent(s, m), Recent(t, m))
           /\ \A i \in 1 .. Lost(Recent(s, m), Recent(t, m)) :
                 \E j \in 1 .. Lost(s, t) : Recent(s, m)[i] = s[j]
  <1> DEFINE c == Expired(s, m)
             d == Expired(t, m)
             r == Recent(s, m)
             q == Recent(t, m)
             l == Lost(s, t)
  <1>0. Nat \in SUBSET Nat
    OBVIOUS
  <1>1. /\ Len(s) \in Nat /\ Len(t) \in Nat /\ l \in Nat /\ l = Len(s) - Len(t)
        /\ \A i \in 1 .. Len(t) : t[i] = s[l + i]
    BY LenProperties DEF EndOf, Lost
  <1>2. /\ c \in 0 .. Len(s) /\ Len(r) = Len(s) - c /\ \A i \in 1 .. Len(r) : r[i] = s[c + i]
        /\ d \in 0 .. Len(t) /\ Len(q) = Len(t) - d /\ \A i \in 1 .. Len(q) : q[i] = t[d + i]
    BY <1>0, RecentIs
  <1>3. /\ \A i \in 1 .. Len(s) : i <= c <=> s[i] + Window <= m
        /\ \A i \in 1 .. Len(t) : i <= d <=> t[i] + Window <= m
    BY ExpiredAre
  <1> HIDE DEF c, d, r, q, l
  <1>4. \A i \in 1 .. Len(t) : l + i \in 1 .. Len(s) /\ (i <= d <=> l + i <= c)
    <2>1. \A i \in 1 .. Len(t) : l + i \in 1 .. Len(s)
      BY <1>1
    <2> QED BY <1>1, <1>3, <2>1
  <1>5. d = IF c <= l THEN 0 ELSE c - l
    <2>1. CASE c <= l
      <3>1. d > 0 => d \in 1 .. Len(t) /\ d <= d
        BY <1>2
      <3>2. d > 0 => l + d <= c
        BY <1>4, <3>1
      <3> QED BY <1>1, <1>2, <2>1, <3>2
    <2>2. CASE ~(c <= l)
      <3>1. c - l \in 1 .. Len(t)
        BY <1>1, <1>2, <2>2
      <3>2. l + (c - l) <= c
        BY <1>1, <1>2
      <3>3. c - l <= d
        BY <1>4, <3>1, <3>2
      <3>4. d \in 1 .. Len(t)
        BY <1>1, <1>2, <3>1, <3>3
      <3>5. l + d <= c
        <4>1. d <= d
          BY <1>2
        <4> QED BY <1>4, <3>4, <4>1
      <3>6. d <= c - l
        BY <1>1, <1>2, <3>5
      <3>7. c \in Int /\ l \in Int /\ d \in Int
        BY <1>1, <1>2
      <3>8. d = c - l
        BY <3>3, <3>6, <3>7
      <3> QED BY <2>2, <3>8
    <2> QED BY <2>1, <2>2
  <1>6. EndOf(r, q)
    <2>1. Len(q) <= Len(r) /\ Lost(r, q) = l + d - c
      BY <1>1, <1>2, <1>5 DEF Lost
    <2>2. ASSUME NEW i \in 1 .. Len(q) PROVE q[i] = r[Lost(r, q) + i]
      <3>1. l + d - c + i \in 1 .. Len(r) /\ d + i \in 1 .. Len(t)
        BY <1>1, <1>2, <1>5, <2>1
      <3>2. q[i] = s[l + (d + i)]
        BY <1>1, <1>2, <3>1
      <3>3. r[l + d - c + i] = s[c + (l + d - c + i)]
        BY <1>2, <3>1
      <3>4. l + (d + i) = c + (l + d - c + i)
        BY <1>1, <1>2
      <3> QED BY <2>1, <3>2, <3>3, <3>4
    <2> QED BY <2>1, <2>2 DEF EndOf
  <1>7. ASSUME NEW i \in 1 .. Lost(r, q) PROVE \E j \in 1 .. l : r[i] = s[j]
    <2>1. Lost(r, q) = l + d - c
      BY <1>1, <1>2 DEF Lost
    <2>2. c + i \in 1 .. l /\ i \in 1 .. Len(r)
      BY <1>1, <1>2, <1>5, <1>7, <2>1
    <2> QED BY <1>2, <2>2
  <1> QED BY <1>6, <1>7 DEF c, d, r, q, l

\* Hits that have expired at a moment have expired at any later one.
LEMMA RecentTwice ==
    ASSUME NEW s \in Seq(Nat), NEW m \in Nat, NEW n \in Nat, m <= n, Ordered(s)
    PROVE  Recent(Recent(s, m), n) = Recent(s, n)
  <1> DEFINE r == Recent(s, m)
             c == Expired(s, m)
             e == Expired(s, n)
             d == Expired(r, n)
             q == Recent(r, n)
             p == Recent(s, n)
  <1>0. Nat \in SUBSET Nat /\ Window \in Nat
    BY LimiterAssumption
  <1>1. /\ Len(s) \in Nat /\ \A i \in 1 .. Len(s) : s[i] \in Nat
    BY LenProperties, ElementOfSeq
  <1>2. /\ r \in Seq(Nat) /\ Ordered(r) /\ c \in 0 .. Len(s) /\ Len(r) = Len(s) - c
        /\ \A i \in 1 .. Len(r) : r[i] = s[c + i]
        /\ p \in Seq(Nat) /\ e \in 0 .. Len(s) /\ Len(p) = Len(s) - e
        /\ \A i \in 1 .. Len(p) : p[i] = s[e + i]
    BY <1>0, RecentIs
  <1> HIDE DEF r, c, e, p
  <1>3. /\ q \in Seq(Nat) /\ d \in 0 .. Len(r) /\ Len(q) = Len(r) - d
        /\ \A i \in 1 .. Len(q) : q[i] = r[d + i]
    BY <1>0, <1>2, RecentIs
  <1>4. /\ \A i \in 1 .. Len(s) : i <= c <=> s[i] + Window <= m
        /\ \A i \in 1 .. Len(s) : i <= e <=> s[i] + Window <= n
        /\ \A i \in 1 .. Len(r) : i <= d <=> r[i] + Window <= n
    BY <1>2, ExpiredAre DEF c, e
  <1> HIDE DEF d, q
  <1>5. c <= e
    <2>1. c > 0 => c \in 1 .. Len(s) /\ s[c] + Window <= n
      BY <1>0, <1>1, <1>2, <1>4
    <2> QED BY <1>1, <1>2, <1>4, <2>1
  <1>6. \A i \in 1 .. Len(r) : c + i \in 1 .. Len(s) /\ (i <= d <=> c + i <= e)
    <2>1. \A i \in 1 .. Len(r) : c + i \in 1 .. Len(s)
      BY <1>1, <1>2
    <2> QED BY <1>2, <1>4, <2>1
  <1>7. d = e - c
    <2>1. d > 0 => c + d <= e
      <3>1. d > 0 => d \in 1 .. Len(r) /\ d <= d
        BY <1>3
      <3> QED BY <1>6, <3>1
    <2>2. e > c => e - c <= d
      <3>1. e > c => e - c \in 1 .. Len(r) /\ c + (e - c) <= e
        BY <1>1, <1>2
      <3> QED BY <1>6, <3>1
    <2>3. c \in Int /\ d \in Nat /\ e \in Int /\ c <= e
      BY <1>2, <1>3, <1>5
    <2>4. d <= e - c
      BY <2>1, <2>3
    <2>5. e - c <= d
      BY <2>2, <2>3
    <2> QED BY <2>3, <2>4, <2>5
  <1>8. Len(q) = Len(p) /\ \A i \in 1 .. Len(q) : q[i] = p[i]
    <2>1. Len(q) = Len(p)
      BY <1>1, <1>2, <1>3, <1>7
    <2>2. ASSUME NEW i \in 1 .. Len(q) PROVE q[i] = p[i]
      <3>1. d + i \in 1 .. Len(r) /\ i \in 1 .. Len(p) /\ c + (d + i) = e + i
        BY <1>1, <1>2, <1>3, <1>7, <2>1
      <3>2. q[i] = r[d + i] /\ r[d + i] = s[c + (d + i)] /\ p[i] = s[e + i]
        BY <1>2, <1>3, <3>1
      <3> QED BY <3>1, <3>2
    <2> QED BY <2>1, <2>2
  <1> QED BY <1>2, <1>3, <1>8, SeqEqual DEF q, p, r, d, e, c

-----------------------------------------------------------------------------
(* The inductive invariant. *)

\* The keys seen at a moment or later are more than the limiter tracks.
SeenSince(t) == {j \in Keys : seen[j] # Never /\ seen[j] >= t}
Crowded(t) == Cardinality(SeenSince(t)) > MaxTracked

\* A bucket is in the table once, and the table is in the order of last use.
TableInv ==
    /\ Len(order) <= MaxTracked
    /\ \A i, j \in 1 .. Len(order) : order[i] = order[j] => i = j
    /\ \A k \in Keys : hits[k] # <<>> <=> \E i \in 1 .. Len(order) : order[i] = k
    /\ \A i, j \in 1 .. Len(order) : i <= j => seen[order[i]] <= seen[order[j]]

\* Times are kept in order, and none is later than the key's last request.
TimesInv(k) ==
    /\ Ordered(hits[k]) /\ Ordered(granted[k])
    /\ \A i \in 1 .. Len(hits[k]) : seen[k] # Never /\ hits[k][i] <= seen[k]
    /\ \A i \in 1 .. Len(granted[k]) : seen[k] # Never /\ granted[k][i] <= seen[k]
    /\ \A i \in 1 .. Len(granted[k]) : granted[k][i] + Window > now
    /\ seen[k] # Never => seen[k] <= now

\* The admissions of the window that a key's bucket does not have.
Forgotten(k) == {granted[k][i] : i \in 1 .. Lost(granted[k], Bucket(k))}

\* The bucket has the last of a key's admissions; those it has lost were lost to
\* an eviction, for which as many other keys as are tracked had to come.
BucketInv(k) ==
    /\ Len(hits[k]) <= Budget[k]
    /\ EndOf(granted[k], Bucket(k))
    /\ \A t \in Forgotten(k) : Crowded(t)

\* Who is told to come back is told when the first hit has left the window.
ToldInv(k) == told[k] # Never /\ hits[k] # <<>> => hits[k][1] + Window <= told[k]

LimiterInv ==
    /\ LimiterTypeOK /\ TableInv
    /\ \A k \in Keys : TimesInv(k) /\ BucketInv(k) /\ ToldInv(k)

-----------------------------------------------------------------------------
(* The table. *)

Distinct(s) == \A i, j \in 1 .. Len(s) : s[i] = s[j] => i = j

\* A removal closes the gap at p and moves nothing else.
LEMMA RemoveIs ==
    ASSUME NEW S, NEW s \in Seq(S), NEW k, Distinct(s)
    PROVE  LET r == RemoveFirst(s, k)
           IN  /\ r \in Seq(S)
               /\ \E p \in 1 .. Len(s) + 1 :
                     /\ p <= Len(s) => s[p] = k /\ Len(r) = Len(s) - 1
                     /\ p = Len(s) + 1 => Len(r) = Len(s)
                     /\ \A i \in 1 .. Len(r) : r[i] = s[IF i < p THEN i ELSE i + 1]
                     /\ \A i \in 1 .. Len(r) : r[i] # k
  <1> DEFINE r == RemoveFirst(s, k)
  <1>1. Len(s) \in Nat /\ \A i \in 1 .. Len(s) : s[i] \in S
    BY LenProperties, ElementOfSeq
  <1>2. CASE ~ \E i \in 1 .. Len(s) : s[i] = k
    <2>1. r = s
      BY <1>2 DEF RemoveFirst
    <2> HIDE DEF r
    <2>2. Len(s) + 1 \in 1 .. Len(s) + 1 /\ ~(Len(s) + 1 <= Len(s))
          /\ \A i \in 1 .. Len(s) : i < Len(s) + 1
      BY <1>1
    <2> QED BY <1>2, <2>1, <2>2 DEF r
  <1>3. CASE \E i \in 1 .. Len(s) : s[i] = k
    <2> DEFINE I == {i \in 1 .. Len(s) : s[i] = k}
               p == Min(I)
    <2>1. I \subseteq Nat /\ I # {}
      BY <1>1, <1>3
    <2>2. p \in I
      BY <2>1, LeastNat
    <2>3. SelectInSeq(s, LAMBDA v : v = k) = p
      BY <2>1 DEF SelectInSeq
    <2>4. r = SubSeq(s, 1, p - 1) \o SubSeq(s, p + 1, Len(s))
      BY <1>3, <2>3 DEF RemoveFirst, RemoveAt
    <2> HIDE DEF r, p
    <2>5. p \in 1 .. Len(s) /\ s[p] = k
      BY <2>2
    <2> DEFINE a == SubSeq(s, 1, p - 1)
               b == SubSeq(s, p + 1, Len(s))
    <2>6. a \in Seq(S) /\ Len(a) = p - 1 /\ \A i \in 1 .. p - 1 : a[i] = s[i]
      <3>1. 1 \in Int /\ p - 1 \in Int /\ \A i \in 1 .. p - 1 : s[i] \in S
        BY <1>1, <2>5
      <3>2. /\ a \in Seq(S) /\ Len(a) = IF 1 <= p - 1 THEN p - 1 - 1 + 1 ELSE 0
            /\ \A i \in 1 .. p - 1 - 1 + 1 : a[i] = s[1 + i - 1]
        BY <3>1, SubSeqProperties
      <3> HIDE DEF a
      <3> QED BY <1>1, <2>5, <3>2
    <2>7. b \in Seq(S) /\ Len(b) = Len(s) - p /\ \A i \in 1 .. Len(s) - p : b[i] = s[p + i]
      <3>1. p + 1 \in Int /\ Len(s) \in Int /\ \A i \in p + 1 .. Len(s) : s[i] \in S
        BY <1>1, <2>5
      <3>2. /\ b \in Seq(S) /\ Len(b) = IF p + 1 <= Len(s) THEN Len(s) - (p + 1) + 1 ELSE 0
            /\ \A i \in 1 .. Len(s) - (p + 1) + 1 : b[i] = s[p + 1 + i - 1]
        BY <3>1, SubSeqProperties
      <3> HIDE DEF b
      <3> QED BY <1>1, <2>5, <3>2
    <2> HIDE DEF a, b
    <2>8. /\ r \in Seq(S) /\ Len(r) = Len(a) + Len(b)
          /\ \A i \in 1 .. Len(a) + Len(b) : r[i] = IF i <= Len(a) THEN a[i] ELSE b[i - Len(a)]
      BY <2>4, <2>6, <2>7, ConcatProperties DEF a, b
    <2>9. Len(r) = Len(s) - 1
      BY <1>1, <2>5, <2>6, <2>7, <2>8
    <2>10. ASSUME NEW i \in 1 .. Len(r) PROVE r[i] = s[IF i < p THEN i ELSE i + 1]
      <3>1. CASE i < p
        <4>1. i \in 1 .. Len(a) + Len(b) /\ i <= Len(a) /\ i \in 1 .. p - 1
          BY <1>1, <2>5, <2>6, <2>7, <2>9, <3>1
        <4> QED BY <2>6, <2>8, <3>1, <4>1
      <3>2. CASE ~(i < p)
        <4>1. i \in 1 .. Len(a) + Len(b) /\ ~(i <= Len(a)) /\ i - Len(a) \in 1 .. Len(s) - p
              /\ p + (i - Len(a)) = i + 1
          BY <1>1, <2>5, <2>6, <2>7, <2>9, <3>2
        <4> QED BY <2>7, <2>8, <3>2, <4>1
      <3> QED BY <3>1, <3>2
    <2>11. ASSUME NEW i \in 1 .. Len(r) PROVE r[i] # k
      <3>1. (IF i < p THEN i ELSE i + 1) \in 1 .. Len(s) /\ (IF i < p THEN i ELSE i + 1) # p
        BY <1>1, <2>5, <2>9
      <3> QED BY <2>5, <2>10, <3>1 DEF Distinct
    <2>12. p \in 1 .. Len(s) + 1 /\ p # Len(s) + 1
      BY <1>1, <2>5
    <2> QED BY <2>5, <2>8, <2>9, <2>10, <2>11, <2>12 DEF r
  <1> QED BY <1>2, <1>3

\* The table after a use of k: k is its last, the others keep their order.
LEMMA MovedIs ==
    ASSUME LimiterTypeOK, TableInv, NEW k \in Keys
    PROVE  LET m == MoveToEnd(k)
           IN  /\ m \in Seq(Keys) /\ Len(m) \in Nat \ {0} /\ m[Len(m)] = k
               /\ Len(m) = IF hits[k] # <<>> THEN Len(order) ELSE Len(order) + 1
               /\ \A i \in 1 .. Len(m) - 1 : m[i] # k
               /\ \A i, j \in 1 .. Len(m) - 1 : i <= j =>
                     \E a, b \in 1 .. Len(order) : a <= b /\ m[i] = order[a] /\ m[j] = order[b]
               /\ Distinct(m)
               /\ \A j \in Keys : (\E i \in 1 .. Len(m) : m[i] = j)
                                      <=> j = k \/ \E i \in 1 .. Len(order) : order[i] = j
  <1> DEFINE m == MoveToEnd(k)
             r == RemoveFirst(order, k)
  <1>1. order \in Seq(Keys) /\ Distinct(order) /\ Len(order) \in Nat
    BY LenProperties DEF LimiterTypeOK, TableInv, Distinct
  <1>2. r \in Seq(Keys)
    BY <1>1, RemoveIs
  <1>3. PICK p \in 1 .. Len(order) + 1 :
          /\ p <= Len(order) => order[p] = k /\ Len(r) = Len(order) - 1
          /\ p = Len(order) + 1 => Len(r) = Len(order)
          /\ \A i \in 1 .. Len(r) : r[i] = order[IF i < p THEN i ELSE i + 1]
          /\ \A i \in 1 .. Len(r) : r[i] # k
    BY <1>1, RemoveIs
  <1>4. /\ m \in Seq(Keys) /\ Len(m) = Len(r) + 1 /\ m[Len(r) + 1] = k
        /\ \A i \in 1 .. Len(r) : m[i] = r[i]
    BY <1>2, AppendProperties DEF MoveToEnd
  <1>5. Len(r) \in Nat
    BY <1>2, LenProperties
  <1> HIDE DEF m, r
  <1> DEFINE was(i) == IF i < p THEN i ELSE i + 1
  <1>6. \A i \in 1 .. Len(m) - 1 :
           i \in 1 .. Len(r) /\ was(i) \in 1 .. Len(order) /\ m[i] = order[was(i)] /\ m[i] # k
    <2>1. ASSUME NEW i \in 1 .. Len(m) - 1
          PROVE  i \in 1 .. Len(r) /\ was(i) \in 1 .. Len(order)
      BY <1>1, <1>3, <1>4, <1>5
    <2> QED BY <1>3, <1>4, <2>1
  <1>7. \A i, j \in 1 .. Len(m) - 1 : i <= j => was(i) <= was(j)
    BY <1>4, <1>5
  <1>8. (p <= Len(order)) <=> hits[k] # <<>>
    <2>1. p <= Len(order) => hits[k] # <<>>
      BY <1>1, <1>3 DEF TableInv
    <2>2. ASSUME NEW i \in 1 .. Len(order), order[i] = k, ~(p <= Len(order)) PROVE FALSE
      <3>1. i \in 1 .. Len(r) /\ i < p
        BY <1>1, <1>3, <2>2
      <3> QED BY <1>3, <2>2, <3>1
    <2> QED BY <2>1, <2>2 DEF TableInv
  <1>9. Len(m) = IF hits[k] # <<>> THEN Len(order) ELSE Len(order) + 1
    BY <1>1, <1>3, <1>4, <1>5, <1>8
  <1>10. Distinct(m)
    <2>1. \A i, j \in 1 .. Len(m) - 1 : was(i) = was(j) => i = j
      BY <1>4, <1>5
    <2>2. \A i, j \in 1 .. Len(m) - 1 : m[i] = m[j] => i = j
      BY <1>1, <1>6, <2>1 DEF Distinct
    <2>3. \A i \in 1 .. Len(m) : i = Len(m) \/ i \in 1 .. Len(m) - 1
      BY <1>4, <1>5
    <2> QED BY <1>4, <1>6, <2>2, <2>3 DEF Distinct
  <1>11. ASSUME NEW j \in Keys
         PROVE  (\E i \in 1 .. Len(m) : m[i] = j)
                    <=> j = k \/ \E i \in 1 .. Len(order) : order[i] = j
    <2>1. ASSUME NEW i \in 1 .. Len(m), m[i] = j
          PROVE  j = k \/ \E a \in 1 .. Len(order) : order[a] = j
      <3>1. i = Len(r) + 1 \/ i \in 1 .. Len(m) - 1
        BY <1>4, <1>5
      <3> QED BY <1>4, <1>6, <2>1, <3>1
    <2>2. j = k => \E i \in 1 .. Len(m) : m[i] = j
      <3>1. Len(r) + 1 \in 1 .. Len(m)
        BY <1>4, <1>5
      <3> QED BY <1>4, <3>1
    <2>3. ASSUME NEW a \in 1 .. Len(order), order[a] = j, j # k
          PROVE  \E i \in 1 .. Len(m) : m[i] = j
      <3>1. a # p
        BY <1>1, <1>3, <2>3
      <3> DEFINE i == IF a < p THEN a ELSE a - 1
      <3>2. i \in 1 .. Len(m) - 1 /\ was(i) = a /\ i \in 1 .. Len(m)
        BY <1>1, <1>3, <1>4, <1>5, <3>1
      <3> QED BY <1>6, <2>3, <3>2
    <2> QED BY <2>1, <2>2, <2>3
  <1>12. \A i, j \in 1 .. Len(m) - 1 : i <= j =>
            \E a, b \in 1 .. Len(order) : a <= b /\ m[i] = order[a] /\ m[j] = order[b]
    BY <1>6, <1>7
  <1>13. \A i \in 1 .. Len(m) - 1 : m[i] # k
    BY <1>6
  <1>14. Len(m) \in Nat \ {0} /\ m[Len(m)] = k
    BY <1>4, <1>5
  <1> QED BY <1>4, <1>9, <1>10, <1>11, <1>12, <1>13, <1>14 DEF m

\* A sequence without repetitions has as many elements as it is long.
LEMMA DistinctCount ==
    ASSUME NEW S, NEW s \in Seq(S), Distinct(s)
    PROVE  LET R == {s[i] : i \in 1 .. Len(s)}
           IN  IsFiniteSet(R) /\ Cardinality(R) = Len(s)
  <1> DEFINE R == {s[i] : i \in 1 .. Len(s)}
  <1>1. Len(s) \in Nat /\ s \in [1 .. Len(s) -> R]
    BY LenProperties
  <1>2. s \in Bijection(1 .. Len(s), R)
    BY <1>1 DEF Distinct, Bijection, Injection, Surjection, IsInjective
  <1>3. ExistsBijection(1 .. Len(s), R)
    BY <1>2 DEF ExistsBijection
  <1>4. IsFiniteSet(R)
    BY <1>1, <1>3, FS_NatBijection
  <1> QED BY <1>1, <1>3, <1>4, FS_CountingElements

\* Keys are only ever seen later.
LEMMA CrowdGrows ==
    ASSUME NEW t \in Nat, Crowded(t), LimiterTypeOK, LimiterTypeOK',
           \A j \in Keys : seen[j] # Never => seen'[j] # Never /\ seen[j] <= seen'[j]
    PROVE  Crowded(t)'
  <1>1. SeenSince(t) \subseteq SeenSince(t)'
    <2>1. ASSUME NEW j \in SeenSince(t) PROVE j \in SeenSince(t)'
      <3>1. j \in Keys /\ seen[j] \in Nat /\ seen[j] >= t
        BY <2>1, LimiterAssumption DEF SeenSince, LimiterTypeOK, Times
      <3>2. seen'[j] # Never /\ seen'[j] \in Nat /\ seen[j] <= seen'[j]
        BY <2>1, <3>1, LimiterAssumption DEF SeenSince, LimiterTypeOK, Times
      <3> QED BY <3>1, <3>2 DEF SeenSince
    <2> QED BY <2>1
  <1>2. SeenSince(t)' \subseteq Keys /\ IsFiniteSet(Keys)
    BY LimiterAssumption DEF SeenSince
  <1>3. IsFiniteSet(SeenSince(t)')
    BY <1>2, FS_Subset
  <1>4. SeenSince(t) \in SUBSET (SeenSince(t)')
    BY <1>1
  <1>5. Cardinality(SeenSince(t)) <= Cardinality(SeenSince(t)') /\ IsFiniteSet(SeenSince(t))
    BY <1>3, <1>4, FS_Subset
  <1>6. Cardinality(SeenSince(t)) \in Nat /\ Cardinality(SeenSince(t)') \in Nat /\ MaxTracked \in Nat
    BY <1>3, <1>5, FS_CardinalityType, LimiterAssumption
  <1> QED BY <1>5, <1>6 DEF Crowded

\* A key's bucket is the end of its hits, and all of it is in the window.
LEMMA BucketIs ==
    ASSUME LimiterInv, NEW k \in Keys
    PROVE  /\ Bucket(k) \in Seq(Times) /\ Bucket(k) \in Seq(Nat) /\ Ordered(Bucket(k))
           /\ Len(Bucket(k)) \in Nat /\ Len(hits[k]) \in Nat /\ Len(Bucket(k)) <= Len(hits[k])
           /\ \A i \in 1 .. Len(Bucket(k)) :
                 /\ Bucket(k)[i] + Window > now /\ Bucket(k)[i] \in Nat
                 /\ seen[k] # Never /\ Bucket(k)[i] <= seen[k]
  <1>1. /\ Times \subseteq Nat /\ now \in Nat /\ hits[k] \in Seq(Times) /\ Ordered(hits[k])
        /\ \A i \in 1 .. Len(hits[k]) : seen[k] # Never /\ hits[k][i] <= seen[k]
    BY DEF LimiterInv, LimiterTypeOK, TimesInv, Times
  <1>2. /\ Bucket(k) \in Seq(Times) /\ Ordered(Bucket(k))
        /\ Expired(hits[k], now) \in 0 .. Len(hits[k])
        /\ Len(Bucket(k)) = Len(hits[k]) - Expired(hits[k], now)
        /\ \A i \in 1 .. Len(Bucket(k)) : Bucket(k)[i] = hits[k][Expired(hits[k], now) + i]
        /\ \A i \in 1 .. Len(Bucket(k)) : Bucket(k)[i] + Window > now
    BY <1>1, RecentIs DEF Bucket
  <1>3. Len(hits[k]) \in Nat
    BY <1>1, LenProperties
  <1>4. Bucket(k) \in Seq(Nat)
    BY <1>1, <1>2, SeqMonotonic
  <1>5. \A i \in 1 .. Len(Bucket(k)) : Bucket(k)[i] \in Nat
    BY <1>4, ElementOfSeq
  <1>6. \A i \in 1 .. Len(Bucket(k)) : Expired(hits[k], now) + i \in 1 .. Len(hits[k])
    BY <1>2, <1>3
  <1> QED BY <1>1, <1>2, <1>3, <1>4, <1>5, <1>6

\* Nothing has expired of hits that are all in the window.
LEMMA RecentAll ==
    ASSUME NEW s \in Seq(Nat), NEW m \in Nat, Ordered(s), \A i \in 1 .. Len(s) : s[i] + Window > m
    PROVE  Recent(s, m) = s
  <1>0. Nat \in SUBSET Nat /\ Window \in Nat
    BY LimiterAssumption
  <1>1. Len(s) \in Nat /\ \A i \in 1 .. Len(s) : s[i] \in Nat
    BY LenProperties, ElementOfSeq
  <1>2. /\ Recent(s, m) \in Seq(Nat) /\ Expired(s, m) \in 0 .. Len(s)
        /\ Len(Recent(s, m)) = Len(s) - Expired(s, m)
        /\ \A i \in 1 .. Len(Recent(s, m)) : Recent(s, m)[i] = s[Expired(s, m) + i]
        /\ \A i \in 1 .. Expired(s, m) : s[i] + Window <= m
    BY <1>0, RecentIs
  <1>3. Expired(s, m) = 0
    <2>1. ASSUME Expired(s, m) > 0 PROVE FALSE
      <3>1. 1 \in 1 .. Len(s) /\ 1 \in 1 .. Expired(s, m)
        BY <1>1, <1>2, <2>1
      <3>2. s[1] + Window <= m
        BY <1>2, <3>1
      <3>3. s[1] \in Nat /\ s[1] + Window > m
        BY <1>1, <3>1
      <3> QED BY <1>0, <3>2, <3>3
    <2> QED BY <1>1, <1>2, <2>1
  <1>4. Len(Recent(s, m)) = Len(s) /\ \A i \in 1 .. Len(s) : Recent(s, m)[i] = s[i]
    BY <1>1, <1>2, <1>3
  <1> QED BY <1>2, <1>4, SeqEqual

\* After a use of k the table is in the order of last use.
LEMMA UsedInOrder ==
    ASSUME LimiterInv, NEW k \in Keys, seen' = [seen EXCEPT ![k] = now]
    PROVE  LET m == MoveToEnd(k)
           IN  /\ \A i \in 1 .. Len(m) : m[i] \in Keys /\ seen'[m[i]] \in Nat
               /\ \A i, j \in 1 .. Len(m) : i <= j => seen'[m[i]] <= seen'[m[j]]
               /\ \A i \in 1 .. Len(m) - 1 : seen'[m[i]] = seen[m[i]]
  <1> DEFINE m == MoveToEnd(k)
  <1>1. /\ m \in Seq(Keys) /\ Len(m) \in Nat \ {0} /\ m[Len(m)] = k
        /\ \A i \in 1 .. Len(m) - 1 : m[i] # k
        /\ \A i, j \in 1 .. Len(m) - 1 : i <= j =>
              \E a, b \in 1 .. Len(order) : a <= b /\ m[i] = order[a] /\ m[j] = order[b]
    BY MovedIs DEF LimiterInv
  <1>2. /\ now \in Nat /\ seen \in [Keys -> Times \cup {Never}] /\ Times \subseteq Nat
        /\ order \in Seq(Keys)
    BY DEF LimiterInv, LimiterTypeOK, Times
  <1> HIDE DEF m
  <1>3. \A i \in 1 .. Len(m) : m[i] \in Keys
    BY <1>1, ElementOfSeq
  <1>4. \A a \in 1 .. Len(order) : order[a] \in Keys /\ seen[order[a]] \in Nat /\ seen[order[a]] <= now
    <2>1. ASSUME NEW a \in 1 .. Len(order)
          PROVE  order[a] \in Keys /\ seen[order[a]] \in Nat /\ seen[order[a]] <= now
      <3>1. order[a] \in Keys
        BY <1>2, ElementOfSeq
      <3>2. hits[order[a]] # <<>>
        BY <3>1 DEF LimiterInv, TableInv
      <3>3. Len(hits[order[a]]) \in Nat \ {0}
        BY <3>1, <3>2, EmptySeq DEF LimiterInv, LimiterTypeOK
      <3>4. 1 \in 1 .. Len(hits[order[a]])
        BY <3>3
      <3>5. seen[order[a]] # Never
        BY <3>1, <3>4 DEF LimiterInv, TimesInv
      <3> QED BY <1>2, <3>1, <3>5 DEF LimiterInv, TimesInv
    <2> QED BY <2>1
  <1>5. \A i \in 1 .. Len(m) - 1 :
           m[i] \in Keys /\ seen'[m[i]] = seen[m[i]] /\ seen[m[i]] \in Nat /\ seen[m[i]] <= now
    <2>1. ASSUME NEW i \in 1 .. Len(m) - 1
          PROVE  m[i] \in Keys /\ seen'[m[i]] = seen[m[i]] /\ seen[m[i]] \in Nat /\ seen[m[i]] <= now
      <3>1. PICK a \in 1 .. Len(order) : m[i] = order[a]
        BY <1>1
      <3> QED BY <1>1, <1>2, <1>4, <3>1
    <2> QED BY <2>1
  <1>6. \A i \in 1 .. Len(m) : i = Len(m) \/ i \in 1 .. Len(m) - 1
    BY <1>1
  <1>7. seen'[m[Len(m)]] = now
    BY <1>1, <1>2
  <1>8. \A i, j \in 1 .. Len(m) - 1 : i <= j => seen[m[i]] <= seen[m[j]]
    <2>1. ASSUME NEW i \in 1 .. Len(m) - 1, NEW j \in 1 .. Len(m) - 1, i <= j
          PROVE  seen[m[i]] <= seen[m[j]]
      <3>1. PICK a \in 1 .. Len(order), b \in 1 .. Len(order) :
                a <= b /\ m[i] = order[a] /\ m[j] = order[b]
        BY <1>1, <2>1
      <3> QED BY <3>1 DEF LimiterInv, TableInv
    <2> QED BY <2>1
  <1>9. ASSUME NEW i \in 1 .. Len(m), NEW j \in 1 .. Len(m), i <= j
        PROVE  seen'[m[i]] <= seen'[m[j]]
    <2>1. CASE j = Len(m)
      BY <1>2, <1>5, <1>6, <1>7, <2>1
    <2>2. CASE j \in 1 .. Len(m) - 1
      <3>1. i \in 1 .. Len(m) - 1
        BY <1>1, <1>9, <2>2
      <3> QED BY <1>5, <1>8, <1>9, <2>2, <3>1
    <2> QED BY <1>6, <2>1, <2>2
  <1>10. \A i \in 1 .. Len(m) : seen'[m[i]] \in Nat
    BY <1>2, <1>5, <1>6, <1>7
  <1> QED BY <1>3, <1>5, <1>9, <1>10 DEF m

-----------------------------------------------------------------------------
(* The steps. *)

\* The invariant, initially and step by step.
LEMMA LimiterStarts ==
    ASSUME LimiterInit
    PROVE  LimiterInv
  <1>1. /\ now = 0 /\ order = <<>> /\ 0 \in Times
        /\ \A k \in Keys : hits[k] = <<>> /\ granted[k] = <<>> /\ seen[k] = Never /\ told[k] = Never
    BY LimiterAssumption DEF LimiterInit, Times
  <1>2. LimiterTypeOK
    BY LimiterAssumption DEF LimiterInit, LimiterTypeOK, Times
  <1>3. Len(<<>>) = 0 /\ MaxTracked \in Nat /\ Budget \in [Keys -> Nat \ {0}]
    BY EmptySeq, LimiterAssumption
  <1>4. TableInv
    BY <1>1, <1>3 DEF TableInv
  <1>5. ASSUME NEW k \in Keys PROVE TimesInv(k) /\ BucketInv(k) /\ ToldInv(k)
    <2>1. TimesInv(k)
      BY <1>1, <1>3 DEF TimesInv, Ordered
    <2>3. Len(Bucket(k)) = 0
      BY <1>1, RecentOfNothing DEF Bucket
    <2>4. BucketInv(k)
      BY <1>1, <1>3, <2>3 DEF BucketInv, EndOf, Lost, Forgotten
    <2>5. ToldInv(k)
      BY <1>1 DEF ToldInv
    <2> QED BY <2>1, <2>4, <2>5
  <1> QED BY <1>2, <1>4, <1>5 DEF LimiterInv

\* A request of k, whatever is answered: k is seen, and nobody less than before.
LEMMA SeenGrows ==
    ASSUME LimiterInv, NEW k \in Keys, seen' = [seen EXCEPT ![k] = now]
    PROVE  /\ seen' \in [Keys -> Times \cup {Never}] /\ seen'[k] = now /\ now # Never
           /\ \A j \in Keys : seen[j] # Never => seen'[j] # Never /\ seen[j] <= seen'[j]
           /\ \A j \in Keys : seen'[j] # Never => seen'[j] \in Nat /\ seen'[j] <= now
  <1>1. /\ now \in Times /\ seen \in [Keys -> Times \cup {Never}] /\ Times \subseteq Nat
        /\ now \in Nat /\ Never \notin Nat
        /\ \A j \in Keys : seen[j] # Never => seen[j] <= now
    BY LimiterAssumption DEF LimiterInv, LimiterTypeOK, TimesInv, Times
  <1>2. /\ seen' \in [Keys -> Times \cup {Never}]
        /\ \A j \in Keys : seen'[j] = IF j = k THEN now ELSE seen[j]
    BY <1>1
  <1>3. \A j \in Keys : seen[j] # Never => seen[j] \in Nat
    BY <1>1
  <1> QED BY <1>1, <1>2, <1>3

\* A refusal keeps the hits in the window, and promises a moment late enough.
LEMMA RefuseKeeps ==
    ASSUME LimiterInv, NEW k \in Keys, Refuse(k)
    PROVE  LimiterInv'
  <1> DEFINE b == Bucket(k)
             m == MoveToEnd(k)
  <1>1. /\ hits' = [hits EXCEPT ![k] = b] /\ order' = m
        /\ told' = [told EXCEPT ![k] = now + Second * Seconds(b[1] + Window - now)]
        /\ seen' = [seen EXCEPT ![k] = now] /\ now' = now /\ granted' = granted
        /\ Len(b) >= Budget[k]
    BY DEF Refuse
  <1>2. /\ b \in Seq(Times) /\ b \in Seq(Nat) /\ Ordered(b) /\ Len(b) \in Nat
        /\ Len(b) <= Len(hits[k]) /\ Len(hits[k]) \in Nat
        /\ \A i \in 1 .. Len(b) : b[i] + Window > now /\ b[i] \in Nat /\ b[i] <= seen[k]
    BY BucketIs
  <1>3. /\ LimiterTypeOK /\ TableInv /\ now \in Nat /\ now \in Times /\ Times \subseteq Nat
        /\ Budget[k] \in Nat \ {0} /\ Window \in Nat /\ Second \in Nat
    BY LimiterAssumption DEF LimiterInv, LimiterTypeOK, Times
  <1>4. /\ seen' \in [Keys -> Times \cup {Never}] /\ seen'[k] = now /\ now # Never
        /\ \A j \in Keys : seen[j] # Never => seen'[j] # Never /\ seen[j] <= seen'[j]
        /\ \A j \in Keys : seen'[j] # Never => seen'[j] \in Nat /\ seen'[j] <= now
    BY <1>1, SeenGrows
  <1>5. Bucket(k)' = b
    <2>1. Recent(b, now) = b
      BY <1>2, <1>3, RecentAll
    <2> QED BY <1>1, <1>3, <2>1 DEF Bucket, LimiterTypeOK
  <1>6. /\ m \in Seq(Keys) /\ Len(m) = IF hits[k] # <<>> THEN Len(order) ELSE Len(order) + 1
        /\ Distinct(m)
        /\ \A j \in Keys : (\E i \in 1 .. Len(m) : m[i] = j)
                                <=> j = k \/ \E i \in 1 .. Len(order) : order[i] = j
    BY <1>3, MovedIs
  <1>7. \A i, j \in 1 .. Len(m) : i <= j => seen'[m[i]] <= seen'[m[j]]
    BY <1>1, UsedInOrder
  <1> HIDE DEF b, m
  <1>8. 1 \in 1 .. Len(b) /\ b # <<>> /\ hits[k] # <<>>
    <2>1. Len(b) > 0 /\ Len(hits[k]) > 0
      BY <1>1, <1>2, <1>3
    <2> QED BY <1>2, <2>1, EmptySeq
  <1>9. b[1] + Window - now \in Nat
    BY <1>2, <1>3, <1>8
  <1> DEFINE wait == Second * Seconds(b[1] + Window - now)
  <1>10. wait \in Nat /\ wait >= b[1] + Window - now
    BY <1>3, <1>9, SecondsEnough
  <1> HIDE DEF wait
  <1>11. told' = [told EXCEPT ![k] = now + wait]
    BY <1>1 DEF wait
  <1>12. LimiterTypeOK'
    <2>1. now' \in Times /\ granted' \in [Keys -> Seq(Times)] /\ order' \in Seq(Keys)
      BY <1>1, <1>3, <1>6 DEF LimiterTypeOK
    <2>2. hits' \in [Keys -> Seq(Times)]
      BY <1>1, <1>2, <1>3 DEF LimiterTypeOK
    <2>3. told' \in [Keys -> Nat \cup {Never}]
      <3>1. now + wait \in Nat
        BY <1>3, <1>10
      <3> QED BY <1>3, <1>11, <3>1 DEF LimiterTypeOK
    <2> QED BY <1>4, <2>1, <2>2, <2>3 DEF LimiterTypeOK, Times
  <1>13. hits \in [Keys -> Seq(Times)] /\ told \in [Keys -> Nat \cup {Never}]
    BY <1>3 DEF LimiterTypeOK
  <1>14. TableInv'
    <2>1. Len(order') <= MaxTracked
      BY <1>1, <1>3, <1>6, <1>8 DEF TableInv
    <2>2. \A i, j \in 1 .. Len(order') : order'[i] = order'[j] => i = j
      BY <1>1, <1>6 DEF Distinct
    <2>3. ASSUME NEW j \in Keys
          PROVE  hits'[j] # <<>> <=> \E i \in 1 .. Len(order') : order'[i] = j
      <3>1. hits'[j] # <<>> <=> hits[j] # <<>>
        BY <1>1, <1>8, <1>13
      <3>2. hits[j] # <<>> <=> \E i \in 1 .. Len(order) : order[i] = j
        BY <1>3 DEF TableInv
      <3>3. (\E i \in 1 .. Len(m) : m[i] = j) <=> j = k \/ \E i \in 1 .. Len(order) : order[i] = j
        BY <1>6
      <3> QED BY <1>1, <1>8, <3>1, <3>2, <3>3
    <2>4. \A i, j \in 1 .. Len(order') : i <= j => seen'[order'[i]] <= seen'[order'[j]]
      BY <1>1, <1>7
    <2> QED BY <2>1, <2>2, <2>3, <2>4 DEF TableInv
  <1>15. ASSUME NEW j \in Keys PROVE TimesInv(j)' /\ BucketInv(j)' /\ ToldInv(j)'
    <2>1. TimesInv(j) /\ BucketInv(j) /\ ToldInv(j) /\ granted[j] \in Seq(Nat)
      <3>1. granted[j] \in Seq(Times)
        BY <1>3 DEF LimiterTypeOK
      <3> QED BY <1>3, <3>1, SeqMonotonic DEF LimiterInv
    <2>2. Bucket(j)' = Bucket(j)
      BY <1>1, <1>5, <1>13 DEF Bucket, b
    <2>3. hits'[j] = (IF j = k THEN b ELSE hits[j]) /\ granted'[j] = granted[j]
      BY <1>1, <1>13
    <2>4. TimesInv(j)'
      <3>1. Ordered(hits'[j]) /\ Ordered(granted'[j])
        BY <1>2, <2>1, <2>3 DEF TimesInv
      <3>2. \A i \in 1 .. Len(granted'[j]) : seen'[j] # Never /\ granted'[j][i] <= seen'[j]
        <4>1. \A i \in 1 .. Len(granted[j]) : seen[j] # Never /\ granted[j][i] <= seen[j]
          BY <2>1 DEF TimesInv
        <4>2. \A i \in 1 .. Len(granted[j]) : granted[j][i] \in Nat
          BY <2>1, ElementOfSeq
        <4>3. seen[j] # Never => seen[j] \in Nat
          BY <1>3 DEF LimiterTypeOK
        <4> QED BY <1>4, <2>3, <4>1, <4>2, <4>3
      <3>3. \A i \in 1 .. Len(hits'[j]) : seen'[j] # Never /\ hits'[j][i] <= seen'[j]
        <4>1. CASE j = k
          <5>1. \A i \in 1 .. Len(b) : b[i] <= now
            <6>1. seen[k] # Never /\ seen[k] \in Nat /\ seen[k] <= now
              BY <1>2, <1>3, <1>8, BucketIs DEF LimiterInv, LimiterTypeOK, TimesInv, b
            <6> QED BY <1>2, <1>3, <6>1
          <5> QED BY <1>4, <2>3, <4>1, <5>1
        <4>2. CASE j # k
          <5>1. \A i \in 1 .. Len(hits[j]) : seen[j] # Never /\ hits[j][i] <= seen[j]
            BY <2>1 DEF TimesInv
          <5>2. seen'[j] = seen[j]
            BY <1>1, <1>3, <4>2 DEF LimiterTypeOK
          <5> QED BY <2>3, <4>2, <5>1, <5>2
        <4> QED BY <4>1, <4>2
      <3>4. \A i \in 1 .. Len(granted'[j]) : granted'[j][i] + Window > now'
        BY <1>1, <2>1 DEF TimesInv
      <3> QED BY <1>1, <1>4, <3>1, <3>2, <3>3, <3>4 DEF TimesInv
    <2>5. BucketInv(j)'
      <3>1. Len(hits'[j]) <= Budget[j]
        BY <1>2, <1>3, <2>1, <2>3, LimiterAssumption DEF BucketInv
      <3>2. EndOf(granted[j], Bucket(j))'
        BY <1>1, <2>1, <2>2 DEF BucketInv, EndOf, Lost
      <3>3. ASSUME NEW t \in Forgotten(j)' PROVE Crowded(t)'
        <4>1. t \in Forgotten(j)
          BY <1>1, <2>2, <3>3 DEF Forgotten, Lost
        <4>2. t \in Nat
          <5>1. PICK i \in 1 .. Lost(granted[j], Bucket(j)) : t = granted[j][i]
            BY <4>1 DEF Forgotten
          <5>2. i \in 1 .. Len(granted[j])
            BY <2>1, BucketIs, LenProperties DEF Lost
          <5> QED BY <2>1, <5>1, <5>2, ElementOfSeq
        <4>3. Crowded(t)
          BY <2>1, <4>1 DEF BucketInv
        <4> QED BY <1>3, <1>4, <1>12, <4>2, <4>3, CrowdGrows
      <3> QED BY <3>1, <3>2, <3>3 DEF BucketInv
    <2>6. ToldInv(j)'
      <3>1. CASE j = k
        <4>1. told'[k] = now + wait /\ hits'[k] = b
          BY <1>1, <1>11, <1>13
        <4>2. b[1] + Window <= now + wait
          BY <1>2, <1>3, <1>8, <1>10
        <4> QED BY <3>1, <4>1, <4>2 DEF ToldInv
      <3>2. CASE j # k
        <4>1. told'[j] = told[j] /\ hits'[j] = hits[j]
          BY <1>1, <1>11, <1>13, <3>2
        <4> QED BY <2>1, <4>1 DEF ToldInv
      <3> QED BY <3>1, <3>2
    <2> QED BY <2>4, <2>5, <2>6
  <1> QED BY <1>12, <1>14, <1>15 DEF LimiterInv

\* Whose bucket is pushed out was last seen before all of as many others as
\* are tracked.
LEMMA EvictionCrowds ==
    ASSUME LimiterInv, NEW k \in Keys, seen' = [seen EXCEPT ![k] = now],
           Len(MoveToEnd(k)) > MaxTracked
    PROVE  LET v == MoveToEnd(k)[1]
           IN  /\ v \in Keys /\ v # k /\ seen'[v] = seen[v]
               /\ \A t \in Nat : t <= seen[v] => Crowded(t)'
  <1> DEFINE m == MoveToEnd(k)
             v == m[1]
             R == {m[i] : i \in 1 .. Len(m)}
  <1>1. /\ m \in Seq(Keys) /\ Len(m) \in Nat \ {0} /\ Distinct(m)
        /\ \A i \in 1 .. Len(m) - 1 : m[i] # k
    BY MovedIs DEF LimiterInv
  <1>2. /\ \A i \in 1 .. Len(m) : m[i] \in Keys /\ seen'[m[i]] \in Nat
        /\ \A i, j \in 1 .. Len(m) : i <= j => seen'[m[i]] <= seen'[m[j]]
        /\ \A i \in 1 .. Len(m) - 1 : seen'[m[i]] = seen[m[i]]
    BY UsedInOrder
  <1>3. MaxTracked \in Nat \ {0} /\ IsFiniteSet(Keys) /\ Never \notin Nat /\ Len(m) > MaxTracked
    BY LimiterAssumption
  <1>4. IsFiniteSet(R) /\ Cardinality(R) = Len(m)
    BY <1>1, DistinctCount
  <1> HIDE DEF m
  <1>5. 1 \in 1 .. Len(m) - 1 /\ 1 \in 1 .. Len(m)
    BY <1>1, <1>3
  <1>6. v \in Keys /\ v # k /\ seen'[v] = seen[v] /\ seen[v] \in Nat
    BY <1>1, <1>2, <1>5
  <1>7. ASSUME NEW t \in Nat, t <= seen[v] PROVE Crowded(t)'
    <2>1. R \subseteq SeenSince(t)'
      <3>1. ASSUME NEW i \in 1 .. Len(m) PROVE m[i] \in SeenSince(t)'
        <4>1. seen'[m[i]] >= seen'[v] /\ seen'[m[i]] \in Nat /\ m[i] \in Keys
          <5>1. 1 <= i
            OBVIOUS
          <5> QED BY <1>2, <1>5, <1>6, <5>1
        <4> QED BY <1>3, <1>6, <1>7, <4>1 DEF SeenSince
      <3> QED BY <3>1
    <2>2. SeenSince(t)' \subseteq Keys
      BY DEF SeenSince
    <2>3. IsFiniteSet(SeenSince(t)')
      BY <1>3, <2>2, FS_Subset
    <2>4. Cardinality(R) <= Cardinality(SeenSince(t)')
      BY <2>1, <2>3, FS_Subset
    <2>5. Cardinality(SeenSince(t)') \in Nat
      BY <2>3, FS_CardinalityType
    <2> HIDE DEF R
    <2>6. Cardinality(SeenSince(t)') > MaxTracked
      BY <1>1, <1>3, <1>4, <2>4, <2>5
    <2> QED BY <2>6 DEF Crowded
  <1> QED BY <1>6, <1>7 DEF m

\* What Admit makes of the table and of the buckets.
LEMMA AdmitIs ==
    ASSUME LimiterInv, NEW k \in Keys, Admit(k)
    PROVE  LET m == MoveToEnd(k)
               e == IF Len(m) > MaxTracked THEN 1 ELSE 0
           IN  /\ Len(m) - e \in Nat \ {0} /\ Len(m) - e <= MaxTracked
               /\ order' \in Seq(Keys) /\ Len(order') = Len(m) - e
               /\ \A i \in 1 .. Len(m) - e : order'[i] = m[i + e]
               /\ hits' = [j \in Keys |-> IF j = k THEN Append(Bucket(k), now)
                                          ELSE IF e = 1 /\ j = m[1] THEN <<>> ELSE hits[j]]
  <1> DEFINE m == MoveToEnd(k)
             e == IF Len(m) > MaxTracked THEN 1 ELSE 0
  <1>1. /\ m \in Seq(Keys) /\ Len(m) \in Nat \ {0}
        /\ \A i \in 1 .. Len(m) - 1 : m[i] # k
        /\ Len(m) = IF hits[k] # <<>> THEN Len(order) ELSE Len(order) + 1
    BY MovedIs DEF LimiterInv
  <1>2. MaxTracked \in Nat \ {0} /\ Len(order) <= MaxTracked /\ Len(order) \in Nat
    BY LimiterAssumption, LenProperties DEF LimiterInv, LimiterTypeOK, TableInv
  <1>3. /\ order' = IF Len(m) > MaxTracked THEN Tail(m) ELSE m
        /\ hits' = [j \in Keys |-> CASE Len(m) > MaxTracked /\ j = Head(m) -> <<>>
                                        [] j = k -> Append(Bucket(k), now)
                                        [] OTHER -> hits[j]]
    BY DEF Admit
  <1> HIDE DEF m
  <1>4. Len(m) - e \in Nat \ {0} /\ Len(m) - e <= MaxTracked
    BY <1>1, <1>2
  <1>5. m # <<>>
    BY <1>1, EmptySeq
  <1>6. /\ Head(m) = m[1] /\ Tail(m) \in Seq(Keys) /\ Len(Tail(m)) = Len(m) - 1
        /\ \A i \in 1 .. Len(Tail(m)) : Tail(m)[i] = m[i + 1]
    BY <1>1, <1>5, HeadTailProperties
  <1>7. /\ order' \in Seq(Keys) /\ Len(order') = Len(m) - e
        /\ \A i \in 1 .. Len(m) - e : order'[i] = m[i + e]
    <2>1. CASE Len(m) > MaxTracked
      BY <1>1, <1>3, <1>6, <2>1
    <2>2. CASE ~(Len(m) > MaxTracked)
      <3>1. \A i \in 1 .. Len(m) : i + 0 = i
        OBVIOUS
      <3>2. e = 0 /\ order' = m
        BY <1>3, <2>2
      <3> HIDE DEF e
      <3>3. Len(m) - e = Len(m)
        BY <1>1, <3>2
      <3> QED BY <1>1, <3>1, <3>2, <3>3
    <2> QED BY <2>1, <2>2
  <1>8. e = 1 => m[1] # k
    BY <1>1, <1>2
  <1>9. hits' = [j \in Keys |-> IF j = k THEN Append(Bucket(k), now)
                               ELSE IF e = 1 /\ j = m[1] THEN <<>> ELSE hits[j]]
    BY <1>3, <1>6, <1>8
  <1> QED BY <1>4, <1>7, <1>9 DEF m

\* The table after an admission: k is its last, and the first is gone if it was full.
LEMMA AdmitTable ==
    ASSUME LimiterInv, NEW k \in Keys, Admit(k)
    PROVE  TableInv'
  <1> DEFINE m == MoveToEnd(k)
             e == IF Len(m) > MaxTracked THEN 1 ELSE 0
  <1>1. /\ Len(m) - e \in Nat \ {0} /\ Len(m) - e <= MaxTracked
        /\ order' \in Seq(Keys) /\ Len(order') = Len(m) - e
        /\ \A i \in 1 .. Len(m) - e : order'[i] = m[i + e]
        /\ hits' = [j \in Keys |-> IF j = k THEN Append(Bucket(k), now)
                                   ELSE IF e = 1 /\ j = m[1] THEN <<>> ELSE hits[j]]
    BY AdmitIs
  <1>2. /\ m \in Seq(Keys) /\ Len(m) \in Nat \ {0} /\ Distinct(m) /\ m[Len(m)] = k
        /\ \A j \in Keys : (\E i \in 1 .. Len(m) : m[i] = j)
                                <=> j = k \/ \E i \in 1 .. Len(order) : order[i] = j
    BY MovedIs DEF LimiterInv
  <1>3. \A i, j \in 1 .. Len(m) : i <= j => seen'[m[i]] <= seen'[m[j]]
    BY UsedInOrder DEF Admit
  <1> HIDE DEF m
  <1>4. e \in {0, 1} /\ \A i \in 1 .. Len(order') : i + e \in 1 .. Len(m) /\ order'[i] = m[i + e]
    BY <1>1, <1>2
  <1>5. \A i, j \in 1 .. Len(order') : order'[i] = order'[j] => i = j
    <2>1. ASSUME NEW i \in 1 .. Len(order'), NEW j \in 1 .. Len(order'), order'[i] = order'[j]
          PROVE  i = j
      <3>1. i + e = j + e
        BY <1>2, <1>4, <2>1 DEF Distinct
      <3> QED BY <1>1, <1>4, <3>1
    <2> QED BY <2>1
  <1>6. \A i, j \in 1 .. Len(order') : i <= j => seen'[order'[i]] <= seen'[order'[j]]
    <2>1. ASSUME NEW i \in 1 .. Len(order'), NEW j \in 1 .. Len(order'), i <= j
          PROVE  seen'[order'[i]] <= seen'[order'[j]]
      <3>1. i + e <= j + e
        BY <1>4, <2>1
      <3> QED BY <1>3, <1>4, <3>1
    <2> QED BY <2>1
  <1>7. ASSUME NEW j \in Keys
        PROVE  hits'[j] # <<>> <=> \E i \in 1 .. Len(order') : order'[i] = j
    <2>1. hits[j] # <<>> <=> \E i \in 1 .. Len(order) : order[i] = j
      BY DEF LimiterInv, TableInv
    <2>2. (\E i \in 1 .. Len(m) : m[i] = j) <=> j = k \/ hits[j] # <<>>
      BY <1>2, <2>1
    <2>3. (\E i \in 1 .. Len(order') : order'[i] = j)
              <=> (\E i \in 1 .. Len(m) : m[i] = j /\ i # e)
      <3>1. ASSUME NEW i \in 1 .. Len(m), m[i] = j, i # e
            PROVE  \E h \in 1 .. Len(order') : order'[h] = j
        <4>1. i - e \in 1 .. Len(order') /\ i - e + e = i
          BY <1>1, <1>2, <1>4, <3>1
        <4> QED BY <1>4, <3>1, <4>1
      <3>2. ASSUME NEW i \in 1 .. Len(order'), order'[i] = j
            PROVE  \E h \in 1 .. Len(m) : m[h] = j /\ h # e
        <4>1. i + e # e
          BY <1>4
        <4> QED BY <1>4, <3>2, <4>1
      <3> QED BY <3>1, <3>2
    <2>4. CASE j = k
      <3>1. hits'[k] # <<>>
        <4>1. Bucket(k) \in Seq(Times) /\ now \in Times
          BY BucketIs DEF LimiterInv, LimiterTypeOK
        <4>2. Append(Bucket(k), now) # <<>>
          BY <4>1, AppendProperties
        <4> QED BY <1>1, <4>2
      <3>2. Len(m) # e
        BY <1>1, <1>2
      <3>3. Len(m) \in 1 .. Len(m)
        BY <1>2
      <3> QED BY <1>2, <2>3, <2>4, <3>1, <3>2, <3>3
    <2>5. CASE j # k /\ e = 1 /\ j = m[1]
      <3>1. hits'[j] = <<>>
        BY <1>1, <2>5
      <3>2. ~ \E i \in 1 .. Len(m) : m[i] = j /\ i # e
        BY <1>2, <2>5 DEF Distinct
      <3> QED BY <2>3, <3>1, <3>2
    <2>6. CASE j # k /\ ~(e = 1 /\ j = m[1])
      <3>1. hits'[j] = hits[j]
        BY <1>1, <2>6
      <3>2. \A i \in 1 .. Len(m) : m[i] = j => i # e
        BY <1>4, <2>6
      <3> QED BY <2>2, <2>3, <2>6, <3>1, <3>2
    <2> QED BY <2>4, <2>5, <2>6
  <1> QED BY <1>1, <1>5, <1>6, <1>7 DEF TableInv

\* An admission is the last of k's hits, and what an eviction forgets is idle.
LEMMA AdmitKeeps ==
    ASSUME LimiterInv, NEW k \in Keys, Admit(k)
    PROVE  LimiterInv'
  <1> DEFINE b == Bucket(k)
             m == MoveToEnd(k)
             e == IF Len(m) > MaxTracked THEN 1 ELSE 0
             a == Append(b, now)
             g == Append(granted[k], now)
  <1>1. /\ granted' = [granted EXCEPT ![k] = g]
        /\ told' = [told EXCEPT ![k] = Never]
        /\ seen' = [seen EXCEPT ![k] = now] /\ now' = now
        /\ Len(b) < Budget[k]
    BY DEF Admit
  <1>2. /\ order' \in Seq(Keys)
        /\ hits' = [j \in Keys |-> IF j = k THEN a
                                   ELSE IF e = 1 /\ j = m[1] THEN <<>> ELSE hits[j]]
    BY AdmitIs
  <1>3. /\ b \in Seq(Times) /\ b \in Seq(Nat) /\ Ordered(b) /\ Len(b) \in Nat
        /\ \A i \in 1 .. Len(b) :
              b[i] + Window > now /\ b[i] \in Nat /\ seen[k] # Never /\ b[i] <= seen[k]
    BY BucketIs
  <1>4. /\ LimiterTypeOK /\ TableInv /\ now \in Nat /\ now \in Times /\ Times \subseteq Nat
        /\ Budget[k] \in Nat \ {0} /\ Window \in Nat \ {0} /\ Never \notin Nat
        /\ granted \in [Keys -> Seq(Times)] /\ hits \in [Keys -> Seq(Times)]
        /\ told \in [Keys -> Nat \cup {Never}] /\ seen \in [Keys -> Times \cup {Never}]
    BY LimiterAssumption DEF LimiterInv, LimiterTypeOK, Times
  <1>5. /\ seen' \in [Keys -> Times \cup {Never}] /\ seen'[k] = now /\ now # Never
        /\ \A j \in Keys : seen[j] # Never => seen'[j] # Never /\ seen[j] <= seen'[j]
        /\ \A j \in Keys : seen'[j] # Never => seen'[j] \in Nat /\ seen'[j] <= now
    BY <1>1, SeenGrows
  <1>6. /\ a \in Seq(Times) /\ a \in Seq(Nat) /\ Len(a) = Len(b) + 1 /\ a[Len(b) + 1] = now
        /\ \A i \in 1 .. Len(b) : a[i] = b[i]
    BY <1>3, <1>4, AppendProperties
  <1>7. /\ g \in Seq(Times) /\ g \in Seq(Nat) /\ Len(granted[k]) \in Nat
        /\ Len(g) = Len(granted[k]) + 1 /\ g[Len(granted[k]) + 1] = now
        /\ \A i \in 1 .. Len(granted[k]) : g[i] = granted[k][i]
    <2>1. granted[k] \in Seq(Times) /\ granted[k] \in Seq(Nat)
      BY <1>4, SeqMonotonic
    <2> QED BY <1>4, <2>1, AppendProperties, LenProperties
  <1>8. \A i \in 1 .. Len(a) : i \in 1 .. Len(b) \/ i = Len(b) + 1
    BY <1>3, <1>6
  <1>9. \A i \in 1 .. Len(g) : i \in 1 .. Len(granted[k]) \/ i = Len(granted[k]) + 1
    BY <1>7
  <1>10. TableInv'
    BY AdmitTable
  <1>11. e = 1 => /\ m[1] \in Keys /\ m[1] # k /\ seen'[m[1]] = seen[m[1]]
                  /\ \A t \in Nat : t <= seen[m[1]] => Crowded(t)'
    <2>1. CASE Len(m) > MaxTracked
      <3>1. /\ m[1] \in Keys /\ m[1] # k /\ seen'[m[1]] = seen[m[1]]
            /\ \A t \in Nat : t <= seen[m[1]] => Crowded(t)'
        BY <1>1, <2>1, EvictionCrowds
      <3> QED BY <3>1
    <2>2. CASE ~(Len(m) > MaxTracked)
      BY <2>2
    <2> QED BY <2>1, <2>2
  <1> HIDE DEF b, m, e, a, g
  <1>12. \A i \in 1 .. Len(b) : b[i] <= now
    <2>1. seen[k] # Never => seen[k] \in Nat /\ seen[k] <= now
      BY <1>4 DEF LimiterInv, TimesInv
    <2> QED BY <1>3, <1>4, <2>1
  <1>13. \A i \in 1 .. Len(a) : a[i] <= now /\ a[i] + Window > now
    <2>1. ASSUME NEW i \in 1 .. Len(a) PROVE a[i] <= now /\ a[i] + Window > now
      <3>1. CASE i \in 1 .. Len(b)
        BY <1>3, <1>6, <1>12, <3>1
      <3>2. CASE i = Len(b) + 1
        BY <1>4, <1>6, <3>2
      <3> QED BY <1>8, <3>1, <3>2
    <2> QED BY <2>1
  <1>14. Ordered(a)
    <2>1. ASSUME NEW i \in 1 .. Len(a), NEW j \in 1 .. Len(a), i <= j PROVE a[i] <= a[j]
      <3>1. CASE j = Len(b) + 1
        BY <1>6, <1>13, <3>1
      <3>2. CASE j \in 1 .. Len(b)
        <4>1. i \in 1 .. Len(b)
          BY <1>3, <2>1, <3>2
        <4> QED BY <1>3, <1>6, <2>1, <3>2, <4>1 DEF Ordered
      <3> QED BY <1>8, <3>1, <3>2
    <2> QED BY <2>1 DEF Ordered
  <1>15. hits'[k] = a /\ granted'[k] = g /\ told'[k] = Never
    BY <1>1, <1>2, <1>4
  <1>16. Bucket(k)' = a
    BY <1>1, <1>4, <1>6, <1>13, <1>14, <1>15, RecentAll DEF Bucket
  <1>17. LimiterTypeOK'
    <2>1. now' \in Times /\ order' \in Seq(Keys)
      BY <1>1, <1>2, <1>4
    <2>2. hits' \in [Keys -> Seq(Times)]
      BY <1>2, <1>4, <1>6
    <2>3. granted' \in [Keys -> Seq(Times)] /\ told' \in [Keys -> Nat \cup {Never}]
      BY <1>1, <1>4, <1>7
    <2> QED BY <1>5, <2>1, <2>2, <2>3 DEF LimiterTypeOK, Times
  <1>18. \A t \in Nat : Crowded(t) => Crowded(t)'
    <2>1. ASSUME NEW t \in Nat, Crowded(t) PROVE Crowded(t)'
      BY <1>4, <1>5, <1>17, <2>1, CrowdGrows
    <2> QED BY <2>1
  <1>19. TimesInv(k)' /\ BucketInv(k)' /\ ToldInv(k)'
    <2>1. TimesInv(k) /\ BucketInv(k) /\ granted[k] \in Seq(Nat)
      BY <1>4, SeqMonotonic DEF LimiterInv
    <2>2. \A i \in 1 .. Len(granted[k]) : granted[k][i] <= now /\ granted[k][i] + Window > now
      <3>1. \A i \in 1 .. Len(granted[k]) : granted[k][i] \in Nat
        BY <2>1, ElementOfSeq
      <3>2. seen[k] # Never => seen[k] \in Nat /\ seen[k] <= now
        BY <1>4, <2>1 DEF TimesInv
      <3> QED BY <1>4, <2>1, <3>1, <3>2 DEF TimesInv
    <2>3. \A i \in 1 .. Len(g) : g[i] <= now /\ g[i] + Window > now
      <3>1. ASSUME NEW i \in 1 .. Len(g) PROVE g[i] <= now /\ g[i] + Window > now
        <4>1. CASE i \in 1 .. Len(granted[k])
          BY <1>7, <2>2, <4>1
        <4>2. CASE i = Len(granted[k]) + 1
          BY <1>4, <1>7, <4>2
        <4> QED BY <1>9, <4>1, <4>2
      <3> QED BY <3>1
    <2>4. Ordered(g)
      <3>1. ASSUME NEW i \in 1 .. Len(g), NEW j \in 1 .. Len(g), i <= j PROVE g[i] <= g[j]
        <4>1. CASE j = Len(granted[k]) + 1
          BY <1>7, <2>3, <4>1
        <4>2. CASE j \in 1 .. Len(granted[k])
          <5>1. i \in 1 .. Len(granted[k])
            BY <1>7, <3>1, <4>2
          <5> QED BY <1>7, <2>1, <3>1, <4>2, <5>1 DEF Ordered, TimesInv
        <4> QED BY <1>9, <4>1, <4>2
      <3> QED BY <3>1 DEF Ordered
    <2>5. TimesInv(k)'
      BY <1>1, <1>4, <1>5, <1>13, <1>14, <1>15, <2>3, <2>4 DEF TimesInv
    <2>6. Lost(g, a) = Lost(granted[k], b) /\ Lost(g, a) \in Nat /\ Lost(g, a) <= Len(granted[k])
      BY <1>3, <1>6, <1>7, <2>1 DEF Lost, BucketInv, EndOf, b
    <2>7. EndOf(g, a)
      <3>1. Len(b) <= Len(granted[k]) /\ Lost(granted[k], b) = Len(granted[k]) - Len(b)
            /\ \A i \in 1 .. Len(b) : b[i] = granted[k][Lost(granted[k], b) + i]
        BY <2>1 DEF BucketInv, EndOf, Lost, b
      <3>2. Len(a) <= Len(g)
        BY <1>3, <1>6, <1>7, <3>1
      <3>3. ASSUME NEW i \in 1 .. Len(a) PROVE a[i] = g[Lost(g, a) + i]
        <4>1. CASE i \in 1 .. Len(b)
          <5>1. Lost(granted[k], b) + i \in 1 .. Len(granted[k])
            BY <1>3, <1>7, <3>1, <4>1
          <5> QED BY <1>6, <1>7, <2>6, <3>1, <4>1, <5>1
        <4>2. CASE i = Len(b) + 1
          <5>1. Lost(g, a) + i = Len(granted[k]) + 1
            <6>1. /\ Lost(g, a) = Len(granted[k]) - Len(b) /\ i = Len(b) + 1
                  /\ Len(b) \in Nat /\ Len(granted[k]) \in Nat
              BY <1>3, <1>7, <2>6, <3>1, <4>2
            <6>2. \A x, y \in Nat : y - x + (x + 1) = y + 1
              OBVIOUS
            <6> QED BY <6>1, <6>2
          <5> QED BY <1>6, <1>7, <4>2, <5>1
        <4> QED BY <1>8, <4>1, <4>2
      <3> QED BY <3>2, <3>3 DEF EndOf
    <2>8. ASSUME NEW t \in Forgotten(k)' PROVE Crowded(t)'
      <3>1. PICK i \in 1 .. Lost(g, a) : t = g[i]
        BY <1>15, <1>16, <2>8 DEF Forgotten
      <3>2. i \in 1 .. Len(granted[k]) /\ i \in 1 .. Lost(granted[k], b)
        BY <1>7, <2>6
      <3>3. t = granted[k][i] /\ t \in Nat
        BY <1>7, <2>1, <3>1, <3>2, ElementOfSeq
      <3>4. t \in Forgotten(k)
        BY <3>2, <3>3 DEF Forgotten, b
      <3>5. Crowded(t)
        BY <2>1, <3>4 DEF BucketInv
      <3> QED BY <1>18, <3>3, <3>5
    <2>9. Len(hits'[k]) <= Budget[k]
      BY <1>1, <1>3, <1>4, <1>6, <1>15 DEF b
    <2>10. BucketInv(k)'
      BY <1>15, <1>16, <2>7, <2>8, <2>9 DEF BucketInv
    <2>11. ToldInv(k)'
      BY <1>15 DEF ToldInv
    <2> QED BY <2>5, <2>10, <2>11
  <1>20. ASSUME NEW j \in Keys, j # k PROVE TimesInv(j)' /\ BucketInv(j)' /\ ToldInv(j)'
    <2>1. TimesInv(j) /\ BucketInv(j) /\ ToldInv(j) /\ granted[j] \in Seq(Nat)
      BY <1>4, SeqMonotonic DEF LimiterInv
    <2>2. granted'[j] = granted[j] /\ told'[j] = told[j] /\ seen'[j] = seen[j] /\ now' = now
      BY <1>1, <1>4, <1>20
    <2>3. CASE e = 1 /\ j = m[1]
      <3>1. hits'[j] = <<>> /\ Len(hits'[j]) = 0
        BY <1>2, <1>20, <2>3, EmptySeq
      <3>2. Len(Bucket(j)') = 0
        BY <1>4, <2>2, <3>1, RecentOfNothing DEF Bucket
      <3>3. TimesInv(j)'
        BY <1>4, <2>1, <2>2, <3>1 DEF TimesInv, Ordered
      <3>4. ASSUME NEW t \in Forgotten(j)' PROVE Crowded(t)'
        <4>1. PICK i \in 1 .. Lost(granted[j], Bucket(j)') : t = granted[j][i]
          BY <2>2, <3>4 DEF Forgotten
        <4>2. i \in 1 .. Len(granted[j])
          BY <2>1, <3>2, LenProperties DEF Lost
        <4>3. t \in Nat /\ t <= seen[j]
          BY <2>1, <4>1, <4>2, ElementOfSeq DEF TimesInv
        <4> QED BY <1>11, <2>3, <4>3
      <3>5. EndOf(granted[j], Bucket(j)')
        BY <2>1, <3>2, LenProperties DEF EndOf
      <3>6. BucketInv(j)'
        BY <1>4, <2>2, <3>1, <3>4, <3>5, LimiterAssumption DEF BucketInv
      <3>7. ToldInv(j)'
        BY <3>1 DEF ToldInv
      <3> QED BY <3>3, <3>6, <3>7
    <2>4. CASE ~(e = 1 /\ j = m[1])
      <3>1. hits'[j] = hits[j]
        BY <1>2, <1>20, <2>4
      <3>2. Bucket(j)' = Bucket(j)
        BY <2>2, <3>1 DEF Bucket
      <3>3. TimesInv(j)'
        BY <2>1, <2>2, <3>1 DEF TimesInv
      <3>4. ToldInv(j)'
        BY <2>1, <2>2, <3>1 DEF ToldInv
      <3>5. ASSUME NEW t \in Forgotten(j)' PROVE Crowded(t)'
        <4>1. t \in Forgotten(j)
          BY <2>2, <3>2, <3>5 DEF Forgotten
        <4>2. t \in Nat
          <5>1. PICK i \in 1 .. Lost(granted[j], Bucket(j)) : t = granted[j][i]
            BY <4>1 DEF Forgotten
          <5>2. i \in 1 .. Len(granted[j])
            BY <2>1, BucketIs, LenProperties DEF Lost
          <5> QED BY <2>1, <5>1, <5>2, ElementOfSeq
        <4> QED BY <1>18, <2>1, <4>1, <4>2 DEF BucketInv
      <3>6. BucketInv(j)'
        BY <2>1, <2>2, <3>1, <3>2, <3>5 DEF BucketInv
      <3> QED BY <3>3, <3>4, <3>6
    <2> QED BY <2>3, <2>4
  <1> QED BY <1>10, <1>17, <1>19, <1>20 DEF LimiterInv

\* Hits and admissions leave the window at the same moment.
LEMMA TickKeeps ==
    ASSUME LimiterInv, Tick
    PROVE  LimiterInv'
  <1>1. /\ now' = now + 1 /\ granted' = [k \in Keys |-> Recent(granted[k], now + 1)]
        /\ hits' = hits /\ order' = order /\ seen' = seen /\ told' = told
        /\ now \in Nat /\ now + 1 \in Nat /\ now + 1 \in Times /\ Times \in SUBSET Nat
        /\ LimiterTypeOK /\ TableInv
    BY LimiterAssumption DEF Tick, LimiterInv, LimiterTypeOK, Times
  <1>2. ASSUME NEW k \in Keys
        PROVE  granted'[k] \in Seq(Times) /\ TimesInv(k)' /\ BucketInv(k)' /\ ToldInv(k)'
    <2>1. /\ TimesInv(k) /\ BucketInv(k) /\ ToldInv(k)
          /\ granted[k] \in Seq(Times) /\ granted[k] \in Seq(Nat) /\ hits[k] \in Seq(Nat)
      BY <1>1, SeqMonotonic DEF LimiterInv, LimiterTypeOK
    <2> DEFINE g == granted[k]
               b == Bucket(k)
               r == Recent(g, now + 1)
               q == Recent(b, now + 1)
    <2>2. granted'[k] = r
      BY <1>1
    <2>3. Bucket(k)' = q
      <3>1. now <= now + 1 /\ Ordered(hits[k])
        BY <1>1, <2>1 DEF TimesInv
      <3>2. Recent(Recent(hits[k], now), now + 1) = Recent(hits[k], now + 1)
        BY <1>1, <2>1, <3>1, RecentTwice
      <3> QED BY <1>1, <3>2 DEF Bucket
    <2>4. /\ b \in Seq(Nat) /\ Ordered(b) /\ Ordered(g) /\ EndOf(g, b)
      BY <2>1, BucketIs DEF TimesInv, BucketInv
    <2>5. /\ r \in Seq(Times) /\ Ordered(r)
          /\ Expired(g, now + 1) \in 0 .. Len(g) /\ Len(r) = Len(g) - Expired(g, now + 1)
          /\ \A i \in 1 .. Len(r) : r[i] = g[Expired(g, now + 1) + i] /\ r[i] + Window > now + 1
      BY <1>1, <2>1, <2>4, RecentIs
    <2>6. /\ EndOf(r, q)
          /\ \A i \in 1 .. Lost(r, q) : \E j \in 1 .. Lost(g, b) : r[i] = g[j]
      BY <1>1, <2>1, <2>4, RecentEnd
    <2> HIDE DEF b, r, q
    <2>7. \A i \in 1 .. Len(r) : Expired(g, now + 1) + i \in 1 .. Len(g)
      BY <2>1, <2>5, LenProperties
    <2> HIDE DEF g
    <2>8. TimesInv(k)'
      <3>1. \A i \in 1 .. Len(r) : seen[k] # Never /\ r[i] <= seen[k]
        BY <2>1, <2>5, <2>7 DEF TimesInv, g
      <3>2. seen[k] # Never => seen[k] <= now + 1
        <4>1. seen[k] # Never => seen[k] \in Nat /\ seen[k] <= now
          BY <1>1, <2>1 DEF TimesInv, LimiterTypeOK
        <4> QED BY <1>1, <4>1
      <3>3. Ordered(granted'[k]) /\ Ordered(hits'[k])
        BY <1>1, <2>1, <2>2, <2>5 DEF TimesInv
      <3> QED BY <1>1, <2>1, <2>2, <2>5, <3>1, <3>2, <3>3 DEF TimesInv
    <2>9. ASSUME NEW t \in Forgotten(k)' PROVE Crowded(t)'
      <3>1. PICK i \in 1 .. Lost(r, q) : t = r[i]
        BY <2>2, <2>3, <2>9 DEF Forgotten
      <3>2. t \in Forgotten(k)
        BY <2>6, <3>1 DEF Forgotten, g, b
      <3>3. Crowded(t)
        BY <2>1, <3>2 DEF BucketInv
      <3> QED BY <1>1, <3>3 DEF Crowded, SeenSince
    <2>10. BucketInv(k)'
      BY <1>1, <2>1, <2>2, <2>3, <2>6, <2>9 DEF BucketInv
    <2>11. ToldInv(k)'
      BY <1>1, <2>1 DEF ToldInv
    <2> QED BY <2>2, <2>5, <2>8, <2>10, <2>11
  <1>3. LimiterTypeOK'
    <2>1. granted' \in [Keys -> Seq(Times)]
      BY <1>1, <1>2
    <2> QED BY <1>1, <2>1 DEF LimiterTypeOK, Times
  <1>4. TableInv'
    BY <1>1 DEF TableInv
  <1> QED BY <1>2, <1>3, <1>4 DEF LimiterInv

\* The limiter's invariant holds whatever is asked and whenever.
THEOREM LimiterInvariant == LimiterSpec => []LimiterInv
  <1>1. LimiterInit => LimiterInv
    BY LimiterStarts
  <1>2. LimiterInv /\ [LimiterNext]_limiterVars => LimiterInv'
    <2> SUFFICES ASSUME LimiterInv, [LimiterNext]_limiterVars
                 PROVE  LimiterInv'
      OBVIOUS
    <2>1. CASE \E k \in Keys : Admit(k)
      BY <2>1, AdmitKeeps
    <2>2. CASE \E k \in Keys : Refuse(k)
      BY <2>2, RefuseKeeps
    <2>3. CASE Tick
      BY <2>3, TickKeeps
    <2>4. CASE UNCHANGED limiterVars
      <3>1. LimiterTypeOK' /\ TableInv'
        BY <2>4 DEF limiterVars, LimiterInv, LimiterTypeOK, TableInv
      <3>2. \A k \in Keys : TimesInv(k)' /\ ToldInv(k)'
        BY <2>4 DEF limiterVars, LimiterInv, TimesInv, ToldInv
      <3>3. ASSUME NEW k \in Keys PROVE BucketInv(k)'
        <4>1. BucketInv(k) /\ Bucket(k)' = Bucket(k) /\ Forgotten(k)' = Forgotten(k)
          BY <2>4 DEF limiterVars, LimiterInv, Bucket, Forgotten, Lost
        <4>2. \A t \in Forgotten(k) : Crowded(t)'
          BY <2>4, <4>1 DEF limiterVars, BucketInv, Crowded, SeenSince
        <4> QED BY <2>4, <4>1, <4>2 DEF limiterVars, BucketInv
      <3> QED BY <3>1, <3>2, <3>3 DEF LimiterInv
    <2> QED BY <2>1, <2>2, <2>3, <2>4 DEF LimiterNext, ClockEnded
  <1> QED BY <1>1, <1>2, PTL DEF LimiterSpec

\* No key gets more than its budget in a window, unless more keys than are
\* tracked came in that window (ratelimit.py, check and its eviction).
THEOREM BudgetKept == LimiterSpec => []WithinBudget
  <1>1. ASSUME LimiterInv, NEW k \in Keys, Granted(k) > Budget[k]
        PROVE  Cardinality({j \in Keys : seen[j] # Never /\ seen[j] + Window > now}) > MaxTracked
    <2> DEFINE t == granted[k][1]
               R == {j \in Keys : seen[j] # Never /\ seen[j] + Window > now}
    <2>1. /\ LimiterTypeOK /\ TimesInv(k) /\ BucketInv(k) /\ Budget[k] \in Nat
          /\ Window \in Nat /\ now \in Nat /\ Times \subseteq Nat /\ MaxTracked \in Nat
      BY <1>1, LimiterAssumption DEF LimiterInv, LimiterTypeOK, Times
    <2>2. granted[k] \in Seq(Nat) /\ Len(granted[k]) \in Nat
      BY <2>1, SeqMonotonic, LenProperties DEF LimiterTypeOK
    <2>3. Len(Bucket(k)) <= Budget[k] /\ Len(Bucket(k)) \in Nat
      BY <1>1, <2>1, BucketIs DEF BucketInv
    <2>4. 1 \in 1 .. Lost(granted[k], Bucket(k)) /\ 1 \in 1 .. Len(granted[k])
      BY <1>1, <2>1, <2>2, <2>3 DEF Lost, Granted
    <2>5. t \in Nat /\ t + Window > now
      BY <2>1, <2>2, <2>4, ElementOfSeq DEF TimesInv
    <2>6. Crowded(t)
      BY <2>1, <2>4 DEF BucketInv, Forgotten
    <2>7. SeenSince(t) \subseteq R
      <3>1. ASSUME NEW j \in SeenSince(t) PROVE j \in R
        <4>1. j \in Keys /\ seen[j] # Never /\ seen[j] >= t /\ seen[j] \in Nat
          BY <2>1, <3>1 DEF SeenSince, LimiterTypeOK
        <4> QED BY <2>1, <2>5, <4>1
      <3> QED BY <3>1
    <2>8. IsFiniteSet(R)
      <3>1. R \subseteq Keys
        OBVIOUS
      <3> QED BY <3>1, FS_Subset, LimiterAssumption
    <2>9. Cardinality(SeenSince(t)) <= Cardinality(R) /\ IsFiniteSet(SeenSince(t))
      BY <2>7, <2>8, FS_Subset
    <2>10. Cardinality(SeenSince(t)) \in Nat /\ Cardinality(R) \in Nat
      BY <2>8, <2>9, FS_CardinalityType
    <2> HIDE DEF t, R
    <2>11. Cardinality(R) > MaxTracked
      BY <2>1, <2>6, <2>9, <2>10 DEF Crowded
    <2> QED BY <2>11 DEF R
  <1>2. LimiterInv => WithinBudget
    BY <1>1 DEF WithinBudget
  <1> QED BY <1>2, LimiterInvariant, PTL

\* Who was refused and comes back when Retry-After says is admitted.
THEOREM BackInTime == LimiterSpec => []ComeBack
  <1>1. ASSUME LimiterInv, NEW k \in Keys, told[k] # Never, now >= told[k]
        PROVE  Len(Bucket(k)) < Budget[k]
    <2>1. /\ LimiterTypeOK /\ TimesInv(k) /\ BucketInv(k) /\ ToldInv(k) /\ Budget[k] \in Nat \ {0}
          /\ Window \in Nat /\ now \in Nat /\ Times \in SUBSET Nat /\ told[k] \in Nat
      BY <1>1, LimiterAssumption DEF LimiterInv, LimiterTypeOK, Times
    <2>2. hits[k] \in Seq(Times) /\ hits[k] \in Seq(Nat) /\ Len(hits[k]) \in Nat /\ Ordered(hits[k])
      BY <2>1, SeqMonotonic, LenProperties DEF LimiterTypeOK, TimesInv
    <2>3. /\ Expired(hits[k], now) \in 0 .. Len(hits[k])
          /\ Len(Bucket(k)) = Len(hits[k]) - Expired(hits[k], now)
      BY <2>1, <2>2, RecentIs DEF Bucket
    <2>4. Len(hits[k]) <= Budget[k]
      BY <2>1 DEF BucketInv
    <2>5. CASE Len(hits[k]) = 0
      BY <2>1, <2>3, <2>5
    <2>6. CASE Len(hits[k]) # 0
      <3>1. hits[k] # <<>> /\ 1 \in 1 .. Len(hits[k])
        BY <2>2, <2>6, EmptySeq
      <3>2. hits[k][1] \in Nat
        BY <2>2, <3>1, ElementOfSeq
      <3>3. hits[k][1] + Window <= now
        BY <1>1, <2>1, <3>1, <3>2 DEF ToldInv
      <3>4. 1 <= Expired(hits[k], now)
        BY <2>1, <2>2, <3>1, <3>3, ExpiredAre
      <3> QED BY <2>1, <2>2, <2>3, <2>4, <3>4
    <2> QED BY <2>5, <2>6
  <1>2. LimiterInv => ComeBack
    BY <1>1 DEF ComeBack
  <1> QED BY <1>2, LimiterInvariant, PTL
=============================================================================
