----------------------------- MODULE ReviewProofs ------------------------------
(***************************************************************************)
(* For any number of requests, items and values: the audit chain is intact *)
(* and audit_log is the append-only log of AuditLog; every version of a    *)
(* decision or a cell is in it, and its old value was in force once.       *)
(***************************************************************************)
EXTENDS Review, TLAPS

-----------------------------------------------------------------------------
(* The chain of any writers (AuditChain). *)

\* The chain that the migration makes of the rows it finds is intact.
LEMMA InitialChain == ASSUME ChainInit PROVE ChainInv
<1> USE ChainAssumption DEF ChainInit
<1>1. PICK change \in [1 .. nextId - 1 -> Changes] :
        log = {[id |-> i, prev |-> i - 1, change |-> change[i]] : i \in 1 .. nextId - 1}
  OBVIOUS
<1>2. nextId \in Nat \ {0}
  OBVIOUS
<1>3. log \in SUBSET Row
  BY <1>1, <1>2 DEF Row
<1>4. ChainTypeOK
  BY <1>2, <1>3 DEF ChainTypeOK, Steps, NoRow
<1>5. LockInv /\ ChangeInv /\ LinkInv
  BY DEF LockInv, ChangeInv, LinkInv, Locked
<1>6. NumberInv
  BY <1>1, <1>2 DEF NumberInv
<1>7. ChainIntact
  <2> SUFFICES ASSUME NEW e \in log PROVE Log!Linked(log, e)
    BY DEF ChainIntact, Log!Intact
  <2>1. PICK i \in 1 .. nextId - 1 : e = [id |-> i, prev |-> i - 1, change |-> change[i]]
    BY <1>1
  <2>2. i - 1 = 0 \/ i - 1 \in 1 .. nextId - 1
    BY <1>2
  <2>3. e.prev = 0 \/ \E f \in log : f.id = e.prev
    <3>1. CASE i - 1 = 0
      BY <2>1, <3>1
    <3>2. CASE i - 1 \in 1 .. nextId - 1
      <4> DEFINE f == [id |-> i - 1, prev |-> (i - 1) - 1, change |-> change[i - 1]]
      <4>1. f \in log
        BY <1>1, <3>2
      <4> QED BY <2>1, <4>1
    <3> QED BY <2>2, <3>1, <3>2
  <2>4. \A f \in log : f.id < e.id => f.id <= e.prev
    BY <1>1, <1>2, <2>1
  <2> QED BY <1>2, <2>1, <2>3, <2>4 DEF Log!Linked
<1> QED BY <1>4, <1>5, <1>6, <1>7 DEF ChainInv

\* Committing a row adds it at the end of the log.
LEMMA CommitAppends ==
    ASSUME ChainInv, NEW w \in Writers, CommitRow(w)
    PROVE  Log!Append(row[w])
<1> USE DEF ChainInv
<1>1. row[w] \in Row /\ \A f \in log : f.id \in Nat /\ f.id < row[w].id
  BY DEF CommitRow, ChainTypeOK, NumberInv, ChangeInv, Row
<1>2. log' = log \cup {row[w]}
  BY DEF CommitRow
<1>3. row[w].prev \in {0} \cup Ids /\ \A i \in Ids : i <= row[w].prev
  BY DEF CommitRow, LinkInv
<1>4. row[w].prev < row[w].id
  BY <1>1, <1>3 DEF Ids, Row
<1>5. row[w].prev = 0 \/ \E f \in log' : f.id = row[w].prev
  BY <1>2, <1>3 DEF Ids
<1>6. \A f \in log' : f.id < row[w].id => f.id <= row[w].prev
  BY <1>1, <1>2, <1>3 DEF Ids, Row
<1>7. Log!Linked(log', row[w])
  BY <1>4, <1>5, <1>6 DEF Log!Linked
<1> QED BY <1>1, <1>2, <1>7 DEF Log!Append

\* A row added at the end leaves the links of the others as they are.
LEMMA AppendKeepsIntact ==
    ASSUME log \in SUBSET Row, Log!Intact(log), NEW e, Log!Append(e)
    PROVE  Log!Intact(log')
<1> SUFFICES ASSUME NEW f \in log' PROVE Log!Linked(log', f)
  BY DEF Log!Intact
<1>1. log' = log \cup {e} /\ Log!Linked(log', e) /\ e \in Row /\ \A g \in log : g.id < e.id
  BY DEF Log!Append
<1>2. CASE f \in log
  <2>1. Log!Linked(log, f)
    BY <1>2 DEF Log!Intact
  <2>2. f.prev = 0 \/ \E g \in log' : g.id = f.prev
    BY <1>1, <2>1 DEF Log!Linked
  <2>3. \A g \in log' : g.id < f.id => g.id <= f.prev
    BY <1>1, <1>2, <2>1 DEF Log!Linked, Row
  <2> QED BY <2>1, <2>2, <2>3 DEF Log!Linked
<1>3. CASE f = e
  BY <1>1, <1>3
<1> QED BY <1>1, <1>2, <1>3

-----------------------------------------------------------------------------

\* The steps before the commit, and a rollback, keep the invariant.
LEMMA InsertKeepsInv ==
    ASSUME ChainInv, NEW w \in Writers,
           (\E change \in Changes : WriteAudit(w, change))
              \/ TakeLock(w) \/ TakeId(w) \/ ReadLast(w) \/ RollbackRow(w)
    PROVE  ChainInv'
<1> USE ChainAssumption DEF ChainInv
<1>1. log' = log
  BY DEF WriteAudit, TakeLock, TakeId, ReadLast, RollbackRow
<1>2. ChainIntact'
  BY <1>1 DEF ChainIntact, Log!Intact, Log!Linked
<1>3. ASSUME NEW change \in Changes, WriteAudit(w, change) PROVE ChainInv'
  <2> USE <1>3 DEF WriteAudit
  <2>1. ChainTypeOK'
    BY DEF ChainTypeOK, Steps
  <2>2. LockInv' /\ ChangeInv'
    BY DEF LockInv, ChangeInv, ChainTypeOK, Locked
  <2>3. NumberInv'
    BY DEF NumberInv, ChainTypeOK
  <2>4. LinkInv'
    BY DEF LinkInv, ChainTypeOK, Ids
  <2> QED BY <1>2, <2>1, <2>2, <2>3, <2>4
<1>4. ASSUME TakeLock(w) PROVE ChainInv'
  <2> USE <1>4 DEF TakeLock
  <2>1. ChainTypeOK'
    BY DEF ChainTypeOK, Steps
  <2>2. LockInv' /\ ChangeInv'
    BY DEF LockInv, ChangeInv, ChainTypeOK, Locked
  <2>3. NumberInv'
    BY DEF NumberInv, ChainTypeOK
  <2>4. LinkInv'
    BY DEF LinkInv, ChainTypeOK, Ids
  <2> QED BY <1>2, <2>1, <2>2, <2>3, <2>4
<1>5. ASSUME TakeId(w) PROVE ChainInv'
  <2> USE <1>5 DEF TakeId
  <2>1. ChainTypeOK'
    BY DEF ChainTypeOK, Steps
  <2>2. LockInv' /\ ChangeInv'
    BY DEF LockInv, ChangeInv, ChainTypeOK, Locked
  <2>3. NumberInv'
    <3>1. \A e \in log : e.id < nextId /\ e.id \in Nat
      BY DEF NumberInv, ChainTypeOK, Row
    <3>2. row'[w].id = nextId /\ nextId \in 1 .. nextId' - 1
      BY DEF ChainTypeOK
    <3>3. \A q \in Writers : q # w => row'[q] = row[q] /\ step'[q] = step[q]
      BY DEF ChainTypeOK
    <3>4. ASSUME NEW q \in Writers, step'[q] \in {"link", "written"}
          PROVE  row'[q].id \in 1 .. nextId' - 1 /\ \A e \in log : e.id < row'[q].id
      <4>1. CASE q = w
        BY <3>1, <3>2, <4>1
      <4>2. CASE q # w
        BY <3>3, <3>4, <4>2 DEF NumberInv, ChainTypeOK
      <4> QED BY <4>1, <4>2
    <3> QED BY <1>1, <3>1, <3>4 DEF NumberInv, ChainTypeOK
  <2>4. LinkInv'
    BY DEF LinkInv, ChainTypeOK, Ids
  <2> QED BY <1>2, <2>1, <2>2, <2>3, <2>4
<1>6. ASSUME ReadLast(w) PROVE ChainInv'
  <2> USE <1>6 DEF ReadLast
  <2>1. ChainTypeOK'
    BY DEF ChainTypeOK, Steps, Ids, Row
  <2>2. LockInv' /\ ChangeInv'
    BY DEF LockInv, ChangeInv, ChainTypeOK, Locked
  <2>3. NumberInv'
    BY DEF NumberInv, ChainTypeOK
  <2>4. LinkInv'
    BY DEF LinkInv, ChainTypeOK, Ids
  <2> QED BY <1>2, <2>1, <2>2, <2>3, <2>4
<1>7. ASSUME RollbackRow(w) PROVE ChainInv'
  <2> USE <1>7 DEF RollbackRow, EndTxn
  <2>1. ChainTypeOK'
    BY DEF ChainTypeOK, Steps, NoRow
  <2>2. LockInv' /\ ChangeInv'
    BY DEF LockInv, ChangeInv, ChainTypeOK, Locked
  <2>3. NumberInv'
    BY DEF NumberInv, ChainTypeOK
  <2>4. LinkInv'
    BY DEF LinkInv, ChainTypeOK, Ids
  <2> QED BY <1>2, <2>1, <2>2, <2>3, <2>4
<1> QED BY <1>3, <1>4, <1>5, <1>6, <1>7

\* A commit keeps it: nobody else holds a number or a link meanwhile.
LEMMA CommitKeepsInv ==
    ASSUME ChainInv, NEW w \in Writers, CommitRow(w)
    PROVE  ChainInv'
<1> USE ChainAssumption DEF ChainInv, CommitRow, EndTxn
<1>1. row[w] \in Row /\ row[w].id < nextId
  BY DEF ChainTypeOK, NumberInv, ChangeInv, Row
<1>2. ChainTypeOK'
  BY <1>1 DEF ChainTypeOK, Steps, NoRow
<1>3. LockInv' /\ ChangeInv'
  BY DEF LockInv, ChangeInv, ChainTypeOK, Locked
<1>4. \A q \in Writers : step'[q] \notin Locked
  BY DEF LockInv, ChainTypeOK, Locked
<1>5. NumberInv'
  BY <1>1, <1>4 DEF NumberInv, Locked
<1>6. LinkInv'
  BY <1>4 DEF LinkInv, Locked
<1>7. ChainIntact'
  BY CommitAppends, AppendKeepsIntact DEF ChainIntact, ChainTypeOK
<1> QED BY <1>2, <1>3, <1>5, <1>6, <1>7

\* Every step keeps the invariant.
LEMMA StepKeepsInv == ASSUME ChainInv, [ChainNext]_chainVars PROVE ChainInv'
<1>1. CASE ChainNext
  BY <1>1, InsertKeepsInv, CommitKeepsInv DEF ChainNext, Insert
<1>2. CASE UNCHANGED chainVars
  BY <1>2 DEF chainVars, ChainInv, ChainTypeOK, LockInv, ChangeInv, NumberInv, LinkInv, Ids,
              ChainIntact, Log!Intact, Log!Linked
<1> QED BY <1>1, <1>2

\* The lock, the numbers and the links under it are right in every state, and
\* every committed row names the one before it: verify_chain finds the chain of
\* migration 0006 intact, whatever inserts overlap or roll back.
THEOREM ChainInvariant == ChainSafety => []ChainInv
<1>1. ChainInit => ChainInv
  BY InitialChain
<1>2. ChainInv /\ [ChainNext]_chainVars => ChainInv'
  BY StepKeepsInv
<1> QED BY <1>1, <1>2, PTL DEF ChainSafety

\* audit_log is the append-only log: a commit adds one row, after all others
\* and linked to the last, and nothing else changes it.
THEOREM ChainIsLog == ChainSafety => ImplementsAuditLog
<1>1. ChainInit => Log!LogInit
  BY InitialChain DEF ChainInv, ChainTypeOK, ChainIntact, Log!LogInit, Row, Log!Intact
<1>2. ChainInv /\ [ChainNext]_chainVars => [Log!LogNext]_log
  <2> SUFFICES ASSUME ChainInv, [ChainNext]_chainVars, log' # log PROVE Log!LogNext
    OBVIOUS
  <2>1. PICK w \in Writers : CommitRow(w)
    BY DEF ChainNext, Insert, chainVars, WriteAudit, TakeLock, TakeId, ReadLast, RollbackRow
  <2>2. Log!Append(row[w]) /\ row[w] \in log'
    BY <2>1, CommitAppends DEF CommitRow
  <2> QED BY <2>2 DEF Log!LogNext
<1> QED BY <1>1, <1>2, ChainInvariant, PTL DEF ChainSafety, ImplementsAuditLog, Log!LogSpec

-----------------------------------------------------------------------------
(* The requests of the review (Review). *)

\* The tables that hold versions, each with its sequence.
Tables == {"row_decisions", "cell_edits"}

\* An item's versions are in one of the two tables.
LEMMA TableIsTable == ASSUME NEW i PROVE Table(i) \in Tables
BY DEF Table, Tables

\* A request that has read nothing has a version record all the same.
LEMMA NoWorkIsWork == NoWork \in Work
BY DEF NoWork, Work

\* Every step of the requests is a step of the audit chain, or leaves it alone.
LEMMA StepIsChainStep == ASSUME [Next]_vars PROVE [ChainNext]_chainVars
<1>1. ASSUME NEW w \in Writers, WriteAudit(w, Other) PROVE ChainNext
  BY <1>1 DEF ChainNext, WriteAudit
<1>2. ASSUME NEW w \in Writers, WriteAudit(w, ChangeOf(work[w])) PROVE ChainNext
  BY <1>2 DEF ChainNext, WriteAudit
<1>3. ASSUME NEW w \in Writers, Chain(w) \/ Commit(w) \/ Rollback(w) PROVE ChainNext
  BY <1>3 DEF ChainNext, Insert, Chain, Commit, Rollback
<1>4. ASSUME NEW w \in Writers, AuditOther(w) \/ InsertVersion(w) PROVE ChainNext
  BY <1>1, <1>2, <1>4 DEF AuditOther, InsertVersion
<1>5. ASSUME NEW w \in Writers, Open(w) \/ ReadCurrent(w) \/ RefuseSame(w) \/ Refuse(w)
      PROVE  UNCHANGED chainVars
  BY <1>5 DEF Open, ReadCurrent, RefuseSame, Refuse, End
<1>6. CASE UNCHANGED vars
  BY <1>6 DEF vars
<1>7. CASE Next
  BY <1>3, <1>4, <1>5, <1>6, <1>7 DEF Next, Serve, AllServed
<1> QED BY <1>6, <1>7

\* The requests of the review and of the other writers use the audit log as
\* AuditChain's writers do.
THEOREM ReviewIsChain == Safety => ImplementsAuditChain
<1>1. Init => ChainInit
  BY DEF Init
<1>2. [Next]_vars => [ChainNext]_chainVars
  BY StepIsChainStep
<1> QED BY <1>1, <1>2, PTL DEF Safety, ImplementsAuditChain, ChainSafety

\* The audit log stays in order under those requests.
THEOREM ReviewChainInv == Safety => []ChainInv
BY ReviewIsChain, ChainInvariant DEF ImplementsAuditChain

\* The audit log those requests write is the append-only log.
THEOREM ReviewLogIsLog == Safety => ImplementsAuditLog
BY ReviewIsChain, ChainIsLog DEF ImplementsAuditChain

-----------------------------------------------------------------------------

\* Nothing already there goes away, and the sequences only grow.
Grows ==
    /\ versions \subseteq versions'
    /\ \A t \in Tables : nextVersion[t] \in Nat /\ nextVersion'[t] \in Nat
                         /\ nextVersion[t] <= nextVersion'[t]

\* A value that could be read can be read later, too.
LEMMA ReadLater ==
    ASSUME NEW V \in SUBSET Version, NEW W, V \subseteq W,
           NEW i, NEW v, NEW m \in Nat, NEW n \in Nat, m <= n, ReadOf(V, i, v, m)
    PROVE  ReadOf(W, i, v, n)
BY DEF ReadOf, Version

\* A request that takes no step keeps its part of the invariant.
LEMMA OthersKeep ==
    ASSUME ReviewInv, Grows, NEW q \in Writers,
           pc'[q] = pc[q], work'[q] = work[q], step'[q] = step[q],
           row'[q].change = row[q].change
    PROVE  Control(q)' /\ WorkFits(q)'
<1> USE DEF ReviewInv
<1>1. Control(q)'
  BY DEF Control
<1>2. work[q].id \in Nat
  BY DEF ReviewTypeOK, Work
<1> DEFINE t == Table(work[q].item)
<1>3. t \in Tables
  BY TableIsTable
<1>4. ASSUME pc[q] = "insert" PROVE ReadOf(versions', work[q].item, work[q].old, nextVersion'[t])
  BY <1>3, <1>4, ReadLater DEF Grows, WorkFits, ReviewTypeOK
<1>5. ASSUME pc[q] = "audit", work[q].item # None
      PROVE  ReadOf(versions', work[q].item, work[q].old, work[q].id) /\ work[q].id < nextVersion'[t]
  BY <1>2, <1>3, <1>5, ReadLater DEF Grows, WorkFits, ReviewTypeOK
<1>6. WorkFits(q)'
  BY <1>4, <1>5 DEF WorkFits, Table
<1> QED BY <1>1, <1>6

\* The committed versions' part of the invariant, where no version is added.
LEMMA VersionsKeep ==
    ASSUME ReviewInv, Grows, versions' = versions
    PROVE  \A v \in versions' : v.id < nextVersion'[Table(v.item)]
BY TableIsTable DEF ReviewInv, Grows, ReviewTypeOK, Version

\* The invariant: each request's place, what it has read and what its audit row
\* will say; and every committed version is numbered from its sequence.
LEMMA ReviewStep ==
    ASSUME ReviewInv, ChainInv, [Next]_vars
    PROVE  ReviewInv'
<1> USE DEF ReviewInv
<1>0. /\ \A t \in Tables : nextVersion[t] \in Nat
      /\ pc \in [Writers -> {"idle", "current", "insert", "audit", "done"}]
      /\ work \in [Writers -> Work]
      /\ step \in [Writers -> Steps]
      /\ row \in [Writers -> [id : Nat, prev : Nat, change : Changes \cup {None}]]
  BY DEF ReviewTypeOK, Tables, ChainInv, ChainTypeOK
<1>1. ASSUME NEW w \in Writers, Open(w) PROVE ReviewInv'
  <2> USE <1>1 DEF Open, Goto
  <2>1. Grows /\ versions' = versions
    BY <1>0 DEF Grows
  <2>2. PICK i \in Items : \E v \in Choices(i) :
          work' = [work EXCEPT ![w] = [NoWork EXCEPT !.item = i, !.new = v, !.at = clock]]
    OBVIOUS
  <2>3. PICK v \in AnyValue :
          work' = [work EXCEPT ![w] = [NoWork EXCEPT !.item = i, !.new = v, !.at = clock]]
    BY <2>2 DEF Choices, AnyValue
  <2>4. ReviewTypeOK'
    <3>1. [NoWork EXCEPT !.item = i, !.new = v, !.at = clock] \in Work
      BY DEF NoWork, Work, ReviewTypeOK
    <3> QED BY <1>0, <2>3, <3>1 DEF ReviewTypeOK
  <2>5. Control(w)' /\ WorkFits(w)'
    BY <1>0, <2>3 DEF Control, WorkFits, NoWork, chainVars
  <2>6. ASSUME NEW q \in Writers, q # w PROVE Control(q)' /\ WorkFits(q)'
    BY <1>0, <2>1, <2>6, OthersKeep DEF chainVars
  <2> QED BY <2>1, <2>4, <2>5, <2>6, VersionsKeep
<1>2. ASSUME NEW w \in Writers, AuditOther(w) PROVE ReviewInv'
  <2> USE <1>2 DEF AuditOther, Goto, WriteAudit
  <2>1. Grows /\ versions' = versions
    BY <1>0 DEF Grows
  <2>2. ReviewTypeOK'
    BY <1>0 DEF ReviewTypeOK
  <2>3. Control(w)' /\ WorkFits(w)'
    BY <1>0 DEF Control, WorkFits, NoWork
  <2>4. ASSUME NEW q \in Writers, q # w PROVE Control(q)' /\ WorkFits(q)'
    BY <1>0, <2>1, <2>4, OthersKeep
  <2> QED BY <2>1, <2>2, <2>3, <2>4, VersionsKeep
<1>3. ASSUME NEW w \in Writers, ReadCurrent(w) PROVE ReviewInv'
  <2> USE <1>3 DEF ReadCurrent, Goto
  <2>1. Grows /\ versions' = versions
    BY <1>0 DEF Grows
  <2>2. PICK v \in AnyValue :
          InForce(work[w].item, v) /\ work' = [work EXCEPT ![w].old = v]
    OBVIOUS
  <2>3. ReviewTypeOK'
    <3>1. work[w] \in Work
      BY <1>0 DEF ReviewTypeOK
    <3>2. [work[w] EXCEPT !.old = v] \in Work
      BY <3>1 DEF Work
    <3> QED BY <1>0, <2>2, <3>2 DEF ReviewTypeOK
  <2>4. ReadOf(versions, work[w].item, v, nextVersion[Table(work[w].item)])
    BY <2>2 DEF InForce, ReadOf, OfItem
  <2>5. Control(w)'
    BY <1>0, <2>2 DEF Control, chainVars
  <2>6. WorkFits(w)'
    <3>1. work'[w].item = work[w].item /\ work'[w].old = v /\ pc'[w] = "insert"
      BY <1>0, <2>2 DEF Work
    <3> QED BY <2>4, <3>1 DEF WorkFits
  <2>7. ASSUME NEW q \in Writers, q # w PROVE Control(q)' /\ WorkFits(q)'
    BY <1>0, <2>1, <2>2, <2>7, OthersKeep DEF chainVars
  <2> QED BY <2>1, <2>3, <2>5, <2>6, <2>7, VersionsKeep
<1>4. ASSUME NEW w \in Writers, RefuseSame(w) \/ Refuse(w) PROVE ReviewInv'
  <2> USE <1>4 DEF RefuseSame, Refuse, End, Done, Goto
  <2>1. Grows /\ versions' = versions
    BY <1>0 DEF Grows
  <2>2. ReviewTypeOK'
    BY <1>0, NoWorkIsWork DEF ReviewTypeOK
  <2>3. Control(w)' /\ WorkFits(w)'
    BY <1>0 DEF Control, WorkFits, chainVars
  <2>4. ASSUME NEW q \in Writers, q # w PROVE Control(q)' /\ WorkFits(q)'
    BY <1>0, <2>1, <2>4, OthersKeep DEF chainVars
  <2> QED BY <2>1, <2>2, <2>3, <2>4, VersionsKeep
<1>5. ASSUME NEW w \in Writers, InsertVersion(w) PROVE ReviewInv'
  <2> DEFINE t == Table(work[w].item)
             n == nextVersion[t]
  <2>1. t \in Tables /\ n \in Nat
    BY <1>0, TableIsTable
  <2>2. /\ pc[w] = "insert" /\ versions' = versions /\ clock' = clock
        /\ work' = [work EXCEPT ![w].id = n]
        /\ nextVersion' = [nextVersion EXCEPT ![t] = n + 1]
        /\ pc' = [pc EXCEPT ![w] = "audit"]
        /\ WriteAudit(w, ChangeOf(work[w]))
    BY <1>5 DEF InsertVersion, Goto
  <2>3. Grows
    BY <1>0, <2>1, <2>2 DEF Grows, ReviewTypeOK, Tables
  <2>4. ReviewTypeOK'
    <3>1. [work[w] EXCEPT !.id = n] \in Work
      BY <1>0, <2>1 DEF Work
    <3>2. nextVersion' \in [Tables -> Nat \ {0}]
      BY <2>1, <2>2 DEF ReviewTypeOK, Tables
    <3> QED BY <1>0, <2>2, <3>1, <3>2 DEF ReviewTypeOK, Tables
  <2>5. work[w].item \in Items /\ work[w].new \in AnyValue /\ work[w].old \in AnyValue
        /\ ReadOf(versions, work[w].item, work[w].old, n)
    BY <2>2 DEF Control, WorkFits
  <2>6. work'[w] \in Version /\ ChangeOf(work'[w]) = ChangeOf(work[w])
    BY <1>0, <2>1, <2>2, <2>5 DEF Version, ChangeOf, Work
  <2>7. Control(w)'
    BY <1>0, <2>2, <2>5, <2>6, ReviewAssumption DEF Control, WriteAudit, ChangeOf, Items
  <2>8. WorkFits(w)'
    <3>1. work'[w].id = n /\ work'[w].item = work[w].item /\ work'[w].old = work[w].old
      BY <1>0, <2>2
    <3>2. nextVersion'[t] = n + 1
      BY <2>1, <2>2 DEF ReviewTypeOK, Tables
    <3>3. ReadOf(versions', work[w].item, work[w].old, n)
      BY <2>2, <2>5 DEF ReadOf, OfItem
    <3> QED BY <1>0, <2>1, <2>2, <3>1, <3>2, <3>3 DEF WorkFits
  <2>9. ASSUME NEW q \in Writers, q # w PROVE Control(q)' /\ WorkFits(q)'
    BY <1>0, <2>2, <2>3, <2>9, OthersKeep DEF WriteAudit
  <2> QED BY <2>2, <2>3, <2>4, <2>7, <2>8, <2>9, VersionsKeep
<1>6. ASSUME NEW w \in Writers, Chain(w) PROVE ReviewInv'
  <2> USE <1>6 DEF Chain, reviewVars
  <2>1. Grows /\ versions' = versions
    BY <1>0 DEF Grows
  <2>2. ReviewTypeOK'
    BY DEF ReviewTypeOK
  <2>3. /\ step[w] \in {"lock", "number", "link"} /\ step'[w] \in {"number", "link", "written"}
        /\ row'[w].change = row[w].change
    BY <1>0 DEF TakeLock, TakeId, ReadLast
  <2>4. Control(w)'
    BY <2>3 DEF Control
  <2>5. WorkFits(w)'
    BY DEF WorkFits
  <2>6. ASSUME NEW q \in Writers, q # w PROVE Control(q)' /\ WorkFits(q)'
    <3>1. step'[q] = step[q] /\ row'[q] = row[q]
      BY <1>0, <2>6 DEF TakeLock, TakeId, ReadLast
    <3> QED BY <2>1, <3>1, OthersKeep
  <2> QED BY <2>1, <2>2, <2>4, <2>5, <2>6, VersionsKeep
<1>7. ASSUME NEW w \in Writers, Commit(w) PROVE ReviewInv'
  <2> USE <1>7 DEF Commit, CommitRow, EndTxn, Done, Goto
  <2>1. pc[w] = "audit" /\ (work[w].item # None => work[w] \in Version)
    BY DEF Control, NoWork
  <2>2. Grows
    BY <1>0 DEF Grows
  <2>3. ReviewTypeOK'
    BY <1>0, <2>1, NoWorkIsWork DEF ReviewTypeOK
  <2>4. Control(w)' /\ WorkFits(w)'
    BY <1>0 DEF Control, WorkFits
  <2>5. ASSUME NEW q \in Writers, q # w PROVE Control(q)' /\ WorkFits(q)'
    BY <1>0, <2>2, <2>5, OthersKeep
  <2>6. \A v \in versions' : v.id < nextVersion'[Table(v.item)]
    BY <2>1 DEF WorkFits
  <2> QED BY <2>3, <2>4, <2>5, <2>6
<1>8. ASSUME NEW w \in Writers, Rollback(w) PROVE ReviewInv'
  <2> USE <1>8 DEF Rollback, RollbackRow, EndTxn, Done, Goto
  <2>1. Grows /\ versions' = versions
    BY <1>0 DEF Grows
  <2>2. ReviewTypeOK'
    BY <1>0, NoWorkIsWork DEF ReviewTypeOK
  <2>3. Control(w)' /\ WorkFits(w)'
    BY <1>0 DEF Control, WorkFits
  <2>4. ASSUME NEW q \in Writers, q # w PROVE Control(q)' /\ WorkFits(q)'
    BY <1>0, <2>1, <2>4, OthersKeep
  <2> QED BY <2>1, <2>2, <2>3, <2>4, VersionsKeep
<1>9. CASE UNCHANGED vars
  <2>1. Grows
    BY <1>0, <1>9 DEF Grows, vars, reviewVars
  <2>2. ReviewTypeOK'
    BY <1>9 DEF ReviewTypeOK, vars, reviewVars
  <2>3. \A q \in Writers : Control(q)' /\ WorkFits(q)'
    BY <1>9, <2>1, OthersKeep DEF vars, reviewVars, chainVars
  <2> QED BY <1>9, <2>1, <2>2, <2>3, VersionsKeep DEF vars, reviewVars
<1>10. CASE Next
  BY <1>1, <1>2, <1>3, <1>4, <1>5, <1>6, <1>7, <1>8, <1>9, <1>10 DEF Next, Serve, AllServed
<1> QED BY <1>9, <1>10

\* Each request's place in its transaction, the value it has read and the change
\* its audit row will state agree, in every reachable state.
THEOREM ReviewInvariant == Safety => []ReviewInv
<1>1. Init => ReviewInv
  <2> SUFFICES ASSUME Init PROVE ReviewInv
    OBVIOUS
  <2>1. ReviewTypeOK
    BY NoWorkIsWork DEF Init, ReviewTypeOK
  <2>2. \A w \in Writers : Control(w) /\ WorkFits(w)
    BY DEF Init, ChainInit, Control, WorkFits
  <2> QED BY <2>1, <2>2 DEF Init, ReviewInv
<1>2. ReviewInv /\ ChainInv /\ [Next]_vars => ReviewInv'
  BY ReviewStep
<1> QED BY <1>1, <1>2, ReviewChainInv, PTL DEF Safety

\* A step adds to the versions what it adds to the changes in the audit log.
LEMMA CommitAddsBoth ==
    ASSUME ReviewInv, ChainInv, NEW w \in Writers, Commit(w)
    PROVE  \/ versions' = versions /\ row[w].change = Other
           \/ /\ work[w] \in Version /\ versions' = versions \cup {work[w]}
              /\ row[w].change = ChangeOf(work[w])
<1>1. pc[w] = "audit"
  BY DEF ReviewInv, Control, Commit, CommitRow
<1>2. CASE work[w].item = None
  BY <1>1, <1>2, ReviewAssumption DEF ReviewInv, Control, Commit, Version
<1>3. CASE work[w].item # None
  BY <1>1, <1>3 DEF ReviewInv, Control, Commit, NoWork
<1> QED BY <1>2, <1>3

\* Where no request commits, neither the versions nor the log change.
LEMMA OnlyCommitAdds ==
    ASSUME [Next]_vars
    PROVE  \/ UNCHANGED <<versions, log>>
           \/ \E w \in Writers : Commit(w)
BY DEF Next, vars, reviewVars, chainVars, AllServed, Serve, Open, AuditOther, ReadCurrent, RefuseSame,
       InsertVersion, Chain, Refuse, End, Rollback, RollbackRow, EndTxn, WriteAudit, TakeLock,
       TakeId, ReadLast

\* The audit log tells of exactly the versions there are, whatever requests
\* overlap, fail or are cut off: decide and edit commit both rows or neither.
THEOREM EveryVersionIsAudited == Safety => []VersionsAudited
<1>1. Init => VersionsAudited
  BY DEF Init, VersionsAudited
<1>2. VersionsAudited /\ ReviewInv /\ ChainInv /\ [Next]_vars => VersionsAudited'
  <2> SUFFICES ASSUME VersionsAudited, ReviewInv, ChainInv, [Next]_vars PROVE VersionsAudited'
    OBVIOUS
  <2>1. CASE UNCHANGED <<versions, log>>
    BY <2>1 DEF VersionsAudited
  <2>2. CASE \E w \in Writers : Commit(w)
    <3>1. PICK w \in Writers : Commit(w)
      BY <2>2
    <3>2. log' = log \cup {row[w]}
      BY <3>1 DEF Commit, CommitRow
    <3>3. CASE versions' = versions /\ row[w].change = Other
      BY <3>2, <3>3 DEF VersionsAudited
    <3>4. CASE work[w] \in Version /\ versions' = versions \cup {work[w]}
               /\ row[w].change = ChangeOf(work[w])
      <4>1. ChangeOf(work[w]) # Other
        BY <3>4, ReviewAssumption DEF ChangeOf, Other, Version
      <4> QED BY <3>2, <3>4, <4>1 DEF VersionsAudited
    <3> QED BY <3>1, <3>3, <3>4, CommitAddsBoth
  <2> QED BY <2>1, <2>2, OnlyCommitAdds
<1> QED BY <1>1, <1>2, ReviewInvariant, ReviewChainInv, PTL DEF Safety

\* The old value a version records was in force once, and came before it.
THEOREM OldValuesExisted == Safety => []OldValueExisted
<1>1. Init => OldValueExisted
  BY DEF Init, OldValueExisted
<1>2. OldValueExisted /\ ReviewInv /\ ChainInv /\ [Next]_vars => OldValueExisted'
  <2> SUFFICES ASSUME OldValueExisted, ReviewInv, ChainInv, [Next]_vars PROVE OldValueExisted'
    OBVIOUS
  <2>1. CASE UNCHANGED <<versions, log>>
    BY <2>1 DEF OldValueExisted
  <2>2. ASSUME NEW w \in Writers, Commit(w) PROVE OldValueExisted'
    <3>1. /\ pc[w] = "audit"
          /\ versions \subseteq versions' /\ versions \in SUBSET Version
      BY <2>2 DEF ReviewInv, ReviewTypeOK, Control, Commit, CommitRow
    <3>2. ASSUME NEW v \in versions PROVE ReadOf(versions', v.item, v.old, v.id)
      BY <3>1, <3>2, ReadLater DEF OldValueExisted, Version
    <3>3. ASSUME NEW v \in versions', v \notin versions PROVE ReadOf(versions', v.item, v.old, v.id)
      <4>1. v = work[w] /\ work[w].item # None
        BY <2>2, <3>3 DEF Commit
      <4>2. ReadOf(versions, work[w].item, work[w].old, work[w].id) /\ work[w].id \in Nat
        BY <3>1, <4>1 DEF ReviewInv, WorkFits, ReviewTypeOK, Work
      <4> QED BY <3>1, <4>1, <4>2, ReadLater
    <3> QED BY <3>2, <3>3 DEF OldValueExisted
  <2> QED BY <2>1, <2>2, OnlyCommitAdds
<1> QED BY <1>1, <1>2, ReviewInvariant, ReviewChainInv, PTL DEF Safety
=============================================================================
