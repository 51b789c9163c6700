-------------------------- MODULE BootstrapProofs --------------------------
(* Proofs about Bootstrap: a server that serves has every schema it found as *)
(* it needs it, for any number of servers, tenants and crashes.              *)
EXTENDS Bootstrap, TLAPS

-----------------------------------------------------------------------------
(* The inductive invariant: a task that a process has behind it stays done,  *)
(* and what a task rests on is done or comes before it.                      *)

\* The tables of a schema are all there: nobody will add one.
Complete(s) ==
    IF s \in Slugs THEN revision[s] = LastRevision /\ s \in te
    ELSE revision[Shared] = LastRevision

\* What a task is for; the template's tables may be deployed after their grants.
Secured(t) ==
    /\ t.op = "upgrade" => revision[t.schema] = LastRevision
    /\ t.op = "provision" => t.schema \in te
    /\ t.op = "grant" /\ t.schema # Template =>
          Complete(t.schema) /\ granted[t.schema] = Tables(t.schema)

\* The tasks without which a grant would miss tables.
Needs(t) ==
    IF t.op # "grant" \/ t.schema = Template THEN {}
    ELSE IF t.schema \in Slugs THEN {Task("upgrade", t.schema), Task("provision", t.schema)}
    ELSE {Task("upgrade", Shared)}

BootDuties == {Task("upgrade", Shared), Task("grant", Shared), Task("grant", Control)}

TenantDuties(s) == {Task("upgrade", s), Task("provision", s), Task("grant", s)}

\* The tasks a process has taken on since it started.
Duties(p) ==
    (IF at[p] = "down" THEN {} ELSE BootDuties)
    \cup (UNION {TenantDuties(s) : s \in listed[p]})
    \cup (IF at[p] = "own" THEN TenantDuties(p) ELSE {})

Ahead(p, t, n) == \E j \in 1 .. n : todo[p][j] = t

DutiesInv(p) == \A t \in Duties(p) : Secured(t) \/ Ahead(p, t, Len(todo[p]))

OrderInv(p) ==
    \A i \in 1 .. Len(todo[p]) : \A n \in Needs(todo[p][i]) : Secured(n) \/ Ahead(p, n, i - 1)

ControlInv(p) ==
    /\ todo[p] = <<>> => txn[p] = "none"
    /\ at[p] \in {"down", "serving", "over"} => todo[p] = <<>>
    /\ at[p] \in {"down", "boot"} => listed[p] = {}
    /\ at[p] = "own" => p \in Slugs

BootInv == TypeOK /\ \A p \in Procs : DutiesInv(p) /\ OrderInv(p) /\ ControlInv(p)

-----------------------------------------------------------------------------
(* Tasks and their order. *)

LEMMA TaskTypes ==
    /\ \A t \in Tasks : t = Task(t.op, t.schema) /\ t.schema \in Schemas
    /\ \A t \in Tasks : t.op \in {"upgrade", "provision", "grant"}
    /\ \A t \in Tasks : t.op = "upgrade" => t.schema \in Slugs \cup {Shared}
    /\ \A t \in Tasks : t.op = "provision" => t.schema \in Slugs
    /\ \A s \in Slugs \cup {Shared} : Task("upgrade", s) \in Tasks
    /\ \A s \in Slugs : Task("provision", s) \in Tasks
    /\ \A s \in Schemas : Task("grant", s) \in Tasks
    /\ \A op, s : Task(op, s).op = op /\ Task(op, s).schema = s
  BY DEF Tasks, Task, Schemas

LEMMA TenantDutiesType ==
    ASSUME NEW s \in Slugs
    PROVE  TenantDuties(s) \subseteq Tasks
  BY TaskTypes DEF TenantDuties, Schemas

LEMMA BootDutiesType == BootDuties \subseteq Tasks
  BY TaskTypes DEF BootDuties, Schemas

LEMMA NeedsType == \A t \in Tasks : Needs(t) \subseteq Tasks
  BY TaskTypes DEF Needs

LEMMA DutiesType ==
    ASSUME TypeOK, NEW p \in Procs, ControlInv(p)
    PROVE  Duties(p) \subseteq Tasks
  <1>1. \A s \in listed[p] : TenantDuties(s) \subseteq Tasks
    BY TenantDutiesType DEF TypeOK
  <1>2. at[p] = "own" => TenantDuties(p) \subseteq Tasks
    BY TenantDutiesType DEF ControlInv
  <1> QED BY <1>1, <1>2, BootDutiesType DEF Duties

\* What bootstrap begins with, in its order.
LEMMA BootTasksOrder ==
    /\ BootTasks \in Seq(Tasks) /\ Len(BootTasks) = 4
    /\ \A t \in BootDuties : \E j \in 1 .. 4 : BootTasks[j] = t
    /\ \A i \in 1 .. 4 : \A n \in Needs(BootTasks[i]) : \E j \in 1 .. i - 1 : BootTasks[j] = n
  <1>1. /\ BootTasks[1] = Task("upgrade", Shared) /\ BootTasks[2] = Task("grant", Shared)
        /\ BootTasks[3] = Task("grant", Control) /\ BootTasks[4] = Task("grant", Template)
        /\ Len(BootTasks) = 4
    BY DEF BootTasks
  <1>2. BootTasks \in Seq(Tasks)
    BY TaskTypes DEF BootTasks, Schemas
  <1>3. \A t \in BootDuties : \E j \in 1 .. 4 : BootTasks[j] = t
    BY <1>1 DEF BootDuties
  <1>4. ASSUME NEW i \in 1 .. 4, NEW n \in Needs(BootTasks[i])
        PROVE  \E j \in 1 .. i - 1 : BootTasks[j] = n
    <2>1. i # 1 /\ n = Task("upgrade", Shared)
      BY <1>1, <1>4, TaskTypes, BootstrapAssumption DEF Needs
    <2> QED BY <1>1, <2>1
  <1> QED BY <1>1, <1>2, <1>3, <1>4

\* What a tenant needs, in its order.
LEMMA TenantTasksOrder ==
    ASSUME NEW s \in Slugs
    PROVE  /\ TenantTasks(s) \in Seq(Tasks) /\ Len(TenantTasks(s)) = 3
           /\ TenantTasks(s)[1] = Task("upgrade", s)
           /\ TenantTasks(s)[2] = Task("provision", s)
           /\ TenantTasks(s)[3] = Task("grant", s)
           /\ \A k \in 1 .. 3 : TenantTasks(s)[k] \in TenantDuties(s)
           /\ \A t \in TenantDuties(s) : \E k \in 1 .. 3 : TenantTasks(s)[k] = t
           /\ \A k \in 1 .. 3 : \A n \in Needs(TenantTasks(s)[k]) :
                 \E j \in 1 .. k - 1 : TenantTasks(s)[j] = n
  <1>1. /\ TenantTasks(s)[1] = Task("upgrade", s)
        /\ TenantTasks(s)[2] = Task("provision", s)
        /\ TenantTasks(s)[3] = Task("grant", s)
        /\ Len(TenantTasks(s)) = 3
    BY DEF TenantTasks
  <1>2. TenantTasks(s) \in Seq(Tasks)
    BY TaskTypes DEF TenantTasks, Schemas
  <1>3. /\ \A k \in 1 .. 3 : TenantTasks(s)[k] \in TenantDuties(s)
        /\ \A t \in TenantDuties(s) : \E k \in 1 .. 3 : TenantTasks(s)[k] = t
    BY <1>1 DEF TenantDuties
  <1>4. ASSUME NEW k \in 1 .. 3, NEW n \in Needs(TenantTasks(s)[k])
        PROVE  \E j \in 1 .. k - 1 : TenantTasks(s)[j] = n
    <2>1. k = 3 /\ n \in {Task("upgrade", s), Task("provision", s)}
      BY <1>1, <1>4, TaskTypes, BootstrapAssumption DEF Needs
    <2> QED BY <1>1, <2>1
  <1> QED BY <1>1, <1>2, <1>3, <1>4

\* All tenants' tasks: those of the i-th are at 3i - 2, 3i - 1 and 3i.
LEMMA AllTenantTasksOrder ==
    ASSUME tenants \in Seq(Slugs)
    PROVE  /\ AllTenantTasks \in Seq(Tasks) /\ Len(AllTenantTasks) \in Nat
           /\ \A i \in DOMAIN tenants : \A t \in TenantDuties(tenants[i]) :
                 \E j \in 1 .. Len(AllTenantTasks) : AllTenantTasks[j] = t
           /\ \A k \in 1 .. Len(AllTenantTasks) : \A n \in Needs(AllTenantTasks[k]) :
                 \E j \in 1 .. k - 1 : AllTenantTasks[j] = n
  <1> DEFINE last == 3 * Len(tenants)
             of(k) == (k + 2) \div 3
             nth(k) == ((k - 1) % 3) + 1
  <1>1. Len(tenants) \in Nat /\ last \in Nat /\ DOMAIN tenants = 1 .. Len(tenants)
    OBVIOUS
  <1>2. \A k \in 1 .. last : of(k) \in DOMAIN tenants /\ nth(k) \in 1 .. 3
                             /\ k = 3 * (of(k) - 1) + nth(k)
    BY <1>1
  <1>3. \A i \in DOMAIN tenants, m \in 1 .. 3 :
           /\ 3 * (i - 1) + m \in 1 .. last
           /\ of(3 * (i - 1) + m) = i /\ nth(3 * (i - 1) + m) = m
    <2> SUFFICES ASSUME NEW i \in 1 .. Len(tenants), NEW m \in 1 .. 3
                 PROVE  /\ 3 * (i - 1) + m \in 1 .. last
                        /\ of(3 * (i - 1) + m) = i /\ nth(3 * (i - 1) + m) = m
      BY <1>1
    <2>1. CASE m = 1
      BY <1>1, <2>1
    <2>2. CASE m = 2
      BY <1>1, <2>2
    <2>3. CASE m = 3
      BY <1>1, <2>3
    <2> QED BY <2>1, <2>2, <2>3
  <1>4. AllTenantTasks = [k \in 1 .. last |-> TenantTasks(tenants[of(k)])[nth(k)]]
    BY DEF AllTenantTasks
  <1> HIDE DEF last, of, nth
  <1>5. \A k \in 1 .. last : /\ tenants[of(k)] \in Slugs
                             /\ AllTenantTasks[k] = TenantTasks(tenants[of(k)])[nth(k)]
                             /\ AllTenantTasks[k] \in Tasks
    <2> SUFFICES ASSUME NEW k \in 1 .. last
                 PROVE  /\ tenants[of(k)] \in Slugs
                        /\ AllTenantTasks[k] = TenantTasks(tenants[of(k)])[nth(k)]
                        /\ AllTenantTasks[k] \in Tasks
      OBVIOUS
    <2>1. tenants[of(k)] \in Slugs
      BY <1>2
    <2>2. AllTenantTasks[k] = TenantTasks(tenants[of(k)])[nth(k)]
      BY <1>4
    <2>3. TenantTasks(tenants[of(k)])[nth(k)] \in TenantDuties(tenants[of(k)])
      BY <1>2, <2>1, TenantTasksOrder
    <2> QED BY <2>1, <2>2, <2>3, TenantDutiesType
  <1>6. AllTenantTasks \in Seq(Tasks) /\ Len(AllTenantTasks) = last
    BY <1>1, <1>4, <1>5
  <1>7. ASSUME NEW i \in DOMAIN tenants, NEW t \in TenantDuties(tenants[i])
        PROVE  \E j \in 1 .. last : AllTenantTasks[j] = t
    <2>1. PICK m \in 1 .. 3 : TenantTasks(tenants[i])[m] = t
      BY TenantTasksOrder
    <2>2. 3 * (i - 1) + m \in 1 .. last
      BY <1>3
    <2> QED BY <1>3, <1>5, <2>1, <2>2
  <1>8. ASSUME NEW k \in 1 .. last, NEW n \in Needs(AllTenantTasks[k])
        PROVE  \E j \in 1 .. k - 1 : AllTenantTasks[j] = n
    <2>a. /\ of(k) \in 1 .. Len(tenants) /\ nth(k) \in 1 .. 3 /\ tenants[of(k)] \in Slugs
          /\ k = 3 * (of(k) - 1) + nth(k) /\ n \in Needs(TenantTasks(tenants[of(k)])[nth(k)])
      BY <1>1, <1>2, <1>5, <1>8
    <2>1. PICK j \in 1 .. nth(k) - 1 : TenantTasks(tenants[of(k)])[j] = n
      BY <2>a, TenantTasksOrder
    <2> DEFINE at_j == 3 * (of(k) - 1) + j
    <2>2. j \in 1 .. 3 /\ at_j \in 1 .. k - 1
      BY <1>1, <2>a
    <2>3. AllTenantTasks[at_j] = n
      BY <1>2, <1>3, <1>5, <2>1, <2>2
    <2> QED BY <2>2, <2>3
  <1> QED BY <1>1, <1>6, <1>7, <1>8

-----------------------------------------------------------------------------
(* What is done stays done. *)

\* How a step may change the database.
DatabaseGrows ==
    /\ \A s \in Slugs \cup {Shared} :
          revision'[s] = revision[s] \/ revision'[s] = LastRevision
    /\ te \subseteq te'
    /\ te' \subseteq Slugs \cup {Template}
    /\ \/ granted' = granted
       \/ UNCHANGED <<revision, te>>
          /\ \A s \in Schemas : granted'[s] = granted[s] \/ granted'[s] = Tables(s)

LEMMA SecuredStable ==
    ASSUME TypeOK, DatabaseGrows, NEW t \in Tasks, Secured(t)
    PROVE  Secured(t)'
  <1>1. CASE t.op = "upgrade" \/ t.op = "provision"
    BY <1>1, TaskTypes DEF Secured, DatabaseGrows
  <1>2. CASE t.op = "grant" /\ t.schema = Template
    BY <1>2 DEF Secured
  <1>3. CASE t.op = "grant" /\ t.schema # Template
    <2>1. Complete(t.schema) /\ granted[t.schema] = Tables(t.schema) /\ t.schema \in Schemas
      BY <1>3, TaskTypes DEF Secured
    <2>2. Complete(t.schema)'
      BY <2>1 DEF Complete, DatabaseGrows
    <2>3. Tables(t.schema)' = Tables(t.schema)
      <3>1. CASE t.schema \in Slugs
        BY <2>1, <2>2, <3>1, BootstrapAssumption DEF Complete, Tables
      <3>2. CASE t.schema \notin Slugs
        BY <1>3, <2>1, <2>2, <3>2, BootstrapAssumption
           DEF Complete, Tables, Schemas, DatabaseGrows, TypeOK
      <3> QED BY <3>1, <3>2
    <2>4. granted'[t.schema] = Tables(t.schema)'
      BY <2>1, <2>3 DEF DatabaseGrows
    <2> QED BY <1>3, <2>2, <2>4 DEF Secured
  <1> QED BY <1>1, <1>2, <1>3, TaskTypes

\* A process that a step leaves alone.
LEMMA ProcKept ==
    ASSUME TypeOK, DatabaseGrows, NEW q \in Procs, DutiesInv(q), OrderInv(q), ControlInv(q),
           at'[q] = at[q], todo'[q] = todo[q], listed'[q] = listed[q],
           todo[q] = <<>> => txn'[q] = "none"
    PROVE  (DutiesInv(q) /\ OrderInv(q) /\ ControlInv(q))'
  <1>1. Duties(q)' = Duties(q) /\ Duties(q) \subseteq Tasks
    BY DutiesType DEF Duties
  <1>2. DutiesInv(q)'
    BY <1>1, SecuredStable DEF DutiesInv, Ahead
  <1>3. OrderInv(q)'
    <2>1. \A i \in 1 .. Len(todo[q]) : Needs(todo[q][i]) \subseteq Tasks
      BY NeedsType DEF TypeOK
    <2>2. \A t : Needs(t)' = Needs(t)
      BY DEF Needs
    <2> QED BY <2>1, <2>2, SecuredStable DEF OrderInv, Ahead
  <1>4. ControlInv(q)'
    BY DEF ControlInv
  <1> QED BY <1>2, <1>3, <1>4

\* A process whose first task is done goes on with the others.
LEMMA ProcPops ==
    ASSUME TypeOK, DatabaseGrows, NEW p \in Procs, DutiesInv(p), OrderInv(p), ControlInv(p),
           todo[p] # <<>>, todo'[p] = Tail(todo[p]), at'[p] = at[p], listed'[p] = listed[p],
           txn'[p] = "none", NEW t1, t1 = Current(p), Secured(t1)'
    PROVE  (DutiesInv(p) /\ OrderInv(p) /\ ControlInv(p))'
  <1>1. /\ todo[p] \in Seq(Tasks) /\ Len(todo[p]) \in Nat \ {0}
        /\ todo'[p] \in Seq(Tasks) /\ Len(todo'[p]) = Len(todo[p]) - 1
        /\ \A i \in 1 .. Len(todo[p]) - 1 : todo'[p][i] = todo[p][i + 1]
    BY DEF TypeOK
  <1>2. t1 = todo[p][1]
    BY DEF Current
  <1>3. ASSUME NEW t \in Tasks, NEW n \in 1 .. Len(todo[p]), Secured(t) \/ Ahead(p, t, n)
        PROVE  Secured(t)' \/ \E j \in 1 .. n - 1 : todo'[p][j] = t
    <2>1. CASE Secured(t)
      BY <2>1, SecuredStable
    <2>2. CASE Ahead(p, t, n)
      <3>1. PICK j \in 1 .. n : todo[p][j] = t
        BY <2>2 DEF Ahead
      <3>2. CASE j = 1
        BY <1>2, <3>1, <3>2
      <3>3. CASE j # 1
        <4>1. j - 1 \in 1 .. n - 1 /\ j - 1 \in 1 .. Len(todo[p]) - 1 /\ (j - 1) + 1 = j
          BY <1>1, <3>3
        <4> QED BY <1>1, <3>1, <4>1
      <3> QED BY <3>2, <3>3
    <2> QED BY <1>3, <2>1, <2>2
  <1>4. DutiesInv(p)'
    <2>1. Duties(p)' = Duties(p) /\ Duties(p) \subseteq Tasks
      BY DutiesType DEF Duties
    <2>2. \A t \in Duties(p) : Secured(t)' \/ \E j \in 1 .. Len(todo[p]) - 1 : todo'[p][j] = t
      BY <1>1, <1>3, <2>1 DEF DutiesInv
    <2> QED BY <1>1, <2>1, <2>2 DEF DutiesInv, Ahead
  <1>5. OrderInv(p)'
    <2> SUFFICES ASSUME NEW i \in 1 .. Len(todo'[p]), NEW n \in Needs(todo'[p][i])
                 PROVE  Secured(n)' \/ \E j \in 1 .. i - 1 : todo'[p][j] = n
      BY DEF OrderInv, Ahead, Needs
    <2>1. i + 1 \in 1 .. Len(todo[p]) /\ todo'[p][i] = todo[p][i + 1] /\ i \in 1 .. Len(todo[p])
          /\ (i + 1) - 1 = i
      BY <1>1
    <2>2. n \in Tasks
      BY <1>1, <2>1, NeedsType
    <2>3. Secured(n) \/ Ahead(p, n, i)
      BY <2>1 DEF OrderInv
    <2> QED BY <1>3, <2>1, <2>2, <2>3
  <1>6. ControlInv(p)'
    BY DEF ControlInv
  <1> QED BY <1>4, <1>5, <1>6

\* A process that starts a list in which every task comes after what it needs.
LEMMA OrderOfQueue ==
    ASSUME NEW p \in Procs, NEW queue \in Seq(Tasks), todo'[p] = queue,
           \A i \in 1 .. Len(queue) : \A n \in Needs(queue[i]) :
              \E j \in 1 .. i - 1 : queue[j] = n
    PROVE  OrderInv(p)'
  <1> SUFFICES ASSUME NEW i \in 1 .. Len(todo'[p]), NEW n \in Needs(todo'[p][i])
               PROVE  Secured(n)' \/ \E j \in 1 .. i - 1 : todo'[p][j] = n
    BY DEF OrderInv, Ahead, Needs
  <1> QED OBVIOUS

\* A process that ends has nothing behind it.
LEMMA ProcEnds ==
    ASSUME NEW p \in Procs, at'[p] = "down", todo'[p] = <<>>, txn'[p] = "none",
           listed'[p] = {}
    PROVE  (DutiesInv(p) /\ OrderInv(p) /\ ControlInv(p))'
  <1>1. Duties(p)' = {}
    BY DEF Duties
  <1> QED BY <1>1 DEF DutiesInv, OrderInv, ControlInv

\* The first task of a process rests on nothing that is not done.
LEMMA FirstRests ==
    ASSUME TypeOK, NEW p \in Procs, OrderInv(p), todo[p] # <<>>
    PROVE  Current(p) \in Tasks /\ \A n \in Needs(Current(p)) : Secured(n)
  <1>1. Len(todo[p]) \in Nat \ {0} /\ todo[p][1] \in Tasks
    BY DEF TypeOK
  <1>2. \A n \in Needs(todo[p][1]) : Secured(n) \/ Ahead(p, n, 0)
    BY <1>1 DEF OrderInv
  <1>3. \A n : ~Ahead(p, n, 0)
    BY DEF Ahead
  <1> QED BY <1>1, <1>2, <1>3 DEF Current

-----------------------------------------------------------------------------
(* One lemma per action. *)

LEMMA InitInv == Init => BootInv
  <1> SUFFICES ASSUME Init PROVE BootInv
    OBVIOUS
  <1>1. TypeOK
    <2>1. tenants \in Seq(Slugs)
      <3>1. \A s \in Slugs : <<s>> \in Seq(Slugs)
        OBVIOUS
      <3>2. <<>> \in Seq(Slugs)
        OBVIOUS
      <3>3. tenants = <<>> \/ \E s \in Slugs : tenants = <<s>>
        BY DEF Init
      <3> QED BY <3>1, <3>2, <3>3
    <2>2. \E have \in SUBSET Slugs : te \in {have, have \cup {Template}}
      BY DEF Init
    <2>3. te \subseteq Slugs \cup {Template} /\ fallback \in BOOLEAN /\ dupes \in BOOLEAN
      BY <2>2 DEF Init
    <2>4. revision \in [Slugs \cup {Shared} -> 0 .. LastRevision]
      BY DEF Init, LastRevision
    <2> QED BY <2>1, <2>3, <2>4, BootstrapAssumption DEF Init, TypeOK
  <1>2. ASSUME NEW p \in Procs PROVE DutiesInv(p) /\ OrderInv(p) /\ ControlInv(p)
    <2>1. Duties(p) = {} /\ todo[p] = <<>>
      BY DEF Init, Duties
    <2> QED BY <2>1 DEF Init, DutiesInv, OrderInv, ControlInv
  <1> QED BY <1>1, <1>2 DEF BootInv

\* Steps that only move a process on.
LEMMA MovesInv ==
    ASSUME BootInv, NEW p \in Procs, UNCHANGED database, TypeOK',
           \A q \in Procs : q # p => /\ at'[q] = at[q] /\ todo'[q] = todo[q]
                                     /\ listed'[q] = listed[q] /\ txn'[q] = txn[q],
           (DutiesInv(p) /\ OrderInv(p) /\ ControlInv(p))'
    PROVE  BootInv'
  <1>1. TypeOK /\ DatabaseGrows
    BY DEF BootInv, TypeOK, DatabaseGrows, database
  <1>2. ASSUME NEW q \in Procs, q # p PROVE (DutiesInv(q) /\ OrderInv(q) /\ ControlInv(q))'
    BY <1>1, <1>2, ProcKept DEF BootInv, ControlInv
  <1> QED BY <1>2 DEF BootInv

LEMMA StartInv ==
    ASSUME BootInv, NEW p \in Procs, Start(p)
    PROVE  BootInv'
  <1>1. TypeOK /\ ControlInv(p)
    BY DEF BootInv
  <1>2. at'[p] = "boot" /\ todo'[p] = BootTasks /\ listed'[p] = {} /\ txn'[p] = "none"
    BY <1>1 DEF Start, TypeOK, ControlInv
  <1>3. TypeOK'
    BY <1>1, BootTasksOrder DEF Start, TypeOK, database
  <1>4. Duties(p)' = BootDuties
    BY <1>2 DEF Duties
  <1>5. (DutiesInv(p) /\ OrderInv(p) /\ ControlInv(p))'
    <2>2. DutiesInv(p)'
      BY <1>2, <1>4, BootTasksOrder DEF DutiesInv, Ahead
    <2>3. OrderInv(p)'
      <3>1. \A i \in 1 .. Len(BootTasks) : \A n \in Needs(BootTasks[i]) :
               \E j \in 1 .. i - 1 : BootTasks[j] = n
        BY BootTasksOrder
      <3> QED BY <1>2, <3>1, BootTasksOrder, OrderOfQueue
    <2>4. ControlInv(p)'
      BY <1>2 DEF ControlInv
    <2> QED BY <2>2, <2>3, <2>4
  <1> QED BY <1>1, <1>3, <1>5, MovesInv DEF Start, TypeOK

LEMMA SkipInv ==
    ASSUME BootInv, NEW p \in Procs, Skip(p)
    PROVE  BootInv'
  <1>1. TypeOK /\ DutiesInv(p) /\ OrderInv(p) /\ ControlInv(p)
    BY DEF BootInv
  <1>2. Current(p) \in Tasks
    BY <1>1, FirstRests DEF Skip
  <1>3. TypeOK'
    BY <1>1 DEF Skip, TypeOK, database
  <1>4. DatabaseGrows
    BY <1>1 DEF Skip, TypeOK, DatabaseGrows, database
  <1>5. PICK t1 : t1 = Current(p)
    OBVIOUS
  <1>6. Secured(t1)'
    BY <1>2, <1>5, TaskTypes DEF Skip, NothingToDo, Secured, database
  <1>7. todo'[p] = Tail(todo[p]) /\ txn'[p] = "none" /\ at'[p] = at[p] /\ listed'[p] = listed[p]
    BY <1>1 DEF Skip, TypeOK
  <1>8. (DutiesInv(p) /\ OrderInv(p) /\ ControlInv(p))'
    BY <1>1, <1>4, <1>5, <1>6, <1>7, ProcPops DEF Skip
  <1> QED BY <1>1, <1>3, <1>8, MovesInv DEF Skip, TypeOK

LEMMA BeginInv ==
    ASSUME BootInv, NEW p \in Procs, Begin(p)
    PROVE  BootInv'
  <1>1. TypeOK /\ DutiesInv(p) /\ OrderInv(p) /\ ControlInv(p)
    BY DEF BootInv
  <1>2. TypeOK' /\ DatabaseGrows
    BY <1>1 DEF Begin, TypeOK, database, DatabaseGrows
  <1>3. (DutiesInv(p) /\ OrderInv(p) /\ ControlInv(p))'
    BY <1>1, <1>2, ProcKept DEF Begin
  <1> QED BY <1>1, <1>2, <1>3, MovesInv DEF Begin, TypeOK

\* A commit does the first task of its process, and moves no other process.
LEMMA CommitInv ==
    ASSUME BootInv, NEW p \in Procs, txn[p] # "none", Committed(p), DatabaseGrows,
           revision' \in [Slugs \cup {Shared} -> 0 .. LastRevision],
           granted' \in [Schemas -> SUBSET {"registry", "originals", "review", "control", "te"}],
           UNCHANGED <<fallback, dupes, tenants>>,
           NEW t1, t1 = Current(p), Secured(t1)'
    PROVE  BootInv'
  <1>1. TypeOK /\ DutiesInv(p) /\ OrderInv(p) /\ ControlInv(p) /\ todo[p] # <<>>
    BY DEF BootInv, ControlInv
  <1>2. Tail(todo[p]) \in Seq(Tasks)
    BY <1>1 DEF TypeOK
  <1>3. TypeOK'
    <2>1. txn' \in [Procs -> {"none", "open", "spoiled"}]
      BY <1>1 DEF Committed, TypeOK
    <2> QED BY <1>1, <1>2, <2>1 DEF Committed, TypeOK, DatabaseGrows
  <1>4. (DutiesInv(p) /\ OrderInv(p) /\ ControlInv(p))'
    <2>1. todo'[p] = Tail(todo[p]) /\ txn'[p] = "none" /\ at'[p] = at[p]
          /\ listed'[p] = listed[p]
      BY <1>1 DEF Committed, TypeOK
    <2> QED BY <1>1, <2>1, ProcPops
  <1>5. ASSUME NEW q \in Procs, q # p PROVE (DutiesInv(q) /\ OrderInv(q) /\ ControlInv(q))'
    <2>1. todo'[q] = todo[q] /\ at'[q] = at[q] /\ listed'[q] = listed[q]
          /\ (txn[q] = "none" => txn'[q] = "none")
      BY <1>1, <1>5 DEF Committed, TypeOK
    <2>2. DutiesInv(q) /\ OrderInv(q) /\ ControlInv(q)
      BY DEF BootInv
    <2> QED BY <1>1, <2>1, <2>2, ProcKept DEF ControlInv
  <1> QED BY <1>3, <1>4, <1>5 DEF BootInv

LEMMA CommitUpgradeInv ==
    ASSUME BootInv, NEW p \in Procs, CommitUpgrade(p)
    PROVE  BootInv'
  <1>1. TypeOK /\ OrderInv(p) /\ todo[p] # <<>> /\ txn[p] # "none"
    BY DEF BootInv, ControlInv, CommitUpgrade
  <1>2. PICK t1 \in Tasks : t1 = Current(p)
    BY <1>1, FirstRests
  <1>3. t1.op = "upgrade" /\ t1.schema \in Slugs \cup {Shared}
        /\ revision' = [revision EXCEPT ![t1.schema] = LastRevision]
    BY <1>2, TaskTypes DEF CommitUpgrade
  <1>4. /\ revision' \in [Slugs \cup {Shared} -> 0 .. LastRevision]
        /\ revision'[t1.schema] = LastRevision
        /\ \A s \in Slugs \cup {Shared} :
              revision'[s] = revision[s] \/ revision'[s] = LastRevision
    BY <1>1, <1>3 DEF TypeOK, LastRevision
  <1>5. DatabaseGrows /\ Secured(t1)'
    BY <1>1, <1>3, <1>4 DEF CommitUpgrade, DatabaseGrows, TypeOK, Secured
  <1> QED BY <1>1, <1>2, <1>4, <1>5, CommitInv DEF CommitUpgrade, TypeOK

LEMMA CommitProvisionInv ==
    ASSUME BootInv, NEW p \in Procs, CommitProvision(p)
    PROVE  BootInv'
  <1>1. TypeOK /\ OrderInv(p) /\ todo[p] # <<>> /\ txn[p] # "none"
    BY DEF BootInv, ControlInv, CommitProvision
  <1>2. PICK t1 \in Tasks : t1 = Current(p)
    BY <1>1, FirstRests
  <1>3. t1.op = "provision" /\ t1.schema \in Slugs /\ te' = te \cup {t1.schema}
    BY <1>2, TaskTypes DEF CommitProvision
  <1>4. DatabaseGrows /\ Secured(t1)'
    BY <1>1, <1>3 DEF CommitProvision, DatabaseGrows, TypeOK, Secured
  <1> QED BY <1>1, <1>2, <1>4, CommitInv DEF CommitProvision, TypeOK

\* A grant covers all the tables there will be, since what creates them is done.
LEMMA CommitGrantInv ==
    ASSUME BootInv, NEW p \in Procs, CommitGrant(p)
    PROVE  BootInv'
  <1>1. TypeOK /\ OrderInv(p) /\ todo[p] # <<>> /\ txn[p] # "none"
    BY DEF BootInv, ControlInv, CommitGrant
  <1>2. PICK t1 \in Tasks : t1 = Current(p) /\ \A n \in Needs(t1) : Secured(n)
    BY <1>1, FirstRests
  <1>3. t1.op = "grant" /\ t1.schema \in Schemas
        /\ granted' = [granted EXCEPT ![t1.schema] = Tables(t1.schema)]
        /\ UNCHANGED <<revision, te>>
    BY <1>2, TaskTypes DEF CommitGrant
  <1>4. Tables(t1.schema) \subseteq {"registry", "originals", "review", "control", "te"}
    BY DEF Tables, CreatedBy
  <1>5. granted' \in [Schemas -> SUBSET {"registry", "originals", "review", "control", "te"}]
    BY <1>1, <1>3, <1>4 DEF TypeOK
  <1>6. DatabaseGrows
    BY <1>1, <1>3 DEF DatabaseGrows, TypeOK
  <1>7. Secured(t1)'
    <2>1. CASE t1.schema = Template
      BY <1>3, <2>1 DEF Secured
    <2>2. CASE t1.schema # Template
      <3>1. Complete(t1.schema)
        <4>1. CASE t1.schema \in Slugs
          BY <1>2, <1>3, <2>2, <4>1, TaskTypes DEF Needs, Secured, Complete
        <4>2. CASE t1.schema \notin Slugs
          BY <1>2, <1>3, <2>2, <4>2, TaskTypes DEF Needs, Secured, Complete
        <4> QED BY <4>1, <4>2
      <3>2. Complete(t1.schema)' /\ Tables(t1.schema)' = Tables(t1.schema)
        BY <1>3, <3>1 DEF Complete, Tables
      <3>3. granted'[t1.schema] = Tables(t1.schema)
        BY <1>1, <1>3 DEF TypeOK
      <3> QED BY <1>3, <3>2, <3>3 DEF Secured
    <2> QED BY <2>1, <2>2
  <1> QED BY <1>1, <1>2, <1>5, <1>6, <1>7, CommitInv DEF CommitGrant, TypeOK

LEMMA EndsInv ==
    ASSUME BootInv, NEW p \in Procs, Fail(p) \/ Crash(p)
    PROVE  BootInv'
  <1>1. TypeOK /\ Ends(p)
    BY DEF BootInv, Fail, Crash
  <1>2. TypeOK'
    <2>1. crashes' \in 0 .. MaxCrashes
      BY <1>1, BootstrapAssumption DEF Fail, Crash, TypeOK
    <2> QED BY <1>1, <2>1 DEF Ends, TypeOK, database
  <1>3. (DutiesInv(p) /\ OrderInv(p) /\ ControlInv(p))'
    BY <1>1, ProcEnds DEF Ends, TypeOK
  <1> QED BY <1>1, <1>2, <1>3, MovesInv DEF Ends, TypeOK

\* The tenants that are listed are taken on with what each needs, in its order.
LEMMA ListTenantsInv ==
    ASSUME BootInv, NEW p \in Procs, ListTenants(p)
    PROVE  BootInv'
  <1> DEFINE found == {tenants[i] : i \in DOMAIN tenants}
  <1>1. /\ TypeOK /\ DutiesInv(p) /\ ControlInv(p) /\ tenants \in Seq(Slugs)
        /\ at[p] = "boot" /\ todo[p] = <<>> /\ txn[p] = "none"
    BY DEF BootInv, TypeOK, ListTenants, ControlInv
  <1>2. at'[p] = "tenants" /\ listed'[p] = found /\ todo'[p] = AllTenantTasks
        /\ txn'[p] = "none" /\ UNCHANGED database
    BY <1>1 DEF ListTenants, TypeOK
  <1>3. found \subseteq Slugs
    BY <1>1
  <1>4. TypeOK'
    BY <1>1, <1>3, AllTenantTasksOrder DEF ListTenants, TypeOK, database
  <1>5. DatabaseGrows
    BY <1>1, <1>2 DEF TypeOK, DatabaseGrows, database
  <1>6. DutiesInv(p)'
    <2>1. ASSUME NEW t \in BootDuties PROVE Secured(t)'
      <3>1. t \in Duties(p) /\ t \in Tasks
        BY <1>1, BootDutiesType DEF Duties
      <3>2. Secured(t)
        BY <1>1, <3>1 DEF DutiesInv, Ahead
      <3> QED BY <1>1, <1>5, <3>1, <3>2, SecuredStable
    <2>2. ASSUME NEW s \in found, NEW t \in TenantDuties(s)
          PROVE  \E j \in 1 .. Len(AllTenantTasks) : AllTenantTasks[j] = t
      BY <1>1, AllTenantTasksOrder
    <2>3. Duties(p)' = BootDuties \cup UNION {TenantDuties(s) : s \in found}
      BY <1>2 DEF Duties
    <2> HIDE DEF found
    <2> QED BY <1>2, <2>1, <2>2, <2>3 DEF DutiesInv, Ahead
  <1>7. OrderInv(p)'
    <2>1. PICK queue \in Seq(Tasks) :
             /\ queue = AllTenantTasks
             /\ \A i \in 1 .. Len(queue) : \A n \in Needs(queue[i]) :
                   \E j \in 1 .. i - 1 : queue[j] = n
      BY <1>1, AllTenantTasksOrder
    <2> QED BY <1>2, <2>1, OrderOfQueue
  <1>8. ControlInv(p)'
    BY <1>2 DEF ControlInv
  <1> QED BY <1>1, <1>2, <1>4, <1>6, <1>7, <1>8, MovesInv DEF ListTenants, TypeOK

LEMMA ServeInv ==
    ASSUME BootInv, NEW p \in Procs, Serve(p) \/ TenantExists(p) \/ TenantCreated(p)
    PROVE  BootInv'
  <1>1. /\ TypeOK /\ DutiesInv(p) /\ OrderInv(p) /\ ControlInv(p)
        /\ at[p] \in {"tenants", "own"} /\ todo[p] = <<>> /\ txn[p] = "none"
        /\ UNCHANGED <<database, todo, txn, listed, crashes>>
        /\ at'[p] \in {"serving", "over"}
    BY DEF BootInv, TypeOK, ControlInv, Serve, TenantExists, TenantCreated, Bootstrapped
  <1>2. TypeOK' /\ DatabaseGrows
    BY <1>1 DEF Serve, TenantExists, TenantCreated, TypeOK, database, DatabaseGrows
  <1>3. Duties(p)' \subseteq Duties(p)
    BY <1>1 DEF Duties
  <1>4. \A t \in Duties(p) : Secured(t)'
    <2>1. \A t \in Duties(p) : Secured(t)
      BY <1>1 DEF DutiesInv, Ahead
    <2> QED BY <1>1, <1>2, <2>1, DutiesType, SecuredStable
  <1>5. (DutiesInv(p) /\ OrderInv(p) /\ ControlInv(p))'
    BY <1>1, <1>3, <1>4 DEF DutiesInv, OrderInv, ControlInv
  <1> QED BY <1>1, <1>2, <1>5, MovesInv DEF Serve, TenantExists, TenantCreated, TypeOK

LEMMA CreateTenantInv ==
    ASSUME BootInv, NEW p \in Procs, CreateTenant(p)
    PROVE  BootInv'
  <1>1. /\ TypeOK /\ DutiesInv(p) /\ ControlInv(p) /\ p \in Slugs
        /\ at[p] = "tenants" /\ todo[p] = <<>> /\ txn[p] = "none"
    BY DEF BootInv, TypeOK, ControlInv, CreateTenant, Bootstrapped
  <1>2. /\ at'[p] = "own" /\ listed'[p] = listed[p] /\ todo'[p] = TenantTasks(p)
        /\ txn'[p] = "none" /\ UNCHANGED <<revision, te, granted>>
    BY <1>1 DEF CreateTenant, TypeOK
  <1>3. TypeOK' /\ DatabaseGrows
    <2>1. tenants' \in Seq(Slugs) /\ TenantTasks(p) \in Seq(Tasks)
      BY <1>1, TenantTasksOrder DEF CreateTenant, TypeOK
    <2> QED BY <1>1, <2>1 DEF CreateTenant, TypeOK, DatabaseGrows
  <1>4. DutiesInv(p)'
    <2>1. Duties(p)' = Duties(p) \cup TenantDuties(p)
      BY <1>1, <1>2 DEF Duties
    <2>2. \A t \in Duties(p) : Secured(t)'
      <3>1. \A t \in Duties(p) : Secured(t)
        BY <1>1 DEF DutiesInv, Ahead
      <3> QED BY <1>1, <1>3, <3>1, DutiesType, SecuredStable
    <2>3. \A t \in TenantDuties(p) : \E j \in 1 .. 3 : TenantTasks(p)[j] = t
      BY <1>1, TenantTasksOrder
    <2>4. Len(TenantTasks(p)) = 3
      BY <1>1, TenantTasksOrder
    <2> QED BY <1>2, <2>1, <2>2, <2>3, <2>4 DEF DutiesInv, Ahead
  <1>5. OrderInv(p)'
    <2>1. TenantTasks(p) \in Seq(Tasks) /\ Len(TenantTasks(p)) = 3
          /\ \A k \in 1 .. 3 : \A n \in Needs(TenantTasks(p)[k]) :
                \E j \in 1 .. k - 1 : TenantTasks(p)[j] = n
      BY <1>1, TenantTasksOrder
    <2> QED BY <1>2, <2>1, OrderOfQueue
  <1>6. ControlInv(p)'
    BY <1>1, <1>2 DEF ControlInv
  <1>7. ASSUME NEW q \in Procs, q # p PROVE (DutiesInv(q) /\ OrderInv(q) /\ ControlInv(q))'
    <2>1. at'[q] = at[q] /\ todo'[q] = todo[q] /\ listed'[q] = listed[q] /\ txn'[q] = txn[q]
      BY <1>1, <1>7 DEF CreateTenant, TypeOK
    <2> QED BY <1>1, <1>3, <1>7, <2>1, ProcKept DEF BootInv, ControlInv
  <1> QED BY <1>3, <1>4, <1>5, <1>6, <1>7 DEF BootInv

\* The operator adds the template's tables, and takes nothing away.
LEMMA OperatorInv ==
    ASSUME BootInv, RemoveDuplicates \/ DeployTemplate \/ UNCHANGED vars
    PROVE  BootInv'
  <1>1. TypeOK' /\ DatabaseGrows
    BY DEF BootInv, TypeOK, RemoveDuplicates, DeployTemplate, vars, database, DatabaseGrows
  <1>2. UNCHANGED <<at, todo, txn, listed>>
    BY DEF RemoveDuplicates, DeployTemplate, vars
  <1>3. ASSUME NEW q \in Procs PROVE (DutiesInv(q) /\ OrderInv(q) /\ ControlInv(q))'
    BY <1>1, <1>2, ProcKept DEF BootInv, ControlInv
  <1> QED BY <1>1, <1>3 DEF BootInv

LEMMA NextInv == BootInv /\ [Next]_vars => BootInv'
  <1> SUFFICES ASSUME BootInv, [Next]_vars PROVE BootInv'
    OBVIOUS
  <1>1. ASSUME NEW p \in Procs, Step(p) PROVE BootInv'
    BY <1>1, StartInv, SkipInv, BeginInv, CommitUpgradeInv, CommitProvisionInv,
       CommitGrantInv, EndsInv, ListTenantsInv, ServeInv, CreateTenantInv DEF Step
  <1> QED BY <1>1, EndsInv, OperatorInv DEF Next

-----------------------------------------------------------------------------
\* What a process has behind it stays done, through races, failures and crashes
\* of the others, and nothing is granted before its tables are there.
THEOREM BootInvariant == Spec => []BootInv
  BY InitInv, NextInv, PTL DEF Spec

LEMMA ReadyWhenSecured ==
    ASSUME TypeOK, NEW s \in Slugs \cup {Shared}, Secured(Task("upgrade", s)),
           s \in Slugs => Secured(Task("provision", s)), Secured(Task("grant", s))
    PROVE  Ready(s)
  BY TaskTypes, BootstrapAssumption DEF Secured, Ready

\* A server that serves has every schema it found at the current migration, with
\* its tables there and granted, whoever raced it or crashed on the way.
THEOREM ServingMeansReadyHolds == Spec => []ServingMeansReady
  <1>1. BootInv => ServingMeansReady
    <2> SUFFICES ASSUME BootInv, NEW p \in Servers, at[p] = "serving"
                 PROVE  /\ \A s \in listed[p] \cup {Shared} : Ready(s)
                        /\ granted[Control] = Tables(Control)
      BY DEF ServingMeansReady
    <2>1. p \in Procs /\ todo[p] = <<>> /\ TypeOK /\ DutiesInv(p)
      BY DEF Procs, BootInv, ControlInv
    <2>2. \A t \in Duties(p) : Secured(t)
      BY <2>1 DEF DutiesInv, Ahead
    <2>3. \A t \in BootDuties : Secured(t)
      BY <2>2 DEF Duties
    <2>4. \A s \in listed[p] : \A t \in TenantDuties(s) : Secured(t)
      BY <2>2 DEF Duties
    <2>5. \A s \in listed[p] : Ready(s)
      BY <2>1, <2>4, ReadyWhenSecured DEF TenantDuties, TypeOK
    <2>6. Ready(Shared)
      BY <2>1, <2>3, ReadyWhenSecured, BootstrapAssumption DEF BootDuties
    <2>7. granted[Control] = Tables(Control)
      BY <2>3, TaskTypes, BootstrapAssumption DEF BootDuties, Secured
    <2> QED BY <2>5, <2>6, <2>7
  <1> QED BY <1>1, BootInvariant, PTL

\* The tool says that a tenant is created only when its schema is ready.
THEOREM CreatedMeansReady ==
    Spec => [](\A s \in Slugs : at[s] = "own" /\ todo[s] = <<>> => Ready(s))
  <1>1. BootInv => \A s \in Slugs : at[s] = "own" /\ todo[s] = <<>> => Ready(s)
    <2> SUFFICES ASSUME BootInv, NEW s \in Slugs, at[s] = "own", todo[s] = <<>>
                 PROVE  Ready(s)
      OBVIOUS
    <2>1. s \in Procs /\ TypeOK /\ DutiesInv(s)
      BY DEF Procs, BootInv
    <2>2. \A t \in TenantDuties(s) : Secured(t)
      BY <2>1 DEF Duties, DutiesInv, Ahead
    <2> QED BY <2>1, <2>2, ReadyWhenSecured DEF TenantDuties
  <1> QED BY <1>1, BootInvariant, PTL
=============================================================================
