------------------------------ MODULE Bootstrap ------------------------------
(***************************************************************************)
(* How processes bring a database to the current migration before they     *)
(* use it (db.py, bootstrap; tenancy.py, migrate_tenant; main.py,          *)
(* lifespan; scripts/create_tenant_admin.py).  Servers that start together *)
(* and the tool that creates a tenant work through lists of transactions,  *)
(* one schema each: alembic upgrade head, the T&E tables of a tenant, the  *)
(* runtime role's grants.  Nothing serialises two processes but the        *)
(* database: of two that change one schema at once the first to commit     *)
(* wins, and the other fails and ends.                                     *)
(***************************************************************************)
EXTENDS Naturals, Sequences

CONSTANTS
    Servers,   \* API processes
    Slugs,     \* tenants; the run of create_tenant_admin for one has its name
    Shared,    \* UPLOADS_SCHEMA
    Control,   \* CONTROL_SCHEMA
    Template,  \* TE_SCHEMA, which tenants' T&E tables are cloned from
    MaxCrashes \* bound: processes that die

Procs == Servers \cup Slugs
Schemas == Slugs \cup {Shared, Control, Template}

VARIABLES
    revision, \* migration a schema is at, 0 before the first
    te,       \* schemas that have the T&E tables
    granted,  \* tables of each schema the runtime role has its grants on
    fallback, \* the shared tables were made by _bootstrap_fallback_schema
    dupes,    \* csv_files of the shared schema holds a name or content twice
    tenants,  \* control.tenants, by id
    at,       \* where each process is
    todo,     \* transactions it has still to make
    txn,      \* its open transaction
    listed,   \* tenants it found when it started
    crashes

database == <<revision, te, granted, fallback, dupes, tenants>>
vars == <<database, at, todo, txn, listed, crashes>>

LastRevision == 8   \* 0008_review.py
Tasks ==
    [op : {"upgrade"}, schema : Slugs \cup {Shared}] \cup
    [op : {"provision"}, schema : Slugs] \cup [op : {"grant"}, schema : Schemas]
Task(op, schema) == [op |-> op, schema |-> schema]

ASSUME BootstrapAssumption ==
    /\ MaxCrashes \in Nat
    /\ Servers \cap Slugs = {}
    /\ Shared # Control /\ Shared # Template /\ Control # Template
    /\ {Shared, Control, Template} \cap Slugs = {}

TypeOK ==
    /\ revision \in [Slugs \cup {Shared} -> 0 .. LastRevision]
    /\ te \subseteq Slugs \cup {Template}
    /\ granted \in [Schemas -> SUBSET {"registry", "originals", "review", "control", "te"}]
    /\ fallback \in BOOLEAN /\ dupes \in BOOLEAN
    /\ tenants \in Seq(Slugs)
    /\ at \in [Procs -> {"down", "boot", "tenants", "serving", "own", "over"}]
    /\ todo \in [Procs -> Seq(Tasks)]
    /\ txn \in [Procs -> {"none", "open", "spoiled"}]
    /\ listed \in [Procs -> SUBSET Slugs]
    /\ crashes \in 0 .. MaxCrashes

-----------------------------------------------------------------------------
\* The migration that creates the tables of a schema; 0004 and 0005 change the
\* control schema, on the shared schema's run only.
CreatedBy == [registry |-> 1, originals |-> 7, review |-> 8]
ControlCreatedBy == 4

Tables(s) ==
    (IF s \in te THEN {"te"} ELSE {}) \cup
    (IF s = Control THEN {t \in {"control"} : revision[Shared] >= ControlCreatedBy}
     ELSE IF s = Template THEN {}
     ELSE {t \in DOMAIN CreatedBy : CreatedBy[t] <= revision[s]})

\* 0002 refuses duplicated rows, and adds constraints by the names that
\* PostgreSQL gave to those of the fallback's tables.
Migratable(s) == s = Shared /\ revision[s] < 2 => ~dupes /\ ~fallback

\* bootstrap's transactions before it lists the tenants.
BootTasks == <<Task("upgrade", Shared), Task("grant", Shared),
               Task("grant", Control), Task("grant", Template)>>

\* Mutant: the grants are made before the T&E tables are there.
TenantTasksGrantFirst(s) == <<Task("upgrade", s), Task("grant", s), Task("provision", s)>>

\* migrate_tenant.
TenantTasks(s) == <<Task("upgrade", s), Task("provision", s), Task("grant", s)>>

\* Mutant: every T&E table is created, not only the missing ones.
NothingToDoUnlessMigrated(t) == t.op = "upgrade" /\ revision[t.schema] = LastRevision

\* A run that finds its schema as it should be changes nothing.
NothingToDo(t) ==
    \/ t.op = "upgrade" /\ revision[t.schema] = LastRevision
    \/ t.op = "provision" /\ t.schema \in te /\ Template \in te

\* What the transaction itself cannot do.
Impossible(t) ==
    \/ t.op = "upgrade" /\ ~Migratable(t.schema)
    \/ t.op = "provision" /\ (Template \notin te \/ t.schema \in te)

-----------------------------------------------------------------------------
Working(p) == at[p] \in {"boot", "tenants", "own"}
Current(p) == todo[p][1]

\* A run of the API or of the tool starts at the beginning, whatever went before.
Start(p) ==
    /\ at[p] = "down"
    /\ at' = [at EXCEPT ![p] = "boot"]
    /\ todo' = [todo EXCEPT ![p] = BootTasks]
    /\ UNCHANGED <<database, txn, listed, crashes>>

Skip(p) ==
    /\ todo[p] # <<>> /\ txn[p] = "none"
    /\ NothingToDo(Current(p))
    /\ todo' = [todo EXCEPT ![p] = Tail(@)]
    /\ UNCHANGED <<database, at, txn, listed, crashes>>

\* The transaction reads the state its changes rest on.
Begin(p) ==
    /\ todo[p] # <<>> /\ txn[p] = "none"
    /\ ~NothingToDo(Current(p))
    /\ txn' = [txn EXCEPT ![p] = "open"]
    /\ UNCHANGED <<database, at, todo, listed, crashes>>

\* p's transaction ends; those that make the same changes will fail on them.
Committed(p) ==
    /\ txn' = [q \in Procs |->
                  IF q = p THEN "none"
                  ELSE IF txn[q] = "open" /\ Current(q) = Current(p) THEN "spoiled"
                  ELSE txn[q]]
    /\ todo' = [todo EXCEPT ![p] = Tail(@)]
    /\ UNCHANGED <<at, listed, crashes>>

\* All migrations of a schema are one transaction.
CommitUpgrade(p) ==
    /\ txn[p] = "open"
    /\ LET t == Current(p) IN
       /\ t.op = "upgrade" /\ ~Impossible(t)
       /\ revision' = [revision EXCEPT ![t.schema] = LastRevision]
    /\ Committed(p)
    /\ UNCHANGED <<te, granted, fallback, dupes, tenants>>

CommitProvision(p) ==
    /\ txn[p] = "open"
    /\ LET t == Current(p) IN
       /\ t.op = "provision" /\ ~Impossible(t)
       /\ te' = te \cup {t.schema}
    /\ Committed(p)
    /\ UNCHANGED <<revision, granted, fallback, dupes, tenants>>

\* GRANT covers the tables there are; one that another process has overtaken
\* may still succeed, if its statements come after the other's commit.
CommitGrant(p) ==
    /\ txn[p] \in {"open", "spoiled"}
    /\ LET t == Current(p) IN
       /\ t.op = "grant"
       /\ granted' = [granted EXCEPT ![t.schema] = Tables(t.schema)]
    /\ Committed(p)
    /\ UNCHANGED <<revision, te, fallback, dupes, tenants>>

\* Nothing is caught: the transaction is undone and the process ends.
Ends(p) ==
    /\ at' = [at EXCEPT ![p] = "down"]
    /\ todo' = [todo EXCEPT ![p] = <<>>]
    /\ txn' = [txn EXCEPT ![p] = "none"]
    /\ listed' = [listed EXCEPT ![p] = {}]
    /\ UNCHANGED database

Fail(p) ==
    /\ txn[p] = "spoiled" \/ (txn[p] = "open" /\ Impossible(Current(p)))
    /\ Ends(p)
    /\ UNCHANGED crashes

-----------------------------------------------------------------------------
\* Mutant: startup leaves the tenants to the tool that created them.
ListTenantsNoMigration(p) ==
    /\ at[p] = "boot" /\ todo[p] = <<>>
    /\ at' = [at EXCEPT ![p] = "tenants"]
    /\ UNCHANGED <<database, todo, listed, txn, crashes>>

\* One tenant after the other, by id.
AllTenantTasks ==
    [k \in 1 .. 3 * Len(tenants) |-> TenantTasks(tenants[(k + 2) \div 3])[((k - 1) % 3) + 1]]

\* _migrate_existing_tenants: every tenant there is now.
ListTenants(p) ==
    /\ at[p] = "boot" /\ todo[p] = <<>>
    /\ at' = [at EXCEPT ![p] = "tenants"]
    /\ listed' = [listed EXCEPT ![p] = {tenants[i] : i \in DOMAIN tenants}]
    /\ todo' = [todo EXCEPT ![p] = AllTenantTasks]
    /\ UNCHANGED <<database, txn, crashes>>

Bootstrapped(p) == at[p] = "tenants" /\ todo[p] = <<>>

Serve(p) ==
    /\ p \in Servers /\ Bootstrapped(p)
    /\ at' = [at EXCEPT ![p] = "serving"]
    /\ UNCHANGED <<database, todo, txn, listed, crashes>>

\* The tenant and its admin are committed before the tenant has a schema.
CreateTenant(p) ==
    /\ p \in Slugs /\ Bootstrapped(p)
    /\ \A i \in DOMAIN tenants : tenants[i] # p
    /\ tenants' = Append(tenants, p)
    /\ at' = [at EXCEPT ![p] = "own"]
    /\ todo' = [todo EXCEPT ![p] = TenantTasks(p)]
    /\ UNCHANGED <<revision, te, granted, fallback, dupes, txn, listed, crashes>>

\* The slug is taken: the tool fails on tenants' UNIQUE, as it will each time.
TenantExists(p) ==
    /\ p \in Slugs /\ Bootstrapped(p)
    /\ \E i \in DOMAIN tenants : tenants[i] = p
    /\ at' = [at EXCEPT ![p] = "over"]
    /\ UNCHANGED <<database, todo, txn, listed, crashes>>

TenantCreated(p) ==
    /\ at[p] = "own" /\ todo[p] = <<>>
    /\ at' = [at EXCEPT ![p] = "over"]
    /\ UNCHANGED <<database, todo, txn, listed, crashes>>

Crash(p) ==
    /\ at[p] \notin {"down", "over"}
    /\ crashes < MaxCrashes /\ crashes' = crashes + 1
    /\ Ends(p)

-----------------------------------------------------------------------------
(* What the operator does: the remedy 0002's message asks for, and           *)
(* build/deploy_all.sh, which provisioning asks for.                          *)

RemoveDuplicates ==
    /\ dupes /\ dupes' = FALSE
    /\ UNCHANGED <<revision, te, granted, fallback, tenants, at, todo, txn, listed, crashes>>

DeployTemplate ==
    /\ Template \notin te /\ te' = te \cup {Template}
    /\ UNCHANGED <<revision, granted, fallback, dupes, tenants, at, todo, txn, listed, crashes>>

\* A new database, one the fallback has made, one from before migration 0002,
\* and one of an older release, with or without a tenant.
Init ==
    /\ tenants \in {<<>>} \cup {<<s>> : s \in Slugs}
    /\ \E shared \in {0, 1, 5, LastRevision}, old \in {0, 5}, have \in SUBSET Slugs :
          /\ Len(tenants) <= 1 /\ (shared >= ControlCreatedBy \/ tenants = <<>>)
          /\ have \subseteq {tenants[i] : i \in DOMAIN tenants}
          /\ (old = 0 => have = {})
          /\ revision = [s \in Slugs \cup {Shared} |->
                            IF s = Shared THEN shared
                            ELSE IF \E i \in DOMAIN tenants : tenants[i] = s THEN old ELSE 0]
          /\ te \in {have, have \cup {Template}}
          /\ dupes \in {FALSE, shared = 1}
          /\ fallback \in {FALSE, shared = 0}
    /\ granted = [s \in Schemas |-> {}]
    /\ at = [p \in Procs |-> "down"]
    /\ todo = [p \in Procs |-> <<>>]
    /\ txn = [p \in Procs |-> "none"]
    /\ listed = [p \in Procs |-> {}]
    /\ crashes = 0

Step(p) ==
    \/ Start(p) \/ Skip(p) \/ Begin(p)
    \/ CommitUpgrade(p) \/ CommitProvision(p) \/ CommitGrant(p) \/ Fail(p)
    \/ ListTenants(p) \/ Serve(p) \/ CreateTenant(p) \/ TenantExists(p) \/ TenantCreated(p)

Next == (\E p \in Procs : Step(p) \/ Crash(p)) \/ RemoveDuplicates \/ DeployTemplate

\* Whoever runs the API or the tool runs it again when it has failed, and
\* follows what the error says.
Fairness ==
    /\ \A p \in Procs : WF_vars(Step(p))
    /\ WF_vars(RemoveDuplicates) /\ WF_vars(DeployTemplate)

Spec == Init /\ [][Next]_vars /\ Fairness

-----------------------------------------------------------------------------
Ready(s) == revision[s] = LastRevision /\ granted[s] = Tables(s) /\ (s \in Slugs => s \in te)

\* A server that serves has every schema it found at the current migration, with
\* its T&E tables and all its tables granted, whoever raced it or crashed on the
\* way (db 175-185, tenancy 60-75).
ServingMeansReady ==
    \A p \in Servers : at[p] = "serving" =>
        /\ \A s \in listed[p] \cup {Shared} : Ready(s)
        /\ granted[Control] = Tables(Control)

\* Every server that is started serves in the end: it loses no race for ever, what a
\* crash left half done stops no later start, and the operator can remove what
\* does stop it, except tables that the fallback made (main 66-68, db 175-185).
EveryServerServes == \A p \in Servers : at[p] = "down" ~> at[p] = "serving" \/ fallback

\* A tenant that exists gets its schema, though the tool that created it may have
\* died before it made one and can then not be completed (create_tenant_admin
\* 35-46, db 248-259).
TenantsGetTheirSchema ==
    \A s \in Slugs : (\E i \in DOMAIN tenants : tenants[i] = s) ~> Ready(s)
=============================================================================
