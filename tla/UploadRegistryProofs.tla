------------------------ MODULE UploadRegistryProofs ------------------------
(***************************************************************************)
(* Proofs about UploadRegistry, for every set of requests, names and       *)
(* hashes.                                                                 *)
(***************************************************************************)
EXTENDS UploadRegistry, TLAPS

LEMMA EmptyTxnType == EmptyTxn \in Txn
  BY DEF EmptyTxn, Txn

LEMMA DynamicTablesType == ASSUME NEW F \in SUBSET File PROVE DynamicTables(F) \in SUBSET Hashes
  BY DEF DynamicTables, File

LEMMA IdsType == ASSUME NEW F \in SUBSET File PROVE Ids(F) \in SUBSET Nat
  BY DEF Ids, File

-----------------------------------------------------------------------------
(* Types and control.  Neither is inductive alone: the row a request inserts *)
(* has a name because only uploads reach that statement.                     *)

Typed == TypeOK /\ ControlInv

LEMMA FinishTyped ==
    ASSUME Typed, NEW r \in Requests, NEW told \in Answers, Finish(r, told), UNCHANGED req
    PROVE  /\ pc' \in [Requests -> Steps]
           /\ txn' \in [Requests -> Txn]
           /\ answer' \in [Requests -> Answers]
           /\ ControlInv'
  <1>1. Controlled(req[r], EmptyTxn, "done")
    BY DEF Typed, ControlInv, Controlled, EmptyTxn
  <1>2. ControlInv'
    BY <1>1 DEF Typed, TypeOK, ControlInv, Finish, Goto
  <1>3. QED
    BY <1>2, EmptyTxnType DEF Typed, TypeOK, Finish, Goto, Steps

LEMMA RollbackTyped ==
    ASSUME Typed, NEW r \in Requests, NEW told \in Answers, Rollback(r, told)
    PROVE  Typed'
  BY FinishTyped DEF Typed, TypeOK, Rollback

LEMMA ProceedTyped ==
    ASSUME Typed, NEW r \in Requests, NEW t \in Txn, NEW step \in Steps, Proceed(r, t, step),
           Controlled(req[r], t, step)
    PROVE  Typed'
  BY DEF Typed, TypeOK, ControlInv, Proceed, Goto

\* Noting what to drop and to delete, and what comes next, leaves a transaction one.
LEMMA PlannedTxn ==
    ASSUME NEW x \in Txn, NEW D \in SUBSET Hashes, NEW V \in SUBSET Nat,
           NEW next \in {"content", "create", "register", "commit"}
    PROVE  [x EXCEPT !.toDrop = D, !.victims = V, !.next = next] \in Txn
  BY DEF Txn

LEMMA ReplaceTyped ==
    ASSUME Typed, NEW r \in Requests, NEW F \in SUBSET File,
           NEW next \in {"content", "create", "register", "commit"}, Replace(r, F, next),
           pc[r] \in {"name", "content", "scan", "find"},
           \/ req[r].kind = "dynamic" /\ next \in {"content", "create"}
           \/ req[r].kind = "te" /\ next = "register"
           \/ req[r].kind = "delete" /\ next = "commit"
    PROVE  Typed'
  <1> DEFINE t == [txn[r] EXCEPT !.toDrop = DynamicTables(F), !.victims = Ids(F), !.next = next]
             step == AfterDrop(r, DynamicTables(F))
  <1>1. t \in Txn
    <2>1. txn[r] \in Txn
      BY DEF Typed, TypeOK
    <2>2. QED
      BY <2>1, DynamicTablesType, IdsType, PlannedTxn
  <1>2. step \in Steps
    BY DEF AfterDrop, Steps
  <1>3. Controlled(req[r], t, step)
    BY DEF Typed, TypeOK, Txn, ControlInv, Controlled, AfterDrop
  <1>4. QED
    BY <1>1, <1>2, <1>3, ProceedTyped DEF Replace

LEMMA StartTyped ==
    ASSUME Typed, NEW r \in Requests, NEW first \in {"name", "scan", "find", "lookup"},
           NEW what \in Request, NEW victims \in SUBSET Nat, Start(r, first, what, victims),
           first = "name" => what.kind = "dynamic",
           first = "scan" => what.kind = "te",
           first = "find" => what.kind = "delete"
    PROVE  Typed'
  <1> DEFINE t == [txn[r] EXCEPT !.victims = victims]
  <1>a. t \in Txn /\ txn' = [txn EXCEPT ![r] = t]
    BY DEF Typed, TypeOK, Start, Txn
  <1>1. TypeOK'
    BY <1>a DEF Typed, TypeOK, Start, Goto, Steps
  <1>2. ControlInv'
    BY DEF Typed, TypeOK, ControlInv, Controlled, Start, Goto
  <1>3. QED
    BY <1>1, <1>2 DEF Typed

LEMMA NewFileType ==
    ASSUME Typed, NEW r \in Requests, pc[r] = "register"
    PROVE  NewFile(r) \in File
  BY DEF Typed, TypeOK, ControlInv, Controlled, NewFile, File, Request, Txn, Modes

LEMMA ArriveTyped == ASSUME Typed, NEW r \in Requests, Arrive(r) PROVE Typed'
  <1>0. {} \in SUBSET Nat
    OBVIOUS
  <1>1. CASE UploadDynamic(r)
    <2>1. PICK n \in Names, h \in Hashes, o \in Overwrites :
            Start(r, "name", [kind |-> "dynamic", name |-> n, hash |-> h, overwrite |-> o], {})
      BY <1>1 DEF UploadDynamic
    <2>2. [kind |-> "dynamic", name |-> n, hash |-> h, overwrite |-> o] \in Request
      BY ConstantsAssumption DEF Request, Modes
    <2>3. QED
      BY <1>0, <2>1, <2>2, StartTyped
  <1>2. CASE UploadTe(r)
    <2>1. PICK n \in Names, h \in Hashes :
            Start(r, "scan", [kind |-> "te", name |-> n, hash |-> h, overwrite |-> FALSE], {})
      BY <1>2 DEF UploadTe
    <2>2. [kind |-> "te", name |-> n, hash |-> h, overwrite |-> FALSE] \in Request
      BY DEF Request, Modes
    <2>3. QED
      BY <1>0, <2>1, <2>2, StartTyped
  <1>3. CASE DeleteFile(r)
    <2>1. PICK i \in 1 .. nextId - 1 :
            Start(r, "find", [NoRequest EXCEPT !.kind = "delete"], {i})
      BY <1>3 DEF DeleteFile
    <2>2. [NoRequest EXCEPT !.kind = "delete"] \in Request
      BY DEF NoRequest, Request
    <2>3. {i} \in SUBSET Nat
      BY DEF Typed, TypeOK
    <2>4. [NoRequest EXCEPT !.kind = "delete"].kind = "delete"
      BY DEF NoRequest
    <2>5. QED
      BY <2>1, <2>2, <2>3, <2>4, StartTyped
  <1>4. CASE TableRows(r)
    <2>1. PICK h \in Hashes : Start(r, "lookup", [NoRequest EXCEPT !.hash = h], {})
      BY <1>4 DEF TableRows
    <2>2. [NoRequest EXCEPT !.hash = h] \in Request
      BY DEF NoRequest, Request
    <2>3. QED
      BY <1>0, <2>1, <2>2, StartTyped
  <1>5. QED
    BY <1>1, <1>2, <1>3, <1>4 DEF Arrive

LEMMA CommitTyped == ASSUME Typed, NEW r \in Requests, Commit(r) PROVE Typed'
  <1>1. PICK told \in {"ok", DatabaseError(r)} : Finish(r, told)
    BY DEF Commit
  <1>2. told \in Answers
    BY DEF DatabaseError, Answers
  <1>3. files' \in SUBSET File
    BY DEF Commit, Visible, Typed, TypeOK, Txn
  <1>4. tables' \in SUBSET Hashes
    <2>1. CASE txn[r].created
      <3>1. req[r].hash \in Hashes
        BY <2>1 DEF Typed, TypeOK, ControlInv, Controlled, Request
      <3>2. QED
        BY <2>1, <3>1 DEF Commit, Typed, TypeOK
    <2>2. CASE ~txn[r].created
      BY <2>2 DEF Commit, Typed, TypeOK
    <2>3. QED
      BY <2>1, <2>2
  <1>5. QED
    BY <1>1, <1>2, <1>3, <1>4, FinishTyped DEF Typed, TypeOK, Commit

LEMMA ServeTyped == ASSUME Typed, NEW r \in Requests, Serve(r) PROVE Typed'
  <1>1. /\ txn[r] \in Txn /\ Visible(r) \in SUBSET File /\ SameFile(r) \in SUBSET File
        /\ Controlled(req[r], txn[r], pc[r])
    BY DEF Typed, TypeOK, Visible, SameFile, ControlInv
  <1>2. /\ DatabaseError(r) \in Answers
        /\ {"duplicate", "error", "forbidden", "notfound", "ok", "failed"} \subseteq Answers
    BY DEF DatabaseError, Answers
  <1>3. ASSUME NEW prior \in SUBSET File, NEW next \in {"content", "create"},
               pc[r] \in {"name", "content"}, CheckPrior(r, prior, next)
        PROVE  Typed'
    <2>1. req[r].kind = "dynamic"
      BY <1>1, <1>3 DEF Controlled
    <2>2. CASE prior = {}
      <3>1. Controlled(req[r], txn[r], next) /\ next \in Steps
        BY <1>1, <1>3, <2>1 DEF Controlled, Steps
      <3>2. QED
        BY <1>1, <1>3, <2>2, <3>1, ProceedTyped DEF CheckPrior
    <2>3. CASE prior # {} /\ ~req[r].overwrite
      BY <1>2, <1>3, <2>3, RollbackTyped DEF CheckPrior
    <2>4. CASE prior # {} /\ req[r].overwrite
      BY <1>3, <2>1, <2>4, ReplaceTyped DEF CheckPrior
    <2>5. QED
      BY <2>2, <2>3, <2>4
  <1>4. CASE CheckName(r)
    <2>1. {f \in Visible(r) : f.name = req[r].name} \in SUBSET File
      BY <1>1
    <2>2. QED
      BY <1>3, <1>4, <2>1 DEF CheckName
  <1>5. CASE CheckContent(r)
    <2>1. {f \in Visible(r) : f.hash = req[r].hash} \in SUBSET File
      BY <1>1
    <2>2. QED
      BY <1>3, <1>5, <2>1 DEF CheckContent
  <1>6. CASE CleanupScan(r)
    <2>1. req[r].kind = "te"
      BY <1>1, <1>6 DEF CleanupScan, Controlled
    <2>2. QED
      BY <1>1, <1>6, <2>1, ReplaceTyped DEF CleanupScan
  <1>7. CASE DropTable(r)
    <2>1. PICK h \in txn[r].toDrop :
              Proceed(r, [txn[r] EXCEPT !.toDrop = @ \ {h},
                              !.dropped = IF Exists(r, h) THEN @ \cup {h} ELSE @],
                      AfterDrop(r, txn[r].toDrop \ {h}))
      BY <1>7 DEF DropTable
    <2> DEFINE t == [txn[r] EXCEPT !.toDrop = @ \ {h},
                         !.dropped = IF Exists(r, h) THEN @ \cup {h} ELSE @]
               step == AfterDrop(r, txn[r].toDrop \ {h})
    <2>2. t \in Txn
      BY <1>1 DEF Txn
    <2>3. step \in Steps
      BY DEF AfterDrop, Steps
    <2>4. /\ t.toDrop = txn[r].toDrop \ {h} /\ t.next = txn[r].next
          /\ t.created = txn[r].created /\ t.entry = txn[r].entry
      BY <1>1 DEF Txn
    <2>5. Controlled(req[r], t, step)
      BY <1>1, <1>7, <2>4 DEF DropTable, Controlled, AfterDrop
    <2>6. QED
      BY <2>1, <2>2, <2>3, <2>5, ProceedTyped
  <1>8. CASE RescanForDelete(r)
    <2> DEFINE t == [txn[r] EXCEPT !.victims = Ids(SameFile(r))]
    <2>1. t \in Txn
      BY <1>1, IdsType DEF Txn
    <2>2. Controlled(req[r], t, "delete")
      BY <1>1, <1>8 DEF Txn, RescanForDelete, Controlled
    <2>3. QED
      BY <1>8, <2>1, <2>2, ProceedTyped DEF RescanForDelete, Steps
  <1>9. CASE DeleteRows(r)
    <2> DEFINE t == [txn[r] EXCEPT !.deleted = @ \cup (txn[r].victims \cap Ids(files)),
                                   !.victims = {}]
    <2>1. t \in Txn
      BY <1>1 DEF Txn
    <2>2. Controlled(req[r], t, txn[r].next)
      BY <1>1, <1>9 DEF Txn, DeleteRows, Controlled, Modes
    <2>3. txn[r].next \in Steps
      BY <1>1 DEF Txn, Steps
    <2>4. QED
      BY <1>9, <2>1, <2>2, <2>3, ProceedTyped DEF DeleteRows
  <1>10. CASE RefuseColumns(r) \/ RefuseRows(r) \/ AbortDeadlocked(r)
    BY <1>2, <1>10, RollbackTyped DEF RefuseColumns, RefuseRows, AbortDeadlocked
  <1>11. CASE CreateTable(r) \/ CreateAfterWait(r)
    <2> DEFINE t == [txn[r] EXCEPT !.created = TRUE]
    <2>1. req[r].kind = "dynamic" /\ pc[r] \in {"create", "creating"}
      BY <1>1, <1>11 DEF CreateTable, CreateAfterWait, Controlled
    <2>2. t \in Txn /\ {"load", "creating"} \subseteq Steps
      BY <1>1 DEF Txn, Steps
    <2>3. Controlled(req[r], t, "load") /\ Controlled(req[r], txn[r], "load")
          /\ Controlled(req[r], txn[r], "creating")
      BY <1>1, <2>1 DEF Txn, Controlled
    <2>4. CASE Proceed(r, txn[r], "load")
      BY <1>1, <2>2, <2>3, <2>4, ProceedTyped
    <2>5. CASE Proceed(r, txn[r], "creating")
      BY <1>1, <2>2, <2>3, <2>5, ProceedTyped
    <2>6. CASE Proceed(r, t, "load")
      BY <2>2, <2>3, <2>6, ProceedTyped
    <2>7. CASE Rollback(r, "duplicate")
      BY <1>2, <2>7, RollbackTyped
    <2>8. QED
      BY <1>11, <2>4, <2>5, <2>6, <2>7 DEF CreateTable, CreateAfterWait
  <1>12. CASE LoadRows(r)
    <2>1. Controlled(req[r], txn[r], "register") /\ "register" \in Steps
      BY <1>1, <1>12 DEF LoadRows, Controlled, Modes, Steps
    <2>2. QED
      BY <1>1, <1>2, <1>12, <2>1, ProceedTyped, RollbackTyped DEF LoadRows
  <1>13. CASE Register(r)
    <2> DEFINE t == [txn[r] EXCEPT !.entry = NewFile(r)]
    <2>1. NewFile(r) \in File
      BY <1>13, NewFileType DEF Register
    <2>2. t \in Txn /\ txn' = [txn EXCEPT ![r] = t]
      BY <1>1, <1>13, <2>1 DEF Register, Txn
    <2>3. t.entry # None
      BY <1>1, <2>1, NoneAssumption DEF Txn
    <2>4. Controlled(req[r], t, "commit")
      BY <1>1, <1>13, <2>3 DEF Register, Controlled, Txn
    <2>5. TypeOK'
      BY <1>13, <2>2 DEF Register, Typed, TypeOK, Goto, Steps
    <2>6. ControlInv'
      BY <1>13, <2>2, <2>4 DEF Register, Typed, TypeOK, ControlInv, Goto
    <2>7. QED
      BY <2>5, <2>6 DEF Typed
  <1>14. CASE LoseRace(r)
    BY <1>2, <1>14, FinishTyped DEF LoseRace, Typed, TypeOK
  <1>15. CASE Commit(r)
    BY <1>15, CommitTyped
  <1>16. CASE FindFile(r)
    <2> DEFINE row == {f \in files : f.id \in txn[r].victims}
    <2>1. row \in SUBSET File
      BY DEF Typed, TypeOK
    <2>2. req[r].kind = "delete"
      BY <1>1, <1>16 DEF FindFile, Controlled
    <2>3. QED
      BY <1>2, <1>16, <2>1, <2>2, RollbackTyped, ReplaceTyped DEF FindFile
  <1>17. CASE LookupTable(r)
    <2>1. Controlled(req[r], txn[r], "read") /\ "read" \in Steps
      BY <1>1, <1>17 DEF LookupTable, Controlled, Steps
    <2>2. QED
      BY <1>1, <1>2, <1>17, <2>1, ProceedTyped, RollbackTyped DEF LookupTable
  <1>18. CASE ReadRows(r)
    BY <1>2, <1>18, RollbackTyped DEF ReadRows
  <1>19. QED
    BY <1>4, <1>5, <1>6, <1>7, <1>8, <1>9, <1>10, <1>11, <1>12, <1>13, <1>14, <1>15,
       <1>16, <1>17, <1>18 DEF Serve

LEMMA InitTyped == Init => Typed
  <1> SUFFICES ASSUME Init PROVE Typed
    OBVIOUS
  <1>1. files \in SUBSET File
    <2>1. [id : 1 .. MaxLoaded, name : Names, hash : Hashes, mode : Modes \cap Kinds,
           counted : {TRUE}] \subseteq File
      <3>1. 1 .. MaxLoaded \subseteq Nat /\ Modes \cap Kinds \subseteq Modes
            /\ {TRUE} \subseteq BOOLEAN
        BY ConstantsAssumption
      <3>2. QED
        BY <3>1 DEF File
    <2>2. QED
      BY <2>1 DEF Init
  <1>2. TypeOK
    BY <1>1, EmptyTxnType, DynamicTablesType, ConstantsAssumption
       DEF Init, TypeOK, NoRequest, Request, Steps, Answers
  <1>3. ControlInv
    BY DEF Init, ControlInv, Controlled, NoRequest, EmptyTxn, Modes
  <1>4. QED
    BY <1>2, <1>3 DEF Typed

LEMMA NextTyped == Typed /\ [Next]_vars => Typed'
  <1> SUFFICES ASSUME Typed, [Next]_vars PROVE Typed'
    OBVIOUS
  <1>1. ASSUME NEW r \in Requests, StatementFails(r) PROVE Typed'
    BY <1>1, RollbackTyped DEF StatementFails, DatabaseError, Answers
  <1>2. CASE UNCHANGED vars
    BY <1>2 DEF Typed, TypeOK, ControlInv, vars
  <1>3. QED
    BY <1>1, <1>2, ArriveTyped, ServeTyped DEF Next, AllServed

\* In every reachable state each variable has its type, and each request is
\* at a statement its kind has.
THEOREM TypeInvariant == Safety => [](TypeOK /\ ControlInv)
  BY InitTyped, NextTyped, PTL DEF Safety, Typed

-----------------------------------------------------------------------------
(* The locks.  The lemmas below take the ways a step changes its transaction *)
(* one by one; each conjunct of the invariant is a step of its own.          *)

LocksProtect == FilesInv /\ LocksInv /\ CreatedInv /\ EntriesInv /\ DeletesInv /\ LoadedInv

\* A transaction that ends and changes nothing frees what it held.
LEMMA FinishSafe ==
    ASSUME Typed, LocksProtect, NEW r \in Requests, NEW told, Finish(r, told),
           UNCHANGED <<files, tables, req>>, nextId' \in Nat, nextId' >= nextId
    PROVE  LocksProtect'
  <1> USE DEF Typed, TypeOK
  <1>1. /\ txn' = [txn EXCEPT ![r] = EmptyTxn]
        /\ pc' = [pc EXCEPT ![r] = "done"]
    BY DEF Finish, Goto
  <1>2. FilesInv'
    BY DEF LocksProtect, FilesInv, File
  <1>3. LocksInv'
    BY <1>1 DEF LocksProtect, LocksInv, EmptyTxn, Ids
  <1>4. CreatedInv'
    BY <1>1 DEF LocksProtect, CreatedInv, EmptyTxn, Exists, Others
  <1>5. EntriesInv'
    BY <1>1 DEF LocksProtect, EntriesInv, EmptyTxn, Others, SameFile, Ids, File, Txn
  <1>6. DeletesInv'
    BY <1>1 DEF LocksProtect, DeletesInv, EmptyTxn, SameFile, Txn
  <1>7. LoadedInv'
    BY <1>1 DEF LocksProtect, LoadedInv, EmptyTxn, HasLoaded
  <1>8. QED
    BY <1>2, <1>3, <1>4, <1>5, <1>6, <1>7 DEF LocksProtect

LEMMA RollbackSafe ==
    ASSUME Typed, LocksProtect, NEW r \in Requests, NEW told, Rollback(r, told)
    PROVE  LocksProtect'
  BY FinishSafe DEF Rollback, Typed, TypeOK

\* A step that takes no lock.  What its DELETE is to remove is committed, and
\* is what the request replaces.
LEMMA ProceedSafe ==
    ASSUME Typed, LocksProtect, NEW r \in Requests, NEW t \in Txn, NEW step \in Steps,
           Proceed(r, t, step),
           t.dropped = txn[r].dropped, t.deleted = txn[r].deleted,
           t.created = txn[r].created, t.entry = None, txn[r].entry = None,
           step # "commit",
           step \in {"drop", "rescan", "delete"} =>
               /\ t.victims \subseteq Ids(files)
               /\ req[r].kind \in Modes => t.victims \subseteq Ids(SameFile(r)),
           req[r].kind = "delete" => t.deleted = {} /\ \A i, j \in t.victims : i = j,
           step = "register" /\ req[r].kind = "dynamic" /\ ~t.created =>
               /\ req[r].hash \in tables
               /\ \A q \in Requests : req[r].hash \notin txn[q].dropped
    PROVE  LocksProtect'
  <1> USE DEF Typed, TypeOK
  <1>1. /\ txn' = [txn EXCEPT ![r] = t]
        /\ pc' = [pc EXCEPT ![r] = step]
        /\ UNCHANGED <<files, tables, nextId, req>>
    BY DEF Proceed, Goto
  <1>2. FilesInv'
    BY <1>1 DEF LocksProtect, FilesInv
  <1>3. LocksInv'
    BY <1>1 DEF LocksProtect, LocksInv, Ids
  <1>4. CreatedInv'
    BY <1>1 DEF LocksProtect, CreatedInv, Exists, Others
  <1>5. EntriesInv'
    BY <1>1 DEF LocksProtect, EntriesInv, Others, SameFile, Ids
  <1>6. DeletesInv'
    <2>1. ASSUME step \in {"drop", "rescan", "delete"}, NEW i \in t.victims
          PROVE  /\ i < nextId
                 /\ \A q \in Requests : txn[q].entry # None => txn[q].entry.id # i
      BY <2>1 DEF LocksProtect, FilesInv, EntriesInv, Ids
    <2>2. ASSUME step \in {"drop", "rescan", "delete"}, req[r].kind \in Modes,
                 NEW f \in files, f.id \in t.victims
          PROVE  f \in SameFile(r)
      BY <2>2 DEF LocksProtect, FilesInv, SameFile, Ids
    <2>3. QED
      BY <1>1, <2>1, <2>2 DEF LocksProtect, DeletesInv, SameFile
  <1>7. LoadedInv'
    BY <1>1 DEF LocksProtect, LoadedInv, HasLoaded
  <1>8. QED
    BY <1>2, <1>3, <1>4, <1>5, <1>6, <1>7 DEF LocksProtect

LEMMA StartSafe ==
    ASSUME Typed, LocksProtect, NEW r \in Requests,
           NEW first \in {"name", "scan", "find", "lookup"}, NEW what \in Request,
           NEW victims \in SUBSET Nat, Start(r, first, what, victims),
           what.kind = "delete" => \A i, j \in victims : i = j
    PROVE  LocksProtect'
  <1> USE DEF Typed, TypeOK
  <1> DEFINE t == [txn[r] EXCEPT !.victims = victims]
  <1>1. /\ txn' = [txn EXCEPT ![r] = t]
        /\ pc' = [pc EXCEPT ![r] = first]
        /\ req' = [req EXCEPT ![r] = what]
        /\ UNCHANGED <<files, tables, nextId>>
    BY DEF Start, Goto
  <1>2. txn[r] = EmptyTxn /\ pc[r] = "idle"
    BY DEF Start, ControlInv, Controlled
  <1>3. /\ t.dropped = {} /\ t.deleted = {} /\ t.created = FALSE /\ t.entry = None
        /\ t.victims = victims
    BY <1>2 DEF EmptyTxn
  <1>4. FilesInv'
    BY <1>1 DEF LocksProtect, FilesInv
  <1>5. LocksInv'
    BY <1>1, <1>3 DEF LocksProtect, LocksInv, Ids
  <1>6. CreatedInv'
    BY <1>1, <1>2, <1>3 DEF LocksProtect, CreatedInv, Exists, Others, EmptyTxn
  <1>7. EntriesInv'
    BY <1>1, <1>2, <1>3 DEF LocksProtect, EntriesInv, Others, SameFile, Ids, EmptyTxn
  <1>8. DeletesInv'
    BY <1>1, <1>2, <1>3 DEF LocksProtect, DeletesInv, SameFile, EmptyTxn
  <1>9. LoadedInv'
    BY <1>1, <1>2, <1>3 DEF LocksProtect, LoadedInv, HasLoaded, EmptyTxn
  <1>10. QED
    BY <1>4, <1>5, <1>6, <1>7, <1>8, <1>9 DEF LocksProtect

\* DROP TABLE: the table's only dropper, and no one has rows in it.
LEMMA DropSafe ==
    ASSUME Typed, LocksProtect, NEW r \in Requests, DropTable(r)
    PROVE  LocksProtect'
  <1> USE DEF Typed, TypeOK
  <1>1. PICK h \in txn[r].toDrop :
            /\ Holders(r, h) = {}
            /\ Proceed(r, [txn[r] EXCEPT !.toDrop = @ \ {h},
                            !.dropped = IF Exists(r, h) THEN @ \cup {h} ELSE @],
                    AfterDrop(r, txn[r].toDrop \ {h}))
    BY DEF DropTable
  <1> DEFINE t == [txn[r] EXCEPT !.toDrop = @ \ {h},
                       !.dropped = IF Exists(r, h) THEN @ \cup {h} ELSE @]
             step == AfterDrop(r, txn[r].toDrop \ {h})
  <1>2. /\ txn' = [txn EXCEPT ![r] = t]
        /\ pc' = [pc EXCEPT ![r] = step]
        /\ UNCHANGED <<files, tables, nextId, req>>
    BY <1>1 DEF Proceed, Goto
  <1>3. /\ t.victims = txn[r].victims /\ t.deleted = txn[r].deleted
        /\ t.created = txn[r].created /\ t.entry = txn[r].entry
        /\ t.dropped = IF Exists(r, h) THEN txn[r].dropped \cup {h} ELSE txn[r].dropped
    BY DEF Txn
  <1>4. /\ pc[r] = "drop" /\ step \in {"drop", "rescan", "delete"}
        /\ txn[r].entry = None /\ ~txn[r].created
    BY DEF DropTable, AfterDrop, ControlInv, Controlled, Txn
  <1>5. Exists(r, h) => \A q \in Requests :
            q # r => h \notin txn[q].dropped /\ ~(HasLoaded(q) /\ req[q].hash = h)
    BY <1>1 DEF Holders, Droppers, Others
  <1>6. FilesInv'
    BY <1>2 DEF LocksProtect, FilesInv
  <1>7. LocksInv'
    BY <1>2, <1>3, <1>5 DEF LocksProtect, LocksInv, Exists, Ids
  <1>8. CreatedInv'
    BY <1>2, <1>3, <1>4 DEF LocksProtect, CreatedInv, Exists, Others
  <1>9. EntriesInv'
    BY <1>2, <1>3, <1>4 DEF LocksProtect, EntriesInv, Others, SameFile, Ids
  <1>10. DeletesInv'
    BY <1>2, <1>3, <1>4 DEF LocksProtect, DeletesInv, SameFile
  <1>11. LoadedInv'
    BY <1>2, <1>3, <1>4, <1>5 DEF LocksProtect, LoadedInv, HasLoaded
  <1>12. QED
    BY <1>6, <1>7, <1>8, <1>9, <1>10, <1>11 DEF LocksProtect

\* DELETE: each row's only deleter.
LEMMA DeleteSafe ==
    ASSUME Typed, LocksProtect, NEW r \in Requests, DeleteRows(r)
    PROVE  LocksProtect'
  <1> USE DEF Typed, TypeOK
  <1> DEFINE gone == txn[r].victims \cap Ids(files)
             t == [txn[r] EXCEPT !.deleted = @ \cup gone, !.victims = {}]
             step == txn[r].next
  <1>1. /\ txn' = [txn EXCEPT ![r] = t]
        /\ pc' = [pc EXCEPT ![r] = step]
        /\ UNCHANGED <<files, tables, nextId, req>>
    BY DEF DeleteRows, Proceed, Goto
  <1>2. /\ t.victims = {} /\ t.deleted = txn[r].deleted \cup gone
        /\ t.created = txn[r].created /\ t.entry = txn[r].entry
        /\ t.dropped = txn[r].dropped
    BY DEF Txn
  <1>3. /\ pc[r] = "delete" /\ step \in {"content", "create", "register", "commit"}
        /\ txn[r].entry = None /\ ~txn[r].created
        /\ req[r].kind = "dynamic" => step \in {"content", "create"}
    BY DEF DeleteRows, ControlInv, Controlled, Txn
  <1>4. \A q \in Requests : q # r => \A i \in txn[q].deleted : i \notin gone
    BY DEF DeleteRows, Deleters, Others
  <1>5. FilesInv'
    BY <1>1 DEF LocksProtect, FilesInv
  <1>6. LocksInv'
    BY <1>1, <1>2, <1>4 DEF LocksProtect, LocksInv, Ids
  <1>7. CreatedInv'
    BY <1>1, <1>2, <1>3 DEF LocksProtect, CreatedInv, Exists, Others
  <1>8. EntriesInv'
    BY <1>1, <1>2, <1>3 DEF LocksProtect, EntriesInv, Others, SameFile, Ids
  <1>9. DeletesInv'
    BY <1>1, <1>2, <1>3 DEF LocksProtect, DeletesInv, SameFile, ControlInv, Controlled
  <1>10. LoadedInv'
    BY <1>1, <1>2, <1>3 DEF LocksProtect, LoadedInv, HasLoaded
  <1>11. QED
    BY <1>5, <1>6, <1>7, <1>8, <1>9, <1>10 DEF LocksProtect

\* CREATE TABLE: the only creator of a free name.
LEMMA CreateSafe ==
    ASSUME Typed, LocksProtect, NEW r \in Requests, pc[r] \in {"create", "creating"},
           ~Exists(r, req[r].hash), Creators(r) = {},
           Proceed(r, [txn[r] EXCEPT !.created = TRUE], "load")
    PROVE  LocksProtect'
  <1> USE DEF Typed, TypeOK
  <1> DEFINE t == [txn[r] EXCEPT !.created = TRUE]
  <1>1. /\ txn' = [txn EXCEPT ![r] = t]
        /\ pc' = [pc EXCEPT ![r] = "load"]
        /\ UNCHANGED <<files, tables, nextId, req>>
    BY DEF Proceed, Goto
  <1>2. /\ t.victims = txn[r].victims /\ t.deleted = txn[r].deleted /\ t.created
        /\ t.entry = txn[r].entry /\ t.dropped = txn[r].dropped
    BY DEF Txn
  <1>3. /\ txn[r].entry = None /\ req[r].kind = "dynamic"
        /\ \A q \in Others(r) : txn[q].created => req[q].hash # req[r].hash
    BY DEF ControlInv, Controlled, Creators
  <1>4. FilesInv'
    BY <1>1 DEF LocksProtect, FilesInv
  <1>5. LocksInv'
    BY <1>1, <1>2 DEF LocksProtect, LocksInv, Ids
  <1>6. CreatedInv'
    BY <1>1, <1>2, <1>3 DEF LocksProtect, CreatedInv, Exists, Others
  <1>7. EntriesInv'
    BY <1>1, <1>2, <1>3 DEF LocksProtect, EntriesInv, Others, SameFile, Ids
  <1>8. DeletesInv'
    BY <1>1, <1>2, <1>3 DEF LocksProtect, DeletesInv, SameFile
  <1>9. LoadedInv'
    BY <1>1, <1>2, <1>3 DEF LocksProtect, LoadedInv, HasLoaded
  <1>10. QED
    BY <1>4, <1>5, <1>6, <1>7, <1>8, <1>9 DEF LocksProtect

\* INSERT INTO csv_files: unique by name and by hash, now and when it commits.
LEMMA RegisterSafe ==
    ASSUME Typed, LocksProtect, NEW r \in Requests, Register(r)
    PROVE  LocksProtect'
  <1> USE DEF Typed, TypeOK
  <1> DEFINE t == [txn[r] EXCEPT !.entry = NewFile(r)]
  <1>1. /\ txn' = [txn EXCEPT ![r] = t]
        /\ pc' = [pc EXCEPT ![r] = "commit"]
        /\ nextId' = nextId + 1
        /\ UNCHANGED <<files, tables, req>>
    BY DEF Register, Goto
  <1>2. /\ t.victims = txn[r].victims /\ t.deleted = txn[r].deleted
        /\ t.created = txn[r].created /\ t.dropped = txn[r].dropped
        /\ t.entry = NewFile(r)
    BY DEF Txn
  <1>3. /\ NewFile(r).id = nextId /\ NewFile(r).name = req[r].name
        /\ NewFile(r).hash = req[r].hash /\ NewFile(r).mode = req[r].kind
    BY DEF NewFile
  <1>4. /\ pc[r] = "register" /\ req[r].kind \in Modes /\ txn[r].entry = None
        /\ NewFile(r) \in File
    BY NewFileType DEF Register, ControlInv, Controlled
  <1>5. \A q \in Others(r) :
            /\ txn[q].entry # None => /\ txn[q].entry.name # req[r].name
                                      /\ txn[q].entry.hash # req[r].hash
    BY DEF Register, Rivals
  <1>6. \A f \in SameFile(r) : f.id \in txn[r].deleted
    BY DEF Register, Visible, SameFile
  <1>7. FilesInv'
    BY <1>1 DEF LocksProtect, FilesInv, File
  <1>8. LocksInv'
    BY <1>1, <1>2 DEF LocksProtect, LocksInv, Ids
  <1>9. CreatedInv'
    BY <1>1, <1>2, <1>4 DEF LocksProtect, CreatedInv, Exists, Others
  <1>10. EntriesInv'
    <2>1. nextId \notin Ids(files)
      BY DEF LocksProtect, FilesInv, Ids, File
    <2>2. \A q \in Others(r) : txn[q].entry # None => txn[q].entry.id # nextId
      BY DEF LocksProtect, EntriesInv, Others, File, Txn
    <2>3. \A q \in Requests : txn[q].entry # None => txn[q].entry.id < nextId + 1
      BY DEF LocksProtect, EntriesInv, File, Txn
    <2>4. QED
      BY <1>1, <1>2, <1>3, <1>5, <1>6, <2>1, <2>2, <2>3
         DEF LocksProtect, EntriesInv, Others, SameFile, Ids
  <1>11. DeletesInv'
    <2>1. ASSUME NEW q \in Requests, pc[q] \in {"drop", "rescan", "delete"},
                 NEW i \in txn[q].victims
          PROVE  i < nextId /\ i \in Nat
      BY <2>1 DEF LocksProtect, DeletesInv, Txn
    <2>2. QED
      BY <1>1, <1>2, <1>3, <1>4, <2>1 DEF LocksProtect, DeletesInv, SameFile, Modes
  <1>12. LoadedInv'
    BY <1>1, <1>2, <1>4 DEF LocksProtect, LoadedInv, HasLoaded
  <1>13. QED
    BY <1>7, <1>8, <1>9, <1>10, <1>11, <1>12 DEF LocksProtect

\* COMMIT: the row and its table appear, what was replaced is gone, and the
\* locks of the others still cover what they covered.
LEMMA CommitSafe ==
    ASSUME Typed, LocksProtect, NEW r \in Requests, Commit(r)
    PROVE  LocksProtect'
  <1> USE DEF Typed, TypeOK
  <1> DEFINE e == txn[r].entry
  <1>1. /\ txn' = [txn EXCEPT ![r] = EmptyTxn]
        /\ pc' = [pc EXCEPT ![r] = "done"]
        /\ files' = Visible(r) \cup ({e} \ {None})
        /\ tables' = (tables \ txn[r].dropped)
                        \cup (IF txn[r].created THEN {req[r].hash} ELSE {})
        /\ UNCHANGED <<nextId, req>>
    BY DEF Commit, Finish, Goto
  <1>2. /\ EmptyTxn.dropped = {} /\ EmptyTxn.deleted = {} /\ ~EmptyTxn.created
        /\ EmptyTxn.entry = None /\ EmptyTxn.victims = {}
    BY DEF EmptyTxn
  <1>3. e # None => /\ e \in File /\ e.id < nextId /\ e.id \notin Ids(files)
                    /\ e.name = req[r].name /\ e.hash = req[r].hash
                    /\ \A f \in SameFile(r) : f.id \in txn[r].deleted
    BY DEF LocksProtect, EntriesInv, Txn
  <1>4. FilesInv'
    BY <1>1, <1>3 DEF LocksProtect, FilesInv, Visible, SameFile, Ids
  <1>5. LocksInv'
    BY <1>1, <1>2 DEF LocksProtect, LocksInv, Visible, Ids
  <1>6. CreatedInv'
    BY <1>1, <1>2 DEF LocksProtect, CreatedInv, LocksInv, Exists, Others
  <1>7. EntriesInv'
    BY <1>1, <1>2, <1>3 DEF LocksProtect, EntriesInv, LocksInv, Others, SameFile, Visible, Ids
  <1>8. DeletesInv'
    BY <1>1, <1>2, <1>3 DEF LocksProtect, DeletesInv, LocksInv, SameFile, Visible, Ids
  <1>9. LoadedInv'
    BY <1>1, <1>2 DEF LocksProtect, LoadedInv, LocksInv, HasLoaded
  <1>10. QED
    BY <1>4, <1>5, <1>6, <1>7, <1>8, <1>9 DEF LocksProtect

\* A replacing request is to delete just the files it was given.
LEMMA ReplaceSafe ==
    ASSUME Typed, LocksProtect, NEW r \in Requests, NEW F \in SUBSET files,
           NEW next \in {"content", "create", "register", "commit"}, Replace(r, F, next),
           pc[r] \in {"name", "content", "scan", "find"},
           req[r].kind \in Modes => F \subseteq SameFile(r),
           req[r].kind = "delete" => \A f, g \in F : f.id = g.id
    PROVE  LocksProtect'
  <1> DEFINE t == [txn[r] EXCEPT !.toDrop = DynamicTables(F), !.victims = Ids(F), !.next = next]
             step == AfterDrop(r, DynamicTables(F))
  <1>1. F \in SUBSET File
    BY DEF Typed, TypeOK
  <1>2. t \in Txn /\ step \in {"drop", "rescan", "delete"} /\ step \in Steps
    <2>1. txn[r] \in Txn
      BY DEF Typed, TypeOK
    <2>2. t \in Txn
      BY <1>1, <2>1, DynamicTablesType, IdsType, PlannedTxn
    <2>3. step \in {"drop", "rescan", "delete"} /\ step \in Steps
      BY DEF AfterDrop, Steps
    <2>4. QED
      BY <2>2, <2>3
  <1>3. /\ t.victims = Ids(F) /\ t.deleted = txn[r].deleted /\ t.created = txn[r].created
        /\ t.entry = txn[r].entry /\ t.dropped = txn[r].dropped
    BY DEF Typed, TypeOK, Txn
  <1>4. txn[r].entry = None /\ t.entry = None
    BY <1>3 DEF Typed, ControlInv, Controlled
  <1>5. /\ Ids(F) \subseteq Ids(files)
        /\ req[r].kind \in Modes => Ids(F) \subseteq Ids(SameFile(r))
        /\ req[r].kind = "delete" => \A i, j \in Ids(F) : i = j
    BY DEF Ids
  <1>6. req[r].kind = "delete" => txn[r].deleted = {}
    BY DEF LocksProtect, DeletesInv
  <1>7. Proceed(r, t, step)
    BY DEF Replace
  <1>8. /\ step # "commit" /\ step # "register"
        /\ step \in {"drop", "rescan", "delete"} =>
               /\ t.victims \subseteq Ids(files)
               /\ req[r].kind \in Modes => t.victims \subseteq Ids(SameFile(r))
        /\ req[r].kind = "delete" => t.deleted = {} /\ \A i, j \in t.victims : i = j
    BY <1>2, <1>3, <1>5, <1>6
  <1> HIDE DEF t, step
  <1>9. QED
    BY <1>2, <1>3, <1>4, <1>7, <1>8, ProceedSafe

LEMMA ArriveSafe == ASSUME Typed, LocksProtect, NEW r \in Requests, Arrive(r) PROVE LocksProtect'
  <1>0. {} \in SUBSET Nat
    OBVIOUS
  <1>1. CASE UploadDynamic(r)
    <2>1. PICK n \in Names, h \in Hashes, o \in Overwrites :
            Start(r, "name", [kind |-> "dynamic", name |-> n, hash |-> h, overwrite |-> o], {})
      BY <1>1 DEF UploadDynamic
    <2>2. [kind |-> "dynamic", name |-> n, hash |-> h, overwrite |-> o] \in Request
      BY ConstantsAssumption DEF Request, Modes
    <2>3. QED
      BY <1>0, <2>1, <2>2, StartSafe
  <1>2. CASE UploadTe(r)
    <2>1. PICK n \in Names, h \in Hashes :
            Start(r, "scan", [kind |-> "te", name |-> n, hash |-> h, overwrite |-> FALSE], {})
      BY <1>2 DEF UploadTe
    <2>2. [kind |-> "te", name |-> n, hash |-> h, overwrite |-> FALSE] \in Request
      BY DEF Request, Modes
    <2>3. QED
      BY <1>0, <2>1, <2>2, StartSafe
  <1>3. CASE DeleteFile(r)
    <2>1. PICK i \in 1 .. nextId - 1 :
            Start(r, "find", [NoRequest EXCEPT !.kind = "delete"], {i})
      BY <1>3 DEF DeleteFile
    <2>2. [NoRequest EXCEPT !.kind = "delete"] \in Request
      BY DEF NoRequest, Request
    <2>3. {i} \in SUBSET Nat /\ \A j, k \in {i} : j = k
      BY DEF Typed, TypeOK
    <2>4. QED
      BY <2>1, <2>2, <2>3, StartSafe
  <1>4. CASE TableRows(r)
    <2>1. PICK h \in Hashes : Start(r, "lookup", [NoRequest EXCEPT !.hash = h], {})
      BY <1>4 DEF TableRows
    <2>2. [NoRequest EXCEPT !.hash = h] \in Request
      BY DEF NoRequest, Request
    <2>3. QED
      BY <1>0, <2>1, <2>2, StartSafe
  <1>5. QED
    BY <1>1, <1>2, <1>3, <1>4 DEF Arrive

LEMMA ServeSafe == ASSUME Typed, LocksProtect, NEW r \in Requests, Serve(r) PROVE LocksProtect'
  <1> DEFINE t == txn[r]
  <1>1. /\ t \in Txn /\ Controlled(req[r], t, pc[r])
        /\ {"name", "content", "create", "creating", "load", "register", "read", "delete"}
             \subseteq Steps
    BY DEF Typed, TypeOK, ControlInv, Steps
  <1>2. req[r].kind = "delete" => /\ pc[r] # "commit" => t.deleted = {}
                                  /\ \A i, j \in t.victims : i = j
    BY DEF LocksProtect, DeletesInv
  <1>3. pc[r] # "commit" => t.entry = None
    BY <1>1 DEF Controlled
  \* A step that leaves the transaction alone and loads no rows.
  <1>4. ASSUME NEW step \in {"content", "create", "creating", "load", "read"}, pc[r] # "commit",
               Proceed(r, t, step)
        PROVE  LocksProtect'
    <2>1. step \in Steps
      BY <1>1
    <2>2. QED
      BY <1>1, <1>2, <1>3, <1>4, <2>1, ProceedSafe
  <1>5. ASSUME NEW prior \in SUBSET SameFile(r), NEW next \in {"content", "create"},
               pc[r] \in {"name", "content"}, CheckPrior(r, prior, next)
        PROVE  LocksProtect'
    <2>1. prior \in SUBSET files /\ req[r].kind = "dynamic"
      BY <1>1, <1>5 DEF SameFile, Controlled
    <2>2. QED
      BY <1>4, <1>5, <2>1, RollbackSafe, ReplaceSafe DEF CheckPrior
  <1>6. CASE CheckName(r)
    <2>1. {f \in Visible(r) : f.name = req[r].name} \in SUBSET SameFile(r)
      BY DEF Visible, SameFile
    <2>2. QED
      BY <1>5, <1>6, <2>1 DEF CheckName
  <1>7. CASE CheckContent(r)
    <2>1. {f \in Visible(r) : f.hash = req[r].hash} \in SUBSET SameFile(r)
      BY DEF Visible, SameFile
    <2>2. QED
      BY <1>5, <1>7, <2>1 DEF CheckContent
  <1>8. CASE CleanupScan(r)
    <2>1. req[r].kind = "te" /\ SameFile(r) \in SUBSET files
      BY <1>1, <1>8 DEF CleanupScan, Controlled, SameFile
    <2>2. QED
      BY <1>8, <2>1, ReplaceSafe DEF CleanupScan
  <1>9. CASE DropTable(r)
    BY <1>9, DropSafe
  <1>10. CASE RescanForDelete(r)
    <2> DEFINE u == [txn[r] EXCEPT !.victims = Ids(SameFile(r))]
    <2>1. SameFile(r) \in SUBSET File /\ Ids(SameFile(r)) \subseteq Ids(files)
      BY DEF SameFile, Ids, Typed, TypeOK
    <2>2. u \in Txn
      BY <1>1, <2>1, IdsType DEF Txn
    <2>3. /\ u.victims = Ids(SameFile(r)) /\ u.deleted = t.deleted /\ u.created = t.created
          /\ u.entry = t.entry /\ u.dropped = t.dropped
      BY <1>1 DEF Txn
    <2>4. req[r].kind = "te" /\ t.entry = None
      BY <1>1, <1>3, <1>10 DEF RescanForDelete, Controlled
    <2>5. QED
      BY <1>1, <1>10, <2>1, <2>2, <2>3, <2>4, ProceedSafe DEF RescanForDelete
  <1>11. CASE DeleteRows(r)
    BY <1>11, DeleteSafe
  <1>12. CASE RefuseColumns(r) \/ RefuseRows(r) \/ AbortDeadlocked(r)
    BY <1>12, RollbackSafe DEF RefuseColumns, RefuseRows, AbortDeadlocked
  <1>13. CASE CreateTable(r) \/ CreateAfterWait(r)
    BY <1>4, <1>13, CreateSafe, RollbackSafe DEF CreateTable, CreateAfterWait
  <1>14. CASE LoadRows(r)
    <2>1. ASSUME t.created \/ Exists(r, req[r].hash)
          PROVE  ~t.created => /\ req[r].hash \in tables
                               /\ \A q \in Requests : req[r].hash \notin txn[q].dropped
      BY <1>14, <2>1 DEF LoadRows, Droppers, Exists, Others
    <2>2. req[r].kind = "dynamic" /\ t.entry = None
      BY <1>1, <1>3, <1>14 DEF LoadRows, Controlled
    <2>3. QED
      BY <1>1, <1>14, <2>1, <2>2, ProceedSafe, RollbackSafe DEF LoadRows
  <1>15. CASE Register(r)
    BY <1>15, RegisterSafe
  <1>16. CASE LoseRace(r)
    BY <1>16, FinishSafe DEF LoseRace, Typed, TypeOK
  <1>17. CASE Commit(r)
    BY <1>17, CommitSafe
  <1>18. CASE FindFile(r)
    <2> DEFINE row == {f \in files : f.id \in txn[r].victims}
    <2>1. /\ row \in SUBSET files /\ req[r].kind = "delete"
          /\ \A f, g \in row : f.id = g.id
      BY <1>1, <1>2, <1>18 DEF FindFile, Controlled
    <2>2. QED
      BY <1>18, <2>1, RollbackSafe, ReplaceSafe DEF FindFile, Modes
  <1>19. CASE LookupTable(r)
    BY <1>4, <1>19, RollbackSafe DEF LookupTable
  <1>20. CASE ReadRows(r)
    BY <1>20, RollbackSafe DEF ReadRows
  <1>21. QED
    BY <1>6, <1>7, <1>8, <1>9, <1>10, <1>11, <1>12, <1>13, <1>14, <1>15, <1>16, <1>17,
       <1>18, <1>19, <1>20 DEF Serve

LEMMA InitSafe == Init => LocksProtect
  <1> SUFFICES ASSUME Init PROVE LocksProtect
    OBVIOUS
  <1>1. FilesInv
    <2>1. \A f \in files : f.id < nextId
      BY ConstantsAssumption DEF Init, Ids
    <2>2. QED
      BY <2>1 DEF Init, InGoodOrder, FilesInv
  <1>2. LocksInv /\ CreatedInv /\ EntriesInv
    BY DEF Init, EmptyTxn, LocksInv, CreatedInv, EntriesInv
  <1>3. DeletesInv /\ LoadedInv
    BY DEF Init, EmptyTxn, DeletesInv, LoadedInv, HasLoaded
  <1>4. QED
    BY <1>1, <1>2, <1>3 DEF LocksProtect

\* The inductive invariant: whatever the requests interleave, a row and a
\* table have one remover at a time, a new table one creator, and a row once
\* inserted stays unique until it is committed.
THEOREM RegistryInvariant == Safety => []RegistryInv
  <1>1. Init => Typed /\ LocksProtect
    BY InitTyped, InitSafe
  <1>2. Typed /\ LocksProtect /\ [Next]_vars => (Typed /\ LocksProtect)'
    <2> SUFFICES ASSUME Typed, LocksProtect, [Next]_vars PROVE LocksProtect'
      BY NextTyped
    <2>1. ASSUME NEW r \in Requests, StatementFails(r) PROVE LocksProtect'
      BY <2>1, RollbackSafe DEF StatementFails
    <2>2. CASE UNCHANGED vars
      BY <2>2 DEF vars, LocksProtect, FilesInv, LocksInv, CreatedInv, EntriesInv, DeletesInv,
                  LoadedInv, Ids, Exists, Others, SameFile, HasLoaded
    <2>3. QED
      BY <2>1, <2>2, ArriveSafe, ServeSafe DEF Next, AllServed
  <1>3. Typed /\ LocksProtect => RegistryInv
    BY DEF Typed, LocksProtect, RegistryInv
  <1>4. QED
    BY <1>1, <1>2, <1>3, PTL DEF Safety

-----------------------------------------------------------------------------
(* What the registry promises its clients.                                  *)

\* Only a commit changes the registry or the tables.
LEMMA OnlyCommitChanges ==
    ASSUME [Next]_vars, files' # files \/ tables' # tables
    PROVE  \E r \in Requests : Commit(r)
  <1>1. ASSUME NEW r \in Requests, Arrive(r) PROVE UNCHANGED <<files, tables>>
    BY <1>1 DEF Arrive, UploadDynamic, UploadTe, DeleteFile, TableRows, Start
  <1>2. ASSUME NEW r \in Requests, Serve(r), ~Commit(r) PROVE UNCHANGED <<files, tables>>
    BY <1>2 DEF Serve, CheckName, CheckContent, CheckPrior, CleanupScan, Replace, DropTable,
                RescanForDelete, DeleteRows, RefuseColumns, CreateTable, CreateAfterWait,
                RefuseRows, LoadRows, Register, LoseRace, FindFile, LookupTable, ReadRows,
                AbortDeadlocked, Proceed, Rollback
  <1>3. ASSUME NEW r \in Requests, StatementFails(r) PROVE UNCHANGED <<files, tables>>
    BY <1>3 DEF StatementFails, Rollback
  <1>4. QED
    BY <1>1, <1>2, <1>3 DEF Next, AllServed, vars

\* A commit adds at most its own row, in the place of the rows it deleted.
LEMMA CommitEffect ==
    ASSUME RegistryInv, NEW r \in Requests, Commit(r)
    PROVE  /\ txn[r].entry = None =>
                  /\ req[r].kind = "delete"
                  /\ files' = Visible(r)
           /\ txn[r].entry # None =>
                  /\ req[r].kind \in Modes
                  /\ txn[r].entry \in File
                  /\ txn[r].entry.name = req[r].name
                  /\ txn[r].entry.hash = req[r].hash
                  /\ txn[r].entry.mode = req[r].kind
                  /\ txn[r].entry.id \notin Ids(files)
                  /\ Visible(r) = files \ SameFile(r)
                  /\ files' = Visible(r) \cup {txn[r].entry}
  <1>1. /\ pc[r] = "commit"
        /\ files' = Visible(r) \cup ({txn[r].entry} \ {None})
    BY DEF Commit
  <1>2. Controlled(req[r], txn[r], "commit") /\ txn[r] \in Txn
    BY <1>1 DEF RegistryInv, ControlInv, TypeOK
  <1>3. CASE txn[r].entry = None
    BY <1>1, <1>2, <1>3 DEF Controlled
  <1>4. CASE txn[r].entry # None
    <2>1. req[r].kind \in Modes /\ txn[r].entry \in File
      BY <1>2, <1>4 DEF Controlled, Txn
    <2>2. Visible(r) = files \ SameFile(r)
      BY <1>1, <1>4, <2>1 DEF RegistryInv, EntriesInv, DeletesInv, Visible, SameFile
    <2>3. QED
      BY <1>1, <1>4, <2>1, <2>2 DEF RegistryInv, EntriesInv
  <1>5. QED
    BY <1>3, <1>4

\* A commit that registers a dynamic file leaves its table there.
LEMMA NewFileHasTable ==
    ASSUME RegistryInv, NEW r \in Requests, Commit(r), NEW f \in files' \ files,
           f.mode = "dynamic"
    PROVE  f.hash \in tables'
  <1>1. /\ f = txn[r].entry /\ f.hash = req[r].hash
        /\ req[r].kind = "dynamic" /\ pc[r] = "commit"
    BY CommitEffect DEF Visible, Commit
  <1>2. CASE txn[r].created
    BY <1>1, <1>2 DEF Commit
  <1>3. CASE ~txn[r].created
    BY <1>1, <1>3 DEF Commit, RegistryInv, LoadedInv, HasLoaded
  <1>4. QED
    BY <1>2, <1>3

\* Whatever tables were dropped and made again since its statements looked, a
\* dynamic upload that commits leaves its own file registered and its table there.
THEOREM UploadLeavesTable == Safety => CommitLeavesTable
  <1> DEFINE Left == \A f \in files' \ files : f.mode = "dynamic" => f.hash \in tables'
  <1>1. RegistryInv /\ [Next]_vars => Left
    BY OnlyCommitChanges, NewFileHasTable
  <1>2. RegistryInv /\ [Next]_vars => [Left]_vars
    BY <1>1
  <1>3. QED
    BY <1>2, RegistryInvariant, PTL DEF Safety, CommitLeavesTable

\* The registry is the store of FileStore: whatever its requests interleave,
\* each commit replaces what it replaces and touches no other file.
THEOREM RegistryIsStore == Safety => ImplementsFileStore
  <1>1. Init => Store!StoreInit
    BY InitTyped DEF Init, InGoodOrder, Store!StoreInit, Store!OneOfEach, Typed, TypeOK
  <1>2. RegistryInv /\ [Next]_vars => [Store!StoreNext]_files
    <2> SUFFICES ASSUME RegistryInv, [Next]_vars, files' # files PROVE Store!StoreNext
      OBVIOUS
    <2>1. PICK r \in Requests : Commit(r)
      BY OnlyCommitChanges
    <2>2. CASE txn[r].entry # None
      <3> DEFINE e == txn[r].entry
      <3>1. /\ e \in File /\ e.id \notin Ids(files)
            /\ files' = {g \in files : g.name # e.name /\ g.hash # e.hash} \cup {e}
        BY <2>1, <2>2, CommitEffect DEF SameFile
      <3>2. Store!Put(e) /\ e \in files'
        BY <3>1 DEF Store!Put, Ids
      <3>3. QED
        BY <3>2 DEF Store!StoreNext
    <2>3. CASE txn[r].entry = None
      <3>1. req[r].kind = "delete" /\ files' = Visible(r)
        BY <2>1, <2>3, CommitEffect
      <3>2. PICK f \in files : f.id \in txn[r].deleted
        BY <3>1 DEF Visible
      <3>3. \A g \in files : g.id \in txn[r].deleted => g = f
        BY <3>1, <3>2 DEF RegistryInv, DeletesInv, FilesInv
      <3>4. Store!Remove(f)
        BY <3>1, <3>2, <3>3 DEF Store!Remove, Visible
      <3>5. QED
        BY <3>4 DEF Store!StoreNext
    <2>4. QED
      BY <2>2, <2>3
  <1>3. QED
    BY <1>1, <1>2, RegistryInvariant, PTL DEF Safety, ImplementsFileStore, Store!StoreSpec

-----------------------------------------------------------------------------
(* Tables and rows stay paired where no T&E load cleans the registry up.    *)

NoTeLoads == "te" \notin Kinds

LEMMA DynamicOnly ==
    ASSUME NoTeLoads, RegistryInv, NEW r \in Requests
    PROVE  req[r].kind # "te" /\ req[r].kind \in Kinds \cup {"rows"}
  BY DEF NoTeLoads, RegistryInv, ControlInv, Controlled

\* The pairing of one request's deletions with its drops.
Paired(r) ==
    \A f \in files : f.mode = "dynamic" /\ f.hash \in tables =>
        /\ f.id \in txn[r].deleted => f.hash \in txn[r].dropped
        /\ f.id \in txn[r].victims /\ pc[r] \in {"drop", "delete"} =>
                f.hash \in txn[r].toDrop \cup txn[r].dropped

\* A step of r that commits nothing keeps the pairing if it keeps r's.
LEMMA StepPaired ==
    ASSUME RegistryInv, PairedInv, NEW r \in Requests, NEW t \in Txn, NEW step \in Steps,
           UNCHANGED <<files, tables>>, txn' = [txn EXCEPT ![r] = t],
           pc' = [pc EXCEPT ![r] = step],
           t.entry # None => t.entry.counted,
           \A f \in files : f.mode = "dynamic" /\ f.hash \in tables =>
               /\ f.id \in t.deleted => f.hash \in t.dropped
               /\ f.id \in t.victims /\ step \in {"drop", "delete"} =>
                       f.hash \in t.toDrop \cup t.dropped
    PROVE  PairedInv'
  BY DEF RegistryInv, TypeOK, PairedInv, NoOrphanTables, RowsCounted

LEMMA FinishPaired ==
    ASSUME RegistryInv, PairedInv, NEW r \in Requests, NEW told, Finish(r, told),
           UNCHANGED <<files, tables>>
    PROVE  PairedInv'
  <1>1. /\ EmptyTxn.entry = None /\ EmptyTxn.deleted = {} /\ EmptyTxn.victims = {}
        /\ "done" \in Steps
    BY DEF EmptyTxn, Steps
  <1>2. QED
    BY <1>1, EmptyTxnType, StepPaired DEF Finish, Goto

\* A step that goes on without a DELETE and keeps what was dropped and deleted.
LEMMA GoOnPaired ==
    ASSUME RegistryInv, PairedInv, NEW r \in Requests, NEW t \in Txn,
           NEW step \in Steps \ {"drop", "delete"},
           UNCHANGED <<files, tables>>, txn' = [txn EXCEPT ![r] = t],
           pc' = [pc EXCEPT ![r] = step],
           t.dropped = txn[r].dropped, t.deleted = txn[r].deleted, t.entry = txn[r].entry
    PROVE  PairedInv'
  <1>1. /\ t.entry # None => t.entry.counted
        /\ \A f \in files : f.mode = "dynamic" /\ f.hash \in tables =>
               (f.id \in t.deleted => f.hash \in t.dropped)
    BY DEF PairedInv
  <1>2. QED
    BY <1>1, StepPaired

LEMMA ReplacePaired ==
    ASSUME NoTeLoads, RegistryInv, PairedInv, NEW r \in Requests, NEW F \in SUBSET files,
           NEW next \in {"content", "create", "register", "commit"}, Replace(r, F, next)
    PROVE  PairedInv'
  <1> DEFINE t == [txn[r] EXCEPT !.toDrop = DynamicTables(F), !.victims = Ids(F), !.next = next]
             step == AfterDrop(r, DynamicTables(F))
  <1>1. F \in SUBSET File /\ txn[r] \in Txn
    BY DEF RegistryInv, TypeOK
  <1>2. t \in Txn
    BY <1>1, DynamicTablesType, IdsType, PlannedTxn
  <1>3. step \in Steps
    BY DEF AfterDrop, Steps
  <1>4. /\ t.victims = Ids(F) /\ t.deleted = txn[r].deleted /\ t.entry = txn[r].entry
        /\ t.dropped = txn[r].dropped /\ t.toDrop = DynamicTables(F)
    BY <1>1 DEF Txn
  <1>5. UNCHANGED <<files, tables>> /\ txn' = [txn EXCEPT ![r] = t]
        /\ pc' = [pc EXCEPT ![r] = step]
    BY DEF Replace, Proceed, Goto
  <1>6. \A f \in files : f.id \in t.victims /\ f.mode = "dynamic" => f.hash \in t.toDrop
    BY <1>4 DEF Ids, DynamicTables, RegistryInv, FilesInv
  <1>7. /\ t.entry # None => t.entry.counted
        /\ \A f \in files : f.mode = "dynamic" /\ f.hash \in tables =>
               (f.id \in t.deleted => f.hash \in t.dropped)
    BY <1>4 DEF PairedInv
  <1> HIDE DEF t, step
  <1>8. QED
    BY <1>2, <1>3, <1>5, <1>6, <1>7, StepPaired

LEMMA ArrivePaired ==
    ASSUME RegistryInv, PairedInv, NEW r \in Requests, Arrive(r) PROVE PairedInv'
  <1>1. \E first \in {"name", "scan", "find", "lookup"}, victims \in SUBSET Nat, what \in {req'[r]} :
            Start(r, first, what, victims)
    <2>0. {} \in SUBSET Nat /\ \A i \in 1 .. nextId - 1 : {i} \in SUBSET Nat
      BY DEF RegistryInv, TypeOK
    <2>1. ASSUME NEW what, NEW first, NEW v, Start(r, first, what, v) PROVE what = req'[r]
      BY <2>1 DEF Start, RegistryInv, TypeOK
    <2>2. CASE UploadDynamic(r)
      BY <2>0, <2>1, <2>2 DEF UploadDynamic
    <2>3. CASE UploadTe(r)
      BY <2>0, <2>1, <2>3 DEF UploadTe
    <2>4. CASE DeleteFile(r)
      BY <2>0, <2>1, <2>4 DEF DeleteFile
    <2>5. CASE TableRows(r)
      BY <2>0, <2>1, <2>5 DEF TableRows
    <2>6. QED
      BY <2>2, <2>3, <2>4, <2>5 DEF Arrive
  <1>2. PICK first \in {"name", "scan", "find", "lookup"}, victims \in SUBSET Nat, what \in {req'[r]} :
            Start(r, first, what, victims)
    BY <1>1
  <1> DEFINE t == [txn[r] EXCEPT !.victims = victims]
  <1>3. /\ UNCHANGED <<files, tables>> /\ txn' = [txn EXCEPT ![r] = t]
        /\ pc' = [pc EXCEPT ![r] = first] /\ first \in Steps \ {"drop", "delete"}
    BY <1>2 DEF Start, Goto, RegistryInv, TypeOK, Steps
  <1>4. /\ t \in Txn /\ t.dropped = txn[r].dropped /\ t.deleted = txn[r].deleted
        /\ t.entry = txn[r].entry
    BY DEF RegistryInv, TypeOK, Txn
  <1> HIDE DEF t
  <1>5. QED
    BY <1>3, <1>4, GoOnPaired

LEMMA RegisterPaired ==
    ASSUME NoTeLoads, RegistryInv, PairedInv, NEW r \in Requests, Register(r)
    PROVE  PairedInv'
  <1> DEFINE t == [txn[r] EXCEPT !.entry = NewFile(r)]
  <1>1. pc[r] = "register" /\ txn[r] \in Txn /\ NewFile(r) \in File
    BY NewFileType DEF Register, RegistryInv, TypeOK, Typed
  <1>2. req[r].kind = "dynamic"
    BY <1>1, DynamicOnly DEF RegistryInv, ControlInv, Controlled, Modes
  <1>3. ASSUME ~txn[r].created PROVE FALSE
    <2>1. req[r].hash \in tables /\ req[r].hash \notin txn[r].dropped
      BY <1>1, <1>2, <1>3 DEF RegistryInv, LoadedInv, HasLoaded
    <2>2. PICK f \in files : f.mode = "dynamic" /\ f.hash = req[r].hash
      BY <2>1 DEF PairedInv, NoOrphanTables, DynamicTables
    <2>3. f.id \in txn[r].deleted
      BY <2>2 DEF Register, SameFile, Visible
    <2>4. QED
      BY <2>1, <2>2, <2>3 DEF PairedInv
  <1>4. /\ t \in Txn /\ t.deleted = txn[r].deleted /\ t.dropped = txn[r].dropped
        /\ t.entry = NewFile(r)
    BY <1>1 DEF Txn
  <1>5. t.entry.counted = TRUE
    <2>1. txn[r].created = TRUE
      BY <1>1, <1>3 DEF Txn
    <2>2. (txn[r].created \/ req[r].kind = "te") = TRUE
      BY <2>1
    <2>3. NewFile(r).counted = TRUE
      BY <2>2 DEF NewFile
    <2> HIDE DEF t
    <2>4. QED
      BY <1>4, <2>3
  <1>6. /\ UNCHANGED <<files, tables>> /\ txn' = [txn EXCEPT ![r] = t]
        /\ pc' = [pc EXCEPT ![r] = "commit"] /\ "commit" \in Steps
    BY DEF Register, Goto, Steps
  <1>7. /\ t.entry # None => t.entry.counted
        /\ \A f \in files : f.mode = "dynamic" /\ f.hash \in tables =>
               /\ f.id \in t.deleted => f.hash \in t.dropped
               /\ f.id \in t.victims /\ "commit" \in {"drop", "delete"} =>
                       f.hash \in t.toDrop \cup t.dropped
    BY <1>4, <1>5 DEF PairedInv
  <1> HIDE DEF t
  <1>8. QED
    BY <1>4, <1>6, <1>7, StepPaired

LEMMA CommitPaired ==
    ASSUME NoTeLoads, RegistryInv, PairedInv, NEW r \in Requests, Commit(r)
    PROVE  PairedInv'
  <1> DEFINE e == txn[r].entry
  <1>1. /\ txn' = [txn EXCEPT ![r] = EmptyTxn]
        /\ pc' = [pc EXCEPT ![r] = "done"]
        /\ tables' = (tables \ txn[r].dropped)
                        \cup (IF txn[r].created THEN {req[r].hash} ELSE {})
        /\ files' = Visible(r) \cup ({e} \ {None})
        /\ pc[r] = "commit"
    BY DEF Commit, Finish, Goto
  <1>2. EmptyTxn.entry = None /\ EmptyTxn.deleted = {} /\ EmptyTxn.victims = {}
    BY DEF EmptyTxn
  <1>3. txn[r].created => /\ e # None /\ e.mode = "dynamic" /\ e.hash = req[r].hash
    BY <1>1, CommitEffect DEF RegistryInv, ControlInv, Controlled
  <1>4. NoOrphanTables'
    <2> SUFFICES ASSUME NEW h \in tables'
                 PROVE  \E f \in files' : f.mode = "dynamic" /\ f.hash = h
      BY DEF NoOrphanTables, DynamicTables
    <2>1. CASE txn[r].created /\ h = req[r].hash
      BY <1>1, <1>3, <2>1
    <2>2. CASE h \in tables /\ h \notin txn[r].dropped
      <3>1. PICK f \in files : f.mode = "dynamic" /\ f.hash = h
        BY <2>2 DEF PairedInv, NoOrphanTables, DynamicTables
      <3>2. f \in Visible(r)
        BY <2>2, <3>1 DEF PairedInv, Visible
      <3>3. QED
        BY <1>1, <3>1, <3>2
    <2>3. QED
      BY <1>1, <2>1, <2>2
  <1>5. RowsCounted'
    BY <1>1 DEF PairedInv, RowsCounted, Visible
  <1>6. \A q \in Requests : txn'[q].entry # None => txn'[q].entry.counted
    BY <1>1, <1>2 DEF PairedInv, RegistryInv, TypeOK
  <1>7. ASSUME NEW q \in Requests, NEW f \in files', f.mode = "dynamic", f.hash \in tables'
        PROVE  /\ f.id \in txn'[q].deleted => f.hash \in txn'[q].dropped
               /\ f.id \in txn'[q].victims /\ pc'[q] \in {"drop", "delete"} =>
                       f.hash \in txn'[q].toDrop \cup txn'[q].dropped
    <2>1. CASE q = r
      BY <1>1, <1>2, <2>1 DEF RegistryInv, TypeOK
    <2>2. CASE q # r /\ f \in files
      <3>1. f \in Visible(r)
        BY <1>1, <1>3, <2>2, CommitEffect DEF Ids
      <3>2. f.hash \in tables
        BY <1>1, <1>3, <1>7, <2>2, <3>1, CommitEffect DEF SameFile
      <3>3. QED
        BY <1>1, <1>7, <2>2, <3>2 DEF PairedInv, RegistryInv, TypeOK
    <2>3. CASE q # r /\ f \notin files
      <3>1. f = e /\ e # None /\ e.id \notin Ids(files)
        BY <1>1, <1>7, <2>3, CommitEffect DEF Visible
      <3>2. f.id \notin txn[q].deleted
        BY <3>1 DEF RegistryInv, LocksInv
      <3>3. ~(f.id \in txn[q].victims /\ pc[q] \in {"drop", "delete"})
        BY <3>1 DEF RegistryInv, DeletesInv
      <3>4. QED
        BY <1>1, <2>3, <3>2, <3>3 DEF RegistryInv, TypeOK
    <2>4. QED
      BY <2>1, <2>2, <2>3
  <1>8. QED
    BY <1>4, <1>5, <1>6, <1>7 DEF PairedInv

LEMMA DropPaired ==
    ASSUME RegistryInv, PairedInv, NEW r \in Requests, DropTable(r)
    PROVE  PairedInv'
  <1>1. PICK h \in txn[r].toDrop :
            Proceed(r, [txn[r] EXCEPT !.toDrop = @ \ {h},
                            !.dropped = IF Exists(r, h) THEN @ \cup {h} ELSE @],
                    AfterDrop(r, txn[r].toDrop \ {h}))
    BY DEF DropTable
  <1> DEFINE t == [txn[r] EXCEPT !.toDrop = @ \ {h},
                       !.dropped = IF Exists(r, h) THEN @ \cup {h} ELSE @]
             step == AfterDrop(r, txn[r].toDrop \ {h})
  <1>2. txn[r] \in Txn /\ pc[r] = "drop"
    BY DEF RegistryInv, TypeOK, DropTable
  <1>3. /\ t \in Txn /\ t.victims = txn[r].victims /\ t.deleted = txn[r].deleted
        /\ t.entry = txn[r].entry /\ t.toDrop = txn[r].toDrop \ {h}
        /\ t.dropped = IF Exists(r, h) THEN txn[r].dropped \cup {h} ELSE txn[r].dropped
    BY <1>2 DEF Txn
  <1>4. step \in Steps
    BY DEF AfterDrop, Steps
  <1>5. /\ UNCHANGED <<files, tables>> /\ txn' = [txn EXCEPT ![r] = t]
        /\ pc' = [pc EXCEPT ![r] = step]
    BY <1>1 DEF Proceed, Goto
  <1> HIDE DEF t, step
  <1>6. h \in tables => h \in t.dropped
    BY <1>3 DEF Exists
  <1>7. /\ t.entry # None => t.entry.counted
        /\ \A f \in files : f.mode = "dynamic" /\ f.hash \in tables =>
               /\ f.id \in t.deleted => f.hash \in t.dropped
               /\ f.id \in t.victims /\ step \in {"drop", "delete"} =>
                       f.hash \in t.toDrop \cup t.dropped
    BY <1>2, <1>3, <1>6 DEF PairedInv
  <1>8. QED
    BY <1>3, <1>4, <1>5, <1>7, StepPaired

LEMMA DeletePaired ==
    ASSUME RegistryInv, PairedInv, NEW r \in Requests, DeleteRows(r)
    PROVE  PairedInv'
  <1> DEFINE t == [txn[r] EXCEPT !.deleted = @ \cup (txn[r].victims \cap Ids(files)),
                                 !.victims = {}]
  <1>1. txn[r] \in Txn /\ pc[r] = "delete" /\ txn[r].toDrop = {}
    BY DEF RegistryInv, TypeOK, ControlInv, Controlled, DeleteRows
  <1>2. /\ t \in Txn /\ t.victims = {} /\ t.entry = txn[r].entry /\ t.dropped = txn[r].dropped
        /\ t.deleted = txn[r].deleted \cup (txn[r].victims \cap Ids(files))
    BY <1>1 DEF Txn
  <1>3. txn[r].next \in Steps
    BY <1>1 DEF Txn, Steps
  <1>4. /\ UNCHANGED <<files, tables>> /\ txn' = [txn EXCEPT ![r] = t]
        /\ pc' = [pc EXCEPT ![r] = txn[r].next]
    BY DEF DeleteRows, Proceed, Goto
  <1> HIDE DEF t
  <1>5. /\ t.entry # None => t.entry.counted
        /\ \A f \in files : f.mode = "dynamic" /\ f.hash \in tables =>
               /\ f.id \in t.deleted => f.hash \in t.dropped
               /\ f.id \in t.victims /\ txn[r].next \in {"drop", "delete"} =>
                       f.hash \in t.toDrop \cup t.dropped
    BY <1>1, <1>2 DEF PairedInv
  <1>6. QED
    BY <1>2, <1>3, <1>4, <1>5, StepPaired

LEMMA ServePaired ==
    ASSUME NoTeLoads, RegistryInv, PairedInv, NEW r \in Requests, Serve(r)
    PROVE  PairedInv'
  <1>1. /\ txn[r] \in Txn /\ Controlled(req[r], txn[r], pc[r])
        /\ {"content", "create", "creating", "load", "register", "read"}
             \subseteq Steps \ {"drop", "delete"}
    BY DEF RegistryInv, TypeOK, ControlInv, Steps
  <1>2. ASSUME NEW told, Rollback(r, told) PROVE PairedInv'
    BY <1>2, FinishPaired DEF Rollback
  <1>3. ASSUME NEW step \in {"content", "create", "creating", "load", "register", "read"},
               Proceed(r, txn[r], step)
        PROVE  PairedInv'
    BY <1>1, <1>3, GoOnPaired DEF Proceed, Goto
  <1>4. ASSUME Proceed(r, [txn[r] EXCEPT !.created = TRUE], "load") PROVE PairedInv'
    <2> DEFINE t == [txn[r] EXCEPT !.created = TRUE]
    <2>1. /\ t \in Txn /\ t.dropped = txn[r].dropped /\ t.deleted = txn[r].deleted
          /\ t.entry = txn[r].entry
      BY <1>1 DEF Txn
    <2>2. /\ UNCHANGED <<files, tables>> /\ txn' = [txn EXCEPT ![r] = t]
          /\ pc' = [pc EXCEPT ![r] = "load"]
      BY <1>4 DEF Proceed, Goto
    <2> HIDE DEF t
    <2>3. QED
      BY <1>1, <2>1, <2>2, GoOnPaired
  <1>5. CASE CheckName(r) \/ CheckContent(r)
    <2>1. PICK prior \in SUBSET files, next \in {"content", "create"} : CheckPrior(r, prior, next)
      BY <1>5 DEF CheckName, CheckContent, Visible
    <2>2. QED
      BY <1>2, <1>3, <2>1, ReplacePaired DEF CheckPrior
  <1>6. CASE CleanupScan(r) \/ RescanForDelete(r)
    BY <1>1, <1>6, DynamicOnly DEF CleanupScan, RescanForDelete, Controlled
  <1>7. CASE DropTable(r)
    BY <1>7, DropPaired
  <1>8. CASE DeleteRows(r)
    BY <1>8, DeletePaired
  <1>9. CASE RefuseColumns(r) \/ RefuseRows(r) \/ ReadRows(r) \/ AbortDeadlocked(r)
    BY <1>2, <1>9 DEF RefuseColumns, RefuseRows, ReadRows, AbortDeadlocked
  <1>10. CASE CreateTable(r) \/ CreateAfterWait(r)
    BY <1>2, <1>3, <1>4, <1>10 DEF CreateTable, CreateAfterWait
  <1>11. CASE LoadRows(r) \/ LookupTable(r)
    BY <1>2, <1>3, <1>11 DEF LoadRows, LookupTable
  <1>12. CASE Register(r)
    BY <1>12, RegisterPaired
  <1>13. CASE LoseRace(r)
    BY <1>13, FinishPaired DEF LoseRace
  <1>14. CASE Commit(r)
    BY <1>14, CommitPaired
  <1>15. CASE FindFile(r)
    <2>1. {f \in files : f.id \in txn[r].victims} \in SUBSET files
      OBVIOUS
    <2>2. QED
      BY <1>2, <1>15, <2>1, ReplacePaired DEF FindFile
  <1>16. QED
    BY <1>5, <1>6, <1>7, <1>8, <1>9, <1>10, <1>11, <1>12, <1>13, <1>14, <1>15 DEF Serve

LEMMA PairedStep == NoTeLoads /\ RegistryInv /\ PairedInv /\ [Next]_vars => PairedInv'
  <1> SUFFICES ASSUME NoTeLoads, RegistryInv, PairedInv, [Next]_vars PROVE PairedInv'
    OBVIOUS
  <1>1. ASSUME NEW r \in Requests, StatementFails(r) PROVE PairedInv'
    BY <1>1, FinishPaired DEF StatementFails, Rollback
  <1>2. CASE UNCHANGED vars
    BY <1>2 DEF vars, PairedInv, NoOrphanTables, RowsCounted
  <1>3. QED
    BY <1>1, <1>2, ArrivePaired, ServePaired DEF Next, AllServed

\* Where no T&E load cleans the registry up, no upload, overwrite or deletion
\* leaves a table that nothing lists, and every upload's rows are in its table.
THEOREM NoTableIsOrphaned ==
    ASSUME NoTeLoads PROVE Safety => [](NoOrphanTables /\ RowsCounted)
  <1>1. Init => PairedInv
    BY DEF Init, InGoodOrder, EmptyTxn, PairedInv, NoOrphanTables, RowsCounted
  <1>2. RegistryInv /\ PairedInv /\ [Next]_vars => PairedInv'
    BY PairedStep
  <1>3. PairedInv => NoOrphanTables /\ RowsCounted
    BY DEF PairedInv
  <1>4. QED
    BY <1>1, <1>2, <1>3, RegistryInvariant, PTL DEF Safety

\* In particular no file is registered with the count of a table that another
\* upload had filled.
THEOREM EveryFileCounts == ASSUME NoTeLoads PROVE Safety => []RowsCounted
  <1>1. QED
    BY NoTableIsOrphaned, PTL

\* Then an upload is turned away as a duplicate only while a registered file
\* really has its name or its content.
THEOREM DuplicatesAreReal == ASSUME NoTeLoads PROVE Safety => DuplicateIsReal
  <1> DEFINE Real == \A r \in Requests :
                         answer'[r] = "duplicate" /\ answer[r] = "none" => SameFile(r) # {}
  <1>1. TypeOK /\ NoOrphanTables /\ [Next]_vars => [Real]_vars
    <2> SUFFICES ASSUME TypeOK, NoOrphanTables, [Next]_vars, NEW q \in Requests,
                        answer'[q] = "duplicate", answer[q] = "none"
                 PROVE  SameFile(q) # {}
      OBVIOUS
    <2>1. ASSUME NEW r \in Requests, NEW told, Finish(r, told)
          PROVE  q = r /\ told = "duplicate"
      BY <2>1 DEF Finish, TypeOK
    <2>2. ASSUME NEW h \in tables, h = req[q].hash PROVE SameFile(q) # {}
      BY <2>2 DEF NoOrphanTables, DynamicTables, SameFile
    <2>3. ASSUME NEW r \in Requests, Arrive(r) PROVE FALSE
      BY <2>3 DEF Arrive, UploadDynamic, UploadTe, DeleteFile, TableRows, Start
    <2>4. ASSUME NEW r \in Requests, StatementFails(r) \/ AbortDeadlocked(r) PROVE FALSE
      BY <2>1, <2>4 DEF StatementFails, AbortDeadlocked, Rollback, DatabaseError
    <2>5. ASSUME NEW r \in Requests, Serve(r), ~AbortDeadlocked(r) PROVE SameFile(q) # {}
      <3>1. CASE CheckName(r) \/ CheckContent(r)
        BY <2>1, <3>1 DEF CheckName, CheckContent, CheckPrior, Visible, SameFile, Rollback,
                          Replace, Proceed
      <3>2. CASE CreateAfterWait(r)
        BY <2>1, <2>2, <3>2 DEF CreateAfterWait, Exists, Rollback, Proceed
      <3>3. CASE LoseRace(r)
        BY <2>1, <3>3 DEF LoseRace
      <3>4. CASE Commit(r)
        BY <2>1, <3>4 DEF Commit, DatabaseError
      <3>5. CASE LoadRows(r) \/ FindFile(r) \/ LookupTable(r) \/ ReadRows(r) \/ RefuseRows(r)
                 \/ RefuseColumns(r)
        BY <2>1, <3>5 DEF LoadRows, FindFile, LookupTable, ReadRows, RefuseRows, RefuseColumns,
                          Rollback, DatabaseError, Proceed, Replace
      <3>6. CASE CleanupScan(r) \/ DropTable(r) \/ RescanForDelete(r) \/ DeleteRows(r)
                 \/ CreateTable(r) \/ Register(r)
        BY <3>6 DEF CleanupScan, DropTable, RescanForDelete, DeleteRows, CreateTable, Register,
                    Replace, Proceed
      <3>7. QED
        BY <2>5, <3>1, <3>2, <3>3, <3>4, <3>5, <3>6 DEF Serve
    <2>6. QED
      BY <2>3, <2>4, <2>5 DEF Next, AllServed, vars
  <1>2. QED
    BY <1>1, TypeInvariant, NoTableIsOrphaned, PTL DEF Safety, DuplicateIsReal

-----------------------------------------------------------------------------
(* Uploads that replace nothing.  A state with such requests only has seen   *)
(* no others: a request keeps what it asked for.                             *)

\* Nothing is being dropped, and a reader's table is there.
Plain ==
    /\ RegisteredHasTable
    /\ \A r \in Requests :
        /\ txn[r].dropped = {}
        /\ pc[r] \notin {"drop", "rescan", "delete"}
        /\ pc[r] = "read" => req[r].hash \in tables

PlainInv ==
    /\ \A r \in Requests : pc[r] = "idle" => req[r] = NoRequest
    /\ ReplacesNothing => Plain

\* A step that does not commit changes one request's place and transaction.
LEMMA StepPlain ==
    ASSUME RegistryInv, Plain, NEW r \in Requests, NEW t, NEW step,
           UNCHANGED <<files, tables>>, txn' = [txn EXCEPT ![r] = t],
           pc' = [pc EXCEPT ![r] = step],
           \A q \in Requests \ {r} : req'[q] = req[q],
           t.dropped = {}, step \notin {"drop", "rescan", "delete"},
           step = "read" => req'[r].hash \in tables
    PROVE  Plain'
  BY DEF RegistryInv, TypeOK, Plain, RegisteredHasTable

LEMMA RollbackPlain ==
    ASSUME RegistryInv, Plain, NEW r \in Requests, NEW told, Finish(r, told),
           UNCHANGED <<files, tables, req>>
    PROVE  Plain'
  <1>1. EmptyTxn.dropped = {}
    BY DEF EmptyTxn
  <1>2. QED
    BY <1>1, StepPlain DEF Finish, Goto

LEMMA ProceedPlain ==
    ASSUME RegistryInv, Plain, NEW r \in Requests, NEW t, NEW step, Proceed(r, t, step),
           t.dropped = txn[r].dropped, step \notin {"drop", "rescan", "delete"},
           step = "read" => req[r].hash \in tables
    PROVE  Plain'
  BY StepPlain DEF Proceed, Goto, Plain

\* Only a request that has not started changes what it asks for.
LEMMA ArriveFrom ==
    ASSUME RegistryInv, NEW r \in Requests, Arrive(r)
    PROVE  /\ pc[r] = "idle" /\ UNCHANGED <<files, tables>> /\ txn'[r].dropped = {}
           /\ \A q \in Requests \ {r} :
                 req'[q] = req[q] /\ txn'[q] = txn[q] /\ pc'[q] = pc[q]
           /\ pc'[r] \in {"name", "scan", "find", "lookup"}
  <1>1. PICK first \in {"name", "scan", "find", "lookup"} :
            \E what, victims : Start(r, first, what, victims)
    BY DEF Arrive, UploadDynamic, UploadTe, DeleteFile, TableRows
  <1>2. PICK what, victims : Start(r, first, what, victims)
    BY <1>1
  <1>3. pc[r] = "idle" /\ txn[r] = EmptyTxn /\ EmptyTxn.dropped = {}
    BY <1>2 DEF Start, RegistryInv, ControlInv, Controlled, EmptyTxn
  <1>4. QED
    BY <1>2, <1>3 DEF Start, Goto, RegistryInv, TypeOK, Txn

LEMMA ServeFrom ==
    ASSUME RegistryInv, NEW r \in Requests, Serve(r) \/ StatementFails(r)
    PROVE  /\ pc[r] # "idle" /\ pc'[r] # "idle" /\ req' = req
           /\ \A q \in Requests \ {r} : pc'[q] = pc[q]
  <1>1. Controlled(req[r], txn[r], pc[r]) /\ txn[r] \in Txn
    BY DEF RegistryInv, ControlInv, TypeOK
  <1>2. ASSUME NEW told, Finish(r, told)
        PROVE  pc'[r] # "idle" /\ \A q \in Requests \ {r} : pc'[q] = pc[q]
    BY <1>2 DEF Finish, Goto, RegistryInv, TypeOK
  <1>3. ASSUME NEW t, NEW step \in Steps \ {"idle"}, Proceed(r, t, step)
        PROVE  /\ pc'[r] # "idle" /\ \A q \in Requests \ {r} : pc'[q] = pc[q]
               /\ req' = req
    BY <1>3 DEF Proceed, Goto, RegistryInv, TypeOK
  <1>4. ASSUME NEW todo PROVE AfterDrop(r, todo) \in Steps \ {"idle"}
    BY DEF AfterDrop, Steps
  <1>5. ASSUME NEW F, NEW next, Replace(r, F, next)
        PROVE  /\ pc'[r] # "idle" /\ \A q \in Requests \ {r} : pc'[q] = pc[q]
               /\ req' = req
    BY <1>3, <1>4, <1>5 DEF Replace
  <1>6. CASE CheckName(r) \/ CheckContent(r)
    BY <1>2, <1>3, <1>5, <1>6 DEF CheckName, CheckContent, CheckPrior, Rollback, Steps
  <1>7. CASE CleanupScan(r) \/ FindFile(r)
    BY <1>2, <1>5, <1>7 DEF CleanupScan, FindFile, Rollback
  <1>8. CASE DropTable(r)
    BY <1>3, <1>4, <1>8 DEF DropTable
  <1>9. CASE RescanForDelete(r) \/ DeleteRows(r)
    <2>1. pc[r] = "delete" => txn[r].next \in Steps \ {"idle"}
      BY <1>1 DEF Txn, Steps
    <2>2. QED
      BY <1>3, <1>9, <2>1 DEF RescanForDelete, DeleteRows, Steps
  <1>10. CASE CreateTable(r) \/ CreateAfterWait(r) \/ LoadRows(r) \/ LookupTable(r)
    BY <1>2, <1>3, <1>10 DEF CreateTable, CreateAfterWait, LoadRows, LookupTable, Rollback, Steps
  <1>11. CASE RefuseColumns(r) \/ RefuseRows(r) \/ ReadRows(r) \/ LoseRace(r) \/ Commit(r)
    BY <1>2, <1>11 DEF RefuseColumns, RefuseRows, ReadRows, LoseRace, Commit, Rollback
  <1>12. CASE Register(r)
    BY <1>12 DEF Register, Goto, RegistryInv, TypeOK
  <1>13. CASE AbortDeadlocked(r) \/ StatementFails(r)
    <2>1. Rollback(r, DatabaseError(r))
      BY <1>13 DEF AbortDeadlocked, StatementFails
    <2>2. pc[r] # "idle"
      <3>1. ASSUME pc[r] = "idle" PROVE WaitsFor(r) = {}
        BY <3>1 DEF WaitsFor
      <3>2. AbortDeadlocked(r) => WaitsFor(r) # {}
        BY DEF AbortDeadlocked, Deadlocked
      <3>3. QED
        BY <1>13, <3>1, <3>2 DEF StatementFails, Open
    <2>3. QED
      BY <1>2, <2>1, <2>2 DEF Rollback
  <1>14. QED
    BY <1>6, <1>7, <1>8, <1>9, <1>10, <1>11, <1>12, <1>13 DEF Serve

LEMMA CommitPlain ==
    ASSUME RegistryInv, Plain, NEW r \in Requests, Commit(r)
    PROVE  Plain'
  <1>1. /\ tables \subseteq tables' /\ req' = req
        /\ txn' = [txn EXCEPT ![r] = EmptyTxn] /\ pc' = [pc EXCEPT ![r] = "done"]
    BY DEF Plain, Commit, Finish, Goto
  <1>2. RegisteredHasTable'
    <2> SUFFICES ASSUME NEW f \in files', f.mode = "dynamic" PROVE f.hash \in tables'
      BY DEF RegisteredHasTable, DynamicTables
    <2>1. CASE f \in files
      BY <1>1, <2>1 DEF Plain, RegisteredHasTable, DynamicTables
    <2>2. CASE f \notin files
      BY <2>2, NewFileHasTable
    <2>3. QED
      BY <2>1, <2>2
  <1>3. EmptyTxn.dropped = {}
    BY DEF EmptyTxn
  <1>4. QED
    BY <1>1, <1>2, <1>3 DEF Plain, RegistryInv, TypeOK

LEMMA ServePlain ==
    ASSUME RegistryInv, Plain, ReplacesNothing, NEW r \in Requests,
           Serve(r) \/ StatementFails(r)
    PROVE  Plain'
  <1>1. /\ txn[r] \in Txn /\ Controlled(req[r], txn[r], pc[r])
        /\ req[r].kind \in {"dynamic", "rows"} /\ ~req[r].overwrite
        /\ txn[r].dropped = {} /\ pc[r] \notin {"drop", "rescan", "delete"}
    BY DEF RegistryInv, TypeOK, ControlInv, ReplacesNothing, Plain
  <1>2. ASSUME NEW told, Rollback(r, told) PROVE Plain'
    BY <1>2, RollbackPlain DEF Rollback
  <1>3. CASE CheckName(r) \/ CheckContent(r)
    BY <1>1, <1>2, <1>3, ProceedPlain DEF CheckName, CheckContent, CheckPrior
  <1>4. CASE CleanupScan(r) \/ FindFile(r) \/ DropTable(r) \/ RescanForDelete(r) \/ DeleteRows(r)
    BY <1>1, <1>4 DEF CleanupScan, FindFile, DropTable, RescanForDelete, DeleteRows, Controlled
  <1>5. CASE CreateTable(r) \/ CreateAfterWait(r) \/ LoadRows(r)
    <2>1. [txn[r] EXCEPT !.created = TRUE].dropped = txn[r].dropped
      BY <1>1 DEF Txn
    <2>2. ASSUME NEW step \in {"creating", "load", "register"},
                 \/ Proceed(r, txn[r], step)
                 \/ Proceed(r, [txn[r] EXCEPT !.created = TRUE], step)
          PROVE  Plain'
      BY <2>1, <2>2, ProceedPlain
    <2>3. QED
      BY <1>2, <1>5, <2>2 DEF CreateTable, CreateAfterWait, LoadRows
  <1>6. CASE LookupTable(r)
    <2>1. req[r].hash \in DynamicTables(files) => req[r].hash \in tables
      BY DEF Plain, RegisteredHasTable
    <2>2. QED
      BY <1>2, <1>6, <2>1, ProceedPlain DEF LookupTable
  <1>7. CASE RefuseColumns(r) \/ RefuseRows(r) \/ ReadRows(r) \/ AbortDeadlocked(r)
              \/ StatementFails(r)
    BY <1>2, <1>7 DEF RefuseColumns, RefuseRows, ReadRows, AbortDeadlocked, StatementFails
  <1>8. CASE Register(r)
    <2>1. [txn[r] EXCEPT !.entry = NewFile(r)].dropped = {}
      BY <1>1 DEF Txn
    <2>2. QED
      BY <1>8, <2>1, StepPlain DEF Register, Goto
  <1>9. CASE LoseRace(r)
    BY <1>9, RollbackPlain DEF LoseRace
  <1>10. CASE Commit(r)
    BY <1>10, CommitPlain
  <1>11. QED
    BY <1>3, <1>4, <1>5, <1>6, <1>7, <1>8, <1>9, <1>10 DEF Serve

LEMMA PlainBefore ==
    ASSUME RegistryInv, PlainInv, [Next]_vars, ReplacesNothing'
    PROVE  ReplacesNothing
  <1>1. NoRequest.kind = "rows" /\ NoRequest.overwrite = FALSE
    BY DEF NoRequest
  <1>2. ASSUME NEW r \in Requests, Arrive(r) PROVE ReplacesNothing
    BY <1>1, <1>2, ArriveFrom DEF PlainInv, ReplacesNothing
  <1>3. ASSUME req' = req PROVE ReplacesNothing
    BY <1>3 DEF ReplacesNothing
  <1>4. QED
    BY <1>2, <1>3, ServeFrom DEF Next, AllServed, vars

LEMMA PlainStep == RegistryInv /\ PlainInv /\ [Next]_vars => PlainInv'
  <1> SUFFICES ASSUME RegistryInv, PlainInv, [Next]_vars PROVE PlainInv'
    OBVIOUS
  <1>1. ASSUME NEW q \in Requests, pc'[q] = "idle" PROVE req'[q] = NoRequest
    <2>1. ASSUME NEW r \in Requests, Arrive(r) PROVE req'[q] = NoRequest
      BY <1>1, <2>1, ArriveFrom DEF PlainInv
    <2>2. ASSUME NEW r \in Requests, Serve(r) \/ StatementFails(r) PROVE req'[q] = NoRequest
      BY <1>1, <2>2, ServeFrom DEF PlainInv
    <2>3. CASE UNCHANGED vars
      BY <1>1, <2>3 DEF vars, PlainInv
    <2>4. QED
      BY <2>1, <2>2, <2>3 DEF Next, AllServed
  <1>2. ASSUME ReplacesNothing' PROVE Plain'
    <2>1. ReplacesNothing /\ Plain
      BY <1>2, PlainBefore DEF PlainInv
    <2>2. ASSUME NEW r \in Requests, Arrive(r) PROVE Plain'
      BY <2>1, <2>2, ArriveFrom DEF Plain, RegisteredHasTable
    <2>3. CASE UNCHANGED vars
      BY <2>1, <2>3 DEF vars, Plain, RegisteredHasTable
    <2>4. QED
      BY <2>1, <2>2, <2>3, ServePlain DEF Next, AllServed
  <1>3. QED
    BY <1>1, <1>2 DEF PlainInv

LEMMA PlainInvariant == Safety => []PlainInv
  <1>1. Init => PlainInv
    BY DEF Init, InGoodOrder, EmptyTxn, PlainInv, Plain, RegisteredHasTable
  <1>2. QED
    BY <1>1, PlainStep, RegistryInvariant, PTL DEF Safety

\* Uploads that may not overwrite never cost a registered file its table: it
\* takes an overwrite, a T&E load or a deletion.
THEOREM PlainUploadsKeepEveryTable == Safety => []PlainUploadsKeepTables
  <1>1. PlainInv => PlainUploadsKeepTables
    BY DEF PlainInv, Plain, PlainUploadsKeepTables
  <1>2. QED
    BY <1>1, PlainInvariant, PTL

\* Nor do they fail a reader between the two statements of the rows endpoint.
THEOREM PlainUploadsKeepEveryReader == Safety => PlainUploadsKeepReaders
  <1> DEFINE Kept == \A r \in Requests : ReplacesNothing' /\ ReadRows(r) => answer'[r] = "ok"
  <1>1. RegistryInv /\ PlainInv /\ [Next]_vars => [Kept]_vars
    <2> SUFFICES ASSUME RegistryInv, PlainInv, [Next]_vars, NEW r \in Requests,
                        ReplacesNothing', ReadRows(r)
                 PROVE  answer'[r] = "ok"
      OBVIOUS
    <2>1. Plain /\ pc[r] = "read"
      BY PlainBefore DEF PlainInv, ReadRows
    <2>2. Exists(r, req[r].hash)
      BY <2>1 DEF Plain, Exists
    <2>3. QED
      BY <2>2 DEF ReadRows, Rollback, Finish, RegistryInv, TypeOK
  <1>2. QED
    BY <1>1, RegistryInvariant, PlainInvariant, PTL DEF Safety, PlainUploadsKeepReaders
=============================================================================
