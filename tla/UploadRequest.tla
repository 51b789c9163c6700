---------------------------- MODULE UploadRequest ----------------------------
(***************************************************************************)
(* POST /api/csv/upload (csv_routes.py, upload) and DELETE /files/{id}.    *)
(* An upload is three transactions: the load, the preserved original       *)
(* (originals.py, record_upload), and the audit row (audit.py,             *)
(* record_audit); the last two may fail without failing the request.  The  *)
(* process may die, or the client's connection break, between any two.     *)
(*                                                                         *)
(* The load is one step here, as FileStore promises and UploadRegistry     *)
(* implements: it puts the new file in the place of those of its name or   *)
(* content.  A file is known by the request that registered it.            *)
(***************************************************************************)
EXTENDS Naturals, Sequences

CONSTANTS
    Requests,   \* requests, each served once
    Names, Contents,
    MaxFaults   \* bound: failures, broken connections and crashes in a behaviour

\* size: within MAX_UPLOAD_BYTES; target: "te" uploads name their table.
Upload == [name : Names, content : Contents, mode : {"dynamic", "te", "other"},
           size : BOOLEAN, target : BOOLEAN, overwrite : BOOLEAN]

NoUpload == [name |-> "", content |-> "", mode |-> "other", size |-> FALSE,
             target |-> FALSE, overwrite |-> FALSE]

VARIABLES
    files,    \* csv_files
    loaded,   \* the requests that have registered a file, in that order
    uploads,  \* uploads, with upload_blobs and source_rows
    audit,    \* audit_log, oldest first
    call,     \* what each request asks for
    step,     \* where the handler of each request is
    result,   \* what the loader returned
    answer,   \* what the client got
    faulty,   \* requests that something failed for
    faults    \* how many failures there were

vars == <<files, loaded, uploads, audit, call, step, result, answer, faulty, faults>>

Results == {"ok", "partly", "duplicate_file", "invalid_structure", "error"}
Status == [ok |-> "imported", partly |-> "partly_imported", duplicate_file |-> "duplicate",
           invalid_structure |-> "rejected", error |-> "failed"]
Good == {"ok", "partly"}

\* A row of uploads: csv_file_id is the file a load registered, if any.
Original == [by : Requests, status : {Status[r] : r \in Results}, file : SUBSET Requests]

AuditRow == [action : {"upload", "delete"}, file : Requests]

TypeOK ==
    /\ files \subseteq Requests /\ loaded \in Seq(Requests)
    /\ uploads \in SUBSET Original
    /\ audit \in Seq(AuditRow)
    /\ call \in [Requests -> Upload \cup {NoUpload}]
    /\ step \in [Requests -> {"idle", "load", "record", "audit", "reply", "over"}]
    /\ result \in [Requests -> Results \cup {"none"}]
    /\ answer \in [Requests -> Results \cup {"none", "http", "lost"}]
    /\ faulty \subseteq Requests
    /\ faults \in 0 .. MaxFaults

-----------------------------------------------------------------------------
\* The files a load would replace, or be refused for.
Prior(r) == {f \in files : call[f].name = call[r].name \/ call[f].content = call[r].content}

\* Something fails for r.
Fault(r) == faults < MaxFaults /\ faults' = faults + 1 /\ faulty' = faulty \cup {r}
NoFault == UNCHANGED <<faulty, faults>>

Goto(r, next) == step' = [step EXCEPT ![r] = next]

\* The client gets what the handler answers, if its connection still stands.
Answer(r, told) ==
    /\ Goto(r, "over")
    /\ answer' = [answer EXCEPT ![r] = IF @ = "none" THEN told ELSE @]

\* The loader returns; nothing is told yet.
Return(r, res) ==
    /\ result' = [result EXCEPT ![r] = res]
    /\ Goto(r, "record")
    /\ UNCHANGED <<uploads, audit, call, answer>>

Send(r, upload) ==
    /\ step[r] = "idle"
    /\ call' = [call EXCEPT ![r] = upload]
    /\ Goto(r, "load")
    /\ UNCHANGED <<files, loaded, uploads, audit, result, answer>> /\ NoFault

\* 401, 403 and 503 of the request's dependencies, whatever it asks for, and
\* 413 and 422 of the handler: before anything is read or stored.
RefuseRequest(r) ==
    /\ step[r] = "load"
    /\ Answer(r, "http")
    /\ UNCHANGED <<files, loaded, uploads, audit, call, result>> /\ NoFault

Accepted(r) ==
    /\ step[r] = "load"
    /\ call[r].size
    /\ call[r].mode = "dynamic" \/ (call[r].mode = "te" /\ call[r].target)

\* The loader refuses the file, or loses a race and undoes everything.
LoadRefused(r) ==
    /\ Accepted(r)
    /\ \/ Return(r, "invalid_structure")
       \/ Return(r, "error")
       \/ call[r].mode = "dynamic" /\ ~call[r].overwrite /\ Prior(r) # {}
          /\ Return(r, "duplicate_file")
    /\ UNCHANGED <<files, loaded>> /\ NoFault

\* The registry after the load's commit; a T&E load replaces without asking.
RegisterFile(r) ==
    /\ call[r].mode = "te" \/ call[r].overwrite \/ Prior(r) = {}
    /\ files' = (files \ Prior(r)) \cup {r}
    /\ loaded' = Append(loaded, r)

Load(r) ==
    /\ Accepted(r)
    /\ RegisterFile(r)
    /\ Return(r, "ok") \/ Return(r, "partly")
    /\ NoFault

\* A database error, whether or not the commit took effect: upload_dynamic
\* answers 'error', upload_te lets it through as an HTTP failure.
LoadFails(r) ==
    /\ Accepted(r)
    /\ Fault(r)
    /\ RegisterFile(r) \/ UNCHANGED <<files, loaded>>
    /\ IF call[r].mode = "dynamic" THEN Return(r, "error")
       ELSE Answer(r, "http") /\ UNCHANGED <<uploads, audit, call, result>>

-----------------------------------------------------------------------------
\* After record_upload only a load that succeeded is audited.
Recorded(r) == IF result[r] \in Good THEN "audit" ELSE "reply"

KeepOriginal(r) ==
    uploads' = uploads \cup {[by |-> r, status |-> Status[result[r]],
                              file |-> IF result[r] \in Good THEN {r} ELSE {}]}

RecordUpload(r) ==
    /\ step[r] = "record"
    /\ KeepOriginal(r)
    /\ Goto(r, Recorded(r))
    /\ UNCHANGED <<files, loaded, audit, call, result, answer>> /\ NoFault

\* Mutant: an original that could not be stored fails the request.
RecordFailsAnswers(r) ==
    /\ step[r] = "record"
    /\ Fault(r)
    /\ Goto(r, "reply")
    /\ UNCHANGED <<files, loaded, uploads, audit, call, result, answer>>

\* Every exception is caught; the row may be there all the same.
RecordFails(r) ==
    /\ step[r] = "record"
    /\ Fault(r)
    /\ KeepOriginal(r) \/ UNCHANGED uploads
    /\ Goto(r, Recorded(r))
    /\ UNCHANGED <<files, loaded, audit, call, result, answer>>

\* Mutant: the audit row names the file the registry has by now.
RecordAuditOfCurrent(r) ==
    /\ step[r] = "audit"
    /\ IF r \in files THEN audit' = Append(audit, [action |-> "upload", file |-> r])
       ELSE UNCHANGED audit
    /\ Goto(r, "reply")
    /\ UNCHANGED <<files, loaded, uploads, call, result, answer>> /\ NoFault

RecordAudit(r) ==
    /\ step[r] = "audit"
    /\ audit' = Append(audit, [action |-> "upload", file |-> r])
    /\ Goto(r, "reply")
    /\ UNCHANGED <<files, loaded, uploads, call, result, answer>> /\ NoFault

AuditFails(r) ==
    /\ step[r] = "audit"
    /\ Fault(r)
    /\ UNCHANGED audit \/ audit' = Append(audit, [action |-> "upload", file |-> r])
    /\ Goto(r, "reply")
    /\ UNCHANGED <<files, loaded, uploads, call, result, answer>>

Reply(r) ==
    /\ step[r] = "reply"
    /\ Answer(r, result[r])
    /\ UNCHANGED <<files, loaded, uploads, audit, call, result>> /\ NoFault

\* The client sees its request fail; the handler's thread goes on.
BreakConnection(r) ==
    /\ step[r] \in {"load", "record", "audit", "reply"}
    /\ answer[r] = "none"
    /\ faults < MaxFaults /\ faults' = faults + 1
    /\ answer' = [answer EXCEPT ![r] = "lost"]
    /\ UNCHANGED <<files, loaded, uploads, audit, call, step, result, faulty>>

\* The process dies: what is committed stays, the handlers are gone.
Crash ==
    LET lost == {r \in Requests : step[r] \in {"load", "record", "audit", "reply"}}
    IN  /\ lost # {}
        /\ faults < MaxFaults /\ faults' = faults + 1
        /\ faulty' = faulty \cup lost
        /\ step' = [r \in Requests |-> IF r \in lost THEN "over" ELSE step[r]]
        /\ answer' = [r \in Requests |->
                         IF r \in lost /\ answer[r] = "none" THEN "lost" ELSE answer[r]]
        /\ UNCHANGED <<files, loaded, uploads, audit, call, result>>

\* Mutant: the deletion's audit row is written as the upload's is, after the
\* commit, and may be missing.
DeleteFileThenAudit(f) ==
    /\ f \in files
    /\ files' = files \ {f}
    /\ \/ UNCHANGED audit
       \/ audit' = Append(audit, [action |-> "delete", file |-> f])
    /\ UNCHANGED <<loaded, uploads, call, step, result, answer>> /\ NoFault

\* The audit row is part of the deletion's transaction.
DeleteFile(f) ==
    /\ f \in files
    /\ files' = files \ {f}
    /\ audit' = Append(audit, [action |-> "delete", file |-> f])
    /\ UNCHANGED <<loaded, uploads, call, step, result, answer>> /\ NoFault

-----------------------------------------------------------------------------
CONSTANT Uploads   \* what is uploaded

ASSUME UploadsAssumption == Uploads \subseteq Upload /\ MaxFaults \in Nat

Init ==
    /\ files = {} /\ loaded = <<>> /\ uploads = {} /\ audit = <<>>
    /\ call = [r \in Requests |-> NoUpload]
    /\ step = [r \in Requests |-> "idle"]
    /\ result = [r \in Requests |-> "none"]
    /\ answer = [r \in Requests |-> "none"]
    /\ faulty = {} /\ faults = 0

Handle(r) ==
    \/ RefuseRequest(r) \/ LoadRefused(r) \/ Load(r) \/ LoadFails(r)
    \/ RecordUpload(r) \/ RecordFails(r) \/ RecordAudit(r) \/ AuditFails(r) \/ Reply(r)

Next ==
    \/ \E r \in Requests : Handle(r) \/ BreakConnection(r) \/ DeleteFile(r)
    \/ \E r \in Requests, upload \in Uploads : Send(r, upload)
    \/ Crash

Spec == Init /\ [][Next]_vars

-----------------------------------------------------------------------------
(* What the three transactions leave behind together. *)

Audited(action) == {audit[i].file : i \in {k \in DOMAIN audit : audit[k].action = action}}
Loaded == {loaded[i] : i \in DOMAIN loaded}
OriginalsOf(r) == {u \in uploads : u.by = r}

\* Every upload that reached a loader leaves one original with its outcome, and
\* one that loaded a file an audit row, unless something failed or the process
\* died; a failure of the one takes nothing from the other, and neither says a
\* file was loaded that was not (csv_routes 85-101, originals 39-68, audit 99-118).
Accounted ==
    /\ \A u \in uploads : OriginalsOf(u.by) = {u} /\ u.file \subseteq Loaded
    /\ Audited("upload") \subseteq Loaded
    /\ \A r \in Requests :
          answer[r] \in Results =>
              /\ r \notin faulty => OriginalsOf(r) # {}
              /\ answer[r] \in Good =>
                    /\ r \in Loaded
                    /\ r \notin Audited("upload") \/ OriginalsOf(r) = {} => r \in faulty
                    /\ r \in Audited("upload") \/ OriginalsOf(r) # {} \/ faults > 1

\* A file that has gone from the registry left a trace: an audited deletion, or
\* a later upload of its name or content that took its place (csv_routes 227-264).
GoneLeavesTrace ==
    \A i \in DOMAIN loaded : loaded[i] \notin files =>
        \/ loaded[i] \in Audited("delete")
        \/ \E k \in i + 1 .. Len(loaded) :
              LET f == call[loaded[i]] g == call[loaded[k]]
              IN  g.name = f.name \/ g.content = f.content
=============================================================================
