------------------------------ MODULE Accounts ------------------------------
(***************************************************************************)
(* One user's account under concurrent requests (accounts.py,              *)
(* auth_routes.py): sign-ins with a password and through an identity       *)
(* provider, sign-outs, and the three ways to set a password.  A request   *)
(* reads the user's row without a lock, checks the password, and only then *)
(* writes; a write of the row holds it until the transaction ends, and a   *)
(* write that had to wait starts from the row as it is then.  now() is the *)
(* moment a request's transaction began.                                   *)
(*                                                                         *)
(* Membership, is_active and expiry of sessions only refuse: the model has *)
(* an active member whose sessions do not expire.                          *)
(***************************************************************************)
EXTENDS Lockout, FiniteSets

CONSTANTS
    Requests,
    Kinds,    \* what requests are made for
    Earlier,  \* a session from before, opened with the password
    None      \* no session, no request

ASSUME AccountsAssumption ==
    /\ None \notin Requests \cup {Earlier}
    /\ Earlier \notin Requests

\* A session has the name of the request that opened it.
Sessions == Requests \cup {Earlier}

\* What a request asks for.  "reset" is an administrator's, "operator" the
\* script's; "oidc" has proved who it is.
Changing == [kind : {"change"}, session : Sessions, given : Passwords, new : Passwords]
Setting  == [kind : {"reset", "operator"}, session : {None}, given : {None}, new : Passwords]
SigningIn == [kind : {"login"}, session : {None}, given : Passwords, new : {None}]
Others ==    [kind : {"oidc"}, session : {None}, given : {None}, new : {None}]
        \cup [kind : {"logout"}, session : Sessions, given : {None}, new : {None}]
Nothing == [kind |-> "none", session |-> None, given |-> None, new |-> None]

Asked == {o \in Changing \cup Setting \cup SigningIn \cup Others : o.kind \in Kinds}

VARIABLES
    now,
    holder,   \* the request that holds the user's row, not committed yet
    draft,    \* the row as its transaction has it
    pc, op,   \* where a request is, and what it asks for
    start,    \* its now()
    seen,     \* the user's row as it read it, while it runs
    victims,  \* the sessions its UPDATE revokes
    live,     \* committed sessions that are not revoked
    revoked,  \* ... that are
    audited   \* requests with a committed password_reset row

vars == <<user, now, holder, draft, pc, op, start, seen, victims, live, revoked, audited>>
committed == <<user, live, revoked, audited>>

TypeOK ==
    /\ user \in User /\ draft \in User
    /\ now \in Times
    /\ holder \in Requests \cup {None}
    /\ pc \in [Requests -> {"idle", "admitted", "read", "counted", "cleared", "set",
                            "revoking", "revoked", "opened", "done"}]
    /\ op \in [Requests -> Asked \cup {Nothing}]
    /\ start \in [Requests -> Times]
    /\ seen \in [Requests -> User \cup {None}]
    /\ victims \in [Requests -> SUBSET Sessions]
    /\ live \in SUBSET Sessions /\ revoked \in SUBSET Sessions
    /\ audited \in SUBSET Requests

-----------------------------------------------------------------------------

Goto(r, to) == pc' = [pc EXCEPT ![r] = to]

Is(r, kinds) == op[r].kind \in kinds

SetsPassword(r) == Is(r, {"change", "reset", "operator"})

PasswordRight(r) == op[r].given = seen[r].password

\* An UPDATE of the user's row waits for another transaction's, then takes the
\* row that one left.
Write(r, row) ==
    /\ holder = None
    /\ holder' = r
    /\ draft' = row

\* The SELECT that a transaction begins with.
ReadUser(r) ==
    /\ seen' = [seen EXCEPT ![r] = user]
    /\ start' = [start EXCEPT ![r] = now]
    /\ Goto(r, "read")

Begin(r, o) ==
    /\ pc[r] = "idle"
    /\ o.kind \notin {"change", "logout"}
    /\ op' = [op EXCEPT ![r] = o]
    /\ ReadUser(r)
    /\ UNCHANGED <<committed, now, holder, draft, victims>>

\* A change is let in by its session, looked up in a transaction of its own; a
\* sign-out by having a token at all.
Admit(r, o) ==
    /\ pc[r] = "idle"
    /\ \/ o.kind = "change" /\ o.session \in live
       \/ o.kind = "logout" /\ o.session \in live \cup revoked
    /\ op' = [op EXCEPT ![r] = o]
    /\ Goto(r, "admitted")
    /\ UNCHANGED <<committed, now, holder, draft, start, seen, victims>>

BeginChange(r) ==
    /\ pc[r] = "admitted" /\ Is(r, {"change"})
    /\ ReadUser(r)
    /\ UNCHANGED <<committed, now, holder, draft, op, victims>>

\* The transaction ends, with its locks and what the request has read.
Finish(r) ==
    /\ holder' = IF holder = r THEN None ELSE holder
    /\ start' = [start EXCEPT ![r] = 0]
    /\ seen' = [seen EXCEPT ![r] = None]
    /\ victims' = [victims EXCEPT ![r] = {}]
    /\ Goto(r, "done")

\* Mutant: the count is computed from the row that was read.
RecordFailureAsRead(r) ==
    /\ pc[r] = "read" /\ Is(r, {"login", "change"}) /\ ~PasswordRight(r)
    /\ Write(r, Failed(seen[r], start[r]))
    /\ Goto(r, "counted")
    /\ UNCHANGED <<committed, now, op, start, seen, victims>>

\* Both UPDATEs: the second finds the row held by its own transaction.
RecordFailure(r) ==
    /\ pc[r] = "read" /\ Is(r, {"login", "change"}) /\ ~PasswordRight(r)
    /\ Write(r, Failed(user, start[r]))
    /\ Goto(r, "counted")
    /\ UNCHANGED <<committed, now, op, start, seen, victims>>

\* The right password of a locked account; a reset of a user of two tenants.
Refuse(r) ==
    /\ pc[r] = "read"
    /\ \/ Is(r, {"login"}) /\ PasswordRight(r) /\ Locked(seen[r], start[r])
       \/ Is(r, {"reset"})
    /\ Finish(r)
    /\ UNCHANGED <<committed, now, draft, op>>

\* Mutant: the lock is looked at for wrong passwords only.
SignInLocked(r) ==
    /\ pc[r] = "read" /\ Is(r, {"login"}) /\ PasswordRight(r)
    /\ Write(r, Cleared(user))
    /\ Goto(r, "cleared")
    /\ UNCHANGED <<committed, now, op, start, seen, victims>>

\* Mutant: the row is left alone if there is no failure to clear.
SignInClean(r) ==
    /\ pc[r] = "read" /\ Is(r, {"login"}) /\ PasswordRight(r) /\ ~Locked(seen[r], start[r])
    /\ IF seen[r].failed = 0 THEN UNCHANGED <<holder, draft>> ELSE Write(r, Cleared(user))
    /\ Goto(r, "cleared")
    /\ UNCHANGED <<committed, now, op, start, seen, victims>>

SignIn(r) ==
    /\ pc[r] = "read" /\ Is(r, {"login"}) /\ PasswordRight(r) /\ ~Locked(seen[r], start[r])
    /\ Write(r, Cleared(user))
    /\ Goto(r, "cleared")
    /\ UNCHANGED <<committed, now, op, start, seen, victims>>

\* INSERT INTO sessions: nobody sees it before the commit.
NewSession(r) ==
    /\ pc[r] = "cleared" \/ (pc[r] = "read" /\ Is(r, {"oidc"}))
    /\ Goto(r, "opened")
    /\ UNCHANGED <<committed, now, holder, draft, op, start, seen, victims>>

\* The first UPDATE of _set_password.
SetHash(r) ==
    /\ pc[r] = "read" /\ SetsPassword(r)
    /\ Is(r, {"change"}) => PasswordRight(r)
    /\ Write(r, WithPassword(user, op[r].new))
    /\ Goto(r, "set")
    /\ UNCHANGED <<committed, now, op, start, seen, victims>>

\* Mutant: a reset leaves the sessions alone.
FindSessionsOfChange(r) ==
    /\ \/ pc[r] = "set"
          /\ victims' = [victims EXCEPT ![r] = IF Is(r, {"change"}) THEN live \ {op[r].session} ELSE {}]
       \/ pc[r] = "admitted" /\ Is(r, {"logout"})
          /\ victims' = [victims EXCEPT ![r] = live \cap {op[r].session}]
    /\ Goto(r, "revoking")
    /\ UNCHANGED <<committed, now, holder, draft, op, start, seen>>

\* The sessions that the second UPDATE, or a sign-out's, finds to revoke.
FindSessions(r) ==
    /\ \/ pc[r] = "set" /\ victims' = [victims EXCEPT ![r] = live \ {op[r].session}]
       \/ pc[r] = "admitted" /\ Is(r, {"logout"})
          /\ victims' = [victims EXCEPT ![r] = live \cap {op[r].session}]
    /\ Goto(r, "revoking")
    /\ UNCHANGED <<committed, now, holder, draft, op, start, seen>>

\* Sessions another transaction has revoked and not committed.
Held(r) == UNION {victims[q] : q \in {p \in Requests \ {r} : pc[p] = "revoked"}}

\* It waits for each of them, and passes over those that are revoked by then.
Revoke(r) ==
    /\ pc[r] = "revoking"
    /\ victims[r] \cap Held(r) = {}
    /\ victims' = [victims EXCEPT ![r] = @ \cap live]
    /\ Goto(r, "revoked")
    /\ UNCHANGED <<committed, now, holder, draft, op, start, seen>>

\* Mutant: only a sign-in that succeeds is committed.
CommitSuccess(r) ==
    /\ pc[r] \in {"opened", "revoked"}
    /\ user' = IF holder = r THEN draft ELSE user
    /\ draft' = IF holder = r THEN user' ELSE draft
    /\ live' = (live \ victims[r]) \cup (IF pc[r] = "opened" THEN {r} ELSE {})
    /\ revoked' = revoked \cup victims[r]
    /\ audited' = IF Is(r, {"reset"}) THEN audited \cup {r} ELSE audited
    /\ Finish(r)
    /\ UNCHANGED <<now, op>>

Commit(r) ==
    /\ pc[r] \in {"counted", "opened", "revoked"}
    /\ user' = IF holder = r THEN draft ELSE user
    /\ draft' = IF holder = r THEN user' ELSE draft
    /\ live' = (live \ victims[r]) \cup (IF pc[r] = "opened" THEN {r} ELSE {})
    /\ revoked' = revoked \cup victims[r]
    /\ audited' = IF Is(r, {"reset"}) THEN audited \cup {r} ELSE audited
    /\ Finish(r)
    /\ UNCHANGED <<now, op>>

\* A statement or the commit fails, and the transaction is rolled back.
RollBack(r) ==
    /\ pc[r] \notin {"idle", "done"}
    /\ draft' = IF holder = r THEN user ELSE draft
    /\ Finish(r)
    /\ UNCHANGED <<committed, now, op>>

Tick ==
    /\ now < MaxTime
    /\ now' = now + 1
    /\ UNCHANGED <<committed, holder, draft, pc, op, start, seen, victims>>

-----------------------------------------------------------------------------

\* What a request does next, by itself.
Step(r) ==
    \/ BeginChange(r) \/ RecordFailure(r) \/ Refuse(r) \/ SignIn(r) \/ NewSession(r)
    \/ SetHash(r) \/ FindSessions(r) \/ Revoke(r) \/ Commit(r)

\* No request is left.
Ended == (\A r \in Requests : pc[r] = "done") /\ UNCHANGED vars

Next ==
    \/ \E r \in Requests : (\E o \in Asked : Begin(r, o) \/ Admit(r, o)) \/ Step(r) \/ RollBack(r)
    \/ Tick \/ Ended

Init ==
    /\ LockoutInit
    /\ now = 0
    /\ holder = None /\ draft = user
    /\ pc = [r \in Requests |-> "idle"]
    /\ op = [r \in Requests |-> Nothing]
    /\ start = [r \in Requests |-> 0]
    /\ seen = [r \in Requests |-> None]
    /\ victims = [r \in Requests |-> {}]
    /\ live = {Earlier} /\ revoked = {}
    /\ audited = {}

Safety == Init /\ [][Next]_vars

\* Threads run; transactions need not fail and requests need not come.
Spec == Safety /\ \A r \in Requests : WF_vars(Step(r))

-----------------------------------------------------------------------------
(* The inductive invariant. *)

\* The row a transaction holds is what it makes of the committed one.
DraftInv ==
    /\ holder = None => draft = user
    /\ \A r \in Requests : holder = r =>
        \/ pc[r] = "counted" /\ draft = Failed(user, start[r])
        \/ pc[r] \in {"cleared", "opened"} /\ Is(r, {"login"}) /\ draft = Cleared(user)
        \/ pc[r] \in {"set", "revoking", "revoked"} /\ SetsPassword(r)
           /\ draft = WithPassword(user, op[r].new)

\* Who holds the row: everyone who has written it.
HolderInv ==
    \A r \in Requests :
        /\ pc[r] \in {"counted", "cleared", "set"} => holder = r
        /\ pc[r] = "opened" /\ ~Is(r, {"oidc"}) => holder = r
        /\ pc[r] \in {"revoking", "revoked"} /\ ~Is(r, {"logout"}) => holder = r

\* What a request has read; a sign-in goes on only from a row without a lock.
SeenInv ==
    \A r \in Requests :
        /\ pc[r] = "idle" => op[r] = Nothing
        /\ pc[r] = "read" => seen[r] \in User
        /\ pc[r] \in {"cleared", "opened"} /\ Is(r, {"login"}) => ~Locked(seen[r], start[r])

\* A session opened without the user's row.
Trusted == {r \in Requests : Is(r, {"oidc"})}

\* While a request sets the password, only sign-ins it need not end commit.
VictimsInv ==
    \A r \in Requests : pc[r] \in {"revoking", "revoked"} /\ SetsPassword(r) =>
        live \ victims[r] \subseteq {op[r].session} \cup Trusted

AccountsInv == TypeOK /\ DraftInv /\ HolderInv /\ SeenInv /\ VictimsInv

-----------------------------------------------------------------------------
(* Properties. *)

\* Whatever goes on at once, the user's row changes as if by one request at a
\* time: no failure is lost, and none is counted from a row that is gone.
ImplementsLockout == LockoutSpec

\* "Other sessions end": when a password is set, every session opened with a
\* password by then is over but the one that asked, those that were opened
\* while the request ran included.
OthersEnd ==
    [][\A r \in Requests :
        Commit(r) /\ pc[r] = "revoked" /\ SetsPassword(r) =>
            live' \subseteq {op[r].session} \cup Trusted]_vars

\* A lock that is still running is lifted by a new password only, or by a
\* sign-in that had read the row before the lock was set.
LockLifted ==
    [][\A r \in Requests :
        Commit(r) /\ user'.until = Never /\ Locked(user, start[r]) =>
            SetsPassword(r) \/ seen[r] # user]_vars

\* What the docstring of change_password says, "False if current is wrong": the
\* password that a change replaces is the one its user gave.
ChangeReplacesCurrent ==
    [][\A r \in Requests :
        Commit(r) /\ pc[r] = "revoked" /\ Is(r, {"change"}) =>
            op[r].given = user.password]_vars

\* Requests that wait for each other's rows all end.
RequestEnds == \A r \in Requests : pc[r] # "idle" ~> pc[r] = "done"
=============================================================================
