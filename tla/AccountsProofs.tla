--------------------------- MODULE AccountsProofs ---------------------------
(* Proofs about Accounts: the invariant AccountsInv, that the user's row     *)
(* changes as Lockout says, and which sessions survive a new password.       *)
EXTENDS Accounts, TLAPS

-----------------------------------------------------------------------------
(* The rows. *)

\* What a request makes of a user's row is a user's row.
LEMMA RowTypes ==
    ASSUME NEW u \in User
    PROVE  /\ Cleared(u) \in User /\ Cleared(u).until = Never
           /\ \A p \in Passwords : WithPassword(u, p) \in User /\ WithPassword(u, p).until = Never
           /\ \A t \in Times : Failed(u, t) \in User
  <1> USE LockoutAssumption DEF User, Times
  <1>1. Cleared(u) \in User /\ Cleared(u).until = Never
    BY DEF Cleared
  <1>2. \A p \in Passwords : WithPassword(u, p) \in User /\ WithPassword(u, p).until = Never
    BY DEF Cleared, WithPassword
  <1>3. ASSUME NEW t \in Times PROVE Failed(u, t) \in User
    <2>1. t + Window \in 0..(MaxTime + Window) /\ u.failed + 1 \in Nat
      OBVIOUS
    <2>2. CASE Recent(u, t)
      BY <2>1, <2>2 DEF Failed
    <2>3. CASE ~Recent(u, t)
      BY <2>1, <2>3 DEF Failed
    <2> QED BY <2>2, <2>3
  <1> QED BY <1>1, <1>2, <1>3

\* A wrong password never takes a lock away.
LEMMA FailureKeepsLock ==
    ASSUME NEW u \in User, NEW t \in Times, u.until # Never
    PROVE  Failed(u, t).until # Never
  <1>1. t + Window # Never
    BY LockoutAssumption DEF Times
  <1> QED BY <1>1 DEF Failed, User

\* A row to start from has its type.
LEMMA LockoutInitType == LockoutInit => user \in User
  <1>1. \A u \in New : u \in User
    BY LockoutAssumption DEF New, User, Times
  <1>2. 0 \in Times
    BY LockoutAssumption DEF Times
  <1> QED BY <1>1, <1>2, RowTypes DEF LockoutInit

-----------------------------------------------------------------------------
(* The steps. *)

LEMMA AccountsInit == Init => AccountsInv
  <1> SUFFICES ASSUME Init PROVE AccountsInv
    OBVIOUS
  <1>1. TypeOK
    BY LockoutInitType, LockoutAssumption DEF Init, TypeOK, Times, Sessions
  <1> QED BY <1>1, AccountsAssumption DEF Init, AccountsInv, DraftInv, HolderInv, SeenInv, VictimsInv

\* Reading and asking: nothing is written yet.
LEMMA ReadingKeeps ==
    ASSUME AccountsInv, NEW r \in Requests,
           (\E o \in Asked : Begin(r, o) \/ Admit(r, o)) \/ BeginChange(r)
    PROVE  AccountsInv'
  <1> USE DEF Begin, Admit, BeginChange, ReadUser, Goto, committed, AccountsInv
  <1>1. TypeOK'
    BY DEF TypeOK
  <1>2. DraftInv' /\ HolderInv' /\ SeenInv'
    BY AccountsAssumption DEF TypeOK, DraftInv, HolderInv, SeenInv, Is, SetsPassword
  <1>3. VictimsInv'
    BY DEF TypeOK, VictimsInv, SeenInv, Is, SetsPassword, Trusted, Nothing
  <1> QED BY <1>1, <1>2, <1>3

\* Writing the user's row.
LEMMA WritingKeeps ==
    ASSUME AccountsInv, NEW r \in Requests, RecordFailure(r) \/ SignIn(r) \/ SetHash(r)
    PROVE  AccountsInv'
  <1> USE DEF RecordFailure, SignIn, SetHash, Write, Goto, committed, AccountsInv
  <1>1. TypeOK'
    <2>1. SetsPassword(r) => op[r].new \in Passwords
      BY DEF TypeOK, SetsPassword, Is, Asked, Changing, Setting, SigningIn, Others, Nothing
    <2>2. draft' \in User
      BY <2>1, RowTypes DEF TypeOK
    <2> QED BY <2>2 DEF TypeOK
  <1>2. DraftInv' /\ HolderInv' /\ SeenInv'
    BY AccountsAssumption DEF TypeOK, DraftInv, HolderInv, SeenInv, Is, SetsPassword
  <1>3. VictimsInv'
    BY DEF TypeOK, VictimsInv, Is, SetsPassword, Trusted
  <1> QED BY <1>1, <1>2, <1>3

\* The sessions opened and revoked, before the commit.
LEMMA SessionsKeep ==
    ASSUME AccountsInv, NEW r \in Requests, NewSession(r) \/ FindSessions(r) \/ Revoke(r)
    PROVE  AccountsInv'
  <1> USE DEF NewSession, FindSessions, Revoke, Goto, committed, AccountsInv
  <1>1. TypeOK'
    BY DEF TypeOK
  <1>2. DraftInv' /\ HolderInv' /\ SeenInv'
    BY AccountsAssumption DEF TypeOK, DraftInv, HolderInv, SeenInv, Is, SetsPassword
  <1>3. VictimsInv'
    BY DEF TypeOK, VictimsInv, Is, SetsPassword, Trusted
  <1> QED BY <1>1, <1>2, <1>3

\* The end of a transaction.
LEMMA EndKeeps ==
    ASSUME AccountsInv, NEW r \in Requests, Refuse(r) \/ Commit(r) \/ RollBack(r)
    PROVE  AccountsInv'
  <1> USE DEF Refuse, Commit, RollBack, Finish, Goto, committed, AccountsInv
  <1>1. TypeOK'
    BY LockoutAssumption DEF TypeOK, Times, Sessions
  <1>2. DraftInv' /\ HolderInv' /\ SeenInv'
    BY AccountsAssumption DEF TypeOK, DraftInv, HolderInv, SeenInv, Is, SetsPassword
  <1>3. VictimsInv'
    BY DEF TypeOK, VictimsInv, HolderInv, Is, SetsPassword, Trusted
  <1> QED BY <1>1, <1>2, <1>3

LEMMA AccountsNext == AccountsInv /\ [Next]_vars => AccountsInv'
  <1> SUFFICES ASSUME AccountsInv, [Next]_vars PROVE AccountsInv'
    OBVIOUS
  <1>1. ASSUME NEW r \in Requests,
               (\E o \in Asked : Begin(r, o) \/ Admit(r, o)) \/ Step(r) \/ RollBack(r)
        PROVE  AccountsInv'
    BY <1>1, ReadingKeeps, WritingKeeps, SessionsKeep, EndKeeps DEF Step
  <1>2. CASE Tick \/ UNCHANGED vars
    <2>1. UNCHANGED <<user, holder, draft, pc, op, start, seen, victims, live, revoked, audited>>
          /\ now' \in Times
      BY <1>2, LockoutAssumption DEF Tick, committed, vars, Times, AccountsInv, TypeOK
    <2> QED BY <2>1 DEF AccountsInv, TypeOK, DraftInv, HolderInv, SeenInv, VictimsInv,
                        Is, SetsPassword, Trusted
  <1> QED BY <1>1, <1>2 DEF Next, Ended

\* Whatever requests run at once, fail or wait for each other: what a
\* transaction makes of the user's row starts from the row as it is.
THEOREM AccountsInvariant == Safety => []AccountsInv
  BY AccountsInit, AccountsNext, PTL DEF Safety

-----------------------------------------------------------------------------
(* The properties. *)

\* A commit of the row is a step of Lockout; nothing else touches it.
THEOREM AccountsImplementLockout == Safety => ImplementsLockout
  <1>1. Init => LockoutInit
    BY DEF Init
  <1>2. AccountsInv /\ [Next]_vars => [LockoutNext]_user
    <2> SUFFICES ASSUME AccountsInv, Next, user' # user PROVE LockoutNext
      BY DEF vars
    <2>1. PICK r \in Requests : Commit(r) /\ holder = r
      BY DEF Next, Step, Begin, Admit, BeginChange, ReadUser, RecordFailure, Refuse, SignIn,
             NewSession, SetHash, FindSessions, Revoke, Commit, RollBack, Tick, Ended, vars, committed
    <2>2. user' = draft /\ start[r] \in Times
      BY <2>1 DEF Commit, AccountsInv, TypeOK
    <2>3. SetsPassword(r) => op[r].new \in Passwords
      BY <2>1 DEF AccountsInv, TypeOK, SetsPassword, Is, Asked, Changing, Setting, SigningIn, Others, Nothing
    <2> QED BY <2>1, <2>2, <2>3 DEF AccountsInv, DraftInv, LockoutNext, Fail, Clear, SetPassword
  <1> QED BY <1>1, <1>2, AccountsInvariant, PTL DEF Safety, ImplementsLockout, LockoutSpec

\* When a password is set, no session opened with a password is left but the
\* one that asked.
THEOREM NewPasswordEndsSessions == Safety => OthersEnd
  <1>1. AccountsInv =>
            \A r \in Requests : Commit(r) /\ pc[r] = "revoked" /\ SetsPassword(r) =>
                live' \subseteq {op[r].session} \cup Trusted
    BY DEF AccountsInv, VictimsInv, Commit
  <1> QED BY <1>1, AccountsInvariant, PTL DEF OthersEnd

\* A lock in force outlasts every sign-in that began with it.
THEOREM LocksLast == Safety => LockLifted
  <1>1. AccountsInv =>
            \A r \in Requests : Commit(r) /\ user'.until = Never /\ Locked(user, start[r]) =>
                SetsPassword(r) \/ seen[r] # user
    <2> SUFFICES ASSUME AccountsInv, NEW r \in Requests, Commit(r), user'.until = Never,
                        Locked(user, start[r]), ~SetsPassword(r)
                 PROVE  seen[r] # user
      OBVIOUS
    <2>1. user.until # Never /\ user \in User /\ start[r] \in Times
      BY DEF Locked, AccountsInv, TypeOK
    <2>2. holder = r /\ draft.until = Never
      BY <2>1 DEF Commit
    <2>3. pc[r] # "counted"
      BY <2>1, <2>2, FailureKeepsLock DEF AccountsInv, DraftInv
    <2>4. pc[r] \in {"cleared", "opened"} /\ Is(r, {"login"})
      BY <2>2, <2>3 DEF AccountsInv, DraftInv
    <2> QED BY <2>4 DEF AccountsInv, SeenInv
  <1> QED BY <1>1, AccountsInvariant, PTL DEF LockLifted
=============================================================================
