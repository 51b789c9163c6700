------------------------------ MODULE Lockout ------------------------------
(***************************************************************************)
(* What a user's row promises: its password, and the wrong passwords       *)
(* counted since the last success or change (accounts.py).  Each request   *)
(* changes the row at one moment, and starts from what is there: no count  *)
(* is lost, whatever else goes on.                                         *)
(***************************************************************************)
EXTENDS Naturals

CONSTANTS
    Passwords,
    MaxTime,      \* the last moment of the clock
    MaxFailures,  \* settings.LOGIN_MAX_FAILURES
    Window,       \* settings.LOGIN_LOCKOUT_MINUTES
    Never         \* no moment

ASSUME LockoutAssumption ==
    /\ MaxTime \in Nat
    /\ MaxFailures \in Nat \ {0}
    /\ Window \in Nat \ {0}
    /\ Never \notin Nat

VARIABLE user

Times == 0..MaxTime

User == [password : Passwords, failed : Nat,
         first : Times \cup {Never}, until : 0..(MaxTime + Window) \cup {Never}]

\* A failure at t falls in the window that the first of them began.
Recent(u, t) == u.first # Never /\ u.first + Window > t

Locked(u, t) == u.until # Never /\ u.until > t

\* A wrong password at t; the last one allowed locks the account.
Failed(u, t) ==
    LET failed == IF Recent(u, t) THEN u.failed + 1 ELSE 1
    IN  [u EXCEPT !.failed = failed,
                  !.first = IF Recent(u, t) THEN @ ELSE t,
                  !.until = IF failed >= MaxFailures THEN t + Window ELSE @]

Cleared(u) == [u EXCEPT !.failed = 0, !.first = Never, !.until = Never]

WithPassword(u, p) == [Cleared(u) EXCEPT !.password = p]

Fail == \E t \in Times : user' = Failed(user, t)

Clear == user' = Cleared(user)

SetPassword == \E p \in Passwords : user' = WithPassword(user, p)

New == [password : Passwords, failed : {0}, first : {Never}, until : {Never}]

\* Nothing is counted yet, or one wrong password.
LockoutInit == \E u \in New : user \in {u, Failed(u, 0)}

LockoutNext == Fail \/ Clear \/ SetPassword

LockoutSpec == LockoutInit /\ [][LockoutNext]_user
=============================================================================
