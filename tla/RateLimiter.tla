----------------------------- MODULE RateLimiter -----------------------------
(***************************************************************************)
(* The sliding-window limiter in front of every request (ratelimit.py).    *)
(* A bucket holds the times of the admitted requests of a key, a client *)
(* and the scope (read or write) of what it asks; a request is refused     *)
(* when the last Window already holds the scope's budget of them, and told *)
(* when to come back.  At most MaxTracked buckets are kept: a new one      *)
(* pushes out the least recently used.                                     *)
(*                                                                         *)
(* The middleware calls check from the event loop alone, so that a check   *)
(* is one step and the times do not go back.                               *)
(***************************************************************************)
EXTENDS Naturals, SequencesExt, FiniteSetsExt

CONSTANTS
    Keys,        \* pairs of a client and a scope that is limited
    Budget,      \* of each, by its scope
    Window,      \* 60 seconds, in ticks
    Second,      \* ticks of a second
    MaxTracked,  \* _MAX_TRACKED_CLIENTS
    Never,
    MaxTime,     \* bound: the last moment
    MaxGrants    \* bound: requests of a key admitted in a window

ASSUME LimiterAssumption ==
    /\ IsFiniteSet(Keys) /\ Budget \in [Keys -> Nat \ {0}]
    /\ Window \in Nat \ {0} /\ Second \in Nat \ {0}
    /\ MaxTracked \in Nat \ {0}
    /\ MaxTime \in Nat /\ MaxGrants \in Nat
    /\ Never \notin Nat

VARIABLES
    now,
    hits,     \* a key's bucket, empty when it has none
    order,    \* the keys with a bucket, least recently used first
    granted,  \* when its requests of the last Window were admitted
    seen,     \* a key's last request
    told      \* when a key refused last was told to come back

limiterVars == <<now, hits, order, granted, seen, told>>

Times == 0..MaxTime

LimiterTypeOK ==
    /\ now \in Times
    /\ hits \in [Keys -> Seq(Times)]
    /\ order \in Seq(Keys)
    /\ granted \in [Keys -> Seq(Times)]
    /\ seen \in [Keys -> Times \cup {Never}]
    /\ told \in [Keys -> Nat \cup {Never}]

-----------------------------------------------------------------------------

\* How many of a key's times, in order, have left the window that ends at a moment.
Expired(times, moment) ==
    Min({n \in 0 .. Len(times) : n < Len(times) => times[n + 1] + Window > moment})

Recent(times, moment) == SubSeq(times, Expired(times, moment) + 1, Len(times))

\* A key's bucket without the hits that have left the window.
Bucket(k) == Recent(hits[k], now)

\* The buckets once k's is the most recently used.
MoveToEnd(k) == Append(RemoveFirst(order, k), k)

\* Mutant: the seconds are rounded down.
SecondsRoundedDown(ticks) == LET s == ticks \div Second IN IF s = 0 THEN 1 ELSE s

\* Retry-After: whole seconds, one at least.
Seconds(ticks) ==
    LET s == (ticks + Second - 1) \div Second IN IF s = 0 THEN 1 ELSE s

Refuse(k) ==
    /\ Len(Bucket(k)) >= Budget[k]
    /\ hits' = [hits EXCEPT ![k] = Bucket(k)]
    /\ order' = MoveToEnd(k)
    /\ told' = [told EXCEPT ![k] = now + Second * Seconds(Bucket(k)[1] + Window - now)]
    /\ seen' = [seen EXCEPT ![k] = now]
    /\ UNCHANGED <<now, granted>>

Granted(k) == Len(granted[k])

\* Mutant: the oldest bucket is evicted, however recently it was used.
AdmitFirstIn(k) ==
    LET moved == IF k \in ToSet(order) THEN order ELSE Append(order, k)
        kept == IF Len(moved) > MaxTracked THEN Tail(moved) ELSE moved
    IN  /\ Len(Bucket(k)) < Budget[k]
        /\ Granted(k) < MaxGrants
        /\ order' = kept
        /\ hits' = [j \in Keys |-> CASE j \notin ToSet(kept) -> <<>>
                                        [] j = k -> Append(Bucket(k), now)
                                        [] OTHER -> hits[j]]
        /\ granted' = [granted EXCEPT ![k] = Append(@, now)]
        /\ seen' = [seen EXCEPT ![k] = now]
        /\ told' = [told EXCEPT ![k] = Never]
        /\ UNCHANGED now

Admit(k) ==
    LET moved == MoveToEnd(k)
        evicts == Len(moved) > MaxTracked
    IN  /\ Len(Bucket(k)) < Budget[k]
        /\ Granted(k) < MaxGrants
        /\ order' = IF evicts THEN Tail(moved) ELSE moved
        /\ hits' = [j \in Keys |-> CASE evicts /\ j = Head(moved) -> <<>>
                                        [] j = k -> Append(Bucket(k), now)
                                        [] OTHER -> hits[j]]
        /\ granted' = [granted EXCEPT ![k] = Append(@, now)]
        /\ seen' = [seen EXCEPT ![k] = now]
        /\ told' = [told EXCEPT ![k] = Never]
        /\ UNCHANGED now

\* The clock, and requests that are not limited.
Tick ==
    /\ now < MaxTime
    /\ now' = now + 1
    /\ granted' = [k \in Keys |-> Recent(granted[k], now + 1)]
    /\ UNCHANGED <<hits, order, seen, told>>

\* The bound on the clock: nothing is followed beyond it.
ClockEnded == now = MaxTime /\ UNCHANGED limiterVars

LimiterNext == (\E k \in Keys : Admit(k) \/ Refuse(k)) \/ Tick \/ ClockEnded

LimiterInit ==
    /\ now = 0
    /\ hits = [k \in Keys |-> <<>>]
    /\ order = <<>>
    /\ granted = [k \in Keys |-> <<>>]
    /\ seen = [k \in Keys |-> Never]
    /\ told = [k \in Keys |-> Never]

LimiterSpec == LimiterInit /\ [][LimiterNext]_limiterVars

-----------------------------------------------------------------------------
(* Properties. *)

\* A key gets more than its budget in a window only if more keys were
\* there in that window than the limiter tracks: what eviction forgets is idle.
WithinBudget ==
    \A k \in Keys : Granted(k) > Budget[k] =>
        Cardinality({j \in Keys : seen[j] # Never /\ seen[j] + Window > now}) > MaxTracked

\* Who comes back when told, and not before, is admitted.
ComeBack ==
    \A k \in Keys : told[k] # Never /\ now >= told[k] => Len(Bucket(k)) < Budget[k]
=============================================================================
