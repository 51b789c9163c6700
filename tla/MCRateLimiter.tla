---------------------------- MODULE MCRateLimiter ----------------------------
EXTENDS RateLimiter, TLC

CONSTANTS r1, r2, w

\* Two clients that read and one that writes, with a tighter budget.
MCKeys == {r1, r2, w}
MCBudget == (r1 :> 2) @@ (r2 :> 2) @@ (w :> 1)

\* The readers are told apart by their requests only.
Symmetry == Permutations({r1, r2})
=============================================================================
