-------------------------- MODULE MCConnectionPool --------------------------
EXTENDS ConnectionPool, TLC

\* The blocks are interchangeable.
Symmetry == Permutations(Borrows)
=============================================================================
