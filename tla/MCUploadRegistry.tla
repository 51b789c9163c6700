-------------------------- MODULE MCUploadRegistry --------------------------
EXTENDS UploadRegistry, TLC

\* Requests, names and hashes are interchangeable.
Symmetry == Permutations(Requests) \cup Permutations(Names) \cup Permutations(Hashes)
=============================================================================
