-------------------------- MODULE MCUploadRequest --------------------------
(* UploadRequest with files that share a name, a content, both or neither. *)
EXTENDS UploadRequest, TLC

CONSTANTS n1, n2, c1, c2

Of(n, c, mode) == [name |-> n, content |-> c, mode |-> mode, size |-> TRUE, target |-> TRUE,
                   overwrite |-> FALSE]

First == Of(n1, c1, "dynamic")

MCUploads ==
    {First, [First EXCEPT !.overwrite = TRUE],
     Of(n2, c1, "dynamic"), Of(n1, c2, "te"),
     [Of(n2, c2, "dynamic") EXCEPT !.size = FALSE]}

MCSymmetry == Permutations(Requests)
=============================================================================
