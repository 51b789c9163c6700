----------------------------- MODULE MCUploader -----------------------------
(* Uploader with a batch of two jobs. *)
EXTENDS Uploader

CONSTANTS j1, j2

MCBatch == <<j1, j2>>
=============================================================================
