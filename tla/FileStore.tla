----------------------------- MODULE FileStore ------------------------------
(***************************************************************************)
(* What the upload registry promises its clients: a set of files in which  *)
(* a name and a content occur once, changed by one request at a time.  A   *)
(* new file takes the place of whatever had its name or its content and    *)
(* touches no other file; a deletion removes one file.                     *)
(***************************************************************************)
EXTENDS Naturals

CONSTANTS File   \* records with the fields id, name and hash

VARIABLE store

OneOfEach(S) ==
    \A f, g \in S : f.id = g.id \/ f.name = g.name \/ f.hash = g.hash => f = g

StoreInit == store \in SUBSET File /\ OneOfEach(store)

\* f is the one new file.
Put(f) ==
    /\ f \in File
    /\ \A g \in store : g.id # f.id
    /\ store' = {g \in store : g.name # f.name /\ g.hash # f.hash} \cup {f}

Remove(f) == store' = store \ {f}

StoreNext == (\E f \in store' : Put(f)) \/ (\E f \in store : Remove(f))

StoreSpec == StoreInit /\ [][StoreNext]_store
=============================================================================
