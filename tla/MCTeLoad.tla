------------------------------ MODULE MCTeLoad ------------------------------
(* Files for TeLoad: conflicts within a file, across chunks and across files. *)
EXTENDS TeLoad

CONSTANTS k1, k2

Fine(k) == [kind |-> "fine", key |-> k]
Bad(kind) == [kind |-> kind, key |-> k1]

RowLists ==
    {<<>>,
     <<Fine(k1), Fine(k2), Fine(k1)>>,
     <<Fine(k2), Fine(k1), Fine(k1)>>,
     <<Fine(k2), Fine(k1), Fine(None), Fine(None), Fine(None)>>,
     <<Bad("refused"), Fine(k2), Fine(k1)>>,
     <<Fine(k2), Bad("refused"), Fine(None), Fine(k1)>>,
     <<Bad("wide"), Fine(k1), Fine(k2)>>,
     <<Fine(None), Bad("mistyped"), Fine(k2), Fine(k2)>>}

MCFiles == [known : {TRUE}, rows : RowLists] \cup [known : {FALSE}, rows : {<<Fine(k1)>>}]
MCKeys == {k1, k2}
=============================================================================
