---------------------------- MODULE MCListCache ----------------------------
(* ListCache on a small instance. *)
EXTENDS ListCache

CONSTANTS w1, w2, r1, r2

TwoWriters == {w1, w2}
TwoReaders == {r1, r2}

=============================================================================
