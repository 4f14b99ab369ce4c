---------------------------- MODULE MCSeqAppend ----------------------------
(* Instances of SeqAppend for TLC. *)
EXTENDS SeqAppend, TLC

CONSTANTS w1, w2, w3, i1, i2

\* Three handles, two of them on the same index of one database.
TwoIndexes == (w1 :> i1) @@ (w2 :> i1) @@ (w3 :> i2)
=============================================================================
