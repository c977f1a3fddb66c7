---------------------------- MODULE MCBatchImage ----------------------------
(* BatchImage for TLC: two workers. *)
EXTENDS BatchImage

CONSTANTS w1, w2

TwoWorkers == {w1, w2}
=============================================================================
