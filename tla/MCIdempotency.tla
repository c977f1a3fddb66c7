--------------------------- MODULE MCIdempotency ---------------------------
(* Idempotency for TLC.                                                    *)
EXTENDS Idempotency

CONSTANTS w1, w2, w3, f1, f2

TwoWorkers == {w1, w2}
ThreeWorkers == {w1, w2, w3}
=============================================================================
