--------------------------- MODULE MCPaymentRefund ---------------------------
(* PaymentRefund for TLC: two workers, an order of two units.              *)
EXTENDS PaymentRefund, TLC

CONSTANTS w1, w2

TwoWorkers == {w1, w2}

\* No action and no safety property names a worker.
Symmetry == Permutations(TwoWorkers)
=============================================================================
