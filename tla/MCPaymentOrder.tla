--------------------------- MODULE MCPaymentOrder ---------------------------
(* PaymentOrder for TLC: two workers, the creating request among them.     *)
EXTENDS PaymentOrder

CONSTANTS w1, w2

TwoWorkers == {w1, w2}
=============================================================================
