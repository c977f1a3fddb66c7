---------------------------- MODULE MCLiveWallet -----------------------------
(* LiveWallet for TLC: up to two requests, one or two outbox workers, one     *)
(* recovery batch.                                                            *)
EXTENDS LiveWallet

CONSTANTS r1, r2, w1, w2, c1

OneRequest == {r1}
TwoRequests == {r1, r2}
NoWorker == {}
OneWorker == {w1}
TwoWorkers == {w1, w2}
OneRecoverer == {c1}
=============================================================================
