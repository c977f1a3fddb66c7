--------------------------- MODULE PaymentPromise ---------------------------
(***************************************************************************)
(* What fulfilment promises for one payment order, with no database, no    *)
(* leases and no workers: the money arrives, what was bought is delivered  *)
(* once and only after the money, the inviter's rebate is decided once and *)
(* only after the delivery, and the order is settled after both.           *)
(***************************************************************************)
EXTENDS Naturals

VARIABLES
    received,   \* the provider holds the right amount
    delivered,  \* how many times the purchase was delivered
    decided,    \* the affiliate rebate was granted or skipped
    settled     \* the order is COMPLETED

vars == <<received, delivered, decided, settled>>

Init == received = FALSE /\ delivered = 0 /\ decided = FALSE /\ settled = FALSE

Receive ==
    ~received /\ received' = TRUE /\ UNCHANGED <<delivered, decided, settled>>

Deliver ==
    /\ received /\ delivered = 0
    /\ delivered' = 1
    /\ UNCHANGED <<received, decided, settled>>

Decide ==
    /\ delivered = 1 /\ ~decided
    /\ decided' = TRUE
    /\ UNCHANGED <<received, delivered, settled>>

Settle ==
    /\ decided /\ ~settled
    /\ settled' = TRUE
    /\ UNCHANGED <<received, delivered, decided>>

Next == Receive \/ Deliver \/ Decide \/ Settle

Spec == Init /\ [][Next]_vars
=============================================================================
