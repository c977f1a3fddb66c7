----------------------------- MODULE WalletStore -----------------------------
(* The live wallet of one user in Redis: the balance that requests may still  *)
(* spend, the outbox event it has caught up with (its watermark), and one     *)
(* attempt per request. Every script runs alone, so each is one action with   *)
(* an outcome that its caller reads in the same step.                         *)
EXTENDS Integers

CONSTANT Requests   \* the requests of the user

VARIABLES
    present,    \* whether the wallet and its watermark exist
    wallet,     \* billing:live_wallet:{user}
    watermark,  \* ...:watermark, the last outbox event the wallet includes
    attempt     \* ...:attempt:<request>

store == <<present, wallet, watermark, attempt>>

Attempts == [state : {"none", "held", "finalized", "refunded"},
             reserved : Nat, actual : Nat]

NoAttempt == [state |-> "none", reserved |-> 0, actual |-> 0]

WalletTypeOK ==
    /\ present \in BOOLEAN
    /\ wallet \in Int
    /\ watermark \in Nat
    /\ attempt \in [Requests -> Attempts]

WalletInit ==
    /\ present = FALSE
    /\ wallet = 0
    /\ watermark = 0
    /\ attempt = [r \in Requests |-> NoAttempt]

Is(r, state) == attempt[r].state = state

-----------------------------------------------------------------------------
(* authorizeLiveBalanceScript: an attempt that exists is answered as it is; a *)
(* missing wallet is created from `start` at event `at` only if allowed; the  *)
(* hold is then taken if the wallet covers it.                                *)

Funds(start) == IF present THEN wallet ELSE start

AuthorizeOutcome(r, hold, start, allow) ==
    CASE ~Is(r, "none") -> IF present THEN "idempotent" ELSE "conflict"
      [] Is(r, "none") /\ ~present /\ ~allow -> "notfound"
      [] OTHER -> IF Funds(start) < hold THEN "insufficient" ELSE "applied"

Authorize(r, hold, start, at, allow) ==
    LET outcome == AuthorizeOutcome(r, hold, start, allow)
        writes  == outcome \in {"insufficient", "applied"}
        took    == outcome = "applied"
    IN  /\ present' = (present \/ writes)
        /\ wallet' = IF writes THEN Funds(start) - (IF took THEN hold ELSE 0)
                               ELSE wallet
        /\ watermark' = IF writes /\ ~present THEN at ELSE watermark
        /\ attempt' = IF took
                      THEN [attempt EXCEPT ![r] = [state |-> "held",
                                                   reserved |-> hold,
                                                   actual |-> 0]]
                      ELSE attempt

(* topUpLiveBalanceScript raises a hold to a target.                          *)
TopUpOutcome(r, target) ==
    CASE Is(r, "none") -> "notfound"
      [] ~Is(r, "none") /\ (~present \/ ~Is(r, "held")
                               \/ target < attempt[r].reserved) -> "conflict"
      [] OTHER -> IF target = attempt[r].reserved THEN "idempotent"
                  ELSE IF wallet < target - attempt[r].reserved
                       THEN "insufficient" ELSE "applied"

TopUp(r, target) ==
    /\ IF TopUpOutcome(r, target) = "applied"
       THEN /\ wallet' = wallet - (target - attempt[r].reserved)
            /\ attempt' = [attempt EXCEPT ![r].reserved = target]
       ELSE UNCHANGED <<wallet, attempt>>
    /\ UNCHANGED <<present, watermark>>

(* finalizeLiveBalanceScript replaces the hold by the actual charge, once.    *)
RepeatsFinalize(r, actual) == attempt[r].actual = actual

FinalizeSucceeds(r, actual) ==
    /\ present
    /\ \/ Is(r, "held")
       \/ Is(r, "finalized") /\ RepeatsFinalize(r, actual)

FinalizeReturn(r, actual) == attempt[r].reserved - actual

Finalize(r, actual) ==
    /\ IF present /\ Is(r, "held")
       THEN /\ wallet' = wallet + FinalizeReturn(r, actual)
            /\ attempt' = [attempt EXCEPT ![r].state = "finalized",
                                          ![r].actual = actual]
       ELSE UNCHANGED <<wallet, attempt>>
    /\ UNCHANGED <<present, watermark>>

(* refundLiveBalanceScript releases the whole hold.                           *)
RefundSucceeds(r) == present /\ (Is(r, "held") \/ Is(r, "refunded"))

Refund(r) ==
    /\ IF present /\ Is(r, "held")
       THEN /\ wallet' = wallet + attempt[r].reserved
            /\ attempt' = [attempt EXCEPT ![r].state = "refunded",
                                          ![r].actual = 0]
       ELSE UNCHANGED <<wallet, attempt>>
    /\ UNCHANGED <<present, watermark>>

(* adjustLiveBalanceAtWatermarkScript applies the outbox event `id` with its  *)
(* predecessor. The per-event marker it also keeps repeats, for as long as    *)
(* the wallet exists, what the watermark says; it is left out.                *)
Included(id) == id <= watermark

\* Variant for testing: the watermark is not compared.
AdjustOutcomeBlind(id, predecessor) == IF present THEN "applied" ELSE "notfound"

AdjustOutcome(id, predecessor) ==
    CASE ~present -> "notfound"
      [] present /\ Included(id) -> "idempotent"
      [] OTHER -> IF watermark = predecessor THEN "applied" ELSE "conflict"

Adjust(id, predecessor, delta) ==
    /\ IF AdjustOutcome(id, predecessor) = "applied"
       THEN wallet' = wallet + delta /\ watermark' = id
       ELSE UNCHANGED <<wallet, watermark>>
    /\ UNCHANGED <<present, attempt>>

(* initializeLiveBalanceAtWatermarkScript never overwrites a wallet.          *)
Initialize(start, at) ==
    /\ IF present
       THEN UNCHANGED <<wallet, watermark>>
       ELSE wallet' = start /\ watermark' = at
    /\ present' = TRUE
    /\ UNCHANGED attempt

-----------------------------------------------------------------------------
(* A terminal attempt is dropped after its 15 minutes (held ones never are).  *)
DropMarker(r) ==
    /\ attempt[r].state \in {"finalized", "refunded"}
    /\ attempt' = [attempt EXCEPT ![r] = NoAttempt]
    /\ UNCHANGED <<present, wallet, watermark>>

(* Redis loses its data.                                                      *)
LoseWallet ==
    /\ present
    /\ present' = FALSE
    /\ wallet' = 0
    /\ watermark' = 0
    /\ attempt' = [r \in Requests |-> NoAttempt]
=============================================================================
