--------------------------- MODULE PrepaidAccount ----------------------------
(* What the live wallet promises, without wallet, rows or workers: each       *)
(* request of a user gets one verdict, nothing or an amount that it used or   *)
(* held, never nothing once its use is known to cost something; and the       *)
(* balance changes by an amount once per verdict, or for other reasons.       *)
EXTENDS Integers

CONSTANTS Requests, Hold, TopUpTarget, Costs, Deltas

VARIABLES
    balance,
    used,     \* what each request used, -1 when that is not known
    verdict,  \* what it pays, -1 before that is decided
    settled   \* the requests whose verdict the balance includes

vars == <<balance, used, verdict, settled>>

Open(r) == verdict[r] = -1

Init ==
    /\ balance \in Int
    /\ used = [r \in Requests |-> -1]
    /\ verdict = [r \in Requests |-> -1]
    /\ settled = {}

Use(r) ==
    /\ used[r] = -1
    /\ \E c \in Costs : used' = [used EXCEPT ![r] = c]
    /\ UNCHANGED <<balance, verdict, settled>>

(* Of a use that is not known, or whose record was lost, the hold is due.     *)
Fair(r, amount) ==
    \/ amount = 0 /\ used[r] <= 0
    \/ amount = used[r]
    \/ amount \in {Hold, TopUpTarget}

Judge(r) ==
    /\ Open(r)
    /\ \E amount \in Costs \cup {0, Hold, TopUpTarget} :
        Fair(r, amount) /\ verdict' = [verdict EXCEPT ![r] = amount]
    /\ UNCHANGED <<balance, used, settled>>

Settle(r) ==
    /\ verdict[r] > 0 /\ r \notin settled
    /\ balance' = balance - verdict[r]
    /\ settled' = settled \cup {r}
    /\ UNCHANGED <<used, verdict>>

Change ==
    /\ \E delta \in Deltas : balance' = balance + delta
    /\ UNCHANGED <<used, verdict, settled>>

Next == Change \/ \E r \in Requests : Use(r) \/ Judge(r) \/ Settle(r)

Spec == Init /\ [][Next]_vars
=============================================================================
