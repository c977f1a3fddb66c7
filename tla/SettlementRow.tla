---------------------------- MODULE SettlementRow ----------------------------
(* The rows of billing_balance_settlements, one per request of a user, and    *)
(* the repository's conditional UPDATEs. A statement `X` is given by `XFinds`, *)
(* its WHERE clause, and by its effect when the row is found; a row that is   *)
(* not found is an error to the caller, who reads XFinds in the same step.    *)
EXTENDS WalletStore

CONSTANT Hold   \* the amount a request holds at first

ASSUME HoldAssumption == Hold \in Nat \ {0}

VARIABLE row

Statuses == {"none", "prepared", "authorized", "finalizing",
             "pending", "applied", "refunded"}

(* request_fingerprint: not set, of the usage record, or of the recovery.     *)
Fingerprints == {"", "usage", "recovery"}

Rows == [status : Statuses, hold : Nat, amount : Nat, by : Fingerprints,
         expired : BOOLEAN]

NoRow == [status |-> "none", hold |-> 0, amount |-> 0, by |-> "",
          expired |-> FALSE]

RowsTypeOK == row \in [Requests -> Rows]

RowsInit == row = [r \in Requests |-> NoRow]

In(r, statuses) == row[r].status \in statuses

(* What a snapshot counts as unsettled; prepared rows are not.                *)
UnsettledStatuses == {"authorized", "finalizing", "pending"}
HasUnsettled == \E r \in Requests : In(r, UnsettledStatuses)

-----------------------------------------------------------------------------
Prepare(r) ==
    /\ In(r, {"none"})
    /\ row' = [row EXCEPT ![r].status = "prepared", ![r].hold = Hold]

MarkFinds(r) == In(r, {"prepared", "authorized"}) /\ ~row[r].expired

Mark(r) ==
    row' = IF MarkFinds(r) THEN [row EXCEPT ![r].status = "authorized"] ELSE row

Larger(a, b) == IF a < b THEN b ELSE a

AdvanceFinds(r) == In(r, {"authorized"})

Advance(r, hold) ==
    row' = IF AdvanceFinds(r)
           THEN [row EXCEPT ![r].hold = Larger(@, hold)] ELSE row

\* Variant for testing: a repetition may name another amount.
SameVerdictAlways(r, amount, by) == TRUE

(* The verdict of a request: the first amount is kept, a repetition must name *)
(* the same amount and fingerprint. With amount 0 this is a refund.           *)
SameVerdict(r, amount, by) == row[r].amount = amount /\ row[r].by = by

BeginFinds(r, amount, by) ==
    \/ In(r, {"authorized"})
    \/ /\ In(r, {"finalizing", "pending", "applied", "refunded"})
       /\ SameVerdict(r, amount, by)

Decide(r, amount, by) ==
    row' = IF In(r, {"authorized"})
           THEN [row EXCEPT ![r].status = "finalizing",
                            ![r].amount = amount, ![r].by = by]
           ELSE row

BeginFinalization(r, amount, by) == Decide(r, amount, by)

BeginRefundFinds(r) ==
    \/ In(r, {"prepared", "authorized", "refunded"})
    \/ In(r, {"finalizing"}) /\ row[r].amount = 0

BeginRefund(r) ==
    row' = IF In(r, {"prepared", "authorized"})
           THEN [row EXCEPT ![r].status = "finalizing", ![r].amount = 0]
           ELSE row

CompleteSettlementFinds(r) ==
    \/ In(r, {"finalizing"}) /\ row[r].amount > 0 /\ row[r].by # ""
    \/ In(r, {"pending", "applied"})

CompleteSettlement(r) ==
    row' = IF In(r, {"finalizing"}) /\ CompleteSettlementFinds(r)
           THEN [row EXCEPT ![r].status = "pending"] ELSE row

CompleteRefundFinds(r) ==
    \/ In(r, {"finalizing"}) /\ row[r].amount = 0
    \/ In(r, {"refunded"})

CompleteRefund(r) ==
    row' = IF CompleteRefundFinds(r)
           THEN [row EXCEPT ![r].status = "refunded"] ELSE row

\* Variant for testing: an applied row is applied again.
ApplyRowAgain(r) ==
    In(r, {"pending", "applied"}) /\ row' = [row EXCEPT ![r].status = "applied"]

ApplyRow(r) ==
    In(r, {"pending"}) /\ row' = [row EXCEPT ![r].status = "applied"]

(* expires_at passes.                                                         *)
Expire(r) == row' = [row EXCEPT ![r].expired = TRUE]

ExpiredBefore(r) == In(r, {"prepared", "authorized"}) /\ row[r].expired
=============================================================================
