---------------------------- MODULE PaymentRefund ----------------------------
(***************************************************************************)
(* The refund of one completed payment order: the user's request, the      *)
(* administrator's refund (lock, deduction from the user, provider call,   *)
(* verdict or rollback) and the finalisation of a refund the provider left *)
(* pending.                                                                *)
(*                                                                         *)
(* The order bought Amount units: of balance, or of subscription time.     *)
(* `wallet` is what the user has of that resource now; usage, or the       *)
(* passing of days, draws on it at any moment.  `taken` is what refunds of *)
(* this order took from it and have not given back.                        *)
(*                                                                         *)
(* `audits` is the set of this order's payment_audit_logs actions that the *)
(* code depends on.  (order_id, action) is unique, so an action can be     *)
(* inserted once: a best-effort insert is then only logged as failed, one  *)
(* inside a transaction rolls the transaction back.                        *)
(***************************************************************************)
EXTENDS Integers, FiniteSets

CONSTANTS
    Kinds,            \* order types: "balance", "subscription" or both
    Workers,          \* goroutines that may serve this order's refund
    Amount,           \* what the order bought, in units
    Wallets,          \* what the user may have of it at first
    Overdraft,        \* how far usage may overdraw a balance
    MaxFaults,        \* how many crashes and failing statements
    PartialFailures   \* may a statement that failed have taken effect, and
                      \* may the errors that are only logged occur?

ASSUME RefundAssumption ==
    /\ Kinds \subseteq {"balance", "subscription"}
    /\ Amount \in Nat \ {0} /\ Wallets \subseteq Nat
    /\ Overdraft \in Nat /\ MaxFaults \in Nat /\ PartialFailures \in BOOLEAN

Refundable == {"COMPLETED", "REFUND_REQUESTED", "REFUND_FAILED"}
Terminal   == {"REFUNDED", "PARTIALLY_REFUNDED"}
Status     == Refundable \cup Terminal \cup {"REFUNDING", "REFUND_PENDING"}

VARIABLES
    status, refundAmount, kind, traded,  \* payment_orders row
    audits, detail,        \* audit actions; detail of REFUND_PENDING
    wallet, revoked,       \* the user's resource; subscription deleted
    taken,                 \* net deduction by refunds of this order
    gateway,               \* provider's refund for each requested amount
    pc, plan,              \* per worker: next statement, RefundPlan
    faults

order   == <<status, refundAmount, kind, traded>>
ledger  == <<audits, detail>>
funds   == <<wallet, revoked, taken>>
control == <<pc, plan>>
vars    == <<order, ledger, funds, gateway, control, faults>>

Amounts == 1..Amount

PCs == {"idle", "request", "prep", "lock", "deduct", "call", "ok", "pending",
        "rollback", "restore", "failed", "query", "finalOk", "finalFail"}

Actions == {"REFUND_PENDING", "REFUND_FAILED", "REFUND_SUCCESS",
            "REFUND_ROLLBACK_FAILED"}

\* seen: the status PrepareRefund read; take: BalanceToDeduct or, with a
\* subscription to take them from, SubDaysToDeduct.
Plans == [amount : 0..Amount, force : BOOLEAN, seen : Status, take : 0..Amount]

NoPlan == [amount |-> 0, force |-> FALSE, seen |-> "COMPLETED", take |-> 0]

\* "retained" is what markRefundPending writes; "released" is what earlier
\* versions wrote after a successful rollback; "none" is unreadable.
Details == [state : {"none", "retained", "released"}, take : 0..Amount]

NoDetail == [state |-> "none", take |-> 0]

RowOK ==
    /\ status \in Status /\ refundAmount \in 0..Amount
    /\ kind \in Kinds /\ traded \in BOOLEAN
    /\ audits \subseteq Actions /\ detail \in Details

FundsOK ==
    /\ wallet \in Int /\ taken \in Int /\ revoked \in BOOLEAN
    /\ gateway \in [Amounts -> {"none", "pending", "success", "failed"}]

WorkOK ==
    /\ pc \in [Workers -> PCs] /\ plan \in [Workers -> Plans]
    /\ faults \in 0..MaxFaults

\* The row, the audit, the funds and every worker's plan stay well formed.
TypeOK == RowOK /\ FundsOK /\ WorkOK

\* A completed order, or one whose refund an earlier version of the program
\* left pending after giving the deduction back.
Init ==
    /\ kind \in Kinds /\ traded \in BOOLEAN
    /\ wallet \in Wallets /\ revoked = FALSE /\ taken = 0
    /\ \/ /\ status = "COMPLETED" /\ refundAmount = 0
          /\ audits = {} /\ detail = NoDetail
          /\ gateway = [a \in Amounts |-> "none"]
       \/ /\ status = "REFUND_PENDING" /\ refundAmount = Amount
          /\ audits = {"REFUND_PENDING"}
          /\ detail = [state |-> "released", take |-> Amount]
          /\ gateway = [a \in Amounts |->
                           IF a = Amount THEN "pending" ELSE "none"]
    /\ pc = [w \in Workers |-> "idle"]
    /\ plan = [w \in Workers |-> NoPlan]
    /\ faults = 0

-----------------------------------------------------------------------------
(* Building blocks *)

At(w, l) == pc[w] = l

Goto(w, l) == pc' = [pc EXCEPT ![w] = l] /\ UNCHANGED plan

Leave(w) ==
    /\ pc' = [pc EXCEPT ![w] = "idle"]
    /\ plan' = [plan EXCEPT ![w] = NoPlan]

Fault == faults < MaxFaults /\ faults' = faults + 1
NoFault == UNCHANGED faults

\* An UPDATE of the status alone.
WriteStatus(s) == status' = s /\ UNCHANGED <<refundAmount, kind, traded>>

Jump(w, l) == Goto(w, l) /\ UNCHANGED <<order, ledger, funds, gateway>>

Return(w) == Leave(w) /\ UNCHANGED <<order, ledger, funds, gateway>>

Least(a, b) == IF a <= b THEN a ELSE b
AtLeastZero(a) == IF a >= 0 THEN a ELSE 0

\* GetActiveSubscription finds one.
Active == ~revoked /\ wallet > 0

\* What a forced balance deduction, or a shortened or revoked subscription,
\* gives of n units.
Available(n) == Least(n, AtLeastZero(wallet))

Withdraw(n) ==
    /\ wallet' = wallet - n /\ taken' = taken + n
    /\ revoked' = (revoked \/ (kind = "subscription" /\ n = wallet))

GiveBack(n) == wallet' = wallet + n /\ taken' = taken - n /\ UNCHANGED revoked

\* A deleted subscription cannot be extended.
Returnable == kind = "balance" \/ ~revoked

-----------------------------------------------------------------------------
(* RequestRefund *)

StartRequest(w) ==
    /\ At(w, "idle") /\ kind = "balance" /\ status = "COMPLETED"
    /\ wallet >= Amount
    /\ Jump(w, "request") /\ NoFault

RequestRefund(w) ==
    /\ At(w, "request") /\ NoFault /\ Leave(w)
    /\ IF status = "COMPLETED"
       THEN status' = "REFUND_REQUESTED" /\ refundAmount' = Amount
       ELSE UNCHANGED <<status, refundAmount>>
    /\ UNCHANGED <<kind, traded, ledger, funds, gateway>>

-----------------------------------------------------------------------------
(* PrepareRefund and prepDeduct *)

StartRefund(w) ==
    /\ At(w, "idle") /\ status \in Refundable /\ NoFault
    /\ \E a \in Amounts, force, deduct \in BOOLEAN :
          /\ plan' = [plan EXCEPT ![w] =
                         [amount |-> a, force |-> force, seen |-> status,
                          take |-> 0]]
          /\ pc' = [pc EXCEPT ![w] = IF deduct THEN "prep" ELSE "lock"]
    /\ UNCHANGED <<order, ledger, funds, gateway>>

\* A balance gives up to the refunded amount; a subscription always all the
\* days it was bought for, however small the refund.
Deductible(p) ==
    IF kind = "balance" THEN Available(p.amount)
                        ELSE IF Active THEN Amount ELSE 0

\* Without force the plan is refused when the user cannot cover it.
Coverable(p) == IF kind = "balance" THEN wallet >= p.amount ELSE Active

PrepDeduct(w) ==
    /\ At(w, "prep")
    /\ \/ /\ plan[w].force \/ Coverable(plan[w])
          /\ plan' = [plan EXCEPT ![w].take = Deductible(plan[w])]
          /\ pc' = [pc EXCEPT ![w] = "lock"] /\ NoFault
          /\ UNCHANGED <<order, ledger, funds, gateway>>
       \/ ~plan[w].force /\ ~Coverable(plan[w]) /\ Return(w) /\ NoFault
       \/ plan[w].force /\ Jump(w, "lock") /\ Fault    \* the read failed
       \/ ~plan[w].force /\ Return(w) /\ Fault

-----------------------------------------------------------------------------
(* ExecuteRefund *)

\* Variant for testing: the lock trusts the status PrepareRefund read.
LockableSeen(w) == plan[w].seen \in Refundable

Lockable(w) == status \in Refundable

LockRefund(w) ==
    /\ At(w, "lock") /\ NoFault
    /\ IF Lockable(w)
       THEN /\ WriteStatus("REFUNDING")
            /\ Goto(w, IF plan[w].take > 0 THEN "deduct" ELSE "call")
            /\ UNCHANGED <<ledger, funds, gateway>>
       ELSE Return(w)

\* Variant for testing: a retry deducts again.
AlreadyDeductedNever == FALSE

\* An earlier attempt deducted and could not roll back.
AlreadyDeducted == "REFUND_ROLLBACK_FAILED" \in audits

\* AdjustBalance would go negative; the subscription is gone or expired.
DeductionRefused(p) ==
    IF kind = "balance" THEN ~p.force /\ wallet < p.take ELSE ~Active

\* Variant for testing: the plan keeps the amount it was prepared with.
RecordedAsPlanned(p, n) == p.take

\* What the plan remembers of a deduction of n: the days of a subscription are
\* remembered in full even when it was revoked with fewer left.
Recorded(p, n) == IF kind = "balance" THEN n ELSE p.take

\* Deduct, or revoke the subscription when its days do not suffice.
TakeFrom(w) ==
    LET n == Available(plan[w].take)
    IN  /\ Withdraw(n)
        /\ pc' = [pc EXCEPT ![w] = "call"]
        /\ plan' = [plan EXCEPT ![w].take = Recorded(plan[w], n)]
        /\ UNCHANGED <<order, ledger, gateway>>

Deduct(w) ==
    /\ At(w, "deduct")
    /\ \/ /\ AlreadyDeducted /\ NoFault
          /\ pc' = [pc EXCEPT ![w] = "call"]
          /\ plan' = [plan EXCEPT ![w].take = 0]
          /\ UNCHANGED <<order, ledger, funds, gateway>>
       \/ /\ \/ ~AlreadyDeducted /\ NoFault
             \/ AlreadyDeducted /\ PartialFailures /\ Fault   \* hasAuditLog
          /\ IF DeductionRefused(plan[w]) THEN Jump(w, "restore")
                                          ELSE TakeFrom(w)
       \/ ~AlreadyDeducted /\ Jump(w, "restore") /\ Fault
       \/ /\ PartialFailures /\ Fault
          /\ ~AlreadyDeducted /\ ~DeductionRefused(plan[w])
          /\ Withdraw(Available(plan[w].take)) /\ Goto(w, "restore")
          /\ UNCHANGED <<order, ledger, gateway>>

\* What the provider refunded or is about to.
Committed(a) == gateway[a] \in {"pending", "success"}

\* The provider knows a refund by its amount (idempotency keys are built from
\* it), repeats the verdict of one it has, and refuses one that, with another
\* it has, would return more than was paid.
Accepts(a) ==
    ~Committed(a) /\ \A b \in Amounts : Committed(b) => a + b <= Amount

\* Variant for testing: an accepted refund counts as done.
AfterAnswerOptimistic(r) == IF r = "failed" THEN "rollback" ELSE "ok"

\* finishRefund on the provider's answer r.
AfterAnswer(r) == CASE r = "success" -> "ok"
                    [] r = "pending" -> "pending"
                    [] r = "failed"  -> "rollback"

CallGateway(w) ==
    LET a == plan[w].amount
    IN  /\ At(w, "call")
        /\ UNCHANGED <<order, ledger, funds>>
        /\ \/ ~traded /\ Jump(w, "ok") /\ NoFault
           \/ traded /\ Jump(w, "rollback") /\ NoFault  \* refused or no provider
           \/ /\ traded /\ Committed(a) /\ NoFault
              /\ Jump(w, AfterAnswer(gateway[a]))
           \/ /\ traded /\ Accepts(a)
              /\ \E r \in {"pending", "success", "failed"} :
                    /\ gateway' = [gateway EXCEPT ![a] = r]
                    /\ \/ Goto(w, AfterAnswer(r)) /\ NoFault
                       \/ Goto(w, "rollback") /\ Fault      \* answer lost

-----------------------------------------------------------------------------
(* markRefundOk, markRefundPending, handleGwFail: every UPDATE is by id alone *)

RefundedStatus(a) == IF a < Amount THEN "PARTIALLY_REFUNDED" ELSE "REFUNDED"

MarkRefundOk(w) ==
    /\ At(w, "ok") /\ Leave(w)
    /\ \/ /\ status' = RefundedStatus(plan[w].amount)
          /\ refundAmount' = plan[w].amount
          /\ audits' = audits \cup {"REFUND_SUCCESS"} /\ NoFault
       \/ UNCHANGED <<status, refundAmount, audits>> /\ Fault
    /\ UNCHANGED <<kind, traded, detail, funds, gateway>>

\* The unique index on (order_id, action).
Insertable(action) == action \notin audits

\* One transaction; when the audit insert fails the order stays REFUNDING.
MarkRefundPending(w) ==
    /\ At(w, "pending")
    /\ \/ /\ Insertable("REFUND_PENDING") /\ NoFault /\ Leave(w)
          /\ status' = "REFUND_PENDING" /\ refundAmount' = plan[w].amount
          /\ audits' = audits \cup {"REFUND_PENDING"}
          /\ detail' = [state |-> "retained", take |-> plan[w].take]
          /\ UNCHANGED <<kind, traded, funds, gateway>>
       \/ ~Insertable("REFUND_PENDING") /\ Return(w) /\ NoFault
       \/ Return(w) /\ Fault

\* RollbackRefund.
Rollback(w) ==
    LET n == plan[w].take
    IN  /\ At(w, "rollback") /\ UNCHANGED <<order, detail, gateway>>
        /\ \/ /\ n = 0 /\ NoFault /\ Goto(w, "restore")
              /\ UNCHANGED <<audits, funds>>
           \/ /\ n > 0 /\ Returnable /\ NoFault /\ Goto(w, "restore")
              /\ GiveBack(n) /\ UNCHANGED audits
           \/ /\ n > 0 /\ Goto(w, "failed")
              /\ IF Returnable THEN Fault ELSE NoFault
              /\ \/ UNCHANGED funds
                 \/ Returnable /\ PartialFailures /\ GiveBack(n)
              /\ \/ audits' = audits \cup {"REFUND_ROLLBACK_FAILED"}
                 \/ PartialFailures /\ UNCHANGED audits

\* Variant for testing: the status the row has now is what is restored.
RestoredStatusNow(w) == status

RestoredStatus(w) ==
    IF plan[w].seen = "REFUND_REQUESTED" THEN "REFUND_REQUESTED"
                                         ELSE "COMPLETED"

\* restoreStatus ignores its error.
RestoreStatus(w) ==
    /\ At(w, "restore") /\ Leave(w)
    /\ \/ WriteStatus(RestoredStatus(w)) /\ NoFault
       \/ UNCHANGED order /\ Fault
    /\ UNCHANGED <<ledger, funds, gateway>>

MarkRefundFailed(w) ==
    /\ At(w, "failed") /\ Leave(w)
    /\ \/ WriteStatus("REFUND_FAILED") /\ NoFault
       \/ UNCHANGED order /\ Fault
    /\ audits' = audits \cup {"REFUND_FAILED"}
    /\ UNCHANGED <<detail, funds, gateway>>

-----------------------------------------------------------------------------
(* QueryAndFinalizeRefund *)

StartQuery(w) ==
    /\ At(w, "idle") /\ status = "REFUND_PENDING" /\ NoFault
    /\ plan' = [plan EXCEPT ![w].amount = refundAmount]
    /\ pc' = [pc EXCEPT ![w] = "query"]
    /\ UNCHANGED <<order, ledger, funds, gateway>>

\* A query that fails, or reports the refund still pending, changes nothing.
QueryRefund(w) ==
    LET r == gateway[plan[w].amount]
    IN  /\ At(w, "query") /\ NoFault
        /\ \/ r = "success" /\ Jump(w, "finalOk")
           \/ r = "failed" /\ Jump(w, "finalFail")
           \/ Return(w)

Claimable == status = "REFUND_PENDING"

\* What latestRefundPendingDetail returns; its errors are swallowed.
KnownDetail ==
    IF PartialFailures THEN {detail, NoDetail} ELSE {detail}

\* Only a deduction that was given back is taken again.
DueAtFinal(d) == IF d.state = "released" THEN d.take ELSE 0

\* One transaction.
FinalizeOk(w) ==
    /\ At(w, "finalOk")
    /\ \/ /\ Claimable /\ Insertable("REFUND_SUCCESS") /\ NoFault /\ Leave(w)
          /\ status' = RefundedStatus(plan[w].amount)
          /\ audits' = audits \cup {"REFUND_SUCCESS"}
          /\ \E d \in KnownDetail :
                IF DueAtFinal(d) > 0 /\ (kind = "balance" \/ Active)
                THEN Withdraw(Available(DueAtFinal(d)))
                ELSE UNCHANGED funds
          /\ refundAmount' = plan[w].amount
          /\ UNCHANGED <<kind, traded, detail, gateway>>
       \/ ~Claimable /\ Return(w) /\ NoFault
       \/ Return(w) /\ Fault

\* Variant for testing: a failed refund keeps the deduction.
OwedNothing(d) == 0

Owed(d) == IF d.state = "retained" THEN d.take ELSE 0

\* AdjustBalance refuses to leave a balance negative.
Releasable(n) ==
    n = 0 \/ (IF kind = "balance" THEN wallet + n >= 0 ELSE ~revoked)

\* One transaction: an overdrawn balance, a deleted subscription or an earlier
\* REFUND_FAILED audit rolls it back and the refund stays pending.
FinalizeFail(w) ==
    /\ At(w, "finalFail")
    /\ \E d \in KnownDetail :
          \/ /\ Claimable /\ Releasable(Owed(d))
             /\ Insertable("REFUND_FAILED") /\ NoFault /\ Leave(w)
             /\ WriteStatus("REFUND_FAILED")
             /\ audits' = audits \cup {"REFUND_FAILED"}
             /\ GiveBack(Owed(d))
             /\ UNCHANGED <<detail, gateway>>
          \/ /\ ~Claimable \/ ~Releasable(Owed(d)) \/ ~Insertable("REFUND_FAILED")
             /\ Return(w) /\ NoFault
          \/ Return(w) /\ Fault

-----------------------------------------------------------------------------
(* Environment *)

Crash(w) == ~At(w, "idle") /\ Return(w) /\ Fault

\* Usage draws on the balance, days pass.
Spend ==
    /\ wallet > (IF kind = "balance" THEN -Overdraft ELSE 0)
    /\ wallet' = wallet - 1 /\ NoFault
    /\ UNCHANGED <<order, ledger, revoked, taken, gateway, control>>

\* The provider settles a pending refund.
Settle ==
    /\ \E a \in Amounts, r \in {"success", "failed"} :
          gateway[a] = "pending" /\ gateway' = [gateway EXCEPT ![a] = r]
    /\ NoFault /\ UNCHANGED <<order, ledger, funds, control>>

-----------------------------------------------------------------------------
Start(w) == StartRequest(w) \/ StartRefund(w) \/ StartQuery(w)

Plan(w) == RequestRefund(w) \/ PrepDeduct(w) \/ LockRefund(w)

\* The statements of the worker that holds the REFUNDING order.
Hold(w) ==
    Deduct(w) \/ CallGateway(w) \/ MarkRefundOk(w) \/ MarkRefundPending(w)
        \/ Rollback(w) \/ RestoreStatus(w) \/ MarkRefundFailed(w)

Finalize(w) == QueryRefund(w) \/ FinalizeOk(w) \/ FinalizeFail(w)

Step(w) == Plan(w) \/ Hold(w) \/ Finalize(w)

Next == (\E w \in Workers : Start(w) \/ Step(w) \/ Crash(w)) \/ Spend \/ Settle

Spec == Init /\ [][Next]_vars

\* A request that was accepted runs on.  Refunds, and queries for pending ones,
\* are started by people: nothing makes them happen.
Fairness == \A w \in Workers : WF_vars(Step(w))

FairSpec == Spec /\ Fairness
-----------------------------------------------------------------------------
(* Safety *)

HolderPCs == {"deduct", "call", "ok", "pending", "rollback", "restore",
              "failed"}

\* A REFUNDING order has at most one owner and an owner's order is REFUNDING:
\* that alone protects the verdicts, which are written by id without a guard.
OwnerIsAlone ==
    \A w \in Workers : pc[w] \in HolderPCs =>
        /\ status = "REFUNDING"
        /\ \A v \in Workers \ {w} : pc[v] \notin HolderPCs

\* However many attempts fail, refunds of an order never hold more of the
\* user's balance or days than the order gave, nor give back what they did not
\* take.
TakenOnce == 0 <= taken /\ taken <= Amount

\* REFUNDED says that the provider returned that amount; only an order without
\* a provider trade is refunded without it.
RefundedIsReturned ==
    status \in Terminal => ~traded \/ gateway[refundAmount] = "success"

\* An order that is open for another refund holds nothing of the user's, unless
\* a rollback failed and the audit says so.
OpenHoldsNothing ==
    status \in Refundable /\ ~AlreadyDeducted => taken = 0

\* The audit of a pending refund records what was really taken, so that
\* finalisation can give back exactly that.
PendingIsRecorded ==
    status = "REFUND_PENDING" /\ kind = "balance" /\ ~AlreadyDeducted =>
        taken = (IF detail.state = "retained" THEN detail.take ELSE 0)

\* Without a fault the first refund of an order is in somebody's hands for as
\* long as the order says REFUNDING: no branch of gwRefund, of the rollback or of
\* a verdict returns before it has written what became of the refund.
FirstRefundIsOwned ==
    status = "REFUNDING" /\ "REFUND_PENDING" \notin audits /\ faults = 0 =>
        \E w \in Workers : pc[w] \in HolderPCs

\* A refund that succeeded is never reopened, failed or refunded again.
RefundedIsFinal ==
    [][(status \in Terminal) => status' = status]_vars

-----------------------------------------------------------------------------
(* What documentation and comments say that the code does not do *)

\* "REFUNDING: refund in progress" (docs/PAYMENT.md): under FairSpec without
\* faults.
RefundInProgressEnds == status = "REFUNDING" ~> status # "REFUNDING"
=============================================================================
