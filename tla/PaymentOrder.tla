---------------------------- MODULE PaymentOrder ----------------------------
(***************************************************************************)
(* One payment order, from the moment its row is inserted until it has     *)
(* been delivered: the row in payment_orders, the redeem code and the      *)
(* subscription grant that carry the delivery, the affiliate rebate, and   *)
(* every goroutine that touches them (the request that creates the order,  *)
(* provider webhooks, user and admin cancellation, the expiry sweep, the   *)
(* active verification and reconciliation, the admin retry).               *)
(*                                                                         *)
(* A goroutine is a member of Workers.  It runs one job at a time and pc   *)
(* names the next database statement or provider call of that job, so the  *)
(* statements of different jobs interleave freely, as they do in the code. *)
(*                                                                         *)
(* updated_at.  The code compares the column in two ways: with now, to see *)
(* whether a row is older than a window, and for equality with a lease     *)
(* version read earlier.  `age` is the whole number of ticks since the     *)
(* last write, saturating just above the larger window; `fresh` is the set *)
(* of workers whose lease version is still the column's current value.     *)
(* Every write sets updated_at (ent UpdateDefault), so every write resets  *)
(* age and empties fresh.                                                  *)
(***************************************************************************)
EXTENDS Naturals, FiniteSets

CONSTANTS
    Kinds,       \* order types: "balance", "subscription" or both
    Workers,     \* goroutines that may serve this order
    Creator,     \* the one that runs CreateOrder
    GraceTicks,  \* paymentGraceMinutes, in ticks
    LeaseTicks,  \* paymentFulfillmentLeaseDuration, in ticks
    MaxFaults    \* how many crashes, failing statements and lease overruns

ASSUME ConstantsAssumption ==
    /\ Kinds \subseteq {"balance", "subscription"}
    /\ Creator \in Workers
    /\ GraceTicks \in Nat /\ LeaseTicks \in Nat /\ MaxFaults \in Nat

MaxAge == IF GraceTicks >= LeaseTicks THEN GraceTicks + 1 ELSE LeaseTicks + 1

Status == {"PENDING", "PAID", "RECHARGING", "COMPLETED", "EXPIRED",
           "CANCELLED", "FAILED"}

Jobs == {"none", "create", "webhook", "cancel", "expire", "verify", "retry"}

VARIABLES
    status, age, fresh, tradeNo, paidAt, kind, due,  \* payment_orders row
    code, credits,        \* redeem_codes row; credits of users.balance
    assigned, grants,     \* SUBSCRIPTION_ASSIGNED audit; assignOrExtend calls
    rebate, accrued,      \* AFFILIATE_REBATE_* audit; accruals
    lateAudit,            \* PAYMENT_AFTER_EXPIRY audit
    upstream, acked,      \* provider's view; whether it got a 2xx
    blind,                \* whether one hid the error of a statement
    pc, job, seenTrade,   \* per worker: next statement, job, snapshot
    faults                \* faults so far

row      == <<status, age, fresh, tradeNo, paidAt, kind, due>>
delivery == <<code, credits, assigned, grants, rebate, accrued>>
provider == <<upstream, acked, blind>>
control  == <<pc, job, seenTrade>>
vars     == <<row, delivery, lateAudit, provider, control, faults>>

PCs == {"idle", "invoke", "details", "invokeFail", "query", "persist",
        "upCancel", "close", "confirm", "toPaid", "already", "exec",
        "acquire", "reload", "lookup", "create", "redeem", "assign",
        "commitAssign", "rebate", "accrue", "complete", "fail"}

CountersOK ==
    /\ age \in 0..MaxAge /\ faults \in 0..MaxFaults
    /\ credits \in Nat /\ grants \in Nat /\ accrued \in Nat

NamesOK ==
    /\ status \in Status /\ fresh \subseteq Workers /\ kind \in Kinds
    /\ code \in {"none", "unused", "used"}
    /\ rebate \in {"none", "applied", "skipped"}
    /\ upstream \in {"none", "open", "paid", "short", "closed"}

FlagsOK ==
    /\ tradeNo \in BOOLEAN /\ paidAt \in BOOLEAN /\ due \in BOOLEAN
    /\ assigned \in BOOLEAN /\ lateAudit \in BOOLEAN
    /\ acked \in BOOLEAN /\ blind \in BOOLEAN

ControlOK ==
    /\ pc \in [Workers -> PCs]
    /\ job \in [Workers -> Jobs]
    /\ seenTrade \in [Workers -> BOOLEAN]

\* The order's row, its ledgers and every worker stay in the states the code
\* has names for.
TypeOK == CountersOK /\ NamesOK /\ FlagsOK /\ ControlOK

\* CreateOrder has committed createOrderInTx and is about to call the provider.
\* tradeNo: whether the number the row gets at creation is already the one the
\* provider will report (Stripe) or differs from it (Alipay, WeChat, EasyPay).
Init ==
    /\ status = "PENDING" /\ age = 0 /\ fresh = {} /\ paidAt = FALSE
    /\ tradeNo \in BOOLEAN /\ kind \in Kinds /\ due = FALSE
    /\ code = "none" /\ credits = 0 /\ assigned = FALSE /\ grants = 0
    /\ rebate = "none" /\ accrued = 0 /\ lateAudit = FALSE
    /\ upstream = "none" /\ acked = FALSE /\ blind = FALSE
    /\ pc = [w \in Workers |-> IF w = Creator THEN "invoke" ELSE "idle"]
    /\ job = [w \in Workers |-> IF w = Creator THEN "create" ELSE "none"]
    /\ seenTrade = [w \in Workers |-> FALSE]
    /\ faults = 0

-----------------------------------------------------------------------------
(* Building blocks *)

\* An UPDATE of the row that leaves it in status s.
WriteRow(s) == status' = s /\ age' = 0 /\ fresh' = {}

At(w, l) == pc[w] = l

Goto(w, l) == pc' = [pc EXCEPT ![w] = l] /\ UNCHANGED <<job, seenTrade>>

\* The job's handler returns; locals go away.  The caller says what fresh is.
Leave(w) ==
    /\ pc' = [pc EXCEPT ![w] = "idle"]
    /\ job' = [job EXCEPT ![w] = "none"]
    /\ seenTrade' = [seenTrade EXCEPT ![w] = FALSE]

\* Variant for testing: every return of a webhook handler is acknowledged.
AnswerAlways(w, ok) ==
    acked' = (acked \/ job[w] = "webhook") /\ UNCHANGED blind

\* Only a webhook handler's nil return becomes a 2xx to the provider.
Answer(w, ok) ==
    acked' = (acked \/ (ok /\ job[w] = "webhook")) /\ UNCHANGED blind

\* A nil return although a statement before it failed.
AnswerBlindly(w) ==
    /\ acked' = (acked \/ job[w] = "webhook")
    /\ blind' = (blind \/ job[w] = "webhook")

DropLease(w) == fresh' = fresh \ {w} /\ UNCHANGED <<status, age>>

Fault == faults < MaxFaults /\ faults' = faults + 1
NoFault == UNCHANGED faults

\* A handler that returns without touching anything but its own locals.
Return(w, ok) ==
    /\ Leave(w) /\ Answer(w, ok) /\ DropLease(w)
    /\ UNCHANGED <<tradeNo, paidAt, kind, due, delivery, lateAudit, upstream>>

\* The error of the handler's last statement is logged or dropped.
ReturnBlindly(w) ==
    /\ Leave(w) /\ AnswerBlindly(w) /\ DropLease(w) /\ Fault
    /\ UNCHANGED <<tradeNo, paidAt, kind, due, delivery, lateAudit, upstream>>

\* Only the worker's position changes.
Jump(w, l) ==
    Goto(w, l) /\ UNCHANGED <<row, delivery, lateAudit, provider>>

-----------------------------------------------------------------------------
(* CreateOrder after the insert: invokeProvider and its error path *)

InvokeProvider(w) ==
    /\ At(w, "invoke")
    /\ Jump(w, "details") \/ Jump(w, "invokeFail")
    /\ NoFault

\* The link reaches the user only when the details are saved.
SavePaymentDetails(w) ==
    /\ At(w, "details")
    /\ \/ /\ WriteRow(status) /\ Leave(w) /\ upstream' = "open" /\ NoFault
          /\ UNCHANGED <<tradeNo, paidAt, kind, due, delivery, lateAudit,
                         acked, blind>>
       \/ Jump(w, "invokeFail") /\ Fault

\* The UPDATE is by id alone: no condition on the status.
FailCreate(w) ==
    /\ At(w, "invokeFail")
    /\ WriteRow("FAILED") /\ Leave(w) /\ NoFault
    /\ UNCHANGED <<tradeNo, paidAt, kind, due, delivery, lateAudit, provider>>

-----------------------------------------------------------------------------
(* Jobs that start on an idle worker *)

Begin(w, j, l) ==
    /\ At(w, "idle")
    /\ pc' = [pc EXCEPT ![w] = l]
    /\ job' = [job EXCEPT ![w] = j]
    /\ seenTrade' = [seenTrade EXCEPT ![w] = (l = "query" /\ tradeNo)]
    /\ NoFault
    /\ UNCHANGED <<row, delivery, lateAudit, provider>>

\* Deliveries are at least once: a provider may also repeat an acked one.
StartWebhook(w) ==
    upstream \in {"paid", "short"} /\ Begin(w, "webhook", "confirm")

\* CancelOrder and AdminCancelOrder.
StartCancel(w) == status = "PENDING" /\ Begin(w, "cancel", "query")

\* ExpireTimedOutOrders lists the order.
StartExpire(w) == status = "PENDING" /\ due /\ Begin(w, "expire", "query")

\* VerifyOrderByOutTradeNo, or ReconcilePendingPaymentOrders (PENDING only).
StartVerify(w) ==
    status \in {"PENDING", "EXPIRED"} /\ Begin(w, "verify", "query")

\* RetryFulfillment.
Retryable == paidAt /\ status \in {"FAILED", "PAID", "RECHARGING"}

StartRetry(w) == Retryable /\ Begin(w, "retry", "exec")

-----------------------------------------------------------------------------
(* cancelCore and checkPaidWithOptions *)

Closing(w) == job[w] \in {"cancel", "expire"}

\* Variant for testing: a failed query abandons the cancellation.
AfterUnpaidStop(w, l) == Return(w, TRUE)

\* What checkPaid answers when the order was not found paid.
AfterUnpaid(w, l) == IF Closing(w) THEN Jump(w, l) ELSE Return(w, TRUE)

QueryUpstream(w) ==
    /\ At(w, "query")
    /\ \/ /\ upstream \in {"paid", "short"}
          /\ Jump(w, IF seenTrade[w] THEN "confirm" ELSE "persist")
       \/ upstream \notin {"paid", "short"} /\ AfterUnpaid(w, "upCancel")
       \/ AfterUnpaid(w, "close")                    \* the query failed
    /\ NoFault

\* Decided on the snapshot, written by id alone: any status, any lease.
PersistTradeNo(w) ==
    /\ At(w, "persist")
    /\ WriteRow(status) /\ tradeNo' = TRUE
    /\ Goto(w, "confirm") /\ NoFault
    /\ UNCHANGED <<paidAt, kind, due, delivery, lateAudit, provider>>

\* CancelPayment is best effort and its result is ignored.
CancelUpstream(w) ==
    /\ At(w, "upCancel")
    /\ upstream' \in {upstream, IF upstream = "open" THEN "closed" ELSE upstream}
    /\ Goto(w, "close") /\ NoFault
    /\ UNCHANGED <<row, delivery, lateAudit, acked, blind>>

\* Variant for testing: the UPDATE keyed by id alone.
ClosableAlways == TRUE

Closable == status = "PENDING"

ClosedStatus(w) == IF job[w] = "expire" THEN "EXPIRED" ELSE "CANCELLED"

CloseOrder(w) ==
    /\ At(w, "close") /\ NoFault
    /\ IF Closable
       THEN /\ WriteRow(ClosedStatus(w))
            /\ Leave(w)
            /\ UNCHANGED <<tradeNo, paidAt, kind, due, delivery, lateAudit,
                           provider>>
       ELSE Return(w, TRUE)

-----------------------------------------------------------------------------
(* HandlePaymentNotification: confirmPayment, toPaid, alreadyProcessed *)

\* A payment of the wrong amount is audited and refused; an order that could
\* not be read is reported as handled.
Confirm(w) ==
    /\ At(w, "confirm")
    /\ \/ upstream = "paid" /\ Jump(w, "toPaid") /\ NoFault
       \/ upstream # "paid" /\ Return(w, FALSE) /\ NoFault
       \/ ReturnBlindly(w)

Payable ==
    \/ status \in {"PENDING", "CANCELLED"}
    \/ status = "EXPIRED" /\ age <= GraceTicks

ToPaid(w) ==
    /\ At(w, "toPaid") /\ NoFault
    /\ IF Payable
       THEN /\ WriteRow("PAID") /\ paidAt' = TRUE /\ tradeNo' = TRUE
            /\ Goto(w, "exec")
            /\ UNCHANGED <<kind, due, delivery, lateAudit, provider>>
       ELSE Jump(w, "already")

Fulfillable == status \in {"PAID", "FAILED", "RECHARGING"}

\* The order is read again, and a late payment is recorded by writeAuditLog. An
\* error of either statement ends in nil as well.
AlreadyProcessed(w) ==
    /\ At(w, "already")
    /\ \/ Fulfillable /\ Jump(w, "exec") /\ NoFault
       \/ /\ status = "EXPIRED" /\ lateAudit' = TRUE
          /\ Leave(w) /\ Answer(w, TRUE) /\ DropLease(w) /\ NoFault
          /\ UNCHANGED <<tradeNo, paidAt, kind, due, delivery, upstream>>
       \/ status # "EXPIRED" /\ ~Fulfillable /\ Return(w, TRUE) /\ NoFault
       \/ ReturnBlindly(w)

-----------------------------------------------------------------------------
(* Execute{Balance,Subscription}Fulfillment *)

ExecuteFulfillment(w) ==
    /\ At(w, "exec") /\ NoFault
    /\ IF Fulfillable THEN Jump(w, "acquire")
                      ELSE Return(w, status = "COMPLETED")

\* Variant for testing: a RECHARGING order cannot be taken over.
LeasableNew == status \in {"PAID", "FAILED"}

Leasable ==
    \/ status \in {"PAID", "FAILED"}
    \/ status = "RECHARGING" /\ age >= LeaseTicks

AcquireLease(w) ==
    /\ At(w, "acquire") /\ NoFault
    /\ IF Leasable
       THEN /\ WriteRow("RECHARGING")
            /\ Goto(w, "reload")
            /\ UNCHANGED <<tradeNo, paidAt, kind, due, delivery, lateAudit,
                           provider>>
       ELSE Return(w, status = "COMPLETED")   \* else CONFLICT

\* The second half of the acquisition: read back updated_at as the version.
ReloadLease(w) ==
    /\ At(w, "reload") /\ NoFault
    /\ IF status = "RECHARGING"
       THEN /\ fresh' = fresh \cup {w}
            /\ Goto(w, IF kind = "balance" THEN "lookup" ELSE "assign")
            /\ UNCHANGED <<status, age, tradeNo, paidAt, kind, due, delivery,
                           lateAudit, provider>>
       ELSE Return(w, FALSE)

\* Variant for testing: an existing code taken for a redeemed one.
RedeemActionExists == IF code = "none" THEN "create" ELSE "rebate"

\* resolveRedeemAction on the result of GetByCode.
RedeemAction == CASE code = "none"   -> "create"
                  [] code = "unused" -> "redeem"
                  [] code = "used"   -> "rebate"

LookupCode(w) == At(w, "lookup") /\ NoFault /\ Jump(w, RedeemAction)

\* The code column is unique: a concurrent creator makes the insert fail.
CreateCode(w) ==
    /\ At(w, "create") /\ NoFault
    /\ IF code = "none"
       THEN /\ code' = "unused" /\ Goto(w, "redeem")
            /\ UNCHANGED <<row, credits, assigned, grants, rebate, accrued,
                           lateAudit, provider>>
       ELSE Jump(w, "fail")

\* One transaction: UPDATE ... WHERE status = 'unused', then the credit.  The
\* reload of the code after the commit may still fail the step.
\* Variant for testing: UPDATE without WHERE status = 'unused'.
RedeemableAgain == code # "none"

Redeemable == code = "unused"

RedeemCode(w) ==
    /\ At(w, "redeem")
    /\ IF Redeemable
       THEN /\ code' = "used" /\ credits' = credits + 1
            /\ \/ Goto(w, "rebate") /\ NoFault
               \/ Goto(w, "fail") /\ Fault
            /\ UNCHANGED <<row, assigned, grants, rebate, accrued, lateAudit,
                           provider>>
       ELSE Jump(w, "fail") /\ NoFault

\* ensurePaymentSubscriptionAssigned reads the audit inside its transaction.
CheckAssigned(w) ==
    /\ At(w, "assign") /\ NoFault
    /\ Jump(w, IF assigned THEN "rebate" ELSE "commitAssign")

\* The grant and the audit row commit together; the unique index on
\* (order_id, action) rolls a second grant back and the order counts as
\* assigned.  Cache invalidation after the commit may fail the step.
CommitAssignment(w) ==
    /\ At(w, "commitAssign")
    /\ \/ Goto(w, "rebate") /\ NoFault
       \/ Goto(w, "fail") /\ Fault
    /\ assigned' = TRUE
    /\ grants' = IF assigned THEN grants ELSE grants + 1
    /\ UNCHANGED <<row, code, credits, rebate, accrued, lateAudit, provider>>

\* tryClaimAffiliateRebateAudit: the NOT EXISTS half, on the rows committed
\* before the INSERT started.
ClaimRebate(w) ==
    /\ At(w, "rebate") /\ NoFault
    /\ Jump(w, IF rebate = "none" THEN "accrue" ELSE "complete")

\* Variant for testing: the claim trusts the earlier read.
RebateKeyTakenNever == FALSE

\* The unique key of the claim row, (order, AFFILIATE_REBATE_APPLIED), is in
\* use: ON CONFLICT DO NOTHING, the rebate is somebody else's.
RebateKeyTaken == rebate = "applied"

\* The rest of the transaction: insert the claim under its unique key, accrue,
\* rename the row when there is nothing to accrue, commit.  A transaction that
\* waited for one that ended SKIPPED finds the key free again: its own rename
\* then violates the unique index, its own accrual does not.
CommitRebate(w) ==
    /\ At(w, "accrue") /\ NoFault
    /\ \/ /\ RebateKeyTaken
          /\ Goto(w, "complete") /\ UNCHANGED <<rebate, accrued>>
       \/ /\ ~RebateKeyTaken
          /\ Goto(w, "complete") /\ rebate' = "applied" /\ accrued' = accrued + 1
       \/ /\ rebate = "none"
          /\ Goto(w, "complete") /\ rebate' = "skipped" /\ UNCHANGED accrued
       \/ /\ rebate = "skipped"
          /\ Goto(w, "fail") /\ UNCHANGED <<rebate, accrued>>
    /\ UNCHANGED <<row, code, credits, assigned, grants, lateAudit, provider>>

HoldsLease(w) == status = "RECHARGING" /\ w \in fresh

MarkCompleted(w) ==
    /\ At(w, "complete") /\ NoFault
    /\ IF HoldsLease(w)
       THEN /\ WriteRow("COMPLETED") /\ Leave(w) /\ Answer(w, TRUE)
            /\ UNCHANGED <<tradeNo, paidAt, kind, due, delivery, lateAudit,
                           upstream>>
       ELSE IF status = "COMPLETED" THEN Return(w, TRUE) ELSE Jump(w, "fail")

MarkFailed(w) ==
    /\ At(w, "fail") /\ NoFault
    /\ IF HoldsLease(w)
       THEN /\ WriteRow("FAILED") /\ Leave(w) /\ Answer(w, FALSE)
            /\ UNCHANGED <<tradeNo, paidAt, kind, due, delivery, lateAudit,
                           upstream>>
       ELSE Return(w, FALSE)

\* A statement of doBalance or doSub fails before it takes effect: a database
\* error, a busy redeem lock, an inactive group.
StepFails(w) ==
    /\ pc[w] \in {"lookup", "create", "redeem", "assign",
                  "commitAssign", "rebate", "accrue", "complete"}
    /\ Jump(w, "fail") /\ Fault

\* The goroutine dies (process exit, request context cancelled, or an error
\* that makes every handler above it return) and its lease version with it.
Crash(w) == ~At(w, "idle") /\ Return(w, FALSE) /\ Fault

-----------------------------------------------------------------------------
(* Environment: the payer and the clock *)

\* The payer settles the open payment, possibly for another amount.
Pay ==
    /\ upstream = "open" /\ upstream' \in {"paid", "short"}
    /\ NoFault
    /\ UNCHANGED <<row, delivery, lateAudit, acked, blind, control>>

\* Between the lease UPDATE and the verdict.
Delivering(w) ==
    pc[w] \in {"reload", "lookup", "create", "redeem", "assign",
              "commitAssign", "rebate", "accrue", "complete", "fail"}

\* The lease runs out under a worker that is still delivering: it is slower
\* than paymentFulfillmentLeaseDuration, and the order can be taken from it.
\* That counts as a fault; nothing in the code bounds an attempt.
Overrun ==
    /\ status = "RECHARGING" /\ age < LeaseTicks /\ age + 1 >= LeaseTicks
    /\ \E w \in Workers : Delivering(w)

Tick ==
    /\ age < MaxAge /\ age' = age + 1
    /\ IF Overrun THEN Fault ELSE NoFault
    /\ UNCHANGED <<status, fresh, tradeNo, paidAt, kind, due, delivery,
                   lateAudit, provider, control>>

\* expires_at passes.
Deadline ==
    /\ ~due /\ due' = TRUE /\ NoFault
    /\ UNCHANGED <<status, age, fresh, tradeNo, paidAt, kind, delivery,
                   lateAudit, provider, control>>

-----------------------------------------------------------------------------
Start(w) ==
    StartWebhook(w) \/ StartCancel(w) \/ StartExpire(w) \/ StartVerify(w)
        \/ StartRetry(w)

Creation(w) == InvokeProvider(w) \/ SavePaymentDetails(w) \/ FailCreate(w)

Closure(w) ==
    QueryUpstream(w) \/ PersistTradeNo(w) \/ CancelUpstream(w) \/ CloseOrder(w)

Notification(w) == Confirm(w) \/ ToPaid(w) \/ AlreadyProcessed(w)

Lease(w) == ExecuteFulfillment(w) \/ AcquireLease(w) \/ ReloadLease(w)

Delivery(w) ==
    LookupCode(w) \/ CreateCode(w) \/ RedeemCode(w) \/ CheckAssigned(w)
        \/ CommitAssignment(w) \/ ClaimRebate(w) \/ CommitRebate(w)

Verdict(w) == MarkCompleted(w) \/ MarkFailed(w)

\* The worker carries its job one statement further.
Step(w) ==
    Creation(w) \/ Closure(w) \/ Notification(w) \/ Lease(w) \/ Delivery(w)
        \/ Verdict(w)

Next ==
    \/ \E w \in Workers : Start(w) \/ Step(w) \/ StepFails(w) \/ Crash(w)
    \/ Pay \/ Tick \/ Deadline

Spec == Init /\ [][Next]_vars

\* A job that started runs on; time passes; the expiry sweep comes back every
\* minute; a provider repeats a notification until it is answered with a 2xx.
\* Nothing makes a user verify or an administrator retry.
Fairness ==
    /\ \A w \in Workers : WF_vars(Step(w))
    /\ WF_vars(Tick) /\ WF_vars(Deadline)
    /\ SF_vars(\E w \in Workers : StartExpire(w))
    /\ SF_vars(\E w \in Workers : StartWebhook(w) /\ ~acked)

FairSpec == Spec /\ Fairness
-----------------------------------------------------------------------------
(* Safety *)

\* What the order bought is handed over at most once, and the inviter is paid
\* for it at most once, whatever the interleaving of webhooks, retries, stale
\* lease holders and crashes (redeem code CAS, unique audit rows).
DeliveredOnce == credits + grants <= 1 /\ accrued <= 1

\* A COMPLETED order was delivered through its own channel and its rebate was
\* decided: no path to markCompleted skips doBalance, doSub or the rebate.
CompletedIsDelivered ==
    status = "COMPLETED" =>
        /\ rebate # "none"
        /\ IF kind = "balance" THEN credits = 1 ELSE grants = 1

\* Nothing is delivered before the provider holds the right amount; FAILED
\* orders that were never paid (CreateOrder) stay out of fulfilment's reach.
DeliveredOnlyIfPaid == credits + grants > 0 => upstream = "paid"

\* Once the payment was recorded the order is never cancelled, expired or
\* reopened by a cancellation or sweep that started while it was pending.
PaidIsNeverClosed ==
    paidAt => status \in {"PAID", "RECHARGING", "COMPLETED", "FAILED"}

\* A COMPLETED order stays COMPLETED: late webhooks, lost leases, the creation
\* error path and pending cancellations all leave it alone.
CompletedIsFinal == [][status = "COMPLETED" => status' = "COMPLETED"]_vars

\* The provider gets its 2xx, and stops repeating the notification, only when
\* the order needs no more of them: it is COMPLETED, or the late payment was
\* recorded for manual handling. The one way out is a notification whose own
\* handler dropped the error of reading the order or of recording the payment;
\* no fault elsewhere, before or after, earns a 2xx.
AckMeansSettled == acked => status = "COMPLETED" \/ lateAudit \/ blind

\* Fulfilment keeps its promise (PaymentPromise).
Promise == INSTANCE PaymentPromise WITH
    received  <- upstream = "paid",
    delivered <- credits + grants,
    decided   <- rebate # "none",
    settled   <- status = "COMPLETED"

KeepsPromise == Promise!Spec

-----------------------------------------------------------------------------
(* Liveness, under FairSpec *)

\* A payment is fulfilled, or recorded as too late, however many of the
\* attempts crash or fail: webhook repetition plus lease takeover suffice, as
\* long as the provider has a reason to repeat. A 2xx that hid an error ends
\* the repetition.
PaidSettles ==
    upstream = "paid" ~> (status = "COMPLETED" \/ lateAudit \/ blind)

\* The sweep takes every overdue order out of PENDING, unless the provider
\* reports a payment of the wrong amount: cancelCore then leaves it alone.
OverdueLeavesPending ==
    (due /\ status = "PENDING") ~> (status # "PENDING" \/ upstream = "short")

=============================================================================
