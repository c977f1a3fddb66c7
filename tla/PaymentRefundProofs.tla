------------------------- MODULE PaymentRefundProofs -------------------------
(***************************************************************************)
(* Theorems about PaymentRefund for any number of workers and faults and   *)
(* any amount.                                                             *)
(***************************************************************************)
EXTENDS PaymentRefund, TLAPS

ChargedPCs == {"call", "ok", "pending", "rollback"}
QueryPCs   == {"query", "finalOk", "finalFail"}

\* What position l of a worker with plan p says about the rest of the state.
LocalOK(l, p) ==
    /\ l \in HolderPCs \cup QueryPCs \cup {"prep", "lock"} => p.amount \in Amounts
    /\ l = "deduct" => p.take > 0
    /\ l = "ok" => ~traded \/ gateway[p.amount] = "success"
    /\ l = "finalOk" => gateway[p.amount] = "success"

WorkersOK == \A w \in Workers : LocalOK(pc[w], plan[w])

PendingAmount == status = "REFUND_PENDING" => refundAmount \in Amounts

\* The inductive invariant.
IInv == TypeOK /\ OwnerIsAlone /\ WorkersOK /\ PendingAmount /\ RefundedIsReturned

\* n units are held, or less when the subscription had to be revoked.
Covers(n) == taken <= n /\ (Returnable => taken = n)

\* Where what was taken is accounted for, as long as no rollback failed ...
Accounted ==
    ~AlreadyDeducted =>
        /\ status \in Refundable => taken = 0
        /\ status = "REFUND_PENDING" => Covers(Owed(detail))
        /\ \A w \in Workers :
              /\ pc[w] \in {"deduct", "restore"} => taken = 0
              /\ pc[w] # "failed"
              /\ pc[w] \in ChargedPCs => Covers(plan[w].take)

\* ... and after one did: later attempts take nothing.
Skipped ==
    AlreadyDeducted =>
        /\ status = "REFUND_PENDING" => detail.take = 0
        /\ \A w \in Workers : pc[w] \in ChargedPCs => plan[w].take = 0

\* The inductive invariant about the money, where no error goes unnoticed.
MoneyInv == TakenOnce /\ Accounted /\ Skipped

-----------------------------------------------------------------------------
(* The control of a refund *)

\* The initial state satisfies the inductive invariant.
LEMMA InitIInv == Init => IInv
<1> SUFFICES ASSUME Init PROVE IInv
  OBVIOUS
<1>1. RowOK
  BY RefundAssumption DEF Init, RowOK, Status, Refundable, Actions, Details,
     NoDetail
<1>2. FundsOK
  <2>1. wallet \in Nat /\ taken = 0 /\ revoked \in BOOLEAN
    BY RefundAssumption DEF Init
  <2>2. gateway \in [Amounts -> {"none", "pending", "success", "failed"}]
    BY DEF Init
  <2> QED
    BY <2>1, <2>2 DEF FundsOK
<1>3. WorkOK
  BY RefundAssumption DEF Init, WorkOK, PCs, NoPlan, Plans, Status, Refundable
<1>4. OwnerIsAlone /\ WorkersOK
  BY DEF Init, OwnerIsAlone, WorkersOK, LocalOK, HolderPCs, QueryPCs
<1>5. PendingAmount /\ RefundedIsReturned
  BY RefundAssumption
  DEF Init, PendingAmount, RefundedIsReturned, Terminal, Amounts
<1> QED
  BY <1>1, <1>2, <1>3, <1>4, <1>5 DEF IInv, TypeOK

\* One more fault stays within the bound.
LEMMA FaultType ==
  ASSUME IInv, Fault \/ NoFault PROVE faults' \in 0..MaxFaults
  BY RefundAssumption DEF IInv, TypeOK, WorkOK, Fault, NoFault

\* A worker may move to any position whose local facts hold; into the holder's
\* positions only from one of them.
LEMMA JumpInv ==
  ASSUME IInv, NEW w \in Workers, NEW l \in PCs, Jump(w, l),
         Fault \/ NoFault, LocalOK(l, plan[w]),
         l \in HolderPCs => pc[w] \in HolderPCs
  PROVE  IInv'
<1> USE DEF Jump, Goto, order, ledger, funds
<1>1. RowOK' /\ FundsOK'
  BY DEF IInv, TypeOK, RowOK, FundsOK
<1>2. WorkOK'
  BY FaultType DEF IInv, TypeOK, WorkOK
<1>3. OwnerIsAlone'
  BY DEF IInv, TypeOK, WorkOK, OwnerIsAlone
<1>4. WorkersOK'
  BY DEF IInv, TypeOK, WorkOK, WorkersOK, LocalOK
<1>5. PendingAmount' /\ RefundedIsReturned'
  BY DEF IInv, PendingAmount, RefundedIsReturned
<1> QED
  BY <1>1, <1>2, <1>3, <1>4, <1>5 DEF IInv, TypeOK

\* A worker may return from any position.
LEMMA ReturnInv ==
  ASSUME IInv, NEW w \in Workers, Return(w), Fault \/ NoFault PROVE IInv'
<1> USE DEF Return, Leave, order, ledger, funds
<1>1. RowOK' /\ FundsOK'
  BY DEF IInv, TypeOK, RowOK, FundsOK
<1>2. WorkOK'
  BY FaultType, RefundAssumption
  DEF IInv, TypeOK, WorkOK, PCs, NoPlan, Plans, Status, Refundable
<1>3. OwnerIsAlone'
  BY DEF IInv, TypeOK, WorkOK, OwnerIsAlone, HolderPCs
<1>4. WorkersOK'
  BY DEF IInv, TypeOK, WorkOK, WorkersOK, LocalOK, HolderPCs, QueryPCs
<1>5. PendingAmount' /\ RefundedIsReturned'
  BY DEF IInv, PendingAmount, RefundedIsReturned
<1> QED
  BY <1>1, <1>2, <1>3, <1>4, <1>5 DEF IInv, TypeOK

\* What the type invariant says of one worker's plan.
LEMMA PlanType ==
  ASSUME IInv, NEW w \in Workers
  PROVE  /\ plan[w].amount \in 0..Amount /\ plan[w].take \in 0..Amount
         /\ plan[w].force \in BOOLEAN /\ plan[w].seen \in Status
         /\ RefundedStatus(plan[w].amount) \in Status
  BY DEF IInv, TypeOK, WorkOK, Plans, Status, Terminal, RefundedStatus

\* A request marks a completed order only.
LEMMA RequestRefundInv ==
  ASSUME IInv, NEW w \in Workers, RequestRefund(w) PROVE IInv'
<1> USE DEF RequestRefund, At, Leave, NoFault, ledger, funds
<1>1. RowOK'
  BY RefundAssumption, PlanType DEF IInv, TypeOK, RowOK, Status, Refundable, Actions
<1>2. FundsOK'
  BY DEF IInv, TypeOK, FundsOK
<1>3. WorkOK'
  BY FaultType, RefundAssumption
  DEF IInv, TypeOK, WorkOK, PCs, NoPlan, Plans, Status, Refundable
<1>4. OwnerIsAlone'
  BY DEF IInv, TypeOK, WorkOK, OwnerIsAlone, HolderPCs
<1>5. WorkersOK'
  BY DEF IInv, TypeOK, WorkOK, WorkersOK, LocalOK, HolderPCs, QueryPCs
<1>6. PendingAmount' /\ RefundedIsReturned'
  BY DEF IInv, OwnerIsAlone, WorkersOK, LocalOK, HolderPCs, QueryPCs,
     PendingAmount, RefundedIsReturned, Refundable, Terminal, RefundedStatus
<1> QED
  BY <1>1, <1>2, <1>3, <1>4, <1>5, <1>6 DEF IInv, TypeOK

\* A plan is made on an open order.
LEMMA StartRefundInv ==
  ASSUME IInv, NEW w \in Workers, StartRefund(w) PROVE IInv'
<1> USE DEF StartRefund, At, order, ledger, funds
<1>0. \A a \in Amounts, force \in BOOLEAN :
        [amount |-> a, force |-> force, seen |-> status, take |-> 0] \in Plans
  BY RefundAssumption DEF IInv, TypeOK, RowOK, Amounts, Plans
<1>1. RowOK'
  BY DEF IInv, TypeOK, RowOK
<1>2. FundsOK'
  BY DEF IInv, TypeOK, FundsOK
<1>3. WorkOK'
  BY <1>0 DEF IInv, TypeOK, WorkOK, PCs, NoFault
<1>4. OwnerIsAlone'
  BY DEF IInv, TypeOK, WorkOK, OwnerIsAlone, HolderPCs
<1>5. WorkersOK'
  BY DEF IInv, TypeOK, WorkOK, WorkersOK, LocalOK, HolderPCs, QueryPCs
<1>6. PendingAmount' /\ RefundedIsReturned'
  BY DEF IInv, PendingAmount, RefundedIsReturned
<1> QED
  BY <1>1, <1>2, <1>3, <1>4, <1>5, <1>6 DEF IInv, TypeOK

\* A query starts with the pending amount.
LEMMA StartQueryInv ==
  ASSUME IInv, NEW w \in Workers, StartQuery(w) PROVE IInv'
<1> USE DEF StartQuery, At, order, ledger, funds
<1>1. RowOK'
  BY DEF IInv, TypeOK, RowOK
<1>2. FundsOK'
  BY DEF IInv, TypeOK, FundsOK
<1>3. WorkOK'
  BY DEF IInv, TypeOK, RowOK, WorkOK, PCs, Plans, NoFault
<1>4. OwnerIsAlone'
  BY DEF IInv, TypeOK, WorkOK, OwnerIsAlone, HolderPCs
<1>5. WorkersOK'
  BY DEF IInv, TypeOK, WorkOK, WorkersOK, LocalOK, HolderPCs, QueryPCs, PendingAmount
<1>6. PendingAmount' /\ RefundedIsReturned'
  BY DEF IInv, PendingAmount, RefundedIsReturned
<1> QED
  BY <1>1, <1>2, <1>3, <1>4, <1>5, <1>6 DEF IInv, TypeOK

\* The success verdict belongs to the owner and follows the provider's.
LEMMA MarkRefundOkInv ==
  ASSUME IInv, NEW w \in Workers, MarkRefundOk(w) PROVE IInv'
<1> USE DEF MarkRefundOk, At, Leave, funds
<1>1. RowOK'
  BY RefundAssumption, PlanType DEF IInv, TypeOK, RowOK, Status, Refundable, Actions
<1>2. FundsOK'
  BY DEF IInv, TypeOK, FundsOK
<1>3. WorkOK'
  BY FaultType, RefundAssumption
  DEF IInv, TypeOK, WorkOK, PCs, NoPlan, Plans, Status, Refundable
<1>4. OwnerIsAlone'
  BY DEF IInv, TypeOK, WorkOK, OwnerIsAlone, HolderPCs
<1>5. WorkersOK'
  BY DEF IInv, TypeOK, WorkOK, WorkersOK, LocalOK, HolderPCs, QueryPCs
<1>6. PendingAmount' /\ RefundedIsReturned'
  BY DEF IInv, OwnerIsAlone, WorkersOK, LocalOK, HolderPCs, QueryPCs,
     PendingAmount, RefundedIsReturned, Refundable, Terminal, RefundedStatus
<1> QED
  BY <1>1, <1>2, <1>3, <1>4, <1>5, <1>6 DEF IInv, TypeOK

\* The owner reopens the order.
LEMMA RestoreStatusInv ==
  ASSUME IInv, NEW w \in Workers, RestoreStatus(w) PROVE IInv'
<1> USE DEF RestoreStatus, At, Leave, WriteStatus, order, ledger, funds
<1>1. RowOK'
  BY RefundAssumption, PlanType DEF IInv, TypeOK, RowOK, Status, Refundable, Actions, RestoredStatus, WriteStatus
<1>2. FundsOK'
  BY DEF IInv, TypeOK, FundsOK
<1>3. WorkOK'
  BY FaultType, RefundAssumption
  DEF IInv, TypeOK, WorkOK, PCs, NoPlan, Plans, Status, Refundable
<1>4. OwnerIsAlone'
  BY DEF IInv, TypeOK, WorkOK, OwnerIsAlone, HolderPCs
<1>5. WorkersOK'
  BY DEF IInv, TypeOK, WorkOK, WorkersOK, LocalOK, HolderPCs, QueryPCs
<1>6. PendingAmount' /\ RefundedIsReturned'
  BY DEF IInv, OwnerIsAlone, WorkersOK, LocalOK, HolderPCs, QueryPCs,
     PendingAmount, RefundedIsReturned, Refundable, Terminal, RefundedStatus, RestoredStatus
<1> QED
  BY <1>1, <1>2, <1>3, <1>4, <1>5, <1>6 DEF IInv, TypeOK

\* The owner fails the refund.
LEMMA MarkRefundFailedInv ==
  ASSUME IInv, NEW w \in Workers, MarkRefundFailed(w) PROVE IInv'
<1> USE DEF MarkRefundFailed, At, Leave, WriteStatus, order, funds
<1>1. RowOK'
  BY RefundAssumption, PlanType DEF IInv, TypeOK, RowOK, Status, Refundable, Actions
<1>2. FundsOK'
  BY DEF IInv, TypeOK, FundsOK
<1>3. WorkOK'
  BY FaultType, RefundAssumption
  DEF IInv, TypeOK, WorkOK, PCs, NoPlan, Plans, Status, Refundable
<1>4. OwnerIsAlone'
  BY DEF IInv, TypeOK, WorkOK, OwnerIsAlone, HolderPCs
<1>5. WorkersOK'
  BY DEF IInv, TypeOK, WorkOK, WorkersOK, LocalOK, HolderPCs, QueryPCs
<1>6. PendingAmount' /\ RefundedIsReturned'
  BY DEF IInv, OwnerIsAlone, WorkersOK, LocalOK, HolderPCs, QueryPCs,
     PendingAmount, RefundedIsReturned, Refundable, Terminal, RefundedStatus
<1> QED
  BY <1>1, <1>2, <1>3, <1>4, <1>5, <1>6 DEF IInv, TypeOK

\* Usage draws on the funds only.
LEMMA SpendInv ==
  ASSUME IInv, Spend PROVE IInv'
<1> USE DEF Spend, NoFault, order, ledger, control
<1>1. RowOK'
  BY DEF IInv, TypeOK, RowOK
<1>2. FundsOK'
  BY DEF IInv, TypeOK, FundsOK
<1>3. WorkOK'
  BY DEF IInv, TypeOK, WorkOK
<1>4. OwnerIsAlone'
  BY DEF IInv, OwnerIsAlone
<1>5. WorkersOK'
  BY DEF IInv, WorkersOK, LocalOK
<1>6. PendingAmount' /\ RefundedIsReturned'
  BY DEF IInv, PendingAmount, RefundedIsReturned
<1> QED
  BY <1>1, <1>2, <1>3, <1>4, <1>5, <1>6 DEF IInv, TypeOK

\* The provider never takes a success back.
LEMMA SettleInv ==
  ASSUME IInv, Settle PROVE IInv'
<1> USE DEF Settle, NoFault, order, ledger, funds, control
<1>1. RowOK'
  BY DEF IInv, TypeOK, RowOK
<1>2. FundsOK'
  BY DEF IInv, TypeOK, FundsOK
<1>3. WorkOK'
  BY DEF IInv, TypeOK, WorkOK
<1>4. OwnerIsAlone'
  BY DEF IInv, OwnerIsAlone
<1>5. WorkersOK'
  BY DEF IInv, TypeOK, FundsOK, WorkersOK, LocalOK, HolderPCs, QueryPCs
<1>6. PendingAmount' /\ RefundedIsReturned'
  BY DEF IInv, TypeOK, FundsOK, PendingAmount, RefundedIsReturned
<1> QED
  BY <1>1, <1>2, <1>3, <1>4, <1>5, <1>6 DEF IInv, TypeOK

\* A deduction is at most what was asked for, and never negative.
LEMMA AvailableType ==
  ASSUME NEW n \in 0..Amount, wallet \in Int
  PROVE  Available(n) \in 0..n /\ Available(n) \in 0..Amount
  BY RefundAssumption DEF Available, Least, AtLeastZero

\* Only one worker takes the lock: it finds the order open, so nobody holds it.
LEMMA LockRefundInv ==
  ASSUME IInv, NEW w \in Workers, LockRefund(w) PROVE IInv'
<1>1. CASE Return(w)
  BY <1>1, ReturnInv DEF LockRefund
<1>2. CASE /\ Lockable(w) /\ WriteStatus("REFUNDING")
           /\ Goto(w, IF plan[w].take > 0 THEN "deduct" ELSE "call")
           /\ UNCHANGED <<ledger, funds, gateway>>
  <2> USE <1>2 DEF LockRefund, At, Goto, WriteStatus, ledger, funds
  <2>1. RowOK'
    BY DEF IInv, TypeOK, RowOK, Status
  <2>2. FundsOK'
    BY DEF IInv, TypeOK, FundsOK
  <2>3. WorkOK'
    BY FaultType DEF IInv, TypeOK, WorkOK, PCs
  <2>4. OwnerIsAlone'
    BY DEF IInv, TypeOK, WorkOK, OwnerIsAlone, HolderPCs, Lockable, Refundable
  <2>5. WorkersOK'
    BY DEF IInv, TypeOK, WorkOK, WorkersOK, LocalOK, HolderPCs, QueryPCs
  <2>6. PendingAmount' /\ RefundedIsReturned'
    BY DEF PendingAmount, RefundedIsReturned, Terminal
  <2> QED
    BY <2>1, <2>2, <2>3, <2>4, <2>5, <2>6 DEF IInv, TypeOK
<1> QED
  BY <1>1, <1>2 DEF LockRefund

\* A worker may revise its plan's deduction and move on within its role.
LEMMA ReplanInv ==
  ASSUME IInv, NEW w \in Workers, NEW l \in PCs, NEW n \in 0..Amount,
         pc' = [pc EXCEPT ![w] = l], plan' = [plan EXCEPT ![w].take = n],
         Fault \/ NoFault, UNCHANGED <<order, ledger, gateway>>,
         wallet' \in Int, taken' \in Int, revoked' \in BOOLEAN,
         plan[w].amount \in Amounts, l \in {"lock", "call"},
         l = "call" => pc[w] \in HolderPCs
  PROVE  IInv'
<1> USE DEF order, ledger
<1>1. RowOK' /\ FundsOK'
  BY DEF IInv, TypeOK, RowOK, FundsOK
<1>2. WorkOK'
  BY FaultType DEF IInv, TypeOK, WorkOK, Plans
<1>3. OwnerIsAlone'
  BY DEF IInv, TypeOK, WorkOK, OwnerIsAlone, HolderPCs
<1>4. WorkersOK'
  BY DEF IInv, TypeOK, WorkOK, Plans, WorkersOK, LocalOK
<1>5. PendingAmount' /\ RefundedIsReturned'
  BY DEF IInv, PendingAmount, RefundedIsReturned
<1> QED
  BY <1>1, <1>2, <1>3, <1>4, <1>5 DEF IInv, TypeOK

\* The planned deduction is within the amount.
LEMMA PrepDeductInv ==
  ASSUME IInv, NEW w \in Workers, PrepDeduct(w) PROVE IInv'
<1> USE DEF PrepDeduct, At
<1>1. plan[w].amount \in Amounts /\ LocalOK("lock", plan[w])
  BY DEF IInv, WorkersOK, LocalOK, HolderPCs, QueryPCs
<1>2. Deductible(plan[w]) \in 0..Amount
  <2>1. wallet \in Int
    BY DEF IInv, TypeOK, FundsOK
  <2>2. Available(plan[w].amount) \in 0..Amount
    BY <2>1, PlanType, AvailableType
  <2>3. Amount \in 0..Amount /\ 0 \in 0..Amount
    BY RefundAssumption
  <2> QED
    BY <2>2, <2>3 DEF Deductible
<1>3. CASE /\ plan' = [plan EXCEPT ![w].take = Deductible(plan[w])]
           /\ pc' = [pc EXCEPT ![w] = "lock"] /\ NoFault
           /\ UNCHANGED <<order, ledger, funds, gateway>>
  <2>1. wallet' \in Int /\ taken' \in Int /\ revoked' \in BOOLEAN
    BY <1>3 DEF IInv, TypeOK, FundsOK, funds
  <2> QED
    BY <1>1, <1>2, <1>3, <2>1, ReplanInv DEF PCs
<1>4. CASE Jump(w, "lock") /\ Fault
  BY <1>1, <1>4, JumpInv DEF PCs, HolderPCs
<1>5. CASE Return(w) /\ (Fault \/ NoFault)
  BY <1>5, ReturnInv
<1> QED
  BY <1>3, <1>4, <1>5

\* A withdrawal keeps the funds well formed.
LEMMA WithdrawType ==
  ASSUME IInv, NEW n \in 0..Amount, Withdraw(n) \/ GiveBack(n)
  PROVE  wallet' \in Int /\ taken' \in Int /\ revoked' \in BOOLEAN
<1>1. wallet \in Int /\ taken \in Int /\ revoked \in BOOLEAN
  BY DEF IInv, TypeOK, FundsOK
<1>2. wallet' \in Int /\ taken' \in Int
  BY <1>1 DEF Withdraw, GiveBack
<1>3. revoked' \in BOOLEAN
  BY <1>1 DEF Withdraw, GiveBack
<1> QED
  BY <1>2, <1>3

\* A worker may withdraw or give back and move on within its role.
LEMMA TransferInv ==
  ASSUME IInv, NEW w \in Workers, NEW l \in PCs, Goto(w, l),
         Fault \/ NoFault, UNCHANGED <<order, detail, gateway>>,
         audits' \in SUBSET Actions,
         wallet' \in Int, taken' \in Int, revoked' \in BOOLEAN,
         LocalOK(l, plan[w]), l \in HolderPCs, pc[w] \in HolderPCs
  PROVE  IInv'
<1> USE DEF Goto, order
<1>1. RowOK' /\ FundsOK'
  BY DEF IInv, TypeOK, RowOK, FundsOK
<1>2. WorkOK'
  BY FaultType DEF IInv, TypeOK, WorkOK
<1>3. OwnerIsAlone'
  BY DEF IInv, TypeOK, WorkOK, OwnerIsAlone
<1>4. WorkersOK'
  BY DEF IInv, TypeOK, WorkOK, WorkersOK, LocalOK
<1>5. PendingAmount' /\ RefundedIsReturned'
  BY DEF IInv, PendingAmount, RefundedIsReturned
<1> QED
  BY <1>1, <1>2, <1>3, <1>4, <1>5 DEF IInv, TypeOK

\* The owner deducts, skips the deduction or abandons the refund.
LEMMA DeductInv ==
  ASSUME IInv, NEW w \in Workers, Deduct(w) PROVE IInv'
<1> USE DEF Deduct, At
<1>1. /\ plan[w].amount \in Amounts /\ pc[w] \in HolderPCs
      /\ LocalOK("restore", plan[w])
  BY DEF IInv, WorkersOK, LocalOK, HolderPCs, QueryPCs
<1>2. Available(plan[w].take) \in 0..Amount
  BY PlanType, AvailableType DEF IInv, TypeOK, FundsOK
<1>3. CASE /\ pc' = [pc EXCEPT ![w] = "call"]
           /\ plan' = [plan EXCEPT ![w].take = 0] /\ NoFault
           /\ UNCHANGED <<order, ledger, funds, gateway>>
  <2>1. wallet' \in Int /\ taken' \in Int /\ revoked' \in BOOLEAN
    BY <1>3 DEF IInv, TypeOK, FundsOK, funds
  <2>2. 0 \in 0..Amount
    BY RefundAssumption
  <2> QED
    BY <1>1, <1>3, <2>1, <2>2, ReplanInv DEF PCs
<1>4. CASE TakeFrom(w) /\ (Fault \/ NoFault)
  <2>1. wallet' \in Int /\ taken' \in Int /\ revoked' \in BOOLEAN
    BY <1>2, <1>4, WithdrawType DEF TakeFrom
  <2>2. Recorded(plan[w], Available(plan[w].take)) \in 0..Amount
    BY <1>2, PlanType DEF Recorded
  <2> QED
    BY <1>1, <1>4, <2>1, <2>2, ReplanInv DEF TakeFrom, PCs
<1>5. CASE Jump(w, "restore") /\ (Fault \/ NoFault)
  BY <1>1, <1>5, JumpInv DEF PCs
<1>6. CASE /\ Fault /\ Withdraw(Available(plan[w].take))
           /\ Goto(w, "restore") /\ UNCHANGED <<order, ledger, gateway>>
  <2>1. wallet' \in Int /\ taken' \in Int /\ revoked' \in BOOLEAN
    BY <1>2, <1>6, WithdrawType
  <2>2. audits' \in SUBSET Actions /\ UNCHANGED detail
    BY <1>6 DEF IInv, TypeOK, RowOK, ledger
  <2> QED
    BY <1>1, <1>6, <2>1, <2>2, TransferInv DEF PCs, HolderPCs
<1> QED
  BY <1>3, <1>4, <1>5, <1>6

\* The owner rolls back, or records that it could not.
LEMMA RollbackInv ==
  ASSUME IInv, NEW w \in Workers, Rollback(w) PROVE IInv'
<1> USE DEF Rollback, At
<1>1. /\ pc[w] \in HolderPCs
      /\ LocalOK("restore", plan[w]) /\ LocalOK("failed", plan[w])
  BY DEF IInv, WorkersOK, LocalOK, HolderPCs, QueryPCs
<1>2. audits' \in SUBSET Actions
  BY DEF IInv, TypeOK, RowOK, Actions
<1>3. wallet' \in Int /\ taken' \in Int /\ revoked' \in BOOLEAN
  BY PlanType, WithdrawType DEF IInv, TypeOK, FundsOK, funds
<1>4. Fault \/ NoFault
  OBVIOUS
<1>5. Goto(w, "restore") \/ Goto(w, "failed")
  OBVIOUS
<1> QED
  BY <1>1, <1>2, <1>3, <1>4, <1>5, TransferInv DEF PCs, HolderPCs

\* The provider's answer decides the owner's next statement; "ok" is reached
\* only with its success.
LEMMA CallGatewayInv ==
  ASSUME IInv, NEW w \in Workers, CallGateway(w) PROVE IInv'
<1> DEFINE a == plan[w].amount
<1> USE DEF CallGateway, At
<1>1. /\ a \in Amounts /\ pc[w] \in HolderPCs
      /\ LocalOK("pending", plan[w]) /\ LocalOK("rollback", plan[w])
  BY DEF IInv, WorkersOK, LocalOK, HolderPCs, QueryPCs
<1>2. ASSUME NEW l \in {"ok", "pending", "rollback"}, Jump(w, l),
             Fault \/ NoFault, l = "ok" => ~traded \/ gateway[a] = "success"
      PROVE  IInv'
  <2>1. LocalOK(l, plan[w])
    BY <1>1, <1>2 DEF LocalOK, HolderPCs, QueryPCs
  <2> QED
    BY <1>1, <1>2, <2>1, JumpInv DEF PCs
<1>3. ASSUME NEW r \in {"pending", "success", "failed"},
             NEW l \in {"ok", "pending", "rollback"}, Accepts(a),
             gateway' = [gateway EXCEPT ![a] = r], Goto(w, l),
             Fault \/ NoFault, l = "ok" => r = "success",
             UNCHANGED <<order, ledger, funds>>
      PROVE  IInv'
  <2> USE <1>3 DEF Goto, order, ledger, funds
  <2>1. RowOK' /\ FundsOK'
    BY DEF IInv, TypeOK, RowOK, FundsOK
  <2>2. WorkOK'
    BY FaultType DEF IInv, TypeOK, WorkOK, PCs
  <2>3. OwnerIsAlone'
    BY <1>1 DEF IInv, TypeOK, WorkOK, OwnerIsAlone
  <2>4. WorkersOK'
    BY <1>1 DEF IInv, TypeOK, FundsOK, WorkOK, WorkersOK, LocalOK, HolderPCs,
       QueryPCs, Accepts, Committed
  <2>5. PendingAmount' /\ RefundedIsReturned'
    BY <1>1 DEF IInv, TypeOK, FundsOK, PendingAmount, RefundedIsReturned,
       OwnerIsAlone, Terminal
  <2> QED
    BY <2>1, <2>2, <2>3, <2>4, <2>5 DEF IInv, TypeOK
<1>4. \A r \in {"pending", "success", "failed"} :
         /\ AfterAnswer(r) \in {"ok", "pending", "rollback"}
         /\ AfterAnswer(r) = "ok" => r = "success"
  BY DEF AfterAnswer
<1>5. CASE traded /\ Committed(a) /\ NoFault /\ Jump(w, AfterAnswer(gateway[a]))
  BY <1>2, <1>4, <1>5 DEF Committed
<1>6. CASE \E r \in {"pending", "success", "failed"} :
             /\ Accepts(a) /\ gateway' = [gateway EXCEPT ![a] = r]
             /\ \/ Goto(w, AfterAnswer(r)) /\ NoFault
                \/ Goto(w, "rollback") /\ Fault
  BY <1>3, <1>4, <1>6
<1> QED
  BY <1>2, <1>5, <1>6

\* The pending verdict belongs to the owner.
LEMMA MarkRefundPendingInv ==
  ASSUME IInv, NEW w \in Workers, MarkRefundPending(w) PROVE IInv'
<1>1. CASE Return(w) /\ (Fault \/ NoFault)
  BY <1>1, ReturnInv
<1>2. CASE /\ NoFault /\ Leave(w)
           /\ status' = "REFUND_PENDING" /\ refundAmount' = plan[w].amount
           /\ audits' = audits \cup {"REFUND_PENDING"}
           /\ detail' = [state |-> "retained", take |-> plan[w].take]
           /\ UNCHANGED <<kind, traded, funds, gateway>>
  <2> USE <1>2 DEF MarkRefundPending, At, Leave, funds
  <2>1. RowOK'
    BY PlanType DEF IInv, TypeOK, RowOK, Status, Actions, Details
  <2>2. FundsOK'
    BY DEF IInv, TypeOK, FundsOK
  <2>3. WorkOK'
    BY FaultType, RefundAssumption
    DEF IInv, TypeOK, WorkOK, PCs, NoPlan, Plans, Status, Refundable
  <2>4. OwnerIsAlone'
    BY DEF IInv, TypeOK, WorkOK, OwnerIsAlone, HolderPCs
  <2>5. WorkersOK'
    BY DEF IInv, TypeOK, WorkOK, WorkersOK, LocalOK, HolderPCs, QueryPCs
  <2>6. PendingAmount' /\ RefundedIsReturned'
    BY DEF IInv, WorkersOK, LocalOK, HolderPCs, PendingAmount,
       RefundedIsReturned, Terminal
  <2> QED
    BY <2>1, <2>2, <2>3, <2>4, <2>5, <2>6 DEF IInv, TypeOK
<1> QED
  BY <1>1, <1>2 DEF MarkRefundPending

\* The deduction a pending refund remembers is within the amount.
LEMMA DetailType ==
  ASSUME IInv, NEW d \in KnownDetail
  PROVE  DueAtFinal(d) \in 0..Amount /\ Owed(d) \in 0..Amount
<1>1. d \in Details
  BY RefundAssumption DEF IInv, TypeOK, RowOK, KnownDetail, NoDetail, Details
<1>2. 0 \in 0..Amount /\ d.take \in 0..Amount
  BY <1>1, RefundAssumption DEF Details
<1> QED
  BY <1>2 DEF DueAtFinal, Owed

\* Finalisation writes a verdict on a pending order, which nobody holds.
LEMMA VerdictInv ==
  ASSUME IInv, NEW w \in Workers, Claimable, NoFault, Leave(w),
         NEW s \in Status, NEW a \in Amounts, status' = s, refundAmount' = a,
         UNCHANGED <<kind, traded, detail, gateway>>,
         audits' \in SUBSET Actions,
         wallet' \in Int, taken' \in Int, revoked' \in BOOLEAN,
         s \in Terminal => gateway[a] = "success"
  PROVE  IInv'
<1> USE DEF Leave, NoFault
<1>1. RowOK'
  BY DEF IInv, TypeOK, RowOK, Amounts
<1>2. FundsOK'
  BY DEF IInv, TypeOK, FundsOK
<1>3. WorkOK'
  BY RefundAssumption
  DEF IInv, TypeOK, WorkOK, PCs, NoPlan, Plans, Status, Refundable
<1>4. \A v \in Workers : pc[v] \notin HolderPCs
  BY DEF IInv, OwnerIsAlone, Claimable
<1>5. OwnerIsAlone'
  BY <1>4 DEF IInv, TypeOK, WorkOK, OwnerIsAlone, HolderPCs
<1>6. WorkersOK'
  BY DEF IInv, TypeOK, WorkOK, WorkersOK, LocalOK, HolderPCs, QueryPCs
<1>7. PendingAmount' /\ RefundedIsReturned'
  BY DEF PendingAmount, RefundedIsReturned
<1> QED
  BY <1>1, <1>2, <1>3, <1>5, <1>6, <1>7 DEF IInv, TypeOK

\* A pending refund succeeds only after the provider said so.
LEMMA FinalizeOkInv ==
  ASSUME IInv, NEW w \in Workers, FinalizeOk(w) PROVE IInv'
<1> DEFINE a == plan[w].amount
<1>1. CASE Return(w) /\ (Fault \/ NoFault)
  BY <1>1, ReturnInv
<1>2. CASE /\ Claimable /\ NoFault /\ Leave(w)
           /\ status' = RefundedStatus(a)
           /\ audits' = audits \cup {"REFUND_SUCCESS"}
           /\ \E d \in KnownDetail :
                 IF DueAtFinal(d) > 0 /\ (kind = "balance" \/ Active)
                 THEN Withdraw(Available(DueAtFinal(d)))
                 ELSE UNCHANGED funds
           /\ refundAmount' = a
           /\ UNCHANGED <<kind, traded, detail, gateway>>
  <2>1. a \in Amounts /\ gateway[a] = "success"
    BY DEF FinalizeOk, At, IInv, WorkersOK, LocalOK, QueryPCs
  <2>2. wallet' \in Int /\ taken' \in Int /\ revoked' \in BOOLEAN
    <3>1. wallet \in Int /\ taken \in Int /\ revoked \in BOOLEAN
      BY DEF IInv, TypeOK, FundsOK
    <3>2. PICK d \in KnownDetail :
             Withdraw(Available(DueAtFinal(d))) \/ UNCHANGED funds
      BY <1>2
    <3>3. Available(DueAtFinal(d)) \in 0..Amount
      BY <3>1, DetailType, AvailableType
    <3> QED
      BY <3>1, <3>2, <3>3, WithdrawType DEF funds
  <2>3. audits' \in SUBSET Actions
    BY <1>2 DEF IInv, TypeOK, RowOK, Actions
  <2> QED
    BY <1>2, <2>1, <2>2, <2>3, PlanType, VerdictInv
<1> QED
  BY <1>1, <1>2 DEF FinalizeOk

\* A pending refund that failed is left open for another one.
LEMMA FinalizeFailInv ==
  ASSUME IInv, NEW w \in Workers, FinalizeFail(w) PROVE IInv'
<1>1. CASE Return(w) /\ (Fault \/ NoFault)
  BY <1>1, ReturnInv
<1>2. ASSUME NEW d \in KnownDetail, Claimable, NoFault, Leave(w),
             WriteStatus("REFUND_FAILED"),
             audits' = audits \cup {"REFUND_FAILED"}, GiveBack(Owed(d)),
             UNCHANGED <<detail, gateway>>
      PROVE  IInv'
  <2>1. wallet' \in Int /\ taken' \in Int /\ revoked' \in BOOLEAN
    BY <1>2, DetailType, WithdrawType
  <2>2. audits' \in SUBSET Actions
    BY <1>2 DEF IInv, TypeOK, RowOK, Actions
  <2>3. refundAmount \in Amounts
    BY <1>2 DEF IInv, PendingAmount, Claimable
  <2>4. "REFUND_FAILED" \in Status \ Terminal
    BY DEF Status, Refundable, Terminal
  <2> QED
    BY <1>2, <2>1, <2>2, <2>3, <2>4, VerdictInv DEF WriteStatus
<1> QED
  BY <1>1, <1>2 DEF FinalizeFail

\* A request for a refund, a query's answer and a crash only move the worker.
LEMMA MoveInv ==
  ASSUME IInv, NEW w \in Workers,
         StartRequest(w) \/ QueryRefund(w) \/ Crash(w)
  PROVE  IInv'
<1>1. CASE StartRequest(w)
  BY <1>1, JumpInv
  DEF StartRequest, PCs, LocalOK, HolderPCs, QueryPCs
<1>2. CASE QueryRefund(w) /\ Return(w)
  BY <1>2, ReturnInv DEF QueryRefund
<1>3. CASE QueryRefund(w) /\ ~Return(w)
  <2>1. /\ LocalOK("finalFail", plan[w])
        /\ gateway[plan[w].amount] = "success" => LocalOK("finalOk", plan[w])
    BY <1>3 DEF QueryRefund, At, IInv, WorkersOK, LocalOK, HolderPCs, QueryPCs
  <2> QED
    BY <1>3, <2>1, JumpInv DEF QueryRefund, PCs, HolderPCs
<1>4. CASE Crash(w)
  BY <1>4, ReturnInv DEF Crash
<1> QED
  BY <1>1, <1>2, <1>3, <1>4

-----------------------------------------------------------------------------
(* The control theorems *)

\* A step of a worker.
WorkerStep(w) == Start(w) \/ Step(w) \/ Crash(w)

\* Every step preserves the inductive invariant.
LEMMA NextIInv == IInv /\ [Next]_vars => IInv'
<1> SUFFICES ASSUME IInv, [Next]_vars PROVE IInv'
  OBVIOUS
<1>1. ASSUME NEW w \in Workers, WorkerStep(w) PROVE IInv'
  <2>1. CASE Start(w) \/ QueryRefund(w) \/ Crash(w)
    BY <2>1, StartRefundInv, StartQueryInv, MoveInv DEF Start
  <2>2. CASE Plan(w)
    BY <2>2, RequestRefundInv, PrepDeductInv, LockRefundInv DEF Plan
  <2>3. CASE Hold(w)
    BY <2>3, DeductInv, CallGatewayInv, MarkRefundOkInv, MarkRefundPendingInv,
       RollbackInv, RestoreStatusInv, MarkRefundFailedInv DEF Hold
  <2>4. CASE FinalizeOk(w) \/ FinalizeFail(w)
    BY <2>4, FinalizeOkInv, FinalizeFailInv
  <2> QED
    BY <1>1, <2>1, <2>2, <2>3, <2>4 DEF WorkerStep, Step, Finalize
<1>2. CASE UNCHANGED vars
  BY <1>2 DEF vars, order, ledger, funds, control, IInv, TypeOK, RowOK, FundsOK,
     WorkOK, OwnerIsAlone, WorkersOK, LocalOK, PendingAmount, RefundedIsReturned
<1> QED
  BY <1>1, <1>2, SpendInv, SettleInv DEF Next, WorkerStep

\* The inductive invariant holds.
LEMMA SpecIInv == Spec => []IInv
  BY InitIInv, NextIInv, PTL DEF Spec

\* Every reachable row, audit, balance and plan is well formed.
THEOREM TypeCorrect == Spec => []TypeOK
  BY SpecIInv, PTL DEF IInv

\* However many administrators, crashes and lost answers: one holder per
\* REFUNDING order, although only the lock has a guard.
THEOREM SingleHolder == Spec => []OwnerIsAlone
  BY SpecIInv, PTL DEF IInv

\* An order is REFUNDED only when the provider returned the recorded amount, or
\* never had a trade.
THEOREM RefundMeansReturned == Spec => []RefundedIsReturned
  BY SpecIInv, PTL DEF IInv

\* The verdicts are written by id alone; still a refund that succeeded stays.
THEOREM RefundStays == Spec => RefundedIsFinal
<1>1. IInv /\ [Next]_vars => (status \in Terminal => status' = status)
  <2> SUFFICES ASSUME IInv, [Next]_vars, status \in Terminal
               PROVE  status' = status
    OBVIOUS
  <2>1. status \notin Refundable \cup {"REFUNDING", "REFUND_PENDING"}
    BY DEF Terminal, Refundable
  <2>2. \A w \in Workers : pc[w] \notin HolderPCs
    BY <2>1 DEF IInv, OwnerIsAlone
  <2>3. ASSUME NEW w \in Workers, Start(w) \/ Crash(w) PROVE status' = status
    BY <2>3 DEF Start, StartRequest, StartRefund, StartQuery, Crash, Jump,
       Return, order
  <2>4. ASSUME NEW w \in Workers, Plan(w) PROVE status' = status
    BY <2>1, <2>4 DEF Plan, RequestRefund, PrepDeduct, LockRefund, Lockable,
       Refundable, Jump, Return, order
  <2>5. ASSUME NEW w \in Workers, Hold(w) PROVE FALSE
    BY <2>2, <2>5 DEF Hold, Deduct, CallGateway, MarkRefundOk,
       MarkRefundPending, Rollback, RestoreStatus, MarkRefundFailed, At,
       HolderPCs
  <2>6. ASSUME NEW w \in Workers, Finalize(w) PROVE status' = status
    BY <2>1, <2>6 DEF Finalize, QueryRefund, FinalizeOk, FinalizeFail,
       Claimable, Jump, Return, order
  <2>7. CASE Spend \/ Settle \/ UNCHANGED vars
    BY <2>7 DEF Spend, Settle, vars, order
  <2> QED
    BY <2>3, <2>4, <2>5, <2>6, <2>7 DEF Next, Step
<1> QED
  BY SpecIInv, <1>1, PTL DEF Spec, RefundedIsFinal

-----------------------------------------------------------------------------
(* The owner of a first refund *)

\* A statement of the owner that succeeds hands the order on to its own next
\* statement or writes the verdict; that the audit cannot be inserted needs an
\* earlier refund.
LEMMA HoldOwned ==
  ASSUME IInv, NEW w \in Workers, Hold(w), ~Fault,
         "REFUND_PENDING" \notin audits, status' = "REFUNDING"
  PROVE  pc'[w] \in HolderPCs
<1>1. \A l \in HolderPCs : pc' = [pc EXCEPT ![w] = l] => pc'[w] \in HolderPCs
  BY DEF IInv, TypeOK, WorkOK
<1>2. CASE Deduct(w)
  BY <1>1, <1>2 DEF Deduct, TakeFrom, Jump, Goto, HolderPCs
<1>3. CASE CallGateway(w)
  <2>1. \A a : gateway[a] \in {"pending", "success"} =>
            AfterAnswer(gateway[a]) \in {"ok", "pending"}
    BY DEF AfterAnswer
  <2>2. \A r \in {"pending", "success", "failed"} :
            AfterAnswer(r) \in {"ok", "pending", "rollback"}
    BY DEF AfterAnswer
  <2> QED
    BY <1>1, <1>3, <2>1, <2>2 DEF CallGateway, Committed, Jump, Goto, HolderPCs
<1>4. CASE MarkRefundOk(w)
  BY <1>4 DEF MarkRefundOk, RefundedStatus
<1>5. CASE MarkRefundPending(w)
  BY <1>5 DEF MarkRefundPending, Insertable
<1>6. CASE Rollback(w)
  BY <1>1, <1>6 DEF Rollback, Goto, HolderPCs
<1>7. CASE RestoreStatus(w)
  BY <1>7 DEF RestoreStatus, WriteStatus, RestoredStatus
<1>8. CASE MarkRefundFailed(w)
  BY <1>8 DEF MarkRefundFailed, WriteStatus
<1> QED
  BY <1>2, <1>3, <1>4, <1>5, <1>6, <1>7, <1>8 DEF Hold

\* What the others do leaves the owner where it is; the lock makes an owner.
LEMMA OthersOwned ==
  ASSUME IInv, NEW w \in Workers, Start(w) \/ Plan(w) \/ Finalize(w),
         status' = "REFUNDING", status # "REFUNDING"
  PROVE  pc'[w] \in HolderPCs
<1>1. CASE Start(w)
  BY <1>1 DEF Start, StartRequest, StartRefund, StartQuery, Jump, order
<1>2. CASE RequestRefund(w) \/ PrepDeduct(w)
  BY <1>2 DEF RequestRefund, PrepDeduct, Jump, Return, order
<1>3. CASE LockRefund(w)
  BY <1>3 DEF LockRefund, Goto, Return, order, IInv, TypeOK, WorkOK, HolderPCs
<1>4. CASE Finalize(w)
  BY <1>4 DEF Finalize, QueryRefund, FinalizeOk, FinalizeFail, WriteStatus,
     RefundedStatus, Jump, Return, order
<1> QED
  BY <1>1, <1>2, <1>3, <1>4 DEF Plan

\* A worker moves nobody but itself, and no audit is ever deleted.
LEMMA OneMoves ==
  ASSUME IInv, NEW w \in Workers, WorkerStep(w)
  PROVE  /\ \A v \in Workers \ {w} : pc'[v] = pc[v]
         /\ audits \subseteq audits'
<1> USE DEF Goto, Leave, Jump, Return, ledger
<1> DEFINE Alone == \E l \in PCs : pc' = [pc EXCEPT ![w] = l]
           Audited == audits \subseteq audits'
<1> SUFFICES Alone /\ Audited
  BY DEF IInv, TypeOK, WorkOK
<1>1. CASE Start(w) \/ Crash(w)
  BY <1>1 DEF Start, StartRequest, StartRefund, StartQuery, Crash, PCs
<1>2. CASE Plan(w)
  BY <1>2 DEF Plan, RequestRefund, PrepDeduct, LockRefund, PCs
<1>3. CASE Hold(w)
  <2>1. CASE Deduct(w)
    BY <2>1 DEF Deduct, TakeFrom, PCs
  <2>2. CASE CallGateway(w)
    <3>1. \A r \in {"pending", "success", "failed"} : AfterAnswer(r) \in PCs
      BY DEF AfterAnswer, PCs
    <3>2. \A a : Committed(a) => AfterAnswer(gateway[a]) \in PCs
      BY <3>1 DEF Committed
    <3> QED
      BY <2>2, <3>1, <3>2 DEF CallGateway, PCs
  <2>3. CASE MarkRefundOk(w) \/ MarkRefundPending(w)
    BY <2>3 DEF MarkRefundOk, MarkRefundPending, PCs
  <2>4. CASE Rollback(w)
    BY <2>4 DEF Rollback, PCs
  <2>5. CASE RestoreStatus(w) \/ MarkRefundFailed(w)
    BY <2>5 DEF RestoreStatus, MarkRefundFailed, PCs
  <2> QED
    BY <1>3, <2>1, <2>2, <2>3, <2>4, <2>5 DEF Hold
<1>4. CASE Finalize(w)
  BY <1>4 DEF Finalize, QueryRefund, FinalizeOk, FinalizeFail, PCs
<1> QED
  BY <1>1, <1>2, <1>3, <1>4 DEF WorkerStep, Step

\* Every step keeps a first refund in somebody's hands.
LEMMA NextOwned ==
  ASSUME IInv, FirstRefundIsOwned, [Next]_vars PROVE FirstRefundIsOwned'
<1> SUFFICES ASSUME status' = "REFUNDING", "REFUND_PENDING" \notin audits',
                    faults' = 0
             PROVE  \E v \in Workers : pc'[v] \in HolderPCs
  BY DEF FirstRefundIsOwned
<1>1. ~Fault
  BY RefundAssumption DEF IInv, TypeOK, WorkOK, Fault
<1>2. ASSUME NEW w \in Workers, WorkerStep(w)
      PROVE  \E v \in Workers : pc'[v] \in HolderPCs
  <2>1. /\ \A v \in Workers \ {w} : pc'[v] = pc[v]
        /\ "REFUND_PENDING" \notin audits
    BY <1>2, OneMoves
  <2>2. faults = 0
    BY <1>1, <1>2
    DEF WorkerStep, Start, Step, Plan, Hold, Finalize, StartRequest, StartRefund,
        StartQuery, Crash, RequestRefund, PrepDeduct, LockRefund, Deduct,
        CallGateway, MarkRefundOk, MarkRefundPending, Rollback, RestoreStatus,
        MarkRefundFailed, QueryRefund, FinalizeOk, FinalizeFail, NoFault
  <2>3. CASE status # "REFUNDING"
    <3>1. ~Hold(w)
      BY <2>3 DEF IInv, OwnerIsAlone, Hold, Deduct, CallGateway, MarkRefundOk,
         MarkRefundPending, Rollback, RestoreStatus, MarkRefundFailed, At,
         HolderPCs
    <3> QED
      BY <1>1, <1>2, <2>3, <3>1, OthersOwned DEF WorkerStep, Step, Crash
  <2>4. CASE status = "REFUNDING"
    <3>1. PICK u \in Workers : pc[u] \in HolderPCs
      BY <2>1, <2>2, <2>4 DEF FirstRefundIsOwned
    <3>2. CASE u # w
      BY <2>1, <3>1, <3>2
    <3>3. CASE u = w
      <4>1. Hold(w)
        BY <1>1, <1>2, <3>1, <3>3
        DEF WorkerStep, Start, Step, Plan, Finalize, StartRequest, StartRefund,
            StartQuery, Crash, RequestRefund, PrepDeduct, LockRefund,
            QueryRefund, FinalizeOk, FinalizeFail, At, HolderPCs
      <4> QED
        BY <1>1, <2>1, <4>1, HoldOwned
    <3> QED
      BY <3>2, <3>3
  <2> QED
    BY <2>3, <2>4
<1>3. CASE Spend \/ Settle \/ UNCHANGED vars
  BY <1>3 DEF Spend, Settle, vars, order, ledger, control, NoFault,
     FirstRefundIsOwned
<1> QED
  BY <1>2, <1>3 DEF Next, WorkerStep

\* Without a fault, and before any refund of the order was left pending, an
\* order that says REFUNDING is in the hands of a worker that will say what
\* became of it.
THEOREM FirstRefundOwned == Spec => []FirstRefundIsOwned
<1>1. Init => FirstRefundIsOwned
  BY DEF Init, FirstRefundIsOwned
<1> QED
  BY <1>1, SpecIInv, NextOwned, PTL DEF Spec

-----------------------------------------------------------------------------
(* The money of a refund, where no error goes unnoticed *)

\* The initial state satisfies the money invariant.
LEMMA InitMoney == Init => MoneyInv
  BY RefundAssumption
  DEF Init, MoneyInv, TakenOnce, Accounted, Skipped, AlreadyDeducted, Refundable,
      Covers, Owed, NoDetail, ChargedPCs

\* A step that leaves the order, the audit and what was taken alone keeps the
\* invariant, when a worker moves only to where it already was accounted for.
LEMMA MoveMoney ==
  ASSUME IInv, MoneyInv, UNCHANGED <<order, ledger, revoked, taken>>,
         NEW w \in Workers, NEW l \in PCs, NEW q \in Plans,
         pc' = [pc EXCEPT ![w] = l], plan' = [plan EXCEPT ![w] = q],
         l \in {"deduct", "restore"} =>
             pc[w] \in {"deduct", "restore"} \/ taken = 0,
         l # "failed",
         l \in ChargedPCs => pc[w] \in ChargedPCs /\ q.take = plan[w].take
  PROVE  MoneyInv'
<1> USE DEF order, ledger
<1>1. pc \in [Workers -> PCs] /\ plan \in [Workers -> Plans]
  BY DEF IInv, TypeOK, WorkOK
<1>2. TakenOnce'
  BY DEF MoneyInv, TakenOnce
<1>3. Accounted'
  BY <1>1 DEF MoneyInv, Accounted, AlreadyDeducted, Covers, Returnable, Owed,
     ChargedPCs
<1>4. Skipped'
  BY <1>1 DEF MoneyInv, Skipped, AlreadyDeducted, ChargedPCs
<1> QED
  BY <1>2, <1>3, <1>4 DEF MoneyInv

\* A worker that returns leaves what was taken accounted for elsewhere.
LEMMA ReturnMoney ==
  ASSUME IInv, MoneyInv, NEW w \in Workers, Return(w) PROVE MoneyInv'
<1>1. NoPlan \in Plans /\ "idle" \in PCs
  BY RefundAssumption DEF NoPlan, Plans, Status, Refundable, PCs
<1> QED
  BY <1>1, MoveMoney DEF Return, Leave, funds, ChargedPCs

\* A worker that jumps carries its plan along.
LEMMA JumpMoney ==
  ASSUME IInv, MoneyInv, NEW w \in Workers, NEW l \in PCs, Jump(w, l),
         l \in {"deduct", "restore"} => pc[w] \in {"deduct", "restore"},
         l # "failed", l \in ChargedPCs => pc[w] \in ChargedPCs
  PROVE  MoneyInv'
<1>1. plan[w] \in Plans /\ plan' = [plan EXCEPT ![w] = plan[w]]
  BY DEF Jump, Goto, IInv, TypeOK, WorkOK
<1> QED
  BY <1>1, MoveMoney DEF Jump, Goto, funds

\* Nobody holds an order that is not REFUNDING.
LEMMA NoHolder ==
  ASSUME IInv, status # "REFUNDING"
  PROVE  \A w \in Workers : pc[w] \notin HolderPCs
  BY DEF IInv, OwnerIsAlone

\* When the owner leaves, nobody holds the order.
LEMMA LeaveNoHolder ==
  ASSUME IInv, NEW w \in Workers, Leave(w),
         pc[w] \in HolderPCs \/ status # "REFUNDING"
  PROVE  \A v \in Workers : pc'[v] \notin HolderPCs
  BY DEF Leave, IInv, TypeOK, WorkOK, OwnerIsAlone, HolderPCs

\* Without holders only the order's own status matters.
LEMMA UnheldMoney ==
  ASSUME TakenOnce', \A v \in Workers : pc'[v] \notin HolderPCs,
         ~AlreadyDeducted' /\ status' \in Refundable => taken' = 0,
         ~AlreadyDeducted' /\ status' = "REFUND_PENDING" => Covers(Owed(detail))',
         AlreadyDeducted' /\ status' = "REFUND_PENDING" => detail'.take = 0
  PROVE  MoneyInv'
  BY DEF MoneyInv, Accounted, Skipped, HolderPCs, ChargedPCs

\* A request changes neither audit nor money.
LEMMA RequestRefundMoney ==
  ASSUME IInv, MoneyInv, NEW w \in Workers, RequestRefund(w) PROVE MoneyInv'
<1>1. TakenOnce'
  BY DEF RequestRefund, funds, MoneyInv, TakenOnce
<1>2. CASE status = "COMPLETED"
  BY <1>1, <1>2, LeaveNoHolder, UnheldMoney
  DEF RequestRefund, MoneyInv, Accounted, AlreadyDeducted, ledger, funds,
      Refundable
<1>3. CASE status # "COMPLETED"
  BY <1>3, ReturnMoney DEF RequestRefund, Return, order
<1> QED
  BY <1>2, <1>3

\* A plan, a query or a lock takes nothing.
LEMMA StartMoney ==
  ASSUME IInv, MoneyInv, NEW w \in Workers, Start(w) PROVE MoneyInv'
<1>1. CASE StartRequest(w)
  BY <1>1, JumpMoney DEF StartRequest, PCs, ChargedPCs
<1>2. CASE StartRefund(w)
  <2>1. PICK a \in Amounts, force \in BOOLEAN, deduct \in BOOLEAN :
           /\ plan' = [plan EXCEPT ![w] = [amount |-> a, force |-> force,
                                           seen |-> status, take |-> 0]]
           /\ pc' = [pc EXCEPT ![w] = IF deduct THEN "prep" ELSE "lock"]
    BY <1>2 DEF StartRefund
  <2>2. [amount |-> a, force |-> force, seen |-> status, take |-> 0] \in Plans
    BY RefundAssumption DEF IInv, TypeOK, RowOK, Amounts, Plans
  <2> QED
    BY <1>2, <2>1, <2>2, MoveMoney DEF StartRefund, funds, PCs, ChargedPCs
<1>3. CASE StartQuery(w)
  <2>1. /\ plan' = [plan EXCEPT ![w] = [plan[w] EXCEPT !.amount = refundAmount]]
        /\ [plan[w] EXCEPT !.amount = refundAmount] \in Plans
    BY <1>3 DEF StartQuery, IInv, TypeOK, RowOK, WorkOK, Plans
  <2> QED
    BY <1>3, <2>1, MoveMoney DEF StartQuery, funds, PCs, ChargedPCs
<1> QED
  BY <1>1, <1>2, <1>3 DEF Start

\* A planned deduction is not yet taken.
LEMMA PrepDeductMoney ==
  ASSUME IInv, MoneyInv, NEW w \in Workers, PrepDeduct(w) PROVE MoneyInv'
<1>1. CASE Return(w)
  BY <1>1, ReturnMoney
<1>2. CASE Jump(w, "lock")
  BY <1>2, JumpMoney DEF PCs, ChargedPCs
<1>3. CASE /\ plan' = [plan EXCEPT ![w].take = Deductible(plan[w])]
           /\ pc' = [pc EXCEPT ![w] = "lock"]
           /\ UNCHANGED <<order, ledger, funds, gateway>>
  <2>1. Deductible(plan[w]) \in 0..Amount
    <3>1. wallet \in Int
      BY DEF IInv, TypeOK, FundsOK
    <3>2. Available(plan[w].amount) \in 0..Amount
      BY <3>1, PlanType, AvailableType
    <3>3. Amount \in 0..Amount /\ 0 \in 0..Amount
      BY RefundAssumption
    <3> QED
      BY <3>2, <3>3 DEF Deductible
  <2>2. /\ [plan[w] EXCEPT !.take = Deductible(plan[w])] \in Plans
        /\ plan' = [plan EXCEPT ![w] =
                       [plan[w] EXCEPT !.take = Deductible(plan[w])]]
    BY <1>3, <2>1 DEF IInv, TypeOK, WorkOK, Plans
  <2> QED
    BY <1>3, <2>2, MoveMoney DEF funds, PCs, ChargedPCs
<1> QED
  BY <1>1, <1>2, <1>3 DEF PrepDeduct

\* The lock finds the order open, hence with nothing taken or a failed rollback.
LEMMA LockRefundMoney ==
  ASSUME IInv, MoneyInv, NEW w \in Workers, LockRefund(w) PROVE MoneyInv'
<1>1. CASE Return(w)
  BY <1>1, ReturnMoney
<1>2. CASE /\ Lockable(w) /\ WriteStatus("REFUNDING")
           /\ Goto(w, IF plan[w].take > 0 THEN "deduct" ELSE "call")
           /\ UNCHANGED <<ledger, funds, gateway>>
  <2> USE <1>2 DEF WriteStatus, Goto, ledger, funds
  <2>1. pc \in [Workers -> PCs] /\ plan[w].take \in Nat
    BY PlanType DEF IInv, TypeOK, WorkOK
  <2>2. \A v \in Workers : pc[v] \notin HolderPCs
    BY NoHolder DEF Lockable, Refundable
  <2>3. TakenOnce'
    BY DEF MoneyInv, TakenOnce
  <2>4. Accounted'
    BY <2>1, <2>2
    DEF MoneyInv, TakenOnce, Accounted, AlreadyDeducted, Lockable, Refundable,
        Covers, Returnable, HolderPCs, ChargedPCs
  <2>5. Skipped'
    BY <2>1, <2>2
    DEF MoneyInv, Skipped, AlreadyDeducted, HolderPCs, ChargedPCs
  <2> QED
    BY <2>3, <2>4, <2>5 DEF MoneyInv
<1> QED
  BY <1>1, <1>2 DEF LockRefund

\* The owner's plan covers what it deducts; after a failed rollback it deducts
\* nothing.
LEMMA DeductMoney ==
  ASSUME ~PartialFailures, IInv, MoneyInv, NEW w \in Workers, Deduct(w)
  PROVE  MoneyInv'
<1> USE DEF Deduct, At
<1>1. /\ pc \in [Workers -> PCs] /\ plan \in [Workers -> Plans]
      /\ \A v \in Workers \ {w} : pc[v] \notin HolderPCs
      /\ status = "REFUNDING"
  BY DEF IInv, TypeOK, WorkOK, OwnerIsAlone, HolderPCs
<1>2. CASE Jump(w, "restore")
  BY <1>2, JumpMoney DEF PCs, ChargedPCs
<1>3. CASE /\ AlreadyDeducted
           /\ pc' = [pc EXCEPT ![w] = "call"]
           /\ plan' = [plan EXCEPT ![w].take = 0]
           /\ UNCHANGED <<order, ledger, funds, gateway>>
  <2> USE <1>3 DEF order, ledger, funds
  <2>1. TakenOnce'
    BY DEF MoneyInv, TakenOnce
  <2>2. Accounted'
    BY DEF Accounted, AlreadyDeducted
  <2>3. Skipped'
    BY <1>1 DEF Skipped, AlreadyDeducted, HolderPCs, ChargedPCs, Plans
  <2> QED
    BY <2>1, <2>2, <2>3 DEF MoneyInv
<1>4. CASE ~AlreadyDeducted /\ ~DeductionRefused(plan[w]) /\ TakeFrom(w)
  <2> DEFINE n == Available(plan[w].take)
  <2> USE <1>4 DEF TakeFrom, order, ledger
  <2>1. taken = 0
    BY DEF MoneyInv, Accounted
  <2>2. n \in 0..plan[w].take /\ plan[w].take \in 0..Amount /\ wallet \in Int
    BY PlanType, AvailableType DEF IInv, TypeOK, FundsOK
  <2>3. taken' = n
    BY <2>1, <2>2 DEF Withdraw
  <2>4. TakenOnce'
    BY <2>2, <2>3, RefundAssumption DEF TakenOnce
  <2>5. plan'[w].take = Recorded(plan[w], n)
    BY <1>1 DEF Plans
  <2>6. Covers(plan[w].take)'
    <3>1. CASE kind = "balance"
      BY <2>2, <2>3, <2>5, <3>1 DEF Covers, Recorded
    <3>2. CASE kind # "balance"
      <4>1. plan'[w].take = plan[w].take /\ kind' # "balance" /\ wallet > 0
        BY <2>5, <3>2 DEF Recorded, DeductionRefused, Active
      <4>2. kind = "subscription"
        BY <3>2, RefundAssumption DEF IInv, TypeOK, RowOK
      <4>3. Returnable' => n # wallet
        BY <4>1, <4>2 DEF Returnable, Withdraw
      <4>4. n = plan[w].take \/ n = wallet
        BY <2>2, <4>1 DEF Available, Least, AtLeastZero
      <4> QED
        BY <2>2, <2>3, <4>1, <4>3, <4>4 DEF Covers
    <3> QED
      BY <3>1, <3>2
  <2>7. Accounted'
    BY <1>1, <2>6
    DEF Accounted, Refundable, HolderPCs, ChargedPCs, Covers, Returnable
  <2>8. Skipped'
    BY DEF Skipped, AlreadyDeducted
  <2> QED
    BY <2>4, <2>7, <2>8 DEF MoneyInv
<1> QED
  BY <1>2, <1>3, <1>4

\* The provider's answer moves the owner's plan along.
LEMMA CallGatewayMoney ==
  ASSUME IInv, MoneyInv, NEW w \in Workers, CallGateway(w) PROVE MoneyInv'
<1> USE DEF CallGateway, At
<1>0. \A r \in {"pending", "success", "failed"} :
         AfterAnswer(r) \in {"ok", "pending", "rollback"}
  BY DEF AfterAnswer
<1>1. \E l \in {"ok", "pending", "rollback"} : Goto(w, l)
  BY <1>0 DEF Committed, Jump
<1>2. plan[w] \in Plans /\ plan' = [plan EXCEPT ![w] = plan[w]]
  BY <1>1 DEF Goto, IInv, TypeOK, WorkOK
<1>3. UNCHANGED <<order, ledger, revoked, taken>>
  BY DEF funds
<1> QED
  <2>1. PICK l \in {"ok", "pending", "rollback"} : pc' = [pc EXCEPT ![w] = l]
    BY <1>1 DEF Goto
  <2>2. l \in PCs /\ l # "failed" /\ l \notin {"deduct", "restore"}
    BY DEF PCs
  <2>3. pc[w] \in ChargedPCs
    BY DEF ChargedPCs
  <2> HIDE DEF CallGateway
  <2> QED
    BY <1>2, <1>3, <2>1, <2>2, <2>3, MoveMoney

\* A refund that ended keeps what it took.
LEMMA MarkRefundOkMoney ==
  ASSUME IInv, MoneyInv, NEW w \in Workers, MarkRefundOk(w) PROVE MoneyInv'
<1> USE DEF MarkRefundOk, At, funds
<1>1. \A v \in Workers : pc'[v] \notin HolderPCs
  BY LeaveNoHolder DEF HolderPCs
<1>2. TakenOnce'
  BY DEF MoneyInv, TakenOnce
<1>3. status' \notin Refundable \cup {"REFUND_PENDING"}
  BY DEF RefundedStatus, Refundable, IInv, OwnerIsAlone, HolderPCs
<1> QED
  BY <1>1, <1>2, <1>3, UnheldMoney

\* The audit of a pending refund takes the owner's plan over.
LEMMA MarkRefundPendingMoney ==
  ASSUME IInv, MoneyInv, NEW w \in Workers, MarkRefundPending(w)
  PROVE  MoneyInv'
<1> USE DEF MarkRefundPending, At
<1>1. CASE Return(w)
  BY <1>1, ReturnMoney
<1>2. CASE ~Return(w)
  <2> USE <1>2 DEF funds
  <2>1. \A v \in Workers : pc'[v] \notin HolderPCs
    BY LeaveNoHolder DEF HolderPCs
  <2>2. TakenOnce'
    BY DEF MoneyInv, TakenOnce
  <2>3. /\ status' = "REFUND_PENDING" /\ detail'.take = plan[w].take
        /\ Owed(detail') = plan[w].take
        /\ AlreadyDeducted' <=> AlreadyDeducted
    BY DEF Owed, AlreadyDeducted
  <2>4. ~AlreadyDeducted => Covers(plan[w].take)
    BY DEF MoneyInv, Accounted, ChargedPCs
  <2>5. ~AlreadyDeducted => Covers(Owed(detail))'
    BY <2>3, <2>4 DEF Covers, Returnable
  <2>6. AlreadyDeducted => detail'.take = 0
    BY <2>3 DEF MoneyInv, Skipped, ChargedPCs
  <2> QED
    BY <2>1, <2>2, <2>3, <2>5, <2>6, UnheldMoney DEF Refundable
<1> QED
  BY <1>1, <1>2

\* What a rollback returns is what the owner's plan covers; a rollback that
\* fails says so in the audit.
LEMMA RollbackMoney ==
  ASSUME ~PartialFailures, IInv, MoneyInv, NEW w \in Workers, Rollback(w)
  PROVE  MoneyInv'
<1> DEFINE n == plan[w].take
<1> USE DEF Rollback, At, Goto
<1>1. /\ pc \in [Workers -> PCs] /\ n \in Nat /\ taken \in Int
      /\ \A v \in Workers \ {w} : pc[v] \notin HolderPCs
      /\ status = "REFUNDING"
  BY PlanType DEF IInv, TypeOK, FundsOK, WorkOK, OwnerIsAlone, HolderPCs
<1>2. /\ ~AlreadyDeducted => Covers(n)
      /\ AlreadyDeducted => n = 0
      /\ TakenOnce
  BY DEF MoneyInv, Accounted, Skipped, ChargedPCs
<1>3. CASE /\ Goto(w, "restore") /\ UNCHANGED audits
           /\ IF n = 0 THEN UNCHANGED funds ELSE Returnable /\ GiveBack(n)
  <2> USE <1>3 DEF order
  <2>1. ~AlreadyDeducted => taken' = 0
    BY <1>1, <1>2 DEF Covers, TakenOnce, GiveBack, funds
  <2>2. TakenOnce'
    BY <1>1, <1>2, <2>1, RefundAssumption DEF TakenOnce, funds
  <2>3. Accounted'
    BY <1>1, <2>1
    DEF Accounted, AlreadyDeducted, Refundable, HolderPCs, ChargedPCs
  <2>4. Skipped'
    BY <1>1 DEF Skipped, AlreadyDeducted, HolderPCs, ChargedPCs
  <2> QED
    BY <2>2, <2>3, <2>4 DEF MoneyInv
<1>4. CASE /\ Goto(w, "failed") /\ UNCHANGED funds
           /\ audits' = audits \cup {"REFUND_ROLLBACK_FAILED"}
  <2> USE <1>4 DEF order
  <2>1. TakenOnce'
    BY <1>2 DEF TakenOnce, funds
  <2>2. Accounted'
    BY DEF Accounted, AlreadyDeducted
  <2>3. Skipped'
    BY <1>1 DEF Skipped, HolderPCs, ChargedPCs
  <2> QED
    BY <2>1, <2>2, <2>3 DEF MoneyInv
<1> QED
  BY <1>1, <1>3, <1>4

\* The order is reopened with nothing taken.
LEMMA RestoreStatusMoney ==
  ASSUME IInv, MoneyInv, NEW w \in Workers, RestoreStatus(w) PROVE MoneyInv'
<1> USE DEF RestoreStatus, At, WriteStatus, order, ledger, funds
<1>1. \A v \in Workers : pc'[v] \notin HolderPCs
  BY LeaveNoHolder DEF HolderPCs
<1>2. TakenOnce'
  BY DEF MoneyInv, TakenOnce
<1>3. ~AlreadyDeducted => taken = 0
  BY DEF MoneyInv, Accounted
<1>4. status' # "REFUND_PENDING"
  BY DEF RestoredStatus, IInv, OwnerIsAlone, HolderPCs
<1> QED
  BY <1>1, <1>2, <1>3, <1>4, UnheldMoney DEF AlreadyDeducted

\* A refund fails this way only after its rollback did.
LEMMA MarkRefundFailedMoney ==
  ASSUME IInv, MoneyInv, NEW w \in Workers, MarkRefundFailed(w)
  PROVE  MoneyInv'
<1> USE DEF MarkRefundFailed, At, WriteStatus, order, funds
<1>1. \A v \in Workers : pc'[v] \notin HolderPCs
  BY LeaveNoHolder DEF HolderPCs
<1>2. TakenOnce'
  BY DEF MoneyInv, TakenOnce
<1>3. AlreadyDeducted'
  BY DEF MoneyInv, Accounted, AlreadyDeducted
<1>4. status' # "REFUND_PENDING"
  BY DEF IInv, OwnerIsAlone, HolderPCs
<1> QED
  BY <1>1, <1>2, <1>3, <1>4, UnheldMoney

\* A finaliser that writes its verdict finds the order held by nobody.
LEMMA ClaimNoHolder ==
  ASSUME IInv, NEW w \in Workers, Claimable, Leave(w)
  PROVE  \A v \in Workers : pc'[v] \notin HolderPCs
  BY LeaveNoHolder DEF Claimable

\* Success takes again only what an earlier version had given back.
LEMMA FinalizeOkMoney ==
  ASSUME ~PartialFailures, IInv, MoneyInv, NEW w \in Workers, FinalizeOk(w)
  PROVE  MoneyInv'
<1>1. CASE Return(w)
  BY <1>1, ReturnMoney
<1>2. CASE ~Return(w)
  <2> DEFINE n == DueAtFinal(detail)
  <2> USE <1>2 DEF FinalizeOk
  <2>1. (Withdraw(Available(n)) /\ n > 0) \/ UNCHANGED funds
    BY DEF KnownDetail
  <2>2. n \in 0..Amount /\ wallet \in Int /\ taken \in Int
    BY DetailType DEF KnownDetail, IInv, TypeOK, FundsOK
  <2>3. Available(n) \in 0..Amount
    BY <2>2, AvailableType
  <2>4. n > 0 => taken = 0
    <3>1. n > 0 => Owed(detail) = 0 /\ detail.take # 0
      BY DEF DueAtFinal, Owed
    <3> QED
      BY <2>2, <3>1 DEF Claimable, MoneyInv, Accounted, Skipped, Covers,
         TakenOnce
  <2>5. TakenOnce'
    BY <2>1, <2>2, <2>3, <2>4 DEF MoneyInv, TakenOnce, Withdraw, funds
  <2>6. status' \notin Refundable \cup {"REFUND_PENDING"}
    BY DEF RefundedStatus, Refundable
  <2> QED
    BY <2>5, <2>6, ClaimNoHolder, UnheldMoney
<1> QED
  BY <1>1, <1>2

\* Failure gives back exactly what is still held.
LEMMA FinalizeFailMoney ==
  ASSUME ~PartialFailures, IInv, MoneyInv, NEW w \in Workers, FinalizeFail(w)
  PROVE  MoneyInv'
<1>1. CASE Return(w)
  BY <1>1, ReturnMoney
<1>2. CASE ~Return(w)
  <2> DEFINE n == Owed(detail)
  <2> USE <1>2 DEF FinalizeFail, KnownDetail
  <2>1. Claimable /\ Releasable(n) /\ GiveBack(n)
    OBVIOUS
  <2>2. n \in 0..Amount /\ taken \in Int /\ kind \in {"balance", "subscription"}
    BY DetailType, RefundAssumption DEF IInv, TypeOK, RowOK, FundsOK
  <2>3. n = 0 \/ Returnable
    BY <2>1 DEF Releasable, Returnable
  <2>4. ~AlreadyDeducted => taken = n
    BY <2>1, <2>2, <2>3
    DEF Claimable, MoneyInv, Accounted, Covers, TakenOnce
  <2>5. AlreadyDeducted => n = 0
    BY <2>1 DEF Claimable, MoneyInv, Skipped, Owed
  <2>6. /\ ~AlreadyDeducted => taken' = 0
        /\ AlreadyDeducted => taken' = taken
    BY <2>1, <2>2, <2>4, <2>5 DEF GiveBack
  <2>7. TakenOnce'
    BY <2>6, RefundAssumption DEF MoneyInv, TakenOnce
  <2>8. status' = "REFUND_FAILED" /\ (AlreadyDeducted' <=> AlreadyDeducted)
    BY DEF WriteStatus, AlreadyDeducted
  <2> QED
    BY <2>1, <2>6, <2>7, <2>8, ClaimNoHolder, UnheldMoney
<1> QED
  BY <1>1, <1>2

\* Usage and the provider change nothing of it.
LEMMA EnvironmentMoney ==
  ASSUME MoneyInv, Spend \/ Settle \/ UNCHANGED vars PROVE MoneyInv'
  BY DEF Spend, Settle, vars, order, ledger, funds, control, MoneyInv, TakenOnce,
     Accounted, Skipped, AlreadyDeducted, Covers, Returnable, Owed

\* Every step preserves the money invariant.
LEMMA NextMoney ==
  ASSUME ~PartialFailures, IInv, MoneyInv, [Next]_vars PROVE MoneyInv'
<1>1. ASSUME NEW w \in Workers, WorkerStep(w) PROVE MoneyInv'
  <2>1. CASE Start(w)
    BY <2>1, StartMoney
  <2>2. CASE Crash(w)
    BY <2>2, ReturnMoney DEF Crash
  <2>3. CASE Plan(w)
    BY <2>3, RequestRefundMoney, PrepDeductMoney, LockRefundMoney DEF Plan
  <2>4. CASE Hold(w)
    BY <2>4, DeductMoney, CallGatewayMoney, MarkRefundOkMoney,
       MarkRefundPendingMoney, RollbackMoney, RestoreStatusMoney,
       MarkRefundFailedMoney DEF Hold
  <2>5. CASE QueryRefund(w)
    BY <2>5, ReturnMoney, JumpMoney DEF QueryRefund, PCs, ChargedPCs
  <2>6. CASE FinalizeOk(w) \/ FinalizeFail(w)
    BY <2>6, FinalizeOkMoney, FinalizeFailMoney
  <2> QED
    BY <1>1, <2>1, <2>2, <2>3, <2>4, <2>5, <2>6 DEF WorkerStep, Step, Finalize
<1> QED
  BY <1>1, EnvironmentMoney DEF Next, WorkerStep

-----------------------------------------------------------------------------
(* The money theorems *)

\* The money invariant holds where a statement that failed did nothing.
LEMMA SpecMoney == ASSUME ~PartialFailures PROVE Spec => []MoneyInv
<1>1. IInv /\ MoneyInv /\ [Next]_vars => MoneyInv'
  BY NextMoney
<1> QED
  BY InitMoney, SpecIInv, <1>1, PTL DEF Spec

\* However many attempts fail, crash or are repeated, refunds of an order hold
\* at most what it gave and give back at most what they took.
THEOREM NeverTakesTwice == ASSUME ~PartialFailures PROVE Spec => []TakenOnce
  BY SpecMoney, PTL DEF MoneyInv

\* An order is reopened with the user made whole, or with an audit that says
\* otherwise.
THEOREM ReopenedWhole ==
  ASSUME ~PartialFailures PROVE Spec => []OpenHoldsNothing
<1>1. MoneyInv => OpenHoldsNothing
  BY DEF MoneyInv, Accounted, OpenHoldsNothing
<1> QED
  BY <1>1, SpecMoney, PTL

\* What finalisation gives back is what was taken.
THEOREM PendingAuditIsTrue ==
  ASSUME ~PartialFailures PROVE Spec => []PendingIsRecorded
<1>1. MoneyInv => PendingIsRecorded
  BY DEF MoneyInv, Accounted, PendingIsRecorded, Covers, Returnable, Owed
<1> QED
  BY <1>1, SpecMoney, PTL

=============================================================================
