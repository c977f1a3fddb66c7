------------------------- MODULE PaymentOrderProofs -------------------------
(***************************************************************************)
(* Theorems about PaymentOrder for any number of workers and faults and    *)
(* any windows.                                                            *)
(***************************************************************************)
EXTENDS PaymentOrder, TLAPS

CreationPCs == {"invoke", "details", "invokeFail"}
ClosurePCs  == {"query", "persist", "upCancel", "close"}
PaidPCs     == {"toPaid", "already", "exec", "acquire", "reload", "lookup",
                "create", "redeem", "assign", "commitAssign", "rebate",
                "accrue", "complete", "fail"}

Delivered == IF kind = "balance" THEN credits = 1 ELSE grants = 1

\* The counters say what the unique rows say, and each kind of order uses its
\* own channel only.
Ledger ==
    /\ credits = (IF code = "used" THEN 1 ELSE 0)
    /\ grants = (IF assigned THEN 1 ELSE 0)
    /\ accrued = (IF rebate = "applied" THEN 1 ELSE 0)
    /\ kind = "balance" => ~assigned
    /\ kind # "balance" => code = "none"
    /\ rebate # "none" => Delivered

\* Before the provider holds the money nothing beyond the row exists.
Unpaid ==
    upstream # "paid" =>
        /\ ~paidAt /\ code # "used" /\ ~assigned
        /\ status \in {"PENDING", "CANCELLED", "EXPIRED", "FAILED"}

\* What position l of worker w, on job j, says about the rest of the state.
LocalOK(w, l, j) ==
    /\ l \in CreationPCs => w = Creator /\ upstream = "none"
    /\ l \in ClosurePCs => j # "webhook"
    /\ l \in PaidPCs => upstream = "paid"
    /\ l \in {"lookup", "create", "redeem"} => kind = "balance"
    /\ l \in {"assign", "commitAssign"} => kind # "balance"
    /\ l \in {"rebate", "accrue", "complete"} => Delivered
    /\ l = "complete" => rebate # "none"
    /\ l = "already" => status \notin {"PENDING", "CANCELLED"}

WorkersOK == \A w \in Workers : LocalOK(w, pc[w], job[w])

\* A COMPLETED order was delivered and its rebate decided.
Settled == status = "COMPLETED" => Delivered /\ rebate # "none"

\* The inductive invariant.
IInv == TypeOK /\ Ledger /\ Unpaid /\ PaidIsNeverClosed /\ Settled /\ WorkersOK

-----------------------------------------------------------------------------
\* The saturated age is a natural number above both windows.
LEMMA MaxAgeType == MaxAge \in Nat /\ GraceTicks < MaxAge /\ LeaseTicks < MaxAge
  BY ConstantsAssumption DEF MaxAge

\* The initial state satisfies the inductive invariant.
LEMMA InitIInv == Init => IInv
<1> SUFFICES ASSUME Init PROVE IInv
  OBVIOUS
<1>1. CountersOK
  BY MaxAgeType, ConstantsAssumption DEF Init, CountersOK
<1>2. NamesOK
  BY DEF Init, NamesOK, Status
<1>3. FlagsOK
  BY DEF Init, FlagsOK
<1>4. ControlOK
  BY DEF Init, ControlOK, PCs, Jobs
<1>5. Ledger
  BY DEF Init, Ledger
<1>6. Unpaid /\ PaidIsNeverClosed /\ Settled
  BY DEF Init, Unpaid, PaidIsNeverClosed, Settled
<1>7. WorkersOK
  BY DEF Init, WorkersOK, LocalOK, CreationPCs, ClosurePCs, PaidPCs
<1> QED
  BY <1>1, <1>2, <1>3, <1>4, <1>5, <1>6, <1>7 DEF IInv, TypeOK

-----------------------------------------------------------------------------
(* The building blocks preserve the invariant *)

\* One more fault stays within the bound; no fault changes nothing.
LEMMA FaultType ==
  ASSUME IInv, Fault \/ NoFault PROVE faults' \in 0..MaxFaults
  BY ConstantsAssumption DEF IInv, TypeOK, CountersOK, Fault, NoFault

\* A worker may move to any position whose local facts hold.
LEMMA JumpInv ==
  ASSUME IInv, NEW w \in Workers, NEW l \in PCs, Jump(w, l),
         Fault \/ NoFault, LocalOK(w, l, job[w])
  PROVE  IInv'
<1> USE DEF Jump, Goto, row, delivery, provider
<1>1. CountersOK'
  BY FaultType DEF IInv, TypeOK, CountersOK
<1>2. NamesOK' /\ FlagsOK'
  BY DEF IInv, TypeOK, NamesOK, FlagsOK
<1>3. ControlOK'
  BY DEF IInv, TypeOK, ControlOK
<1>4. Ledger' /\ Settled'
  BY DEF IInv, Ledger, Settled, Delivered
<1>5. Unpaid' /\ PaidIsNeverClosed'
  BY DEF IInv, Unpaid, PaidIsNeverClosed
<1>6. WorkersOK'
  BY DEF IInv, TypeOK, ControlOK, WorkersOK, LocalOK, Delivered
<1> QED
  BY <1>1, <1>2, <1>3, <1>4, <1>5, <1>6 DEF IInv, TypeOK

\* A handler may return from any position.
LEMMA ReturnInv ==
  ASSUME IInv, NEW w \in Workers, NEW ok \in BOOLEAN, Return(w, ok),
         Fault \/ NoFault
  PROVE  IInv'
<1> USE DEF Return, Leave, DropLease, delivery
<1>1. CountersOK'
  BY FaultType DEF IInv, TypeOK, CountersOK
<1>2. NamesOK'
  BY DEF IInv, TypeOK, NamesOK
<1>3. FlagsOK'
  BY DEF IInv, TypeOK, FlagsOK, Answer
<1>4. ControlOK'
  BY DEF IInv, TypeOK, ControlOK, PCs, Jobs
<1>5. Ledger' /\ Settled'
  BY DEF IInv, Ledger, Settled, Delivered
<1>6. Unpaid' /\ PaidIsNeverClosed'
  BY DEF IInv, Unpaid, PaidIsNeverClosed
<1>7. WorkersOK'
  BY DEF IInv, TypeOK, ControlOK, WorkersOK, LocalOK, Delivered, CreationPCs,
         ClosurePCs, PaidPCs
<1> QED
  BY <1>1, <1>2, <1>3, <1>4, <1>5, <1>6, <1>7 DEF IInv, TypeOK

\* So may one that hides the error of its last statement.
LEMMA ReturnBlindlyInv ==
  ASSUME IInv, NEW w \in Workers, ReturnBlindly(w)
  PROVE  IInv'
<1> USE DEF ReturnBlindly, Leave, DropLease, delivery
<1>1. CountersOK'
  BY FaultType DEF IInv, TypeOK, CountersOK
<1>2. NamesOK'
  BY DEF IInv, TypeOK, NamesOK
<1>3. FlagsOK'
  BY DEF IInv, TypeOK, FlagsOK, AnswerBlindly
<1>4. ControlOK'
  BY DEF IInv, TypeOK, ControlOK, PCs, Jobs
<1>5. Ledger' /\ Settled'
  BY DEF IInv, Ledger, Settled, Delivered
<1>6. Unpaid' /\ PaidIsNeverClosed'
  BY DEF IInv, Unpaid, PaidIsNeverClosed
<1>7. WorkersOK'
  BY DEF IInv, TypeOK, ControlOK, WorkersOK, LocalOK, Delivered, CreationPCs,
         ClosurePCs, PaidPCs
<1> QED
  BY <1>1, <1>2, <1>3, <1>4, <1>5, <1>6, <1>7 DEF IInv, TypeOK

\* A job may start where its handler starts.
LEMMA BeginInv ==
  ASSUME IInv, NEW w \in Workers, NEW j \in Jobs, NEW l \in PCs,
         Begin(w, j, l), LocalOK(w, l, j)
  PROVE  IInv'
<1> USE DEF Begin, NoFault, row, delivery, provider
<1>1. CountersOK'
  BY DEF IInv, TypeOK, CountersOK
<1>2. NamesOK' /\ FlagsOK'
  BY DEF IInv, TypeOK, NamesOK, FlagsOK
<1>3. ControlOK'
  BY DEF IInv, TypeOK, ControlOK
<1>4. Ledger' /\ Settled'
  BY DEF IInv, Ledger, Settled, Delivered
<1>5. Unpaid' /\ PaidIsNeverClosed'
  BY DEF IInv, Unpaid, PaidIsNeverClosed
<1>6. WorkersOK'
  BY DEF IInv, TypeOK, ControlOK, WorkersOK, LocalOK, Delivered
<1> QED
  BY <1>1, <1>2, <1>3, <1>4, <1>5, <1>6 DEF IInv, TypeOK

-----------------------------------------------------------------------------
(* The actions that write shared state *)

\* The trade number is stored in whatever status the row is.
LEMMA PersistTradeNoInv ==
  ASSUME IInv, NEW w \in Workers, PersistTradeNo(w) PROVE IInv'
<1> USE DEF PersistTradeNo, Goto, Leave, Answer, WriteRow, At, NoFault, delivery,
            provider, row, control
<1>1. CountersOK'
  BY FaultType, MaxAgeType, ConstantsAssumption DEF IInv, TypeOK, CountersOK, Fault
<1>2. NamesOK'
  BY DEF IInv, TypeOK, NamesOK, Status
<1>3. FlagsOK'
  BY DEF IInv, TypeOK, FlagsOK
<1>4. ControlOK'
  BY DEF IInv, TypeOK, ControlOK, PCs, Jobs
<1>5. Ledger' /\ Settled'
  BY DEF IInv, Ledger, Settled, Delivered, WorkersOK, LocalOK, CreationPCs,
         PaidPCs, Unpaid
<1>6. Unpaid' /\ PaidIsNeverClosed'
  BY DEF IInv, Unpaid, PaidIsNeverClosed, WorkersOK, LocalOK, CreationPCs,
         PaidPCs
<1>7. WorkersOK'
  BY DEF IInv, TypeOK, ControlOK, WorkersOK, LocalOK, Delivered, CreationPCs,
         ClosurePCs, PaidPCs, Ledger
<1> QED
  BY <1>1, <1>2, <1>3, <1>4, <1>5, <1>6, <1>7 DEF IInv, TypeOK

\* Closing the payment upstream cannot undo a payment.
LEMMA CancelUpstreamInv ==
  ASSUME IInv, NEW w \in Workers, CancelUpstream(w) PROVE IInv'
<1> USE DEF CancelUpstream, Goto, Leave, Answer, WriteRow, At, NoFault, delivery,
            provider, row, control
<1>1. CountersOK'
  BY FaultType, MaxAgeType, ConstantsAssumption DEF IInv, TypeOK, CountersOK, Fault
<1>2. NamesOK'
  BY DEF IInv, TypeOK, NamesOK, Status
<1>3. FlagsOK'
  BY DEF IInv, TypeOK, FlagsOK
<1>4. ControlOK'
  BY DEF IInv, TypeOK, ControlOK, PCs, Jobs
<1>5. Ledger' /\ Settled'
  BY DEF IInv, Ledger, Settled, Delivered, WorkersOK, LocalOK, CreationPCs,
         PaidPCs, Unpaid
<1>6. Unpaid' /\ PaidIsNeverClosed'
  BY DEF IInv, Unpaid, PaidIsNeverClosed, WorkersOK, LocalOK, CreationPCs,
         PaidPCs
<1>7. WorkersOK'
  BY DEF IInv, TypeOK, ControlOK, WorkersOK, LocalOK, Delivered, CreationPCs,
         ClosurePCs, PaidPCs, Ledger
<1> QED
  BY <1>1, <1>2, <1>3, <1>4, <1>5, <1>6, <1>7 DEF IInv, TypeOK

\* The grant is counted once, by the unique audit row.
LEMMA CommitAssignmentInv ==
  ASSUME IInv, NEW w \in Workers, CommitAssignment(w) PROVE IInv'
<1> USE DEF CommitAssignment, Goto, Leave, Answer, WriteRow, At, NoFault, delivery,
            provider, row, control
<1>1. CountersOK'
  BY FaultType, MaxAgeType, ConstantsAssumption DEF IInv, TypeOK, CountersOK, Fault
<1>2. NamesOK'
  BY DEF IInv, TypeOK, NamesOK, Status, CountersOK
<1>3. FlagsOK'
  BY DEF IInv, TypeOK, FlagsOK
<1>4. ControlOK'
  BY DEF IInv, TypeOK, ControlOK, PCs, Jobs
<1>5. Ledger' /\ Settled'
  BY DEF IInv, Ledger, Settled, Delivered, WorkersOK, LocalOK, CreationPCs,
         PaidPCs, Unpaid, CountersOK
<1>6. Unpaid' /\ PaidIsNeverClosed'
  BY DEF IInv, Unpaid, PaidIsNeverClosed, WorkersOK, LocalOK, CreationPCs,
         PaidPCs, CountersOK
<1>7. WorkersOK'
  BY DEF IInv, TypeOK, ControlOK, WorkersOK, LocalOK, Delivered, CreationPCs,
         ClosurePCs, PaidPCs, Ledger, CountersOK
<1> QED
  BY <1>1, <1>2, <1>3, <1>4, <1>5, <1>6, <1>7 DEF IInv, TypeOK

\* The rebate is accrued at most once, after the delivery.
LEMMA CommitRebateInv ==
  ASSUME IInv, NEW w \in Workers, CommitRebate(w) PROVE IInv'
<1> USE DEF CommitRebate, Goto, Leave, Answer, WriteRow, At, NoFault, delivery,
            provider, row, control
<1>1. CountersOK'
  BY FaultType, MaxAgeType, ConstantsAssumption DEF IInv, TypeOK, CountersOK, Fault
<1>2. NamesOK'
  BY DEF IInv, TypeOK, NamesOK, Status, RebateKeyTaken, CountersOK
<1>3. FlagsOK'
  BY DEF IInv, TypeOK, FlagsOK
<1>4. ControlOK'
  BY DEF IInv, TypeOK, ControlOK, PCs, Jobs
<1>5. Ledger' /\ Settled'
  BY DEF IInv, Ledger, Settled, Delivered, WorkersOK, LocalOK, CreationPCs,
         PaidPCs, Unpaid, RebateKeyTaken, CountersOK
<1>6. Unpaid' /\ PaidIsNeverClosed'
  BY DEF IInv, Unpaid, PaidIsNeverClosed, WorkersOK, LocalOK, CreationPCs,
         PaidPCs, RebateKeyTaken, CountersOK
<1>7. WorkersOK'
  BY DEF IInv, TypeOK, ControlOK, WorkersOK, LocalOK, Delivered, CreationPCs,
         ClosurePCs, PaidPCs, Ledger, RebateKeyTaken, CountersOK
<1> QED
  BY <1>1, <1>2, <1>3, <1>4, <1>5, <1>6, <1>7 DEF IInv, TypeOK

\* The payer's money arrives while no job depends on its absence.
LEMMA PayInv ==
  ASSUME IInv, Pay PROVE IInv'
<1> USE DEF Pay, Goto, Leave, Answer, WriteRow, At, NoFault, delivery,
            provider, row, control
<1>1. CountersOK'
  BY FaultType, MaxAgeType, ConstantsAssumption DEF IInv, TypeOK, CountersOK, Fault
<1>2. NamesOK'
  BY DEF IInv, TypeOK, NamesOK, Status
<1>3. FlagsOK'
  BY DEF IInv, TypeOK, FlagsOK
<1>4. ControlOK'
  BY DEF IInv, TypeOK, ControlOK, PCs, Jobs
<1>5. Ledger' /\ Settled'
  BY DEF IInv, Ledger, Settled, Delivered, WorkersOK, LocalOK, CreationPCs,
         PaidPCs, Unpaid
<1>6. Unpaid' /\ PaidIsNeverClosed'
  BY DEF IInv, Unpaid, PaidIsNeverClosed, WorkersOK, LocalOK, CreationPCs,
         PaidPCs
<1>7. WorkersOK'
  BY DEF IInv, TypeOK, ControlOK, WorkersOK, LocalOK, Delivered, CreationPCs,
         ClosurePCs, PaidPCs, Ledger
<1> QED
  BY <1>1, <1>2, <1>3, <1>4, <1>5, <1>6, <1>7 DEF IInv, TypeOK

\* Time touches the age of the row only.
LEMMA TickInv ==
  ASSUME IInv, Tick PROVE IInv'
<1> USE DEF Tick, Goto, Leave, Answer, WriteRow, At, NoFault, delivery,
            provider, row, control
<1>1. CountersOK'
  BY FaultType, MaxAgeType, ConstantsAssumption DEF IInv, TypeOK, CountersOK, Fault
<1>2. NamesOK'
  BY DEF IInv, TypeOK, NamesOK, Status, Overrun
<1>3. FlagsOK'
  BY DEF IInv, TypeOK, FlagsOK
<1>4. ControlOK'
  BY DEF IInv, TypeOK, ControlOK, PCs, Jobs
<1>5. Ledger' /\ Settled'
  BY DEF IInv, Ledger, Settled, Delivered, WorkersOK, LocalOK, CreationPCs,
         PaidPCs, Unpaid, Overrun
<1>6. Unpaid' /\ PaidIsNeverClosed'
  BY DEF IInv, Unpaid, PaidIsNeverClosed, WorkersOK, LocalOK, CreationPCs,
         PaidPCs, Overrun
<1>7. WorkersOK'
  BY DEF IInv, TypeOK, ControlOK, WorkersOK, LocalOK, Delivered, CreationPCs,
         ClosurePCs, PaidPCs, Ledger, Overrun
<1> QED
  BY <1>1, <1>2, <1>3, <1>4, <1>5, <1>6, <1>7 DEF IInv, TypeOK

\* The deadline touches nothing else.
LEMMA DeadlineInv ==
  ASSUME IInv, Deadline PROVE IInv'
<1> USE DEF Deadline, Goto, Leave, Answer, WriteRow, At, NoFault, delivery,
            provider, row, control
<1>1. CountersOK'
  BY FaultType, MaxAgeType, ConstantsAssumption DEF IInv, TypeOK, CountersOK, Fault
<1>2. NamesOK'
  BY DEF IInv, TypeOK, NamesOK, Status
<1>3. FlagsOK'
  BY DEF IInv, TypeOK, FlagsOK
<1>4. ControlOK'
  BY DEF IInv, TypeOK, ControlOK, PCs, Jobs
<1>5. Ledger' /\ Settled'
  BY DEF IInv, Ledger, Settled, Delivered, WorkersOK, LocalOK, CreationPCs,
         PaidPCs, Unpaid
<1>6. Unpaid' /\ PaidIsNeverClosed'
  BY DEF IInv, Unpaid, PaidIsNeverClosed, WorkersOK, LocalOK, CreationPCs,
         PaidPCs
<1>7. WorkersOK'
  BY DEF IInv, TypeOK, ControlOK, WorkersOK, LocalOK, Delivered, CreationPCs,
         ClosurePCs, PaidPCs, Ledger
<1> QED
  BY <1>1, <1>2, <1>3, <1>4, <1>5, <1>6, <1>7 DEF IInv, TypeOK

\* Only a PENDING order is closed, so a recorded payment stays.
LEMMA CloseOrderInv ==
  ASSUME IInv, NEW w \in Workers, CloseOrder(w) PROVE IInv'
<1>1. CASE ~(Closable)
  BY <1>1, ReturnInv DEF CloseOrder
<1>2. CASE Closable
  <2> USE <1>2 DEF CloseOrder, Goto, Leave, Answer, WriteRow, At, NoFault, delivery,
              provider, row, control
  <2>1. CountersOK'
    BY FaultType, MaxAgeType, ConstantsAssumption
    DEF IInv, TypeOK, CountersOK, Fault
  <2>2. NamesOK'
    BY DEF IInv, TypeOK, NamesOK, Status, Closable, ClosedStatus
  <2>3. FlagsOK'
    BY DEF IInv, TypeOK, FlagsOK
  <2>4. ControlOK'
    BY DEF IInv, TypeOK, ControlOK, PCs, Jobs
  <2>5. Ledger' /\ Settled'
    BY DEF IInv, CountersOK, Ledger, Settled, Delivered, WorkersOK, LocalOK,
           CreationPCs, PaidPCs, Unpaid, Closable, ClosedStatus
  <2>6. Unpaid' /\ PaidIsNeverClosed'
    BY DEF IInv, Unpaid, PaidIsNeverClosed, WorkersOK, LocalOK, CreationPCs,
           PaidPCs, Closable, ClosedStatus
  <2>7. WorkersOK'
    BY DEF IInv, TypeOK, NamesOK, ControlOK, WorkersOK, LocalOK, Delivered, CreationPCs,
           ClosurePCs, PaidPCs, Ledger, Closable, ClosedStatus
  <2> QED
    BY <2>1, <2>2, <2>3, <2>4, <2>5, <2>6, <2>7 DEF IInv, TypeOK
<1> QED
  BY <1>1, <1>2

\* The payment is recorded while the provider holds the money.
LEMMA ToPaidInv ==
  ASSUME IInv, NEW w \in Workers, ToPaid(w) PROVE IInv'
<1>1. CASE ~(Payable)
  <2>1. LocalOK(w, "already", job[w])
    BY <1>1 DEF ToPaid, At, IInv, WorkersOK, LocalOK, CreationPCs, ClosurePCs, PaidPCs, Payable, NamesOK, TypeOK
  <2> QED
    BY <1>1, <2>1, JumpInv DEF ToPaid, PCs, Payable, NamesOK, TypeOK
<1>2. CASE Payable
  <2> USE <1>2 DEF ToPaid, Goto, Leave, Answer, WriteRow, At, NoFault, delivery,
              provider, row, control
  <2>1. CountersOK'
    BY FaultType, MaxAgeType, ConstantsAssumption
    DEF IInv, TypeOK, CountersOK, Fault
  <2>2. NamesOK'
    BY DEF IInv, TypeOK, NamesOK, Status, Payable
  <2>3. FlagsOK'
    BY DEF IInv, TypeOK, FlagsOK
  <2>4. ControlOK'
    BY DEF IInv, TypeOK, ControlOK, PCs, Jobs
  <2>5. Ledger' /\ Settled'
    BY DEF IInv, CountersOK, Ledger, Settled, Delivered, WorkersOK, LocalOK,
           CreationPCs, PaidPCs, Unpaid, Payable
  <2>6. Unpaid' /\ PaidIsNeverClosed'
    BY DEF IInv, Unpaid, PaidIsNeverClosed, WorkersOK, LocalOK, CreationPCs,
           PaidPCs, Payable
  <2>7. WorkersOK'
    BY DEF IInv, TypeOK, NamesOK, ControlOK, WorkersOK, LocalOK, Delivered, CreationPCs,
           ClosurePCs, PaidPCs, Ledger, Payable
  <2> QED
    BY <2>1, <2>2, <2>3, <2>4, <2>5, <2>6, <2>7 DEF IInv, TypeOK
<1> QED
  BY <1>1, <1>2

\* Only a paid or failed delivery is leased.
LEMMA AcquireLeaseInv ==
  ASSUME IInv, NEW w \in Workers, AcquireLease(w) PROVE IInv'
<1>1. CASE ~(Leasable)
  BY <1>1, ReturnInv DEF AcquireLease
<1>2. CASE Leasable
  <2> USE <1>2 DEF AcquireLease, Goto, Leave, Answer, WriteRow, At, NoFault, delivery,
              provider, row, control
  <2>1. CountersOK'
    BY FaultType, MaxAgeType, ConstantsAssumption
    DEF IInv, TypeOK, CountersOK, Fault
  <2>2. NamesOK'
    BY DEF IInv, TypeOK, NamesOK, Status, Leasable
  <2>3. FlagsOK'
    BY DEF IInv, TypeOK, FlagsOK
  <2>4. ControlOK'
    BY DEF IInv, TypeOK, ControlOK, PCs, Jobs
  <2>5. Ledger' /\ Settled'
    BY DEF IInv, CountersOK, Ledger, Settled, Delivered, WorkersOK, LocalOK,
           CreationPCs, PaidPCs, Unpaid, Leasable
  <2>6. Unpaid' /\ PaidIsNeverClosed'
    BY DEF IInv, Unpaid, PaidIsNeverClosed, WorkersOK, LocalOK, CreationPCs,
           PaidPCs, Leasable
  <2>7. WorkersOK'
    BY DEF IInv, TypeOK, NamesOK, ControlOK, WorkersOK, LocalOK, Delivered, CreationPCs,
           ClosurePCs, PaidPCs, Ledger, Leasable
  <2> QED
    BY <2>1, <2>2, <2>3, <2>4, <2>5, <2>6, <2>7 DEF IInv, TypeOK
<1> QED
  BY <1>1, <1>2

\* The version that is read back adds a holder.
LEMMA ReloadLeaseInv ==
  ASSUME IInv, NEW w \in Workers, ReloadLease(w) PROVE IInv'
<1>1. CASE ~(status = "RECHARGING")
  BY <1>1, ReturnInv DEF ReloadLease
<1>2. CASE status = "RECHARGING"
  <2> USE <1>2 DEF ReloadLease, Goto, Leave, Answer, WriteRow, At, NoFault, delivery,
              provider, row, control
  <2>1. CountersOK'
    BY FaultType, MaxAgeType, ConstantsAssumption
    DEF IInv, TypeOK, CountersOK, Fault
  <2>2. NamesOK'
    BY DEF IInv, TypeOK, NamesOK, Status
  <2>3. FlagsOK'
    BY DEF IInv, TypeOK, FlagsOK
  <2>4. ControlOK'
    BY DEF IInv, TypeOK, ControlOK, PCs, Jobs
  <2>5. Ledger' /\ Settled'
    BY DEF IInv, CountersOK, Ledger, Settled, Delivered, WorkersOK, LocalOK,
           CreationPCs, PaidPCs, Unpaid
  <2>6. Unpaid' /\ PaidIsNeverClosed'
    BY DEF IInv, Unpaid, PaidIsNeverClosed, WorkersOK, LocalOK, CreationPCs,
           PaidPCs
  <2>7. WorkersOK'
    BY DEF IInv, TypeOK, NamesOK, ControlOK, WorkersOK, LocalOK, Delivered, CreationPCs,
           ClosurePCs, PaidPCs, Ledger
  <2> QED
    BY <2>1, <2>2, <2>3, <2>4, <2>5, <2>6, <2>7 DEF IInv, TypeOK
<1> QED
  BY <1>1, <1>2

\* A code is created once.
LEMMA CreateCodeInv ==
  ASSUME IInv, NEW w \in Workers, CreateCode(w) PROVE IInv'
<1>1. CASE ~(code = "none")
  <2>1. LocalOK(w, "fail", job[w])
    BY <1>1 DEF CreateCode, At, IInv, WorkersOK, LocalOK, CreationPCs, ClosurePCs, PaidPCs
  <2> QED
    BY <1>1, <2>1, JumpInv DEF CreateCode, PCs
<1>2. CASE code = "none"
  <2> USE <1>2 DEF CreateCode, Goto, Leave, Answer, WriteRow, At, NoFault, delivery,
              provider, row, control
  <2>1. CountersOK'
    BY FaultType, MaxAgeType, ConstantsAssumption
    DEF IInv, TypeOK, CountersOK, Fault
  <2>2. NamesOK'
    BY DEF IInv, TypeOK, NamesOK, Status
  <2>3. FlagsOK'
    BY DEF IInv, TypeOK, FlagsOK
  <2>4. ControlOK'
    BY DEF IInv, TypeOK, ControlOK, PCs, Jobs
  <2>5. Ledger' /\ Settled'
    BY DEF IInv, CountersOK, Ledger, Settled, Delivered, WorkersOK, LocalOK,
           CreationPCs, PaidPCs, Unpaid
  <2>6. Unpaid' /\ PaidIsNeverClosed'
    BY DEF IInv, Unpaid, PaidIsNeverClosed, WorkersOK, LocalOK, CreationPCs,
           PaidPCs
  <2>7. WorkersOK'
    BY DEF IInv, TypeOK, NamesOK, ControlOK, WorkersOK, LocalOK, Delivered, CreationPCs,
           ClosurePCs, PaidPCs, Ledger
  <2> QED
    BY <2>1, <2>2, <2>3, <2>4, <2>5, <2>6, <2>7 DEF IInv, TypeOK
<1> QED
  BY <1>1, <1>2

\* The code pays once, into a balance order.
LEMMA RedeemCodeInv ==
  ASSUME IInv, NEW w \in Workers, RedeemCode(w) PROVE IInv'
<1>1. CASE ~(Redeemable)
  <2>1. LocalOK(w, "fail", job[w])
    BY <1>1 DEF RedeemCode, At, IInv, WorkersOK, LocalOK, CreationPCs, ClosurePCs, PaidPCs
  <2> QED
    BY <1>1, <2>1, JumpInv DEF RedeemCode, PCs
<1>2. CASE Redeemable
  <2> USE <1>2 DEF RedeemCode, Goto, Leave, Answer, WriteRow, At, NoFault, delivery,
              provider, row, control
  <2>1. CountersOK'
    BY FaultType, MaxAgeType, ConstantsAssumption
    DEF IInv, TypeOK, CountersOK, Fault
  <2>2. NamesOK'
    BY DEF IInv, TypeOK, NamesOK, Status, Redeemable
  <2>3. FlagsOK'
    BY DEF IInv, TypeOK, FlagsOK
  <2>4. ControlOK'
    BY DEF IInv, TypeOK, ControlOK, PCs, Jobs
  <2>5. Ledger' /\ Settled'
    BY DEF IInv, CountersOK, Ledger, Settled, Delivered, WorkersOK, LocalOK,
           CreationPCs, PaidPCs, Unpaid, Redeemable
  <2>6. Unpaid' /\ PaidIsNeverClosed'
    BY DEF IInv, Unpaid, PaidIsNeverClosed, WorkersOK, LocalOK, CreationPCs,
           PaidPCs, Redeemable
  <2>7. WorkersOK'
    BY DEF IInv, TypeOK, NamesOK, ControlOK, WorkersOK, LocalOK, Delivered, CreationPCs,
           ClosurePCs, PaidPCs, Ledger, Redeemable
  <2> QED
    BY <2>1, <2>2, <2>3, <2>4, <2>5, <2>6, <2>7 DEF IInv, TypeOK
<1> QED
  BY <1>1, <1>2

\* Completion follows delivery and the rebate's decision.
LEMMA MarkCompletedInv ==
  ASSUME IInv, NEW w \in Workers, MarkCompleted(w) PROVE IInv'
<1>1. CASE ~(HoldsLease(w))
  <2>1. CASE status = "COMPLETED"
    BY <1>1, <2>1, ReturnInv DEF MarkCompleted
  <2>2. CASE status # "COMPLETED"
    <3>1. LocalOK(w, "fail", job[w])
      BY DEF MarkCompleted, At, IInv, WorkersOK, LocalOK, CreationPCs, ClosurePCs, PaidPCs
    <3> QED
      BY <1>1, <2>2, <3>1, JumpInv DEF MarkCompleted, PCs
  <2> QED
    BY <2>1, <2>2
<1>2. CASE HoldsLease(w)
  <2> USE <1>2 DEF MarkCompleted, Goto, Leave, Answer, WriteRow, At, NoFault, delivery,
              provider, row, control
  <2>1. CountersOK'
    BY FaultType, MaxAgeType, ConstantsAssumption
    DEF IInv, TypeOK, CountersOK, Fault
  <2>2. NamesOK'
    BY DEF IInv, TypeOK, NamesOK, Status, HoldsLease
  <2>3. FlagsOK'
    BY DEF IInv, TypeOK, FlagsOK
  <2>4. ControlOK'
    BY DEF IInv, TypeOK, ControlOK, PCs, Jobs
  <2>5. Ledger' /\ Settled'
    BY DEF IInv, CountersOK, Ledger, Settled, Delivered, WorkersOK, LocalOK,
           CreationPCs, PaidPCs, Unpaid, HoldsLease
  <2>6. Unpaid' /\ PaidIsNeverClosed'
    BY DEF IInv, Unpaid, PaidIsNeverClosed, WorkersOK, LocalOK, CreationPCs,
           PaidPCs, HoldsLease
  <2>7. WorkersOK'
    BY DEF IInv, TypeOK, NamesOK, ControlOK, WorkersOK, LocalOK, Delivered, CreationPCs,
           ClosurePCs, PaidPCs, Ledger, HoldsLease
  <2> QED
    BY <2>1, <2>2, <2>3, <2>4, <2>5, <2>6, <2>7 DEF IInv, TypeOK
<1> QED
  BY <1>1, <1>2

\* Failure leaves what was delivered in place.
LEMMA MarkFailedInv ==
  ASSUME IInv, NEW w \in Workers, MarkFailed(w) PROVE IInv'
<1>1. CASE ~(HoldsLease(w))
  BY <1>1, ReturnInv DEF MarkFailed
<1>2. CASE HoldsLease(w)
  <2> USE <1>2 DEF MarkFailed, Goto, Leave, Answer, WriteRow, At, NoFault, delivery,
              provider, row, control
  <2>1. CountersOK'
    BY FaultType, MaxAgeType, ConstantsAssumption
    DEF IInv, TypeOK, CountersOK, Fault
  <2>2. NamesOK'
    BY DEF IInv, TypeOK, NamesOK, Status, HoldsLease
  <2>3. FlagsOK'
    BY DEF IInv, TypeOK, FlagsOK
  <2>4. ControlOK'
    BY DEF IInv, TypeOK, ControlOK, PCs, Jobs
  <2>5. Ledger' /\ Settled'
    BY DEF IInv, CountersOK, Ledger, Settled, Delivered, WorkersOK, LocalOK,
           CreationPCs, PaidPCs, Unpaid, HoldsLease
  <2>6. Unpaid' /\ PaidIsNeverClosed'
    BY DEF IInv, Unpaid, PaidIsNeverClosed, WorkersOK, LocalOK, CreationPCs,
           PaidPCs, HoldsLease
  <2>7. WorkersOK'
    BY DEF IInv, TypeOK, NamesOK, ControlOK, WorkersOK, LocalOK, Delivered, CreationPCs,
           ClosurePCs, PaidPCs, Ledger, HoldsLease
  <2> QED
    BY <2>1, <2>2, <2>3, <2>4, <2>5, <2>6, <2>7 DEF IInv, TypeOK
<1> QED
  BY <1>1, <1>2

\* Saving the payment details opens the payment for the first time.
LEMMA SavePaymentDetailsInv ==
  ASSUME IInv, NEW w \in Workers, SavePaymentDetails(w) PROVE IInv'
<1>1. CASE Jump(w, "invokeFail") /\ Fault
  <2>1. LocalOK(w, "invokeFail", job[w])
    BY DEF SavePaymentDetails, At, IInv, WorkersOK, LocalOK, CreationPCs,
           ClosurePCs, PaidPCs
  <2> QED
    BY <1>1, <2>1, JumpInv DEF PCs
<1>2. CASE /\ WriteRow(status) /\ Leave(w) /\ upstream' = "open" /\ NoFault
           /\ UNCHANGED <<tradeNo, paidAt, kind, due, delivery, lateAudit,
                          acked, blind>>
  <2> USE <1>2 DEF SavePaymentDetails, At, WriteRow, Leave, NoFault, delivery
  <2>1. CountersOK'
    BY FaultType, MaxAgeType, ConstantsAssumption DEF IInv, TypeOK, CountersOK
  <2>2. NamesOK'
    BY DEF IInv, TypeOK, NamesOK, Status
  <2>3. FlagsOK'
    BY DEF IInv, TypeOK, FlagsOK, Answer
  <2>4. ControlOK'
    BY DEF IInv, TypeOK, ControlOK, PCs, Jobs
  <2>5. Ledger' /\ Settled'
    BY DEF IInv, Ledger, Settled, Delivered
  <2>6. Unpaid' /\ PaidIsNeverClosed'
    BY DEF IInv, Unpaid, PaidIsNeverClosed, WorkersOK, LocalOK, CreationPCs
  <2>7. WorkersOK'
    BY DEF IInv, TypeOK, ControlOK, WorkersOK, LocalOK, Delivered,
           CreationPCs, ClosurePCs, PaidPCs
  <2> QED
    BY <2>1, <2>2, <2>3, <2>4, <2>5, <2>6, <2>7 DEF IInv, TypeOK
<1> QED
  BY <1>1, <1>2 DEF SavePaymentDetails

\* The creation error path runs before the payment is open, so what it fails
\* was never paid.
LEMMA FailCreateInv ==
  ASSUME IInv, NEW w \in Workers, FailCreate(w) PROVE IInv'
<1> USE DEF FailCreate, At, WriteRow, Leave, NoFault, delivery, provider
<1>1. CountersOK'
  BY FaultType, MaxAgeType, ConstantsAssumption DEF IInv, TypeOK, CountersOK
<1>2. NamesOK'
  BY DEF IInv, TypeOK, NamesOK, Status
<1>3. FlagsOK'
  BY DEF IInv, TypeOK, FlagsOK, Answer
<1>4. ControlOK'
  BY DEF IInv, TypeOK, ControlOK, PCs, Jobs
<1>5. Ledger' /\ Settled'
  BY DEF IInv, Ledger, Settled, Delivered
<1>6. Unpaid' /\ PaidIsNeverClosed'
  BY DEF IInv, Unpaid, PaidIsNeverClosed, WorkersOK, LocalOK, CreationPCs
<1>7. WorkersOK'
  BY DEF IInv, TypeOK, ControlOK, WorkersOK, LocalOK, Delivered,
         CreationPCs, ClosurePCs, PaidPCs
<1> QED
  BY <1>1, <1>2, <1>3, <1>4, <1>5, <1>6, <1>7 DEF IInv, TypeOK

\* A payment that came too late is only audited.
LEMMA AlreadyProcessedInv ==
  ASSUME IInv, NEW w \in Workers, AlreadyProcessed(w) PROVE IInv'
<1>1. CASE Fulfillable /\ Jump(w, "exec") /\ NoFault
  <2>1. LocalOK(w, "exec", job[w])
    BY DEF AlreadyProcessed, At, IInv, WorkersOK, LocalOK, CreationPCs,
           ClosurePCs, PaidPCs
  <2> QED
    BY <1>1, <2>1, JumpInv DEF PCs
<1>2. CASE /\ status = "EXPIRED" /\ lateAudit' = TRUE
           /\ Leave(w) /\ Answer(w, TRUE) /\ DropLease(w) /\ NoFault
           /\ UNCHANGED <<tradeNo, paidAt, kind, due, delivery, upstream>>
  <2> USE <1>2 DEF AlreadyProcessed, At, DropLease, Leave, NoFault, delivery
  <2>1. CountersOK'
    BY FaultType, MaxAgeType, ConstantsAssumption DEF IInv, TypeOK, CountersOK
  <2>2. NamesOK'
    BY DEF IInv, TypeOK, NamesOK, Status
  <2>3. FlagsOK'
    BY DEF IInv, TypeOK, FlagsOK, Answer
  <2>4. ControlOK'
    BY DEF IInv, TypeOK, ControlOK, PCs, Jobs
  <2>5. Ledger' /\ Settled'
    BY DEF IInv, Ledger, Settled, Delivered
  <2>6. Unpaid' /\ PaidIsNeverClosed'
    BY DEF IInv, Unpaid, PaidIsNeverClosed, WorkersOK, LocalOK, CreationPCs
  <2>7. WorkersOK'
    BY DEF IInv, TypeOK, ControlOK, WorkersOK, LocalOK, Delivered,
           CreationPCs, ClosurePCs, PaidPCs
  <2> QED
    BY <2>1, <2>2, <2>3, <2>4, <2>5, <2>6, <2>7 DEF IInv, TypeOK
<1>3. CASE Return(w, TRUE) /\ NoFault
  BY <1>3, ReturnInv
<1>4. CASE ReturnBlindly(w)
  BY <1>4, ReturnBlindlyInv
<1> QED
  BY <1>1, <1>2, <1>3, <1>4 DEF AlreadyProcessed

-----------------------------------------------------------------------------
(* Every step *)

\* A job starts where the rest of the state allows it: a webhook or a retry
\* only once the provider holds the money.
LEMMA StartInv ==
  ASSUME IInv, NEW w \in Workers, Start(w) PROVE IInv'
<1> USE DEF LocalOK, CreationPCs, ClosurePCs, PaidPCs, PCs, Jobs
<1>1. CASE StartWebhook(w)
  BY <1>1, BeginInv DEF StartWebhook
<1>2. CASE StartCancel(w)
  BY <1>2, BeginInv DEF StartCancel
<1>3. CASE StartExpire(w)
  BY <1>3, BeginInv DEF StartExpire
<1>4. CASE StartVerify(w)
  BY <1>4, BeginInv DEF StartVerify
<1>5. CASE StartRetry(w)
  <2>1. upstream = "paid"
    BY <1>5 DEF StartRetry, Retryable, IInv, Unpaid
  <2> QED
    BY <1>5, <2>1, BeginInv DEF StartRetry
<1> QED
  BY <1>1, <1>2, <1>3, <1>4, <1>5 DEF Start

\* The actions of CreateOrder after the insert.
LEMMA CreationInv ==
  ASSUME IInv, NEW w \in Workers, Creation(w) PROVE IInv'
<1>1. CASE InvokeProvider(w)
  <2>1. LocalOK(w, "details", job[w]) /\ LocalOK(w, "invokeFail", job[w])
    BY <1>1 DEF InvokeProvider, At, IInv, WorkersOK, LocalOK, CreationPCs,
           ClosurePCs, PaidPCs
  <2> QED
    BY <1>1, <2>1, JumpInv DEF InvokeProvider, PCs
<1> QED
  BY <1>1, SavePaymentDetailsInv, FailCreateInv DEF Creation

\* The actions of a cancellation, an expiry or a verification.
LEMMA ClosureInv ==
  ASSUME IInv, NEW w \in Workers, Closure(w) PROVE IInv'
<1>1. CASE QueryUpstream(w)
  <2>1. /\ LocalOK(w, "confirm", job[w]) /\ LocalOK(w, "persist", job[w])
        /\ LocalOK(w, "upCancel", job[w]) /\ LocalOK(w, "close", job[w])
    BY <1>1 DEF QueryUpstream, At, IInv, WorkersOK, LocalOK, CreationPCs,
           ClosurePCs, PaidPCs
  <2>2. CASE \E l \in {"confirm", "persist", "upCancel", "close"} : Jump(w, l)
    BY <1>1, <2>1, <2>2, JumpInv DEF QueryUpstream, PCs
  <2>3. CASE Return(w, TRUE)
    BY <1>1, <2>3, ReturnInv DEF QueryUpstream
  <2> QED
    BY <1>1, <2>2, <2>3 DEF QueryUpstream, AfterUnpaid
<1> QED
  BY <1>1, PersistTradeNoInv, CancelUpstreamInv, CloseOrderInv DEF Closure

\* The actions of HandlePaymentNotification.
LEMMA NotificationInv ==
  ASSUME IInv, NEW w \in Workers, Notification(w) PROVE IInv'
<1>1. CASE Confirm(w)
  <2>1. CASE upstream = "paid" /\ Jump(w, "toPaid") /\ NoFault
    <3>1. LocalOK(w, "toPaid", job[w])
      BY <2>1 DEF LocalOK, CreationPCs, ClosurePCs, PaidPCs
    <3> QED
      BY <2>1, <3>1, JumpInv DEF PCs
  <2>2. CASE Return(w, FALSE) /\ NoFault
    BY <2>2, ReturnInv
  <2>3. CASE ReturnBlindly(w)
    BY <2>3, ReturnBlindlyInv
  <2> QED
    BY <1>1, <2>1, <2>2, <2>3 DEF Confirm
<1> QED
  BY <1>1, ToPaidInv, AlreadyProcessedInv DEF Notification

\* The actions that take the lease.
LEMMA LeaseInv ==
  ASSUME IInv, NEW w \in Workers, Lease(w) PROVE IInv'
<1>1. CASE ExecuteFulfillment(w)
  <2>1. LocalOK(w, "acquire", job[w])
    BY <1>1 DEF ExecuteFulfillment, At, IInv, WorkersOK, LocalOK,
           CreationPCs, ClosurePCs, PaidPCs
  <2> QED
    BY <1>1, <2>1, JumpInv, ReturnInv DEF ExecuteFulfillment, PCs
<1> QED
  BY <1>1, AcquireLeaseInv, ReloadLeaseInv DEF Lease

\* The actions that deliver: a redeemed code or an assigned subscription is
\* what lets a worker on to the rebate, a decided rebate to the verdict.
LEMMA DeliveryInv ==
  ASSUME IInv, NEW w \in Workers, Delivery(w) PROVE IInv'
<1>1. CASE LookupCode(w)
  <2>1. LocalOK(w, RedeemAction, job[w]) /\ RedeemAction \in PCs
    BY <1>1 DEF LookupCode, At, IInv, TypeOK, NamesOK, WorkersOK, LocalOK,
           CreationPCs, ClosurePCs, PaidPCs, RedeemAction, Ledger, Delivered,
           PCs
  <2> QED
    BY <1>1, <2>1, JumpInv DEF LookupCode
<1>2. CASE CheckAssigned(w)
  <2>1. LocalOK(w, "commitAssign", job[w])
    BY <1>2 DEF CheckAssigned, At, IInv, WorkersOK, LocalOK, CreationPCs,
           ClosurePCs, PaidPCs
  <2>2. assigned => LocalOK(w, "rebate", job[w])
    BY <1>2 DEF CheckAssigned, At, IInv, WorkersOK, LocalOK, CreationPCs,
           ClosurePCs, PaidPCs, Ledger, Delivered
  <2> QED
    BY <1>2, <2>1, <2>2, JumpInv DEF CheckAssigned, PCs
<1>3. CASE ClaimRebate(w)
  <2>1. /\ LocalOK(w, "accrue", job[w])
        /\ rebate # "none" => LocalOK(w, "complete", job[w])
    BY <1>3 DEF ClaimRebate, At, IInv, WorkersOK, LocalOK, CreationPCs,
           ClosurePCs, PaidPCs
  <2> QED
    BY <1>3, <2>1, JumpInv DEF ClaimRebate, PCs
<1> QED
  BY <1>1, <1>2, <1>3, CreateCodeInv, RedeemCodeInv, CommitAssignmentInv,
     CommitRebateInv DEF Delivery

\* A failing statement sends the worker to markFailed.
LEMMA StepFailsInv ==
  ASSUME IInv, NEW w \in Workers, StepFails(w) PROVE IInv'
<1>1. LocalOK(w, "fail", job[w])
  BY DEF StepFails, IInv, WorkersOK, LocalOK, CreationPCs, ClosurePCs, PaidPCs
<1> QED
  BY <1>1, JumpInv DEF StepFails, PCs

\* No step, fault or passing of time leaves the inductive invariant.
LEMMA NextInv == IInv /\ [Next]_vars => IInv'
<1> SUFFICES ASSUME IInv, [Next]_vars PROVE IInv'
  OBVIOUS
<1>1. CASE UNCHANGED vars
  BY <1>1 DEF vars, row, delivery, provider, control, IInv, TypeOK,
     CountersOK, NamesOK, FlagsOK, ControlOK, Ledger, Unpaid,
     PaidIsNeverClosed, Settled, WorkersOK, LocalOK, Delivered
<1>2. CASE \E w \in Workers : Start(w)
  BY <1>2, StartInv
<1>3. CASE \E w \in Workers : Step(w)
  BY <1>3, CreationInv, ClosureInv, NotificationInv, LeaseInv, DeliveryInv,
     MarkCompletedInv, MarkFailedInv DEF Step, Verdict
<1>4. CASE \E w \in Workers : StepFails(w)
  BY <1>4, StepFailsInv
<1>5. CASE \E w \in Workers : Crash(w)
  BY <1>5, ReturnInv DEF Crash
<1>6. CASE Pay \/ Tick \/ Deadline
  BY <1>6, PayInv, TickInv, DeadlineInv
<1> QED
  BY <1>1, <1>2, <1>3, <1>4, <1>5, <1>6 DEF Next

\* The invariant holds in every reachable state.
LEMMA SpecIInv == Spec => []IInv
<1> QED
  BY InitIInv, NextInv, PTL DEF Spec

-----------------------------------------------------------------------------
(* Safety theorems *)

\* The row, the ledgers and every worker keep to the states the code names.
THEOREM TypeCorrect == Spec => []TypeOK
<1>1. IInv => TypeOK
  BY DEF IInv
<1> QED
  BY <1>1, SpecIInv, PTL

\* No interleaving of webhooks, retries, stale leases and crashes delivers an
\* order or pays its rebate twice (redeem-code CAS, unique audit rows).
THEOREM DeliveryIsOnce == Spec => []DeliveredOnce
<1>1. IInv => DeliveredOnce
  BY DEF IInv, Ledger, DeliveredOnce
<1> QED
  BY <1>1, SpecIInv, PTL

\* markCompleted is reached only behind the delivery and the rebate decision.
THEOREM CompletionIsDelivery == Spec => []CompletedIsDelivered
<1>1. IInv => CompletedIsDelivered
  BY DEF IInv, Settled, Delivered, CompletedIsDelivered
<1> QED
  BY <1>1, SpecIInv, PTL

\* Nothing is delivered for an order whose money the provider does not hold,
\* failed creations and administrators' retries included.
THEOREM DeliveryIsPaid == Spec => []DeliveredOnlyIfPaid
<1>1. IInv => DeliveredOnlyIfPaid
  BY DEF IInv, Ledger, Unpaid, DeliveredOnlyIfPaid
<1> QED
  BY <1>1, SpecIInv, PTL

\* A cancellation or sweep never closes an order whose payment was recorded.
THEOREM PaidStaysOpen == Spec => []PaidIsNeverClosed
<1>1. IInv => PaidIsNeverClosed
  BY DEF IInv
<1> QED
  BY <1>1, SpecIInv, PTL

-----------------------------------------------------------------------------
(* What a step does: completion is final, the promise is kept *)

\* A step keeps a COMPLETED order COMPLETED and is a step of the promise.
StepOK ==
    /\ status = "COMPLETED" => status' = "COMPLETED"
    /\ [Promise!Next]_(Promise!vars)

\* A step that leaves status, payment and ledgers alone.
Quiet == UNCHANGED <<status, upstream, credits, grants, rebate>>

\* Such a step is one of the promise's stutters.
LEMMA QuietIsOK == Quiet => StepOK
  BY DEF Quiet, StepOK, Promise!vars

\* Moving, returning and beginning are quiet.
LEMMA ControlIsQuiet ==
  ASSUME NEW w \in Workers, NEW l, NEW j, NEW ok,
         Jump(w, l) \/ Return(w, ok) \/ ReturnBlindly(w) \/ Begin(w, j, l)
  PROVE  Quiet
  BY DEF Jump, Return, ReturnBlindly, Begin, DropLease, Quiet, row, delivery, provider

\* The creating request and the closing jobs write only rows that were not
\* completed, and nothing of the delivery.
LEMMA ClosureIsOK ==
  ASSUME IInv, NEW w \in Workers, Creation(w) \/ Closure(w) PROVE StepOK
<1> USE DEF StepOK, Promise!vars, WriteRow, delivery, provider, row
<1>1. CASE InvokeProvider(w) \/ QueryUpstream(w)
  BY <1>1, ControlIsQuiet, QuietIsOK
  DEF InvokeProvider, QueryUpstream, AfterUnpaid
<1>2. CASE SavePaymentDetails(w)
  <2>1. upstream = "none"
    BY <1>2 DEF SavePaymentDetails, At, IInv, WorkersOK, LocalOK, CreationPCs
  <2>2. CASE Jump(w, "invokeFail")
    BY <2>2, ControlIsQuiet, QuietIsOK
  <2> QED
    BY <1>2, <2>1, <2>2 DEF SavePaymentDetails
<1>3. CASE FailCreate(w)
  <2>1. upstream = "none" /\ status # "COMPLETED"
    BY <1>3 DEF FailCreate, At, IInv, WorkersOK, LocalOK, CreationPCs, Unpaid
  <2> QED
    BY <1>3, <2>1 DEF FailCreate
<1>4. CASE PersistTradeNo(w)
  BY <1>4 DEF PersistTradeNo
<1>5. CASE CancelUpstream(w)
  BY <1>5 DEF CancelUpstream
<1>6. CASE CloseOrder(w)
  <2>1. CASE Return(w, TRUE)
    BY <2>1, ControlIsQuiet, QuietIsOK
  <2> QED
    BY <1>6, <2>1 DEF CloseOrder, Closable, ClosedStatus
<1> QED
  BY <1>1, <1>2, <1>3, <1>4, <1>5, <1>6 DEF Creation, Closure

\* Recording the payment and taking the lease change no ledger.
LEMMA LeaseIsOK ==
  ASSUME IInv, NEW w \in Workers, Notification(w) \/ Lease(w) PROVE StepOK
<1> USE DEF StepOK, Promise!vars, WriteRow, DropLease, delivery, provider
<1>1. CASE Confirm(w) \/ ExecuteFulfillment(w)
  BY <1>1, ControlIsQuiet, QuietIsOK DEF Confirm, ExecuteFulfillment
<1>2. CASE ToPaid(w)
  <2>1. CASE Jump(w, "already")
    BY <2>1, ControlIsQuiet, QuietIsOK
  <2> QED
    BY <1>2, <2>1 DEF ToPaid, Payable
<1>3. CASE AlreadyProcessed(w)
  <2>1. CASE Jump(w, "exec") \/ Return(w, TRUE) \/ ReturnBlindly(w)
    BY <2>1, ControlIsQuiet, QuietIsOK
  <2> QED
    BY <1>3, <2>1 DEF AlreadyProcessed
<1>4. CASE AcquireLease(w)
  <2>1. CASE \E ok \in BOOLEAN : Return(w, ok)
    BY <2>1, ControlIsQuiet, QuietIsOK
  <2> QED
    BY <1>4, <2>1 DEF AcquireLease, Leasable
<1>5. CASE ReloadLease(w)
  <2>1. CASE Return(w, FALSE)
    BY <2>1, ControlIsQuiet, QuietIsOK
  <2> QED
    BY <1>5, <2>1 DEF ReloadLease
<1> QED
  BY <1>1, <1>2, <1>3, <1>4, <1>5 DEF Notification, Lease

\* A delivery is the promise's Deliver, a claimed rebate its Decide.
LEMMA DeliveryIsOK ==
  ASSUME IInv, NEW w \in Workers, Delivery(w) PROVE StepOK
<1> USE DEF StepOK, Promise!vars, row
<1>1. CASE LookupCode(w) \/ CheckAssigned(w) \/ ClaimRebate(w)
  BY <1>1, ControlIsQuiet, QuietIsOK DEF LookupCode, CheckAssigned, ClaimRebate
<1>2. CASE CreateCode(w)
  <2>1. CASE Jump(w, "fail")
    BY <2>1, ControlIsQuiet, QuietIsOK
  <2> QED
    BY <1>2, <2>1 DEF CreateCode, provider
<1>3. CASE RedeemCode(w)
  <2>1. CASE Jump(w, "fail")
    BY <2>1, ControlIsQuiet, QuietIsOK
  <2>2. CASE Redeemable /\ credits' = credits + 1
    <3>1. upstream = "paid" /\ kind = "balance" /\ credits = 0 /\ grants = 0
      BY <1>3, <2>2 DEF RedeemCode, At, Redeemable, IInv, WorkersOK, LocalOK,
         PaidPCs, Ledger
    <3>2. Promise!Deliver
      BY <1>3, <2>2, <3>1 DEF RedeemCode, Promise!Deliver, provider
    <3> QED
      BY <1>3, <2>2, <3>2 DEF RedeemCode, Promise!Next
  <2> QED
    BY <1>3, <2>1, <2>2 DEF RedeemCode
<1>4. CASE CommitAssignment(w)
  <2>1. CASE assigned
    BY <1>4, <2>1 DEF CommitAssignment, provider
  <2>2. CASE ~assigned
    <3>1. upstream = "paid" /\ credits = 0 /\ grants = 0
      BY <1>4, <2>2 DEF CommitAssignment, At, IInv, WorkersOK, LocalOK,
         PaidPCs, Ledger
    <3>2. Promise!Deliver
      BY <1>4, <2>2, <3>1 DEF CommitAssignment, Promise!Deliver, provider
    <3> QED
      BY <1>4, <3>2 DEF CommitAssignment, Promise!Next
  <2> QED
    BY <2>1, <2>2
<1>5. CASE CommitRebate(w)
  <2>1. CASE rebate # "none"
    BY <1>5, <2>1 DEF CommitRebate, RebateKeyTaken, provider
  <2>2. CASE rebate = "none"
    <3>1. credits + grants = 1
      BY <1>5 DEF CommitRebate, At, IInv, WorkersOK, LocalOK, Delivered,
         Ledger
    <3>2. Promise!Decide
      BY <1>5, <2>2, <3>1
      DEF CommitRebate, RebateKeyTaken, Promise!Decide, provider
    <3> QED
      BY <1>5, <3>2 DEF CommitRebate, Promise!Next
  <2> QED
    BY <2>1, <2>2
<1> QED
  BY <1>1, <1>2, <1>3, <1>4, <1>5 DEF Delivery

\* markCompleted is the promise's Settle; markFailed needs the lease, which a
\* COMPLETED order does not have.
LEMMA VerdictIsOK ==
  ASSUME IInv, NEW w \in Workers, Verdict(w) PROVE StepOK
<1> USE DEF StepOK, Promise!vars, WriteRow, HoldsLease, delivery
<1>1. CASE MarkCompleted(w)
  <2>1. CASE \/ Jump(w, "fail") \/ Return(w, TRUE)
    BY <2>1, ControlIsQuiet, QuietIsOK
  <2>2. CASE HoldsLease(w)
    <3>1. Promise!Settle
      BY <1>1, <2>2 DEF MarkCompleted, At, IInv, WorkersOK, LocalOK,
         Promise!Settle
    <3> QED
      BY <1>1, <2>2, <3>1 DEF MarkCompleted, Promise!Next
  <2> QED
    BY <1>1, <2>1, <2>2 DEF MarkCompleted
<1>2. CASE MarkFailed(w)
  <2>1. CASE Return(w, FALSE)
    BY <2>1, ControlIsQuiet, QuietIsOK
  <2> QED
    BY <1>2, <2>1 DEF MarkFailed
<1> QED
  BY <1>1, <1>2 DEF Verdict

\* Every step keeps completion final and the promise.
LEMMA NextIsOK == IInv /\ [Next]_vars => StepOK
<1> SUFFICES ASSUME IInv, [Next]_vars PROVE StepOK
  OBVIOUS
<1>1. CASE UNCHANGED vars
  BY <1>1, QuietIsOK DEF vars, row, delivery, provider, Quiet
<1>2. CASE \E w \in Workers : Start(w) \/ StepFails(w) \/ Crash(w)
  BY <1>2, ControlIsQuiet, QuietIsOK DEF Start, StartWebhook, StartCancel,
     StartExpire, StartVerify, StartRetry, StepFails, Crash
<1>3. CASE \E w \in Workers : Step(w)
  BY <1>3, ClosureIsOK, LeaseIsOK, DeliveryIsOK, VerdictIsOK DEF Step
<1>4. CASE Pay
  BY <1>4 DEF Pay, StepOK, row, delivery, Promise!vars, Promise!Next,
     Promise!Receive
<1>5. CASE Tick \/ Deadline
  BY <1>5, QuietIsOK DEF Tick, Deadline, Quiet, delivery, provider
<1> QED
  BY <1>1, <1>2, <1>3, <1>4, <1>5 DEF Next

\* No late webhook, lost lease, failing creation or pending cancellation
\* takes an order out of COMPLETED.
THEOREM CompletionIsFinal == Spec => CompletedIsFinal
<1>1. IInv /\ [Next]_vars => [status = "COMPLETED" => status' = "COMPLETED"]_vars
  BY NextIsOK DEF StepOK
<1> QED
  BY <1>1, SpecIInv, PTL DEF Spec, CompletedIsFinal

\* Fulfilment with its workers, leases, faults and windows implements
\* PaymentPromise: deliver once after the money, decide the rebate once after
\* the delivery, complete after both.
THEOREM FulfilmentKeepsPromise == Spec => KeepsPromise
<1>1. Init => Promise!Init
  BY DEF Init, Promise!Init
<1>2. IInv /\ [Next]_vars => [Promise!Next]_(Promise!vars)
  BY NextIsOK DEF StepOK
<1> QED
  BY <1>1, <1>2, SpecIInv, PTL DEF Spec, KeepsPromise, Promise!Spec

-----------------------------------------------------------------------------
(* Acknowledgement *)

\* What a step does to acked: a new 2xx is backed by the row or the audit, or
\* by an error that the acknowledging handler itself hid.
AckStep ==
    /\ lateAudit => lateAudit'
    /\ blind => blind'
    /\ acked' => acked \/ status' = "COMPLETED" \/ lateAudit' \/ blind'

\* A handler may return an error, or nil where that is justified.
LEMMA ReturnAck ==
  ASSUME NEW w \in Workers, NEW ok \in BOOLEAN, Return(w, ok),
         ok => job[w] # "webhook" \/ status = "COMPLETED"
  PROVE  AckStep
  BY DEF Return, Answer, DropLease, AckStep

\* A handler that hides an error is remembered with the 2xx it gives.
LEMMA ReturnBlindlyAck ==
  ASSUME NEW w \in Workers, ReturnBlindly(w) PROVE AckStep
  BY DEF ReturnBlindly, AnswerBlindly, DropLease, AckStep

\* A move, or a start, acknowledges nothing.
LEMMA MoveAck ==
  ASSUME NEW w \in Workers, NEW l, NEW j, Jump(w, l) \/ Begin(w, j, l)
  PROVE  AckStep
  BY DEF Jump, Begin, provider, AckStep

\* The steps before the payment is recorded: a closing job is no webhook, and
\* the read of the order is the only statement whose error becomes a nil.
LEMMA EarlyAck ==
  ASSUME IInv, NEW w \in Workers,
         Creation(w) \/ Closure(w) \/ Confirm(w)
  PROVE  AckStep
<1> USE DEF AckStep, provider
<1>1. CASE InvokeProvider(w)
  BY <1>1, MoveAck DEF InvokeProvider
<1>2. CASE SavePaymentDetails(w)
  <2>1. CASE Jump(w, "invokeFail")
    BY <2>1, MoveAck
  <2> QED
    BY <1>2, <2>1 DEF SavePaymentDetails
<1>3. CASE FailCreate(w) \/ PersistTradeNo(w) \/ CancelUpstream(w)
  BY <1>3 DEF FailCreate, PersistTradeNo, CancelUpstream
<1>4. CASE QueryUpstream(w) \/ CloseOrder(w)
  <2>1. job[w] # "webhook"
    BY <1>4 DEF QueryUpstream, CloseOrder, At, IInv, WorkersOK, LocalOK,
       ClosurePCs
  <2>2. CASE Return(w, TRUE)
    BY <2>1, <2>2, ReturnAck
  <2>3. CASE \E l \in PCs : Jump(w, l)
    BY <2>3, MoveAck
  <2> QED
    BY <1>4, <2>2, <2>3 DEF QueryUpstream, CloseOrder, AfterUnpaid, PCs
<1>5. CASE Confirm(w)
  <2>1. CASE Return(w, FALSE)
    BY <2>1, ReturnAck
  <2> QED
    BY <1>5, <2>1, MoveAck, ReturnBlindlyAck DEF Confirm
<1> QED
  BY <1>1, <1>2, <1>3, <1>4, <1>5 DEF Creation, Closure

\* The steps from the payment on: nil comes from a completed order, from the
\* audit of a late payment or from an error alreadyProcessed hid.
LEMMA LateAck ==
  ASSUME IInv, NEW w \in Workers,
         \/ ToPaid(w) \/ AlreadyProcessed(w) \/ Lease(w)
         \/ Delivery(w) \/ Verdict(w)
  PROVE  AckStep
<1> USE DEF AckStep
<1>1. CASE ToPaid(w)
  BY <1>1, MoveAck DEF ToPaid, provider
<1>2. CASE AlreadyProcessed(w)
  <2>1. CASE status # "EXPIRED" /\ ~Fulfillable /\ Return(w, TRUE)
    <3>1. status = "COMPLETED"
      BY <1>2, <2>1 DEF AlreadyProcessed, At, IInv, TypeOK, NamesOK, Status,
         WorkersOK, LocalOK, Fulfillable
    <3> QED
      BY <2>1, <3>1, ReturnAck
  <2>2. CASE Fulfillable /\ Jump(w, "exec")
    BY <2>2, MoveAck
  <2>3. CASE status = "EXPIRED" /\ lateAudit' = TRUE /\ Answer(w, TRUE)
    BY <2>3 DEF Answer
  <2>4. CASE ReturnBlindly(w)
    BY <2>4, ReturnBlindlyAck
  <2> QED
    BY <1>2, <2>1, <2>2, <2>3, <2>4 DEF AlreadyProcessed
<1>3. CASE Lease(w)
  <2>1. CASE Return(w, status = "COMPLETED") \/ Return(w, FALSE)
    BY <2>1, ReturnAck
  <2> QED
    BY <1>3, <2>1, MoveAck DEF Lease, ExecuteFulfillment, AcquireLease,
       ReloadLease, provider
<1>4. CASE Delivery(w)
  BY <1>4, MoveAck DEF Delivery, LookupCode, CreateCode, RedeemCode,
     CheckAssigned, CommitAssignment, ClaimRebate, CommitRebate, provider
<1>5. CASE Verdict(w)
  <2>1. CASE \/ status = "COMPLETED" /\ Return(w, TRUE)
             \/ Return(w, FALSE)
    BY <2>1, ReturnAck
  <2> QED
    BY <1>5, <2>1, MoveAck DEF Verdict, MarkCompleted, MarkFailed, WriteRow,
       Answer
<1> QED
  BY <1>1, <1>2, <1>3, <1>4, <1>5

\* Every step backs the 2xx it gives.
LEMMA NextAck == IInv /\ [Next]_vars => AckStep
<1> SUFFICES ASSUME IInv, [Next]_vars PROVE AckStep
  OBVIOUS
<1>1. CASE UNCHANGED vars
  BY <1>1 DEF vars, provider, AckStep
<1>2. CASE \E w \in Workers : Start(w) \/ StepFails(w) \/ Crash(w)
  BY <1>2, MoveAck, ReturnAck DEF Start, StartWebhook, StartCancel,
     StartExpire, StartVerify, StartRetry, StepFails, Crash
<1>3. CASE \E w \in Workers : Step(w)
  BY <1>3, EarlyAck, LateAck DEF Step, Notification
<1>4. CASE Pay \/ Tick \/ Deadline
  BY <1>4 DEF Pay, Tick, Deadline, provider, AckStep
<1> QED
  BY <1>1, <1>2, <1>3, <1>4 DEF Next

\* The provider gets its 2xx only for an order that is COMPLETED, whose late
\* payment was recorded, or whose notification was answered by a handler that
\* dropped the error of its own read or audit: no fault elsewhere earns a 2xx.
THEOREM AckIsSettled == Spec => []AckMeansSettled
<1>1. Init => AckMeansSettled
  BY DEF Init, AckMeansSettled
<1>2. IInv /\ AckMeansSettled /\ [Next]_vars => AckMeansSettled'
  BY NextAck, NextIsOK DEF AckStep, StepOK, AckMeansSettled
<1> QED
  BY <1>1, <1>2, SpecIInv, PTL DEF Spec

=============================================================================
