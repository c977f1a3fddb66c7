--------------------------- MODULE LiveWalletProofs ---------------------------
(***************************************************************************)
(* Theorems about LiveWallet for any requests, recoveries and workers, any  *)
(* amounts and any number of faults and losses. The invariant IInv has one  *)
(* part per request: what its row, its attempt in the wallet, its next call *)
(* and the copies of its recoveries say of each other. A step of a request  *)
(* or of a recovery changes that part only. SumsOK adds the books of wallet *)
(* and balance, sums over the requests and over the events.                 *)
(***************************************************************************)
EXTENDS LiveWallet, FiniteSetTheorems, SequenceTheorems,
        WellFoundedInduction, TLAPS

\* What a request may hold.
Holds == {h \in {Hold, TopUpTarget} : h > 0}

\* No recovery is at work on r.
Quiet(r) == \A c \in Recoverers : Recovers(c, r, "idle")

\* The verdict of r is the amount.
HeldTo(r, amount) ==
    Decided(r) /\ row[r].amount = amount

\* The row of r, and what it says of its request.
RowOK(r) ==
    /\ In(r, {"none"}) <=> At(r, "idle")
    /\ In(r, {"none"}) => ~row[r].expired
    /\ ~In(r, {"none"}) => row[r].hold \in Holds
    /\ In(r, {"pending", "applied"}) => row[r].amount > 0
    /\ In(r, {"refunded"}) => row[r].amount = 0
    /\ row[r].expired => pc[r] \notin Prompt

\* What r used, once that is known, and its verdict.
CostOK(r) ==
    /\ In(r, {"none", "prepared"}) => cost[r] = Unknown
    /\ cost[r] # Unknown =>
         cost[r] \in Costs /\ pc[r] \in {"use", "begin", "settle",
                           "completeSettlement", "completeRefund", "done"}
    /\ pc[r] \in {"use", "begin", "settle"} => cost[r] # Unknown
    /\ cost[r] > 0 => /\ ~In(r, {"refunded"})
                      /\ Decided(r) => row[r].amount > 0

\* What the next call of r says of its row.
RequestOK(r) ==
    /\ pc[r] \in {"authorize", "snapshot", "initialize", "mark"} =>
         In(r, {"prepared"}) /\ Quiet(r)
    /\ At(r, "undo") => In(r, {"prepared", "authorized"}) /\ Quiet(r)
    /\ In(r, {"prepared"}) => pc[r] \in Prompt \cup {"done"}
    /\ pc[r] \in {"serving", "advance"} =>
         \/ In(r, {"authorized"})
         \/ In(r, {"finalizing", "pending", "applied"}) /\ row[r].amount > 0
    /\ At(r, "settle") => HeldTo(r, cost[r])
    /\ pc[r] \in {"undoBegun", "release"} => HeldTo(r, 0)
    /\ At(r, "completeSettlement") =>
         Decided(r) /\ row[r].amount > 0 /\ ~Is(r, "held")
    /\ At(r, "completeRefund") => HeldTo(r, 0) /\ ~Is(r, "held")

\* The attempt of r in the wallet and its row.
AttemptOK(r) ==
    /\ Is(r, "held") => /\ attempt[r].reserved \in Holds
                        /\ ~In(r, {"pending", "applied", "refunded"})
    /\ Is(r, "finalized") => /\ In(r, {"finalizing", "pending", "applied"})
                             /\ attempt[r].actual = row[r].amount
                             /\ row[r].amount > 0

\* A copy of the row of r is old but not wrong.
RecoveryOK(c, r) ==
    ~Recovers(c, r, "idle") =>
        /\ Copy(c, r).hold \in Holds
        /\ Copy(c, r).status \in {"prepared", "authorized", "finalizing"}
        /\ ~In(r, {"none"})
        /\ Copy(c, r).status = "prepared" =>
              /\ At(r, "done") /\ cost[r] = Unknown
              /\ rec[c][r].step \in {"recover", "refund", "completeRefund"}
        /\ Copy(c, r).status = "authorized" => ~In(r, {"prepared"})
        /\ Copy(c, r).status = "finalizing" =>
              /\ HeldTo(r, Copy(c, r).amount)
              /\ rec[c][r].step \in {"recover", "settle", "refund",
                                     "completeSettlement", "completeRefund"}
        /\ Recovers(c, r, "settle") =>
              HeldTo(r, Copy(c, r).amount) /\ row[r].amount > 0
        /\ Recovers(c, r, "refund") => HeldTo(r, 0)
        /\ Recovers(c, r, "completeSettlement") =>
              Decided(r) /\ row[r].amount > 0 /\ ~Is(r, "held")
        /\ Recovers(c, r, "completeRefund") => HeldTo(r, 0) /\ ~Is(r, "held")

LocalOK(r) ==
    /\ RowOK(r) /\ CostOK(r) /\ RequestOK(r) /\ AttemptOK(r)
    /\ \A c \in Recoverers : RecoveryOK(c, r)

\* A worker works on an event that exists.
EventsOK ==
    \A w \in Workers : out[w].step # "idle" => Event(w) \in 1..LastEvent

IInv == TypeOK /\ EventsOK /\ \A r \in Requests : LocalOK(r)

-----------------------------------------------------------------------------
(* What the statements and scripts do to the row and the attempt of a request *)

ThisRowOnly(r) == \A q \in Requests \ {r} : row'[q] = row[q]
ThisAttemptOnly(r) == \A q \in Requests \ {r} : attempt'[q] = attempt[q]

\* A larger hold of the two that a request may have is one of the two.
LEMMA LargerHold ==
  ASSUME NEW a \in Holds, NEW b \in {Hold, TopUpTarget}
  PROVE  Larger(a, b) \in Holds
BY HoldAssumption, WalletAssumption DEF Holds, Larger

\* Holds are positive, and the first hold is one.
LEMMA HoldsPositive == Holds \subseteq Nat \ {0} /\ Hold \in Holds
BY HoldAssumption, WalletAssumption DEF Holds

\* A new row is prepared with the first hold.
LEMMA PrepareEffect ==
  ASSUME RowsTypeOK, NEW r \in Requests, Prepare(r)
  PROVE  /\ RowsTypeOK' /\ ThisRowOnly(r)
         /\ row[r].status = "none"
         /\ row'[r].status = "prepared" /\ row'[r].hold = Hold
         /\ row'[r].expired = row[r].expired
BY HoldAssumption
   DEF RowsTypeOK, Rows, Statuses, Prepare, In, ThisRowOnly

\* A row is marked authorized only while it is prepared and in time.
LEMMA MarkEffect ==
  ASSUME RowsTypeOK, NEW r \in Requests, Mark(r)
  PROVE  /\ RowsTypeOK' /\ ThisRowOnly(r)
         /\ MarkFinds(r) => /\ row[r].status \in {"prepared", "authorized"}
                            /\ row'[r].status = "authorized"
                            /\ row'[r].hold = row[r].hold
                            /\ row'[r].amount = row[r].amount
                            /\ row'[r].expired = row[r].expired
         /\ ~MarkFinds(r) => row'[r] = row[r]
BY DEF RowsTypeOK, Rows, Statuses, Mark, MarkFinds, In, ThisRowOnly

\* A recorded hold never shrinks; nothing else of the row changes.
LEMMA AdvanceEffect ==
  ASSUME RowsTypeOK, NEW r \in Requests, NEW hold \in Nat, Advance(r, hold)
  PROVE  /\ RowsTypeOK' /\ ThisRowOnly(r)
         /\ row'[r].status = row[r].status
         /\ row'[r].hold \in {row[r].hold, Larger(row[r].hold, hold)}
         /\ row'[r].amount = row[r].amount
         /\ row'[r].expired = row[r].expired
         /\ AdvanceFinds(r) => row[r].status = "authorized"
BY DEF RowsTypeOK, Rows, Statuses, Advance, AdvanceFinds, In, ThisRowOnly, Larger

\* Only an authorized row takes a charge, and then exactly the given one.
LEMMA DecideEffect ==
  ASSUME RowsTypeOK, NEW r \in Requests, NEW amount \in Nat,
         NEW by \in Fingerprints, Decide(r, amount, by)
  PROVE  /\ RowsTypeOK' /\ ThisRowOnly(r)
         /\ In(r, {"authorized"}) => /\ row'[r].status = "finalizing"
                                     /\ row'[r].hold = row[r].hold
                                     /\ row'[r].amount = amount
                                     /\ row'[r].expired = row[r].expired
         /\ ~In(r, {"authorized"}) => row'[r] = row[r]
<1> DEFINE decided == [row[r] EXCEPT !.status = "finalizing", !.amount = amount,
                                     !.by = by]
<1>1. decided \in Rows /\ decided.status = "finalizing"
      /\ decided.hold = row[r].hold /\ decided.amount = amount
      /\ decided.expired = row[r].expired
  BY DEF RowsTypeOK, Rows, Statuses
<1>2. In(r, {"authorized"}) => row' = [row EXCEPT ![r] = decided]
  BY DEF RowsTypeOK, Rows, Decide
<1>3. ~In(r, {"authorized"}) => row' = row
  BY DEF Decide
<1> HIDE DEF decided
<1>4. QED
  BY <1>1, <1>2, <1>3 DEF RowsTypeOK, ThisRowOnly

\* Only a prepared or authorized row takes the verdict that nothing is due.
LEMMA BeginRefundEffect ==
  ASSUME RowsTypeOK, NEW r \in Requests, BeginRefund(r)
  PROVE  /\ RowsTypeOK' /\ ThisRowOnly(r)
         /\ In(r, {"prepared", "authorized"}) =>
               /\ row'[r].status = "finalizing"
               /\ row'[r].hold = row[r].hold
               /\ row'[r].amount = 0
               /\ row'[r].expired = row[r].expired
         /\ ~In(r, {"prepared", "authorized"}) => row'[r] = row[r]
<1> DEFINE given == [row[r] EXCEPT !.status = "finalizing", !.amount = 0]
<1>1. given \in Rows /\ given.status = "finalizing"
      /\ given.hold = row[r].hold /\ given.amount = 0
      /\ given.expired = row[r].expired
  BY DEF RowsTypeOK, Rows, Statuses
<1>2. In(r, {"prepared", "authorized"}) => row' = [row EXCEPT ![r] = given]
  BY DEF RowsTypeOK, Rows, BeginRefund
<1>3. ~In(r, {"prepared", "authorized"}) => row' = row
  BY DEF BeginRefund
<1> HIDE DEF given
<1>4. QED
  BY <1>1, <1>2, <1>3 DEF RowsTypeOK, ThisRowOnly

\* Only a row with a positive verdict becomes pending.
LEMMA CompleteSettlementEffect ==
  ASSUME RowsTypeOK, NEW r \in Requests, CompleteSettlement(r)
  PROVE  /\ RowsTypeOK' /\ ThisRowOnly(r)
         /\ \/ row'[r].status = row[r].status
            \/ /\ row[r].status = "finalizing" /\ row'[r].status = "pending"
               /\ row[r].amount > 0
         /\ row'[r].hold = row[r].hold
         /\ row'[r].amount = row[r].amount
         /\ row'[r].expired = row[r].expired
BY DEF RowsTypeOK, Rows, Statuses, CompleteSettlement,
       CompleteSettlementFinds, In, ThisRowOnly

\* Only a row with the verdict zero becomes refunded.
LEMMA CompleteRefundEffect ==
  ASSUME RowsTypeOK, NEW r \in Requests, CompleteRefund(r)
  PROVE  /\ RowsTypeOK' /\ ThisRowOnly(r)
         /\ \/ row'[r].status = row[r].status
            \/ /\ row[r].status = "finalizing" /\ row'[r].status = "refunded"
               /\ row[r].amount = 0
         /\ row'[r].hold = row[r].hold
         /\ row'[r].amount = row[r].amount
         /\ row'[r].expired = row[r].expired
BY DEF RowsTypeOK, Rows, Statuses, CompleteRefund, CompleteRefundFinds, In,
       ThisRowOnly

\* A flush applies pending rows.
LEMMA ApplyEffect ==
  ASSUME RowsTypeOK, NEW r \in Requests, ApplyRow(r)
  PROVE  /\ RowsTypeOK' /\ ThisRowOnly(r)
         /\ row[r].status = "pending" /\ row'[r].status = "applied"
         /\ row'[r].hold = row[r].hold
         /\ row'[r].amount = row[r].amount
         /\ row'[r].expired = row[r].expired
BY DEF RowsTypeOK, Rows, Statuses, ApplyRow, In, ThisRowOnly

\* Time sets the expiry and nothing else.
LEMMA ExpireEffect ==
  ASSUME RowsTypeOK, NEW r \in Requests, Expire(r)
  PROVE  /\ RowsTypeOK' /\ ThisRowOnly(r)
         /\ row'[r].status = row[r].status
         /\ row'[r].hold = row[r].hold
         /\ row'[r].amount = row[r].amount
         /\ row'[r].expired
BY DEF RowsTypeOK, Rows, Statuses, Expire, ThisRowOnly

\* Authorizing leaves the attempt as it is or takes exactly the hold asked for.
LEMMA AuthorizeEffect ==
  ASSUME WalletTypeOK, NEW r \in Requests, NEW hold \in Nat,
         NEW start \in Int, NEW at \in Nat, NEW allow \in BOOLEAN,
         Authorize(r, hold, start, at, allow)
  PROVE  /\ WalletTypeOK' /\ ThisAttemptOnly(r)
         /\ \/ attempt'[r] = attempt[r]
            \/ attempt'[r].state = "held" /\ attempt'[r].reserved = hold
BY DEF WalletTypeOK, Attempts, Authorize, AuthorizeOutcome, Funds, Is,
       ThisAttemptOnly

\* A top-up leaves the attempt as it is or raises its hold to the target.
LEMMA TopUpEffect ==
  ASSUME WalletTypeOK, NEW r \in Requests, NEW target \in Nat,
         TopUp(r, target)
  PROVE  /\ WalletTypeOK' /\ ThisAttemptOnly(r)
         /\ \/ attempt'[r] = attempt[r]
            \/ /\ attempt[r].state = "held" /\ attempt'[r].state = "held"
               /\ attempt'[r].reserved = target
               /\ attempt[r].reserved < target
BY DEF WalletTypeOK, Attempts, TopUp, TopUpOutcome, Is, ThisAttemptOnly

\* Finalizing charges a held attempt, and succeeds only if it is charged.
LEMMA FinalizeEffect ==
  ASSUME WalletTypeOK, NEW r \in Requests, NEW actual \in Nat,
         Finalize(r, actual)
  PROVE  /\ WalletTypeOK' /\ ThisAttemptOnly(r)
         /\ \/ attempt'[r] = attempt[r]
            \/ /\ attempt[r].state = "held" /\ attempt'[r].state = "finalized"
               /\ attempt'[r].actual = actual
         /\ FinalizeSucceeds(r, actual) => attempt'[r].state = "finalized"
BY DEF WalletTypeOK, Attempts, Finalize, FinalizeReturn, FinalizeSucceeds, Is,
       ThisAttemptOnly

\* A refund ends a held attempt; when it succeeds nothing is held.
LEMMA RefundEffect ==
  ASSUME WalletTypeOK, NEW r \in Requests, Refund(r)
  PROVE  /\ WalletTypeOK' /\ ThisAttemptOnly(r)
         /\ \/ attempt'[r] = attempt[r]
            \/ attempt[r].state = "held" /\ attempt'[r].state = "refunded"
         /\ RefundSucceeds(r) \/ Is(r, "none") => attempt'[r].state # "held"
BY DEF WalletTypeOK, Attempts, Refund, RefundSucceeds, Is, ThisAttemptOnly

\* A dropped attempt is gone.
LEMMA DropEffect ==
  ASSUME WalletTypeOK, NEW r \in Requests, DropMarker(r)
  PROVE  /\ WalletTypeOK' /\ ThisAttemptOnly(r)
         /\ attempt'[r].state = "none"
BY DEF WalletTypeOK, Attempts, DropMarker, NoAttempt, ThisAttemptOnly

\* A loss of the wallet takes every attempt.
LEMMA LoseEffect ==
  ASSUME WalletTypeOK, LoseWallet
  PROVE  /\ WalletTypeOK'
         /\ \A q \in Requests : attempt'[q].state = "none"
<1>1. NoAttempt \in Attempts /\ NoAttempt.state = "none"
  BY DEF NoAttempt, Attempts
<1>2. attempt' = [q \in Requests |-> NoAttempt]
  BY Zenon DEF LoseWallet
<1>3. present' = FALSE /\ wallet' = 0 /\ watermark' = 0
  BY Zenon DEF LoseWallet
<1>4. attempt' \in [Requests -> Attempts]
  BY <1>1, <1>2
<1>5. \A q \in Requests : attempt'[q].state = "none"
  BY <1>1, <1>2
<1>6. present' \in BOOLEAN
  BY Zenon, <1>3
<1>7. wallet' \in Int /\ watermark' \in Nat
  BY <1>3
<1> QED
  BY Zenon, <1>4, <1>5, <1>6, <1>7 DEF WalletTypeOK

\* adjust and initialize leave the attempts alone.
LEMMA AdjustEffect ==
  ASSUME WalletTypeOK, NEW id \in Nat, NEW predecessor \in Int,
         NEW delta \in Int, Adjust(id, predecessor, delta)
  PROVE  WalletTypeOK' /\ attempt' = attempt
BY DEF WalletTypeOK, Adjust

\* Initialising the wallet leaves the attempts alone.
LEMMA InitializeEffect ==
  ASSUME WalletTypeOK, NEW start \in Int, NEW at \in Nat, Initialize(start, at)
  PROVE  WalletTypeOK' /\ attempt' = attempt
BY DEF WalletTypeOK, Initialize

-----------------------------------------------------------------------------
(* A step of one request leaves the others alone. *)

Elsewhere(r) ==
    \A q \in Requests \ {r} :
        /\ row'[q] = row[q] /\ attempt'[q] = attempt[q]
        /\ pc'[q] = pc[q] /\ cost'[q] = cost[q]
        /\ \A c \in Recoverers : rec'[c][q] = rec[c][q]

\* What a request knows depends on its own row, attempt and copies only.
LEMMA Frame ==
  ASSUME NEW r \in Requests, LocalOK(r),
         row'[r] = row[r], attempt'[r] = attempt[r],
         pc'[r] = pc[r], cost'[r] = cost[r],
         \A c \in Recoverers : rec'[c][r] = rec[c][r]
  PROVE  LocalOK(r)'
BY DEF LocalOK, RowOK, CostOK, RequestOK, AttemptOK, RecoveryOK, Quiet,
       HeldTo, Decided, Recovers, Copy, In, Is, At

\* A step of one request has to be checked for that request only.
LEMMA Local ==
  ASSUME IInv, TypeOK', UNCHANGED outboxVars,
         NEW r \in Requests, Elsewhere(r), LocalOK(r)'
  PROVE  IInv'
<1>1. ASSUME NEW q \in Requests \ {r} PROVE LocalOK(q)'
  BY <1>1, Frame DEF IInv, Elsewhere
<1>2. EventsOK'
  BY DEF IInv, EventsOK, Event, LastEvent, outboxVars
<1> QED
  BY <1>1, <1>2 DEF IInv

\* A request goes on to its next call.
LEMMA ToEffect ==
  ASSUME TypeOK, NEW r \in Requests, NEW step \in RequestSteps, To(r, step)
  PROVE  /\ pc' \in [Requests -> RequestSteps]
         /\ pc'[r] = step
         /\ \A q \in Requests \ {r} : pc'[q] = pc[q]
BY DEF TypeOK, To

\* A step counts at most one fault, within the bound.
LEMMA FaultType ==
  ASSUME faults \in 0..MaxFaults, Fault \/ NoFault
  PROVE  faults' \in 0..MaxFaults
BY OutboxAssumption DEF Fault, NoFault

\* A step that leaves the outbox alone keeps its types.
LEMMA OutboxFrame ==
  ASSUME OutboxTypeOK, UNCHANGED <<outboxVars, losses>>, Fault \/ NoFault
  PROVE  OutboxTypeOK'
<1>1. UNCHANGED <<balance, events, out, losses>>
  BY DEF outboxVars
<1>2. faults' \in 0..MaxFaults
  BY FaultType DEF OutboxTypeOK
<1> QED
  BY <1>1, <1>2 DEF OutboxTypeOK, Snapshots

\* A step that leaves the wallet alone keeps its types.
LEMMA StoreFrame == ASSUME WalletTypeOK, UNCHANGED store
                    PROVE  WalletTypeOK' /\ attempt' = attempt
BY DEF WalletTypeOK, store

\* A snapshot has its type.
LEMMA SnapshotType == ASSUME TypeOK PROVE Snapshot \in Snapshots
<1>1. balance \in Int /\ Len(events) \in Nat
  BY DEF TypeOK, OutboxTypeOK
<1>2. HasUnsettled \in BOOLEAN
  BY DEF HasUnsettled
<1> QED
  BY <1>1, <1>2 DEF Snapshot, Snapshots, LastEvent

\* So has the snapshot that nobody has read.
LEMMA UnreadType == Unread \in Snapshots
BY DEF Unread, Snapshots

-----------------------------------------------------------------------------
(* The steps of a request *)

\* A new row is prepared while its request has no hold.
LEMMA PrepareRowStep ==
  ASSUME IInv, NEW r \in Requests, PrepareRow(r)
  PROVE  IInv'
<1>1. /\ RowsTypeOK' /\ ThisRowOnly(r)
      /\ row[r].status = "none" /\ row'[r].status = "prepared"
      /\ row'[r].hold = Hold /\ row'[r].expired = row[r].expired
  BY PrepareEffect DEF PrepareRow, IInv, TypeOK
<1>2. /\ pc' \in [Requests -> RequestSteps] /\ pc'[r] = "authorize"
      /\ \A q \in Requests \ {r} : pc'[q] = pc[q]
  BY ToEffect DEF PrepareRow, IInv, RequestSteps
<1>3. UNCHANGED <<store, attempt, seen, cost, rec, outboxVars, losses>> /\ NoFault
  BY DEF PrepareRow, store, others, NoFault
<1>4. TypeOK'
  BY <1>1, <1>2, <1>3, StoreFrame, OutboxFrame DEF IInv, TypeOK
<1>5. Elsewhere(r)
  BY <1>1, <1>2, <1>3 DEF Elsewhere, ThisRowOnly
<1>6. LocalOK(r)'
  <2>1. /\ RowOK(r) /\ CostOK(r) /\ RequestOK(r) /\ AttemptOK(r)
        /\ At(r, "idle") /\ Quiet(r)
    BY <1>1 DEF PrepareRow, IInv, LocalOK, RecoveryOK, Quiet, In
  <2>2. RowOK(r)'
    BY <1>1, <1>2, <1>3, HoldsPositive, <2>1
       DEF RowOK, RequestOK, In, At, Prompt
  <2>3. CostOK(r)'
    BY <1>1, <1>2, <1>3, HoldsPositive, <2>1
       DEF RowOK, CostOK, RequestOK, HeldTo, Decided, In, At, Unknown
  <2>4. RequestOK(r)'
    BY <1>1, <1>2, <1>3, HoldsPositive, <2>1
       DEF RowOK, CostOK, RequestOK, AttemptOK, Quiet, HeldTo, Decided,
        Recovers, In, Is, At, Prompt, Unknown
  <2>5. AttemptOK(r)'
    BY <1>1, <1>2, <1>3, HoldsPositive, <2>1
       DEF RowOK, RequestOK, AttemptOK, HeldTo, Decided, In, Is, At, Prompt
  <2>6. ASSUME NEW c \in Recoverers PROVE RecoveryOK(c, r)'
    <3>1. RecoveryOK(c, r)
      BY DEF IInv, LocalOK
    <3> QED
      BY <1>1, <1>2, <1>3, HoldsPositive, <2>1, <3>1
         DEF RowOK, CostOK, RequestOK, RecoveryOK, Quiet, HeldTo, Decided,
          Recovers, Copy, In, Is, At, Unknown, Prompt
  <2> QED
    BY <2>2, <2>3, <2>4, <2>5, <2>6 DEF LocalOK
<1> QED
  BY <1>3, <1>4, <1>5, <1>6, Local

\* Reading a snapshot changes neither row nor attempt.
LEMMA LoadSnapshotStep ==
  ASSUME IInv, NEW r \in Requests, LoadSnapshot(r)
  PROVE  IInv'
<1>1. row' = row /\ RowsTypeOK'
  BY DEF LoadSnapshot, others, IInv, TypeOK, RowsTypeOK
<1>2. WalletTypeOK' /\ attempt' = attempt
  BY StoreFrame DEF LoadSnapshot, IInv, TypeOK
<1>3. /\ pc' \in [Requests -> RequestSteps]
      /\ pc'[r] \in {"initialize", "undo"}
      /\ \A q \in Requests \ {r} : pc'[q] = pc[q]
  BY ToEffect DEF LoadSnapshot, IInv, RequestSteps
<1>4. /\ UNCHANGED <<rec, outboxVars, losses>>
      /\ Fault \/ NoFault
  BY DEF LoadSnapshot, others, NoFault, Fault
<1>5. cost' = cost
  BY DEF LoadSnapshot, requestVars
<1>6. seen' \in [Requests -> Snapshots]
  BY UnreadType, SnapshotType DEF LoadSnapshot, IInv, TypeOK, requestVars
<1>7. TypeOK'
  BY <1>1, <1>2, <1>3, <1>4, <1>5, <1>6, OutboxFrame
     DEF IInv, TypeOK, RequestSteps
<1>8. Elsewhere(r)
  BY <1>1, <1>2, <1>3, <1>4, <1>5 DEF Elsewhere, ThisRowOnly, ThisAttemptOnly
<1>9. LocalOK(r)'
  <2>1. /\ RowOK(r) /\ CostOK(r) /\ RequestOK(r) /\ AttemptOK(r)
        /\ At(r, "snapshot")
    BY DEF LoadSnapshot, IInv, LocalOK
  <2>2. RowOK(r)'
    BY <1>1, <1>2, <1>3, <1>4, <1>5, <2>1
       DEF RowOK, RequestOK, In, At, Prompt
  <2>3. CostOK(r)'
    BY <1>1, <1>2, <1>3, <1>4, <1>5, <2>1
       DEF RowOK, CostOK, RequestOK, HeldTo, Decided, In, At, Unknown
  <2>4. RequestOK(r)'
    BY <1>1, <1>2, <1>3, <1>4, <1>5, <2>1
       DEF RowOK, CostOK, RequestOK, AttemptOK, Quiet, HeldTo, Decided,
        Recovers, In, Is, At, Prompt, Unknown
  <2>5. AttemptOK(r)'
    BY <1>1, <1>2, <1>3, <1>4, <1>5, <2>1
       DEF RowOK, RequestOK, AttemptOK, HeldTo, Decided, In, Is, At, Prompt
  <2>6. ASSUME NEW c \in Recoverers PROVE RecoveryOK(c, r)'
    <3>1. RecoveryOK(c, r)
      BY DEF IInv, LocalOK
    <3> QED
      BY <1>1, <1>2, <1>3, <1>4, <1>5, <2>1, <3>1
         DEF RowOK, CostOK, RequestOK, RecoveryOK, Quiet, HeldTo, Decided,
          Recovers, Copy, In, Is, At, Unknown, Prompt
  <2> QED
    BY <2>2, <2>3, <2>4, <2>5, <2>6 DEF LocalOK
<1> QED
  BY <1>4, <1>7, <1>8, <1>9, Local

\* The row of a request that is served is authorized.
LEMMA MarkAuthorizedStep ==
  ASSUME IInv, NEW r \in Requests, MarkAuthorized(r)
  PROVE  IInv'
<1>1. row[r].status = "prepared" /\ ~row[r].expired
  BY DEF MarkAuthorized, IInv, LocalOK, RequestOK, RowOK, In, At, Prompt
<1>2. MarkFinds(r) /\ (Mark(r) \/ row' = row)
  BY <1>1 DEF MarkAuthorized, MarkFinds, In
<1>3. /\ RowsTypeOK' /\ ThisRowOnly(r)
      /\ row'[r].hold = row[r].hold /\ ~row'[r].expired
      /\ row'[r].status \in {"prepared", "authorized"}
      /\ Mark(r) => row'[r].status = "authorized"
  BY <1>1, <1>2, MarkEffect DEF IInv, TypeOK, RowsTypeOK, ThisRowOnly
<1>4. \/ To(r, "serving") /\ Mark(r)
      \/ To(r, "undo")
  BY <1>2 DEF MarkAuthorized
<1>5. pc'[r] = "serving" => row'[r].status = "authorized"
  BY <1>3, <1>4, ToEffect DEF IInv, RequestSteps
<1>6. RowsTypeOK' /\ ThisRowOnly(r)
  BY <1>1, <1>2, <1>3, <1>4, <1>5 DEF MarkAuthorized, IInv, TypeOK, RowsTypeOK
<1>7. WalletTypeOK' /\ attempt' = attempt
  BY StoreFrame DEF MarkAuthorized, IInv, TypeOK
<1>8. /\ pc' \in [Requests -> RequestSteps]
      /\ pc'[r] \in {"serving", "undo"}
      /\ \A q \in Requests \ {r} : pc'[q] = pc[q]
  BY <1>1, <1>2, <1>3, <1>4, <1>5, ToEffect
     DEF MarkAuthorized, IInv, RequestSteps
<1>9. /\ UNCHANGED <<rec, outboxVars, losses>>
      /\ Fault \/ NoFault
  BY DEF MarkAuthorized, others, NoFault, Fault
<1>10. cost' = cost
  BY DEF MarkAuthorized, requestVars
<1>11. seen' \in [Requests -> Snapshots]
  BY DEF MarkAuthorized, IInv, TypeOK, requestVars
<1>12. TypeOK'
  BY <1>6, <1>7, <1>8, <1>9, <1>10, <1>11, OutboxFrame
     DEF IInv, TypeOK, RequestSteps
<1>13. Elsewhere(r)
  BY <1>6, <1>7, <1>8, <1>9, <1>10 DEF Elsewhere, ThisRowOnly, ThisAttemptOnly
<1>14. LocalOK(r)'
  <2>1. /\ RowOK(r) /\ CostOK(r) /\ RequestOK(r) /\ AttemptOK(r)
        /\ At(r, "mark")
    BY DEF MarkAuthorized, IInv, LocalOK
  <2>2. RowOK(r)'
    BY <1>1, <1>2, <1>3, <1>4, <1>5, <1>6, <1>7, <1>8, <1>9, <1>10, <2>1
       DEF RowOK, RequestOK, In, At, Prompt
  <2>3. CostOK(r)'
    BY <1>1, <1>2, <1>3, <1>4, <1>5, <1>6, <1>7, <1>8, <1>9, <1>10, <2>1
       DEF RowOK, CostOK, RequestOK, HeldTo, Decided, In, At, Unknown
  <2>4. RequestOK(r)'
    BY <1>1, <1>2, <1>3, <1>4, <1>5, <1>6, <1>7, <1>8, <1>9, <1>10, <2>1
       DEF RowOK, CostOK, RequestOK, AttemptOK, Quiet, HeldTo, Decided,
        Recovers, In, Is, At, Prompt, Unknown
  <2>5. AttemptOK(r)'
    BY <1>1, <1>2, <1>3, <1>4, <1>5, <1>6, <1>7, <1>8, <1>9, <1>10, <2>1
       DEF RowOK, RequestOK, AttemptOK, HeldTo, Decided, In, Is, At, Prompt
  <2>6. ASSUME NEW c \in Recoverers PROVE RecoveryOK(c, r)'
    <3>1. RecoveryOK(c, r)
      BY DEF IInv, LocalOK
    <3> QED
      BY <1>1, <1>2, <1>3, <1>4, <1>5, <1>6, <1>7, <1>8, <1>9, <1>10, <2>1,
          <3>1
         DEF RowOK, CostOK, RequestOK, RecoveryOK, Quiet, HeldTo, Decided,
          Recovers, Copy, In, Is, At, Unknown, Prompt
  <2> QED
    BY <2>2, <2>3, <2>4, <2>5, <2>6 DEF LocalOK
<1> QED
  BY <1>9, <1>12, <1>13, <1>14, Local

\* The hold that is taken is that of the prepared row.
LEMMA AuthorizeHoldStep ==
  ASSUME IInv, NEW r \in Requests, AuthorizeHold(r)
  PROVE  IInv'
<1>1. /\ row[r].hold \in Nat /\ seen[r].balance \in Int /\ seen[r].at \in Nat
      /\ Allowed(r) \in BOOLEAN
  BY DEF IInv, TypeOK, RowsTypeOK, Rows, Snapshots, Allowed, At
<1>2. \/ Authorize(r, row[r].hold, seen[r].balance, seen[r].at, Allowed(r))
      \/ UNCHANGED store
  BY DEF AuthorizeHold
<1>3. /\ WalletTypeOK' /\ ThisAttemptOnly(r)
      /\ \/ attempt'[r] = attempt[r]
         \/ attempt'[r].state = "held" /\ attempt'[r].reserved = row[r].hold
  BY <1>1, <1>2, AuthorizeEffect, StoreFrame DEF IInv, TypeOK, ThisAttemptOnly
<1>4. row' = row /\ RowsTypeOK'
  BY DEF AuthorizeHold, others, IInv, TypeOK, RowsTypeOK
<1>5. WalletTypeOK' /\ ThisAttemptOnly(r)
  BY <1>1, <1>2, <1>3 DEF AuthorizeHold, IInv, TypeOK, RowsTypeOK
<1>6. /\ pc' \in [Requests -> RequestSteps]
      /\ pc'[r] \in {"mark", "snapshot", "undo"}
      /\ \A q \in Requests \ {r} : pc'[q] = pc[q]
  BY <1>1, <1>2, <1>3, ToEffect
     DEF AuthorizeHold, IInv, RequestSteps, AfterAuthorize
<1>7. /\ UNCHANGED <<rec, outboxVars, losses>>
      /\ Fault \/ NoFault
  BY DEF AuthorizeHold, others, NoFault, Fault
<1>8. cost' = cost
  BY DEF AuthorizeHold, requestVars
<1>9. seen' \in [Requests -> Snapshots]
  BY UnreadType, SnapshotType DEF AuthorizeHold, IInv, TypeOK, requestVars
<1>10. TypeOK'
  BY <1>4, <1>5, <1>6, <1>7, <1>8, <1>9, OutboxFrame
     DEF IInv, TypeOK, RequestSteps
<1>11. Elsewhere(r)
  BY <1>4, <1>5, <1>6, <1>7, <1>8 DEF Elsewhere, ThisRowOnly, ThisAttemptOnly
<1>12. LocalOK(r)'
  <2>1. /\ RowOK(r) /\ CostOK(r) /\ RequestOK(r) /\ AttemptOK(r)
        /\ pc[r] \in {"authorize", "initialize"}
    BY DEF AuthorizeHold, IInv, LocalOK
  <2>2. RowOK(r)'
    BY <1>1, <1>2, <1>3, <1>4, <1>5, <1>6, <1>7, <1>8, <2>1
       DEF RowOK, RequestOK, In, At, Prompt
  <2>3. CostOK(r)'
    BY <1>1, <1>2, <1>3, <1>4, <1>5, <1>6, <1>7, <1>8, <2>1
       DEF RowOK, CostOK, RequestOK, HeldTo, Decided, In, At, Unknown
  <2>4. RequestOK(r)'
    BY <1>1, <1>2, <1>3, <1>4, <1>5, <1>6, <1>7, <1>8, <2>1
       DEF RowOK, CostOK, RequestOK, AttemptOK, Quiet, HeldTo, Decided,
        Recovers, In, Is, At, Prompt, Unknown
  <2>5. AttemptOK(r)'
    BY <1>1, <1>2, <1>3, <1>4, <1>5, <1>6, <1>7, <1>8, <2>1
       DEF RowOK, RequestOK, AttemptOK, HeldTo, Decided, In, Is, At, Prompt
  <2>6. ASSUME NEW c \in Recoverers PROVE RecoveryOK(c, r)'
    <3>1. RecoveryOK(c, r)
      BY DEF IInv, LocalOK
    <3> QED
      BY <1>1, <1>2, <1>3, <1>4, <1>5, <1>6, <1>7, <1>8, <2>1, <3>1
         DEF RowOK, CostOK, RequestOK, RecoveryOK, Quiet, HeldTo, Decided,
          Recovers, Copy, In, Is, At, Unknown, Prompt
  <2> QED
    BY <2>2, <2>3, <2>4, <2>5, <2>6 DEF LocalOK
<1> QED
  BY <1>7, <1>10, <1>11, <1>12, Local

\* A failed authorization decides that nothing is due.
LEMMA UndoRowStep ==
  ASSUME IInv, NEW r \in Requests, UndoRow(r)
  PROVE  IInv'
<1>1. /\ In(r, {"prepared", "authorized"})
      /\ row[r].hold \in Holds /\ (BeginRefund(r) \/ row' = row)
  BY DEF UndoRow, IInv, LocalOK, RequestOK, RowOK, In, At, Prompt
<1>2. /\ RowsTypeOK' /\ ThisRowOnly(r)
      /\ row'[r].hold = row[r].hold /\ row'[r].expired = row[r].expired
      /\ row'[r].status \in {"prepared", "authorized", "finalizing"}
      /\ \/ row'[r].status = row[r].status /\ ~BeginRefund(r)
         \/ row'[r].status = "finalizing" /\ row'[r].amount = 0
  BY <1>1, BeginRefundEffect DEF IInv, TypeOK, RowsTypeOK, ThisRowOnly, In
<1>3. \/ To(r, "undoBegun") /\ BeginRefund(r)
      \/ To(r, "undoBlind")
  BY <1>1 DEF UndoRow
<1>4. pc'[r] = "undoBegun" => row'[r].status = "finalizing" /\ row'[r].amount = 0
  BY <1>2, <1>3, ToEffect DEF IInv, RequestSteps
<1>5. RowsTypeOK' /\ ThisRowOnly(r)
  BY <1>1, <1>2, <1>3, <1>4 DEF UndoRow, IInv, TypeOK, RowsTypeOK
<1>6. WalletTypeOK' /\ attempt' = attempt
  BY StoreFrame DEF UndoRow, IInv, TypeOK
<1>7. /\ pc' \in [Requests -> RequestSteps]
      /\ pc'[r] \in {"undoBegun", "undoBlind"}
      /\ \A q \in Requests \ {r} : pc'[q] = pc[q]
  BY <1>1, <1>2, <1>3, <1>4, ToEffect DEF UndoRow, IInv, RequestSteps
<1>8. /\ UNCHANGED <<rec, outboxVars, losses>>
      /\ Fault \/ NoFault
  BY DEF UndoRow, others, NoFault, Fault
<1>9. cost' = cost
  BY DEF UndoRow, requestVars
<1>10. seen' \in [Requests -> Snapshots]
  BY DEF UndoRow, IInv, TypeOK, requestVars
<1>11. TypeOK'
  BY <1>5, <1>6, <1>7, <1>8, <1>9, <1>10, OutboxFrame
     DEF IInv, TypeOK, RequestSteps
<1>12. Elsewhere(r)
  BY <1>5, <1>6, <1>7, <1>8, <1>9 DEF Elsewhere, ThisRowOnly, ThisAttemptOnly
<1>13. LocalOK(r)'
  <2>1. /\ RowOK(r) /\ CostOK(r) /\ RequestOK(r) /\ AttemptOK(r)
        /\ At(r, "undo")
    BY DEF UndoRow, IInv, LocalOK
  <2>2. RowOK(r)'
    BY <1>1, <1>2, <1>3, <1>4, <1>5, <1>6, <1>7, <1>8, <1>9, <2>1
       DEF RowOK, RequestOK, In, At, Prompt
  <2>3. CostOK(r)'
    BY <1>1, <1>2, <1>3, <1>4, <1>5, <1>6, <1>7, <1>8, <1>9, <2>1
       DEF RowOK, CostOK, RequestOK, HeldTo, Decided, In, At, Unknown
  <2>4. RequestOK(r)'
    BY <1>1, <1>2, <1>3, <1>4, <1>5, <1>6, <1>7, <1>8, <1>9, <2>1
       DEF RowOK, CostOK, RequestOK, AttemptOK, Quiet, HeldTo, Decided,
        Recovers, In, Is, At, Prompt, Unknown
  <2>5. AttemptOK(r)'
    BY <1>1, <1>2, <1>3, <1>4, <1>5, <1>6, <1>7, <1>8, <1>9, <2>1
       DEF RowOK, RequestOK, AttemptOK, HeldTo, Decided, In, Is, At, Prompt
  <2>6. ASSUME NEW c \in Recoverers PROVE RecoveryOK(c, r)'
    <3>1. RecoveryOK(c, r)
      BY DEF IInv, LocalOK
    <3> QED
      BY <1>1, <1>2, <1>3, <1>4, <1>5, <1>6, <1>7, <1>8, <1>9, <2>1, <3>1
         DEF RowOK, CostOK, RequestOK, RecoveryOK, Quiet, HeldTo, Decided,
          Recovers, Copy, In, Is, At, Unknown, Prompt
  <2> QED
    BY <2>2, <2>3, <2>4, <2>5, <2>6 DEF LocalOK
<1> QED
  BY <1>8, <1>11, <1>12, <1>13, Local

\* It reports the refund only when nothing is held any more.
LEMMA UndoHoldStep ==
  ASSUME IInv, NEW r \in Requests, UndoHold(r)
  PROVE  IInv'
<1>1. \/ /\ To(r, "completeRefund") /\ At(r, "undoBegun")
         /\ Is(r, "none") \/ RefundSucceeds(r)
      \/ To(r, "done")
  BY DEF UndoHold
<1>2. pc'[r] = "completeRefund" =>
            At(r, "undoBegun") /\ attempt'[r].state # "held"
  BY <1>1, ToEffect, RefundEffect DEF UndoHold, IInv, TypeOK, RequestSteps
<1>3. row' = row /\ RowsTypeOK'
  BY DEF UndoHold, others, IInv, TypeOK, RowsTypeOK
<1>4. /\ WalletTypeOK' /\ ThisAttemptOnly(r)
      /\ \/ attempt'[r] = attempt[r]
         \/ attempt[r].state = "held" /\ attempt'[r].state = "refunded"
  BY <1>1, <1>2, RefundEffect DEF UndoHold, IInv, TypeOK, RowsTypeOK, UndoHold
<1>5. /\ pc' \in [Requests -> RequestSteps]
      /\ pc'[r] \in {"completeRefund", "done"}
      /\ \A q \in Requests \ {r} : pc'[q] = pc[q]
  BY <1>1, <1>2, ToEffect DEF UndoHold, IInv, RequestSteps
<1>6. /\ UNCHANGED <<rec, outboxVars, losses>>
      /\ Fault \/ NoFault
  BY DEF UndoHold, others, NoFault, Fault
<1>7. cost' = cost
  BY DEF UndoHold, requestVars
<1>8. seen' \in [Requests -> Snapshots]
  BY DEF UndoHold, IInv, TypeOK, requestVars
<1>9. TypeOK'
  BY <1>3, <1>4, <1>5, <1>6, <1>7, <1>8, OutboxFrame
     DEF IInv, TypeOK, RequestSteps
<1>10. Elsewhere(r)
  BY <1>3, <1>4, <1>5, <1>6, <1>7 DEF Elsewhere, ThisRowOnly, ThisAttemptOnly
<1>11. LocalOK(r)'
  <2>1. /\ RowOK(r) /\ CostOK(r) /\ RequestOK(r) /\ AttemptOK(r)
        /\ pc[r] \in {"undoBegun", "undoBlind"}
    BY DEF UndoHold, IInv, LocalOK
  <2>2. RowOK(r)'
    BY <1>1, <1>2, <1>3, <1>4, <1>5, <1>6, <1>7, <2>1
       DEF RowOK, RequestOK, In, At, Prompt
  <2>3. CostOK(r)'
    BY <1>1, <1>2, <1>3, <1>4, <1>5, <1>6, <1>7, <2>1
       DEF RowOK, CostOK, RequestOK, HeldTo, Decided, In, At, Unknown
  <2>4. RequestOK(r)'
    BY <1>1, <1>2, <1>3, <1>4, <1>5, <1>6, <1>7, <2>1
       DEF RowOK, CostOK, RequestOK, AttemptOK, Quiet, HeldTo, Decided,
        Recovers, In, Is, At, Prompt, Unknown
  <2>5. AttemptOK(r)'
    BY <1>1, <1>2, <1>3, <1>4, <1>5, <1>6, <1>7, <2>1
       DEF RowOK, RequestOK, AttemptOK, HeldTo, Decided, In, Is, At, Prompt
  <2>6. ASSUME NEW c \in Recoverers PROVE RecoveryOK(c, r)'
    <3>1. RecoveryOK(c, r)
      BY DEF IInv, LocalOK
    <3> QED
      BY <1>1, <1>2, <1>3, <1>4, <1>5, <1>6, <1>7, <2>1, <3>1
         DEF RowOK, CostOK, RequestOK, RecoveryOK, Quiet, HeldTo, Decided,
          Recovers, Copy, In, Is, At, Unknown, Prompt
  <2> QED
    BY <2>2, <2>3, <2>4, <2>5, <2>6 DEF LocalOK
<1> QED
  BY <1>6, <1>9, <1>10, <1>11, Local

\* A top-up leaves one of the two holds.
LEMMA TopUpHoldStep ==
  ASSUME IInv, NEW r \in Requests, TopUpHold(r)
  PROVE  IInv'
<1>1. row' = row /\ RowsTypeOK'
  BY DEF TopUpHold, others, IInv, TypeOK, RowsTypeOK
<1>2. /\ WalletTypeOK' /\ ThisAttemptOnly(r)
      /\ \/ attempt'[r] = attempt[r]
         \/ /\ attempt[r].state = "held" /\ attempt'[r].state = "held"
            /\ attempt'[r].reserved = TopUpTarget
            /\ attempt[r].reserved < TopUpTarget
  BY TopUpEffect, WalletAssumption DEF TopUpHold, IInv, TypeOK, RowsTypeOK
<1>3. /\ pc' \in [Requests -> RequestSteps]
      /\ pc'[r] = "advance"
      /\ \A q \in Requests \ {r} : pc'[q] = pc[q]
  BY ToEffect DEF TopUpHold, IInv, RequestSteps
<1>4. /\ UNCHANGED <<rec, outboxVars, losses>>
      /\ Fault \/ NoFault
  BY DEF TopUpHold, others, NoFault, Fault
<1>5. cost' = cost
  BY DEF TopUpHold, requestVars
<1>6. seen' \in [Requests -> Snapshots]
  BY DEF TopUpHold, IInv, TypeOK, requestVars
<1>7. TypeOK'
  BY <1>1, <1>2, <1>3, <1>4, <1>5, <1>6, OutboxFrame
     DEF IInv, TypeOK, RequestSteps
<1>8. Elsewhere(r)
  BY <1>1, <1>2, <1>3, <1>4, <1>5 DEF Elsewhere, ThisRowOnly, ThisAttemptOnly
<1>9. LocalOK(r)'
  <2>1. /\ RowOK(r) /\ CostOK(r) /\ RequestOK(r) /\ AttemptOK(r)
        /\ At(r, "serving")
    BY DEF TopUpHold, IInv, LocalOK
  <2>2. RowOK(r)'
    BY <1>1, <1>2, <1>3, <1>4, <1>5, HoldsPositive, WalletAssumption, <2>1
       DEF RowOK, RequestOK, In, At, Prompt, Holds
  <2>3. CostOK(r)'
    BY <1>1, <1>2, <1>3, <1>4, <1>5, HoldsPositive, WalletAssumption, <2>1
       DEF RowOK, CostOK, RequestOK, HeldTo, Decided, In, At, Unknown, Holds
  <2>4. RequestOK(r)'
    BY <1>1, <1>2, <1>3, <1>4, <1>5, HoldsPositive, WalletAssumption, <2>1
       DEF RowOK, CostOK, RequestOK, AttemptOK, Quiet, HeldTo, Decided,
        Recovers, In, Is, At, Prompt, Unknown, Holds
  <2>5. AttemptOK(r)'
    BY <1>1, <1>2, <1>3, <1>4, <1>5, HoldsPositive, WalletAssumption, <2>1
       DEF RowOK, RequestOK, AttemptOK, HeldTo, Decided, In, Is, At, Prompt,
        Holds
  <2>6. ASSUME NEW c \in Recoverers PROVE RecoveryOK(c, r)'
    <3>1. RecoveryOK(c, r)
      BY DEF IInv, LocalOK
    <3> QED
      BY <1>1, <1>2, <1>3, <1>4, <1>5, HoldsPositive, WalletAssumption, <2>1,
          <3>1
         DEF RowOK, CostOK, RequestOK, RecoveryOK, Quiet, HeldTo, Decided,
          Recovers, Copy, In, Is, At, Unknown, Prompt, Holds
  <2> QED
    BY <2>2, <2>3, <2>4, <2>5, <2>6 DEF LocalOK
<1> QED
  BY <1>4, <1>7, <1>8, <1>9, Local

\* So does its record in the row.
LEMMA AdvanceHoldStep ==
  ASSUME IInv, NEW r \in Requests, AdvanceHold(r)
  PROVE  IInv'
<1>1. row[r].hold \in Holds
  BY DEF AdvanceHold, IInv, LocalOK, RequestOK, RowOK, In, At, Prompt
<1>2. /\ RowsTypeOK' /\ ThisRowOnly(r)
      /\ row'[r].status = row[r].status
      /\ row'[r].hold \in {row[r].hold, Larger(row[r].hold, TopUpTarget)}
      /\ row'[r].amount = row[r].amount /\ row'[r].expired = row[r].expired
  BY AdvanceEffect, WalletAssumption
     DEF AdvanceHold, IInv, TypeOK, RowsTypeOK, ThisRowOnly
<1>3. row'[r].hold \in Holds
  BY <1>1, <1>2, LargerHold
<1>4. RowsTypeOK' /\ ThisRowOnly(r)
  BY <1>1, <1>2, <1>3 DEF AdvanceHold, IInv, TypeOK, RowsTypeOK
<1>5. WalletTypeOK' /\ attempt' = attempt
  BY StoreFrame DEF AdvanceHold, IInv, TypeOK
<1>6. /\ pc' \in [Requests -> RequestSteps]
      /\ pc'[r] = "serving"
      /\ \A q \in Requests \ {r} : pc'[q] = pc[q]
  BY <1>1, <1>2, <1>3, ToEffect DEF AdvanceHold, IInv, RequestSteps
<1>7. /\ UNCHANGED <<rec, outboxVars, losses>>
      /\ Fault \/ NoFault
  BY DEF AdvanceHold, others, NoFault, Fault
<1>8. cost' = cost
  BY DEF AdvanceHold, requestVars
<1>9. seen' \in [Requests -> Snapshots]
  BY DEF AdvanceHold, IInv, TypeOK, requestVars
<1>10. TypeOK'
  BY <1>4, <1>5, <1>6, <1>7, <1>8, <1>9, OutboxFrame
     DEF IInv, TypeOK, RequestSteps
<1>11. Elsewhere(r)
  BY <1>4, <1>5, <1>6, <1>7, <1>8 DEF Elsewhere, ThisRowOnly, ThisAttemptOnly
<1>12. LocalOK(r)'
  <2>1. /\ RowOK(r) /\ CostOK(r) /\ RequestOK(r) /\ AttemptOK(r)
        /\ At(r, "advance")
    BY DEF AdvanceHold, IInv, LocalOK
  <2>2. RowOK(r)'
    BY <1>1, <1>2, <1>3, <1>4, <1>5, <1>6, <1>7, <1>8, <2>1
       DEF RowOK, RequestOK, In, At, Prompt
  <2>3. CostOK(r)'
    BY <1>1, <1>2, <1>3, <1>4, <1>5, <1>6, <1>7, <1>8, <2>1
       DEF RowOK, CostOK, RequestOK, HeldTo, Decided, In, At, Unknown
  <2>4. RequestOK(r)'
    BY <1>1, <1>2, <1>3, <1>4, <1>5, <1>6, <1>7, <1>8, <2>1
       DEF RowOK, CostOK, RequestOK, AttemptOK, Quiet, HeldTo, Decided,
        Recovers, In, Is, At, Prompt, Unknown
  <2>5. AttemptOK(r)'
    BY <1>1, <1>2, <1>3, <1>4, <1>5, <1>6, <1>7, <1>8, <2>1
       DEF RowOK, RequestOK, AttemptOK, HeldTo, Decided, In, Is, At, Prompt
  <2>6. ASSUME NEW c \in Recoverers PROVE RecoveryOK(c, r)'
    <3>1. RecoveryOK(c, r)
      BY DEF IInv, LocalOK
    <3> QED
      BY <1>1, <1>2, <1>3, <1>4, <1>5, <1>6, <1>7, <1>8, <2>1, <3>1
         DEF RowOK, CostOK, RequestOK, RecoveryOK, Quiet, HeldTo, Decided,
          Recovers, Copy, In, Is, At, Unknown, Prompt
  <2> QED
    BY <2>2, <2>3, <2>4, <2>5, <2>6 DEF LocalOK
<1> QED
  BY <1>7, <1>10, <1>11, <1>12, Local

\* A use becomes known while the row is authorized or charged already.
LEMMA TransferStep ==
  ASSUME IInv, NEW r \in Requests, Transfer(r)
  PROVE  IInv'
<1>1. row' = row /\ RowsTypeOK'
  BY DEF Transfer, others, IInv, TypeOK, RowsTypeOK
<1>2. WalletTypeOK' /\ attempt' = attempt
  BY StoreFrame DEF Transfer, IInv, TypeOK
<1>3. /\ pc' \in [Requests -> RequestSteps]
      /\ pc'[r] = "use"
      /\ \A q \in Requests \ {r} : pc'[q] = pc[q]
  BY ToEffect DEF Transfer, IInv, RequestSteps
<1>4. /\ UNCHANGED <<rec, outboxVars, losses>>
      /\ Fault \/ NoFault
  BY DEF Transfer, others, NoFault, Fault
<1>5. /\ cost' \in [Requests -> Nat \cup {Unknown}] /\ cost'[r] \in Costs
      /\ \A q \in Requests \ {r} : cost'[q] = cost[q]
  BY WalletAssumption DEF Transfer, IInv, TypeOK
<1>6. seen' \in [Requests -> Snapshots]
  BY DEF Transfer, IInv, TypeOK, requestVars
<1>7. TypeOK'
  BY <1>1, <1>2, <1>3, <1>4, <1>5, <1>6, OutboxFrame
     DEF IInv, TypeOK, RequestSteps
<1>8. Elsewhere(r)
  BY <1>1, <1>2, <1>3, <1>4, <1>5 DEF Elsewhere, ThisRowOnly, ThisAttemptOnly
<1>9. LocalOK(r)'
  <2>1. /\ RowOK(r) /\ CostOK(r) /\ RequestOK(r) /\ AttemptOK(r)
        /\ At(r, "serving")
    BY DEF Transfer, IInv, LocalOK
  <2>2. RowOK(r)'
    BY <1>1, <1>2, <1>3, <1>4, <1>5, WalletAssumption, <2>1
       DEF RowOK, RequestOK, In, At, Prompt
  <2>3. CostOK(r)'
    BY <1>1, <1>2, <1>3, <1>4, <1>5, WalletAssumption, <2>1
       DEF RowOK, CostOK, RequestOK, HeldTo, Decided, In, At, Unknown
  <2>4. RequestOK(r)'
    BY <1>1, <1>2, <1>3, <1>4, <1>5, WalletAssumption, <2>1
       DEF RowOK, CostOK, RequestOK, AttemptOK, Quiet, HeldTo, Decided,
        Recovers, In, Is, At, Prompt, Unknown
  <2>5. AttemptOK(r)'
    BY <1>1, <1>2, <1>3, <1>4, <1>5, WalletAssumption, <2>1
       DEF RowOK, RequestOK, AttemptOK, HeldTo, Decided, In, Is, At, Prompt
  <2>6. ASSUME NEW c \in Recoverers PROVE RecoveryOK(c, r)'
    <3>1. RecoveryOK(c, r)
      BY DEF IInv, LocalOK
    <3> QED
      BY <1>1, <1>2, <1>3, <1>4, <1>5, WalletAssumption, <2>1, <3>1
         DEF RowOK, CostOK, RequestOK, RecoveryOK, Quiet, HeldTo, Decided,
          Recovers, Copy, In, Is, At, Unknown, Prompt
  <2> QED
    BY <2>2, <2>3, <2>4, <2>5, <2>6 DEF LocalOK
<1> QED
  BY <1>4, <1>7, <1>8, <1>9, Local

\* A cancelled request has not been charged a known use.
LEMMA CancelStep ==
  ASSUME IInv, NEW r \in Requests, Cancel(r)
  PROVE  IInv'
<1>1. row' = row /\ RowsTypeOK'
  BY DEF Cancel, others, IInv, TypeOK, RowsTypeOK
<1>2. WalletTypeOK' /\ attempt' = attempt
  BY StoreFrame DEF Cancel, IInv, TypeOK
<1>3. /\ pc' \in [Requests -> RequestSteps]
      /\ pc'[r] = "cancel"
      /\ \A q \in Requests \ {r} : pc'[q] = pc[q]
  BY ToEffect DEF Cancel, IInv, RequestSteps
<1>4. /\ UNCHANGED <<rec, outboxVars, losses>>
      /\ Fault \/ NoFault
  BY DEF Cancel, others, NoFault, Fault
<1>5. cost' = cost
  BY DEF Cancel, requestVars
<1>6. seen' \in [Requests -> Snapshots]
  BY DEF Cancel, IInv, TypeOK, requestVars
<1>7. TypeOK'
  BY <1>1, <1>2, <1>3, <1>4, <1>5, <1>6, OutboxFrame
     DEF IInv, TypeOK, RequestSteps
<1>8. Elsewhere(r)
  BY <1>1, <1>2, <1>3, <1>4, <1>5 DEF Elsewhere, ThisRowOnly, ThisAttemptOnly
<1>9. LocalOK(r)'
  <2>1. /\ RowOK(r) /\ CostOK(r) /\ RequestOK(r) /\ AttemptOK(r)
        /\ At(r, "serving")
    BY DEF Cancel, IInv, LocalOK
  <2>2. RowOK(r)'
    BY <1>1, <1>2, <1>3, <1>4, <1>5, <2>1
       DEF RowOK, RequestOK, In, At, Prompt
  <2>3. CostOK(r)'
    BY <1>1, <1>2, <1>3, <1>4, <1>5, <2>1
       DEF RowOK, CostOK, RequestOK, HeldTo, Decided, In, At, Unknown
  <2>4. RequestOK(r)'
    BY <1>1, <1>2, <1>3, <1>4, <1>5, <2>1
       DEF RowOK, CostOK, RequestOK, AttemptOK, Quiet, HeldTo, Decided,
        Recovers, In, Is, At, Prompt, Unknown
  <2>5. AttemptOK(r)'
    BY <1>1, <1>2, <1>3, <1>4, <1>5, <2>1
       DEF RowOK, RequestOK, AttemptOK, HeldTo, Decided, In, Is, At, Prompt
  <2>6. ASSUME NEW c \in Recoverers PROVE RecoveryOK(c, r)'
    <3>1. RecoveryOK(c, r)
      BY DEF IInv, LocalOK
    <3> QED
      BY <1>1, <1>2, <1>3, <1>4, <1>5, <2>1, <3>1
         DEF RowOK, CostOK, RequestOK, RecoveryOK, Quiet, HeldTo, Decided,
          Recovers, Copy, In, Is, At, Unknown, Prompt
  <2> QED
    BY <2>2, <2>3, <2>4, <2>5, <2>6 DEF LocalOK
<1> QED
  BY <1>4, <1>7, <1>8, <1>9, Local

\* The usage record decides the known use unless a recovery was faster.
LEMMA ApplyUsageStep ==
  ASSUME IInv, NEW r \in Requests, ApplyUsage(r)
  PROVE  IInv'
<1>1. cost[r] \in Nat /\ cost[r] \in Costs
  BY WalletAssumption DEF ApplyUsage, IInv, LocalOK, CostOK, At
<1>2. /\ RowsTypeOK' /\ ThisRowOnly(r)
      /\ \/ row'[r] = row[r]
         \/ /\ row[r].status = "authorized" /\ row'[r].status = "finalizing"
            /\ row'[r].hold = row[r].hold /\ row'[r].amount = cost[r]
            /\ row'[r].expired = row[r].expired
  BY <1>1, DecideEffect
     DEF ApplyUsage, IInv, TypeOK, RowsTypeOK, ThisRowOnly, Fingerprints, In
<1>3. RowsTypeOK' /\ ThisRowOnly(r)
  BY <1>1, <1>2 DEF ApplyUsage, IInv, TypeOK, RowsTypeOK
<1>4. WalletTypeOK' /\ attempt' = attempt
  BY StoreFrame DEF ApplyUsage, IInv, TypeOK
<1>5. /\ pc' \in [Requests -> RequestSteps]
      /\ pc'[r] = "begin"
      /\ \A q \in Requests \ {r} : pc'[q] = pc[q]
  BY <1>1, <1>2, ToEffect DEF ApplyUsage, IInv, RequestSteps
<1>6. /\ UNCHANGED <<rec, outboxVars, losses>>
      /\ Fault \/ NoFault
  BY DEF ApplyUsage, others, NoFault, Fault
<1>7. cost' = cost
  BY DEF ApplyUsage, requestVars
<1>8. seen' \in [Requests -> Snapshots]
  BY DEF ApplyUsage, IInv, TypeOK, requestVars
<1>9. TypeOK'
  BY <1>3, <1>4, <1>5, <1>6, <1>7, <1>8, OutboxFrame
     DEF IInv, TypeOK, RequestSteps
<1>10. Elsewhere(r)
  BY <1>3, <1>4, <1>5, <1>6, <1>7 DEF Elsewhere, ThisRowOnly, ThisAttemptOnly
<1>11. LocalOK(r)'
  <2>1. /\ RowOK(r) /\ CostOK(r) /\ RequestOK(r) /\ AttemptOK(r)
        /\ At(r, "use")
    BY DEF ApplyUsage, IInv, LocalOK
  <2>2. RowOK(r)'
    BY <1>1, <1>2, <1>3, <1>4, <1>5, <1>6, <1>7, <2>1
       DEF RowOK, RequestOK, In, At, Prompt
  <2>3. CostOK(r)'
    BY <1>1, <1>2, <1>3, <1>4, <1>5, <1>6, <1>7, <2>1
       DEF RowOK, CostOK, RequestOK, HeldTo, Decided, In, At, Unknown
  <2>4. RequestOK(r)'
    BY <1>1, <1>2, <1>3, <1>4, <1>5, <1>6, <1>7, <2>1
       DEF RowOK, CostOK, RequestOK, AttemptOK, Quiet, HeldTo, Decided,
        Recovers, In, Is, At, Prompt, Unknown
  <2>5. AttemptOK(r)'
    BY <1>1, <1>2, <1>3, <1>4, <1>5, <1>6, <1>7, <2>1
       DEF RowOK, RequestOK, AttemptOK, HeldTo, Decided, In, Is, At, Prompt
  <2>6. ASSUME NEW c \in Recoverers PROVE RecoveryOK(c, r)'
    <3>1. RecoveryOK(c, r)
      BY DEF IInv, LocalOK
    <3> QED
      BY <1>1, <1>2, <1>3, <1>4, <1>5, <1>6, <1>7, <2>1, <3>1
         DEF RowOK, CostOK, RequestOK, RecoveryOK, Quiet, HeldTo, Decided,
          Recovers, Copy, In, Is, At, Unknown, Prompt
  <2> QED
    BY <2>2, <2>3, <2>4, <2>5, <2>6 DEF LocalOK
<1> QED
  BY <1>6, <1>9, <1>10, <1>11, Local

\* The request goes on to settle only the verdict of the row.
LEMMA BeginSettlementStep ==
  ASSUME IInv, NEW r \in Requests, BeginSettlement(r)
  PROVE  IInv'
<1>1. cost[r] \in Nat /\ cost[r] \in Costs
  BY WalletAssumption DEF BeginSettlement, IInv, LocalOK, CostOK, At
<1>2. /\ RowsTypeOK' /\ ThisRowOnly(r)
      /\ \/ row'[r] = row[r] /\ row[r].status # "authorized"
         \/ /\ row[r].status = "authorized" /\ row'[r].status = "finalizing"
            /\ row'[r].hold = row[r].hold /\ row'[r].amount = cost[r]
            /\ row'[r].expired = row[r].expired
  BY <1>1, DecideEffect
     DEF BeginSettlement, BeginFinalization, IInv, TypeOK, Fingerprints, In
<1>3. BeginFinds(r, cost[r], "usage") =>
         \/ row[r].status = "authorized"
         \/ Decided(r) /\ row[r].amount = cost[r]
  BY DEF BeginFinds, SameVerdict, Decided, In
<1>4. pc'[r] = "settle" => BeginFinds(r, cost[r], "usage")
  BY ToEffect DEF BeginSettlement, IInv, RequestSteps
<1>5. RowsTypeOK' /\ ThisRowOnly(r)
  BY <1>1, <1>2, <1>3, <1>4 DEF BeginSettlement, IInv, TypeOK, RowsTypeOK
<1>6. WalletTypeOK' /\ attempt' = attempt
  BY StoreFrame DEF BeginSettlement, IInv, TypeOK
<1>7. /\ pc' \in [Requests -> RequestSteps]
      /\ pc'[r] \in {"settle", "done"}
      /\ \A q \in Requests \ {r} : pc'[q] = pc[q]
  BY <1>1, <1>2, <1>3, <1>4, ToEffect DEF BeginSettlement, IInv, RequestSteps
<1>8. /\ UNCHANGED <<rec, outboxVars, losses>>
      /\ Fault \/ NoFault
  BY DEF BeginSettlement, others, NoFault, Fault
<1>9. cost' = cost
  BY DEF BeginSettlement, requestVars
<1>10. seen' \in [Requests -> Snapshots]
  BY DEF BeginSettlement, IInv, TypeOK, requestVars
<1>11. TypeOK'
  BY <1>5, <1>6, <1>7, <1>8, <1>9, <1>10, OutboxFrame
     DEF IInv, TypeOK, RequestSteps
<1>12. Elsewhere(r)
  BY <1>5, <1>6, <1>7, <1>8, <1>9 DEF Elsewhere, ThisRowOnly, ThisAttemptOnly
<1>13. LocalOK(r)'
  <2>1. /\ RowOK(r) /\ CostOK(r) /\ RequestOK(r) /\ AttemptOK(r)
        /\ At(r, "begin")
    BY DEF BeginSettlement, IInv, LocalOK
  <2>2. RowOK(r)'
    BY <1>1, <1>2, <1>3, <1>4, <1>5, <1>6, <1>7, <1>8, <1>9, <2>1
       DEF RowOK, RequestOK, In, At, Prompt
  <2>3. CostOK(r)'
    BY <1>1, <1>2, <1>3, <1>4, <1>5, <1>6, <1>7, <1>8, <1>9, <2>1
       DEF RowOK, CostOK, RequestOK, HeldTo, Decided, In, At, Unknown
  <2>4. RequestOK(r)'
    BY <1>1, <1>2, <1>3, <1>4, <1>5, <1>6, <1>7, <1>8, <1>9, <2>1
       DEF RowOK, CostOK, RequestOK, AttemptOK, Quiet, HeldTo, Decided,
        Recovers, In, Is, At, Prompt, Unknown
  <2>5. AttemptOK(r)'
    BY <1>1, <1>2, <1>3, <1>4, <1>5, <1>6, <1>7, <1>8, <1>9, <2>1
       DEF RowOK, RequestOK, AttemptOK, HeldTo, Decided, In, Is, At, Prompt
  <2>6. ASSUME NEW c \in Recoverers PROVE RecoveryOK(c, r)'
    <3>1. RecoveryOK(c, r)
      BY DEF IInv, LocalOK
    <3> QED
      BY <1>1, <1>2, <1>3, <1>4, <1>5, <1>6, <1>7, <1>8, <1>9, <2>1, <3>1
         DEF RowOK, CostOK, RequestOK, RecoveryOK, Quiet, HeldTo, Decided,
          Recovers, Copy, In, Is, At, Unknown, Prompt
  <2> QED
    BY <2>2, <2>3, <2>4, <2>5, <2>6 DEF LocalOK
<1> QED
  BY <1>8, <1>11, <1>12, <1>13, Local

\* The wallet is settled with the verdict of the row.
LEMMA SettleHoldStep ==
  ASSUME IInv, NEW r \in Requests, SettleHold(r)
  PROVE  IInv'
<1>1. cost[r] \in Nat /\ cost[r] \in Costs
  BY WalletAssumption DEF SettleHold, IInv, LocalOK, CostOK, At
<1>2. \/ Refund(r) /\ cost[r] = 0
      \/ Finalize(r, cost[r]) /\ cost[r] # 0
  BY DEF SettleHold
<1>3. /\ WalletTypeOK' /\ ThisAttemptOnly(r)
      /\ \/ attempt'[r] = attempt[r]
         \/ /\ attempt[r].state = "held" /\ attempt'[r].state = "refunded"
            /\ cost[r] = 0
         \/ /\ attempt[r].state = "held" /\ attempt'[r].state = "finalized"
            /\ attempt'[r].actual = cost[r] /\ cost[r] # 0
  BY <1>1, <1>2, RefundEffect, FinalizeEffect DEF IInv, TypeOK
<1>4. \/ To(r, "completeRefund") /\ cost[r] = 0 /\ RefundSucceeds(r)
      \/ /\ To(r, "completeSettlement") /\ cost[r] # 0
         /\ FinalizeSucceeds(r, cost[r])
      \/ To(r, "done")
  BY DEF SettleHold
<1>5. /\ pc'[r] = "completeRefund" => cost[r] = 0 /\ attempt'[r].state # "held"
      /\ pc'[r] = "completeSettlement" => cost[r] # 0 /\ attempt'[r].state = "finalized"
  BY <1>1, <1>2, <1>4, ToEffect, RefundEffect, FinalizeEffect
     DEF IInv, TypeOK, RequestSteps
<1>6. row' = row /\ RowsTypeOK'
  BY DEF SettleHold, others, IInv, TypeOK, RowsTypeOK
<1>7. WalletTypeOK' /\ ThisAttemptOnly(r)
  BY <1>1, <1>2, <1>3, <1>4, <1>5 DEF SettleHold, IInv, TypeOK, RowsTypeOK
<1>8. /\ pc' \in [Requests -> RequestSteps]
      /\ pc'[r] \in {"completeRefund", "completeSettlement", "done"}
      /\ \A q \in Requests \ {r} : pc'[q] = pc[q]
  BY <1>1, <1>2, <1>3, <1>4, <1>5, ToEffect DEF SettleHold, IInv, RequestSteps
<1>9. /\ UNCHANGED <<rec, outboxVars, losses>>
      /\ Fault \/ NoFault
  BY DEF SettleHold, others, NoFault, Fault
<1>10. cost' = cost
  BY DEF SettleHold, requestVars
<1>11. seen' \in [Requests -> Snapshots]
  BY DEF SettleHold, IInv, TypeOK, requestVars
<1>12. TypeOK'
  BY <1>6, <1>7, <1>8, <1>9, <1>10, <1>11, OutboxFrame
     DEF IInv, TypeOK, RequestSteps
<1>13. Elsewhere(r)
  BY <1>6, <1>7, <1>8, <1>9, <1>10 DEF Elsewhere, ThisRowOnly, ThisAttemptOnly
<1>14. LocalOK(r)'
  <2>1. /\ RowOK(r) /\ CostOK(r) /\ RequestOK(r) /\ AttemptOK(r)
        /\ At(r, "settle")
    BY DEF SettleHold, IInv, LocalOK
  <2>2. RowOK(r)'
    BY <1>1, <1>2, <1>3, <1>4, <1>5, <1>6, <1>7, <1>8, <1>9, <1>10, <2>1
       DEF RowOK, RequestOK, In, At, Prompt
  <2>3. CostOK(r)'
    BY <1>1, <1>2, <1>3, <1>4, <1>5, <1>6, <1>7, <1>8, <1>9, <1>10, <2>1
       DEF RowOK, CostOK, RequestOK, HeldTo, Decided, In, At, Unknown
  <2>4. RequestOK(r)'
    BY <1>1, <1>2, <1>3, <1>4, <1>5, <1>6, <1>7, <1>8, <1>9, <1>10, <2>1
       DEF RowOK, CostOK, RequestOK, AttemptOK, Quiet, HeldTo, Decided,
        Recovers, In, Is, At, Prompt, Unknown
  <2>5. AttemptOK(r)'
    BY <1>1, <1>2, <1>3, <1>4, <1>5, <1>6, <1>7, <1>8, <1>9, <1>10, <2>1
       DEF RowOK, RequestOK, AttemptOK, HeldTo, Decided, In, Is, At, Prompt
  <2>6. ASSUME NEW c \in Recoverers PROVE RecoveryOK(c, r)'
    <3>1. RecoveryOK(c, r)
      BY DEF IInv, LocalOK
    <3> QED
      BY <1>1, <1>2, <1>3, <1>4, <1>5, <1>6, <1>7, <1>8, <1>9, <1>10, <2>1,
          <3>1
         DEF RowOK, CostOK, RequestOK, RecoveryOK, Quiet, HeldTo, Decided,
          Recovers, Copy, In, Is, At, Unknown, Prompt
  <2> QED
    BY <2>2, <2>3, <2>4, <2>5, <2>6 DEF LocalOK
<1> QED
  BY <1>9, <1>12, <1>13, <1>14, Local

\* The row becomes pending only when nothing is held any more.
LEMMA FinishSettlementStep ==
  ASSUME IInv, NEW r \in Requests, FinishSettlement(r)
  PROVE  IInv'
<1>1. /\ RowsTypeOK' /\ ThisRowOnly(r)
      /\ \/ row'[r].status = row[r].status
         \/ /\ row[r].status = "finalizing" /\ row'[r].status = "pending"
            /\ row[r].amount > 0
      /\ row'[r].hold = row[r].hold
      /\ row'[r].amount = row[r].amount
      /\ row'[r].expired = row[r].expired
  BY CompleteSettlementEffect DEF FinishSettlement, IInv, TypeOK, RowsTypeOK
<1>2. WalletTypeOK' /\ attempt' = attempt
  BY StoreFrame DEF FinishSettlement, IInv, TypeOK
<1>3. /\ pc' \in [Requests -> RequestSteps]
      /\ pc'[r] = "done"
      /\ \A q \in Requests \ {r} : pc'[q] = pc[q]
  BY ToEffect DEF FinishSettlement, IInv, RequestSteps
<1>4. /\ UNCHANGED <<rec, outboxVars, losses>>
      /\ Fault \/ NoFault
  BY DEF FinishSettlement, others, NoFault, Fault
<1>5. cost' = cost
  BY DEF FinishSettlement, requestVars
<1>6. seen' \in [Requests -> Snapshots]
  BY DEF FinishSettlement, IInv, TypeOK, requestVars
<1>7. TypeOK'
  BY <1>1, <1>2, <1>3, <1>4, <1>5, <1>6, OutboxFrame
     DEF IInv, TypeOK, RequestSteps
<1>8. Elsewhere(r)
  BY <1>1, <1>2, <1>3, <1>4, <1>5 DEF Elsewhere, ThisRowOnly, ThisAttemptOnly
<1>9. LocalOK(r)'
  <2>1. /\ RowOK(r) /\ CostOK(r) /\ RequestOK(r) /\ AttemptOK(r)
        /\ At(r, "completeSettlement")
    BY DEF FinishSettlement, IInv, LocalOK
  <2>2. RowOK(r)'
    BY <1>1, <1>2, <1>3, <1>4, <1>5, <2>1
       DEF RowOK, RequestOK, In, At, Prompt
  <2>3. CostOK(r)'
    BY <1>1, <1>2, <1>3, <1>4, <1>5, <2>1
       DEF RowOK, CostOK, RequestOK, HeldTo, Decided, In, At, Unknown
  <2>4. RequestOK(r)'
    BY <1>1, <1>2, <1>3, <1>4, <1>5, <2>1
       DEF RowOK, CostOK, RequestOK, AttemptOK, Quiet, HeldTo, Decided,
        Recovers, In, Is, At, Prompt, Unknown
  <2>5. AttemptOK(r)'
    BY <1>1, <1>2, <1>3, <1>4, <1>5, <2>1
       DEF RowOK, RequestOK, AttemptOK, HeldTo, Decided, In, Is, At, Prompt
  <2>6. ASSUME NEW c \in Recoverers PROVE RecoveryOK(c, r)'
    <3>1. RecoveryOK(c, r)
      BY DEF IInv, LocalOK
    <3> QED
      BY <1>1, <1>2, <1>3, <1>4, <1>5, <2>1, <3>1
         DEF RowOK, CostOK, RequestOK, RecoveryOK, Quiet, HeldTo, Decided,
          Recovers, Copy, In, Is, At, Unknown, Prompt
  <2> QED
    BY <2>2, <2>3, <2>4, <2>5, <2>6 DEF LocalOK
<1> QED
  BY <1>4, <1>7, <1>8, <1>9, Local

\* The handler releases a hold only under the verdict zero.
LEMMA CancelRowStep ==
  ASSUME IInv, NEW r \in Requests, CancelRow(r)
  PROVE  IInv'
<1>1. BeginRefundFinds(r) => In(r, {"prepared", "authorized"}) \/ HeldTo(r, 0)
  BY DEF IInv, LocalOK, RowOK, BeginRefundFinds, HeldTo, Decided, In
<1>2. pc'[r] = "release" => BeginRefundFinds(r)
  BY ToEffect DEF CancelRow, IInv, RequestSteps
<1>3. /\ RowsTypeOK' /\ ThisRowOnly(r)
      /\ In(r, {"prepared", "authorized"}) =>
            /\ row'[r].status = "finalizing" /\ row'[r].hold = row[r].hold
            /\ row'[r].amount = 0 /\ row'[r].expired = row[r].expired
      /\ ~In(r, {"prepared", "authorized"}) => row'[r] = row[r]
  BY <1>1, <1>2, BeginRefundEffect DEF CancelRow, IInv, TypeOK, RowsTypeOK
<1>4. WalletTypeOK' /\ attempt' = attempt
  BY StoreFrame DEF CancelRow, IInv, TypeOK
<1>5. /\ pc' \in [Requests -> RequestSteps]
      /\ pc'[r] \in {"release", "done"}
      /\ \A q \in Requests \ {r} : pc'[q] = pc[q]
  BY <1>1, <1>2, ToEffect DEF CancelRow, IInv, RequestSteps
<1>6. /\ UNCHANGED <<rec, outboxVars, losses>>
      /\ Fault \/ NoFault
  BY DEF CancelRow, others, NoFault, Fault
<1>7. cost' = cost
  BY DEF CancelRow, requestVars
<1>8. seen' \in [Requests -> Snapshots]
  BY DEF CancelRow, IInv, TypeOK, requestVars
<1>9. TypeOK'
  BY <1>3, <1>4, <1>5, <1>6, <1>7, <1>8, OutboxFrame
     DEF IInv, TypeOK, RequestSteps
<1>10. Elsewhere(r)
  BY <1>3, <1>4, <1>5, <1>6, <1>7 DEF Elsewhere, ThisRowOnly, ThisAttemptOnly
<1>11. LocalOK(r)'
  <2>1. /\ RowOK(r) /\ CostOK(r) /\ RequestOK(r) /\ AttemptOK(r)
        /\ At(r, "cancel")
    BY DEF CancelRow, IInv, LocalOK
  <2>2. RowOK(r)'
    BY <1>1, <1>2, <1>3, <1>4, <1>5, <1>6, <1>7, <2>1
       DEF RowOK, RequestOK, In, At, Prompt
  <2>3. CostOK(r)'
    BY <1>1, <1>2, <1>3, <1>4, <1>5, <1>6, <1>7, <2>1
       DEF RowOK, CostOK, RequestOK, HeldTo, Decided, In, At, Unknown
  <2>4. RequestOK(r)'
    BY <1>1, <1>2, <1>3, <1>4, <1>5, <1>6, <1>7, <2>1
       DEF RowOK, CostOK, RequestOK, AttemptOK, Quiet, HeldTo, Decided,
        Recovers, In, Is, At, Prompt, Unknown
  <2>5. AttemptOK(r)'
    BY <1>1, <1>2, <1>3, <1>4, <1>5, <1>6, <1>7, <2>1
       DEF RowOK, RequestOK, AttemptOK, HeldTo, Decided, In, Is, At, Prompt
  <2>6. ASSUME NEW c \in Recoverers PROVE RecoveryOK(c, r)'
    <3>1. RecoveryOK(c, r)
      BY DEF IInv, LocalOK
    <3> QED
      BY <1>1, <1>2, <1>3, <1>4, <1>5, <1>6, <1>7, <2>1, <3>1
         DEF RowOK, CostOK, RequestOK, RecoveryOK, Quiet, HeldTo, Decided,
          Recovers, Copy, In, Is, At, Unknown, Prompt
  <2> QED
    BY <2>2, <2>3, <2>4, <2>5, <2>6 DEF LocalOK
<1> QED
  BY <1>6, <1>9, <1>10, <1>11, Local

\* It completes the refund only when nothing is held any more.
LEMMA ReleaseHoldStep ==
  ASSUME IInv, NEW r \in Requests, ReleaseHold(r)
  PROVE  IInv'
<1>1. pc'[r] = "completeRefund" => attempt'[r].state # "held"
  BY ToEffect, RefundEffect DEF ReleaseHold, IInv, TypeOK, RequestSteps
<1>2. row' = row /\ RowsTypeOK'
  BY DEF ReleaseHold, others, IInv, TypeOK, RowsTypeOK
<1>3. /\ WalletTypeOK' /\ ThisAttemptOnly(r)
      /\ \/ attempt'[r] = attempt[r]
         \/ attempt[r].state = "held" /\ attempt'[r].state = "refunded"
  BY <1>1, RefundEffect DEF ReleaseHold, IInv, TypeOK, RowsTypeOK
<1>4. /\ pc' \in [Requests -> RequestSteps]
      /\ pc'[r] \in {"completeRefund", "done"}
      /\ \A q \in Requests \ {r} : pc'[q] = pc[q]
  BY <1>1, ToEffect DEF ReleaseHold, IInv, RequestSteps
<1>5. /\ UNCHANGED <<rec, outboxVars, losses>>
      /\ Fault \/ NoFault
  BY DEF ReleaseHold, others, NoFault, Fault
<1>6. cost' = cost
  BY DEF ReleaseHold, requestVars
<1>7. seen' \in [Requests -> Snapshots]
  BY DEF ReleaseHold, IInv, TypeOK, requestVars
<1>8. TypeOK'
  BY <1>2, <1>3, <1>4, <1>5, <1>6, <1>7, OutboxFrame
     DEF IInv, TypeOK, RequestSteps
<1>9. Elsewhere(r)
  BY <1>2, <1>3, <1>4, <1>5, <1>6 DEF Elsewhere, ThisRowOnly, ThisAttemptOnly
<1>10. LocalOK(r)'
  <2>1. /\ RowOK(r) /\ CostOK(r) /\ RequestOK(r) /\ AttemptOK(r)
        /\ At(r, "release")
    BY DEF ReleaseHold, IInv, LocalOK
  <2>2. RowOK(r)'
    BY <1>1, <1>2, <1>3, <1>4, <1>5, <1>6, <2>1
       DEF RowOK, RequestOK, In, At, Prompt
  <2>3. CostOK(r)'
    BY <1>1, <1>2, <1>3, <1>4, <1>5, <1>6, <2>1
       DEF RowOK, CostOK, RequestOK, HeldTo, Decided, In, At, Unknown
  <2>4. RequestOK(r)'
    BY <1>1, <1>2, <1>3, <1>4, <1>5, <1>6, <2>1
       DEF RowOK, CostOK, RequestOK, AttemptOK, Quiet, HeldTo, Decided,
        Recovers, In, Is, At, Prompt, Unknown
  <2>5. AttemptOK(r)'
    BY <1>1, <1>2, <1>3, <1>4, <1>5, <1>6, <2>1
       DEF RowOK, RequestOK, AttemptOK, HeldTo, Decided, In, Is, At, Prompt
  <2>6. ASSUME NEW c \in Recoverers PROVE RecoveryOK(c, r)'
    <3>1. RecoveryOK(c, r)
      BY DEF IInv, LocalOK
    <3> QED
      BY <1>1, <1>2, <1>3, <1>4, <1>5, <1>6, <2>1, <3>1
         DEF RowOK, CostOK, RequestOK, RecoveryOK, Quiet, HeldTo, Decided,
          Recovers, Copy, In, Is, At, Unknown, Prompt
  <2> QED
    BY <2>2, <2>3, <2>4, <2>5, <2>6 DEF LocalOK
<1> QED
  BY <1>5, <1>8, <1>9, <1>10, Local

\* The row becomes refunded only then.
LEMMA FinishRefundStep ==
  ASSUME IInv, NEW r \in Requests, FinishRefund(r)
  PROVE  IInv'
<1>1. /\ RowsTypeOK' /\ ThisRowOnly(r)
      /\ \/ row'[r].status = row[r].status
         \/ /\ row[r].status = "finalizing" /\ row'[r].status = "refunded"
            /\ row[r].amount = 0
      /\ row'[r].hold = row[r].hold
      /\ row'[r].amount = row[r].amount
      /\ row'[r].expired = row[r].expired
  BY CompleteRefundEffect DEF FinishRefund, IInv, TypeOK, RowsTypeOK
<1>2. WalletTypeOK' /\ attempt' = attempt
  BY StoreFrame DEF FinishRefund, IInv, TypeOK
<1>3. /\ pc' \in [Requests -> RequestSteps]
      /\ pc'[r] = "done"
      /\ \A q \in Requests \ {r} : pc'[q] = pc[q]
  BY ToEffect DEF FinishRefund, IInv, RequestSteps
<1>4. /\ UNCHANGED <<rec, outboxVars, losses>>
      /\ Fault \/ NoFault
  BY DEF FinishRefund, others, NoFault, Fault
<1>5. cost' = cost
  BY DEF FinishRefund, requestVars
<1>6. seen' \in [Requests -> Snapshots]
  BY DEF FinishRefund, IInv, TypeOK, requestVars
<1>7. TypeOK'
  BY <1>1, <1>2, <1>3, <1>4, <1>5, <1>6, OutboxFrame
     DEF IInv, TypeOK, RequestSteps
<1>8. Elsewhere(r)
  BY <1>1, <1>2, <1>3, <1>4, <1>5 DEF Elsewhere, ThisRowOnly, ThisAttemptOnly
<1>9. LocalOK(r)'
  <2>1. /\ RowOK(r) /\ CostOK(r) /\ RequestOK(r) /\ AttemptOK(r)
        /\ At(r, "completeRefund")
    BY DEF FinishRefund, IInv, LocalOK
  <2>2. RowOK(r)'
    BY <1>1, <1>2, <1>3, <1>4, <1>5, <2>1
       DEF RowOK, RequestOK, In, At, Prompt
  <2>3. CostOK(r)'
    BY <1>1, <1>2, <1>3, <1>4, <1>5, <2>1
       DEF RowOK, CostOK, RequestOK, HeldTo, Decided, In, At, Unknown
  <2>4. RequestOK(r)'
    BY <1>1, <1>2, <1>3, <1>4, <1>5, <2>1
       DEF RowOK, CostOK, RequestOK, AttemptOK, Quiet, HeldTo, Decided,
        Recovers, In, Is, At, Prompt, Unknown
  <2>5. AttemptOK(r)'
    BY <1>1, <1>2, <1>3, <1>4, <1>5, <2>1
       DEF RowOK, RequestOK, AttemptOK, HeldTo, Decided, In, Is, At, Prompt
  <2>6. ASSUME NEW c \in Recoverers PROVE RecoveryOK(c, r)'
    <3>1. RecoveryOK(c, r)
      BY DEF IInv, LocalOK
    <3> QED
      BY <1>1, <1>2, <1>3, <1>4, <1>5, <2>1, <3>1
         DEF RowOK, CostOK, RequestOK, RecoveryOK, Quiet, HeldTo, Decided,
          Recovers, Copy, In, Is, At, Unknown, Prompt
  <2> QED
    BY <2>2, <2>3, <2>4, <2>5, <2>6 DEF LocalOK
<1> QED
  BY <1>4, <1>7, <1>8, <1>9, Local

\* A request may end anywhere.
LEMMA AbandonStep ==
  ASSUME IInv, NEW r \in Requests, Abandon(r)
  PROVE  IInv'
<1>1. row' = row /\ RowsTypeOK'
  BY DEF Abandon, others, IInv, TypeOK, RowsTypeOK
<1>2. WalletTypeOK' /\ attempt' = attempt
  BY StoreFrame DEF Abandon, IInv, TypeOK
<1>3. /\ pc' \in [Requests -> RequestSteps]
      /\ pc'[r] = "done"
      /\ \A q \in Requests \ {r} : pc'[q] = pc[q]
  BY ToEffect DEF Abandon, IInv, RequestSteps
<1>4. /\ UNCHANGED <<rec, outboxVars, losses>>
      /\ Fault \/ NoFault
  BY DEF Abandon, others, NoFault, Fault
<1>5. cost' = cost
  BY DEF Abandon, requestVars
<1>6. seen' \in [Requests -> Snapshots]
  BY UnreadType, SnapshotType DEF Abandon, IInv, TypeOK, requestVars
<1>7. TypeOK'
  BY <1>1, <1>2, <1>3, <1>4, <1>5, <1>6, OutboxFrame
     DEF IInv, TypeOK, RequestSteps
<1>8. Elsewhere(r)
  BY <1>1, <1>2, <1>3, <1>4, <1>5 DEF Elsewhere, ThisRowOnly, ThisAttemptOnly
<1>9. LocalOK(r)'
  <2>1. /\ RowOK(r) /\ CostOK(r) /\ RequestOK(r) /\ AttemptOK(r)
        /\ pc[r] \notin {"idle", "done"}
    BY DEF Abandon, IInv, LocalOK
  <2>2. RowOK(r)'
    BY <1>1, <1>2, <1>3, <1>4, <1>5, <2>1
       DEF RowOK, RequestOK, In, At, Prompt
  <2>3. CostOK(r)'
    BY <1>1, <1>2, <1>3, <1>4, <1>5, <2>1
       DEF RowOK, CostOK, RequestOK, HeldTo, Decided, In, At, Unknown
  <2>4. RequestOK(r)'
    BY <1>1, <1>2, <1>3, <1>4, <1>5, <2>1
       DEF RowOK, CostOK, RequestOK, AttemptOK, Quiet, HeldTo, Decided,
        Recovers, In, Is, At, Prompt, Unknown
  <2>5. AttemptOK(r)'
    BY <1>1, <1>2, <1>3, <1>4, <1>5, <2>1
       DEF RowOK, RequestOK, AttemptOK, HeldTo, Decided, In, Is, At, Prompt
  <2>6. ASSUME NEW c \in Recoverers PROVE RecoveryOK(c, r)'
    <3>1. RecoveryOK(c, r)
      BY DEF IInv, LocalOK
    <3> QED
      BY <1>1, <1>2, <1>3, <1>4, <1>5, <2>1, <3>1
         DEF RowOK, CostOK, RequestOK, RecoveryOK, Quiet, HeldTo, Decided,
          Recovers, Copy, In, Is, At, Unknown, Prompt
  <2> QED
    BY <2>2, <2>3, <2>4, <2>5, <2>6 DEF LocalOK
<1> QED
  BY <1>4, <1>7, <1>8, <1>9, Local

\* A row expires only when its request is not in a prompt call.
LEMMA ExpireRowStep ==
  ASSUME IInv, NEW r \in Requests, ExpireRow(r)
  PROVE  IInv'
<1>1. /\ RowsTypeOK' /\ ThisRowOnly(r)
      /\ row'[r].status = row[r].status
      /\ row'[r].hold = row[r].hold
      /\ row'[r].amount = row[r].amount
  BY ExpireEffect DEF ExpireRow, IInv, TypeOK, RowsTypeOK
<1>2. WalletTypeOK' /\ attempt' = attempt
  BY StoreFrame DEF ExpireRow, IInv, TypeOK
<1>3. pc' = pc
  BY DEF ExpireRow, requestVars
<1>4. /\ UNCHANGED <<rec, outboxVars, losses>>
      /\ Fault \/ NoFault
  BY DEF ExpireRow, others, NoFault, Fault
<1>5. cost' = cost
  BY DEF ExpireRow, requestVars
<1>6. seen' \in [Requests -> Snapshots]
  BY DEF ExpireRow, IInv, TypeOK, requestVars
<1>7. TypeOK'
  BY <1>1, <1>2, <1>3, <1>4, <1>5, <1>6, OutboxFrame
     DEF IInv, TypeOK, RequestSteps
<1>8. Elsewhere(r)
  BY <1>1, <1>2, <1>3, <1>4, <1>5 DEF Elsewhere, ThisRowOnly, ThisAttemptOnly
<1>9. LocalOK(r)'
  <2>1. /\ RowOK(r) /\ CostOK(r) /\ RequestOK(r) /\ AttemptOK(r)
        /\ pc[r] \notin Prompt /\ In(r, {"prepared", "authorized"})
    BY DEF ExpireRow, IInv, LocalOK
  <2>2. RowOK(r)'
    BY <1>1, <1>2, <1>3, <1>4, <1>5, <2>1
       DEF RowOK, RequestOK, In, At, Prompt
  <2>3. CostOK(r)'
    BY <1>1, <1>2, <1>3, <1>4, <1>5, <2>1
       DEF RowOK, CostOK, RequestOK, HeldTo, Decided, In, At, Unknown
  <2>4. RequestOK(r)'
    BY <1>1, <1>2, <1>3, <1>4, <1>5, <2>1
       DEF RowOK, CostOK, RequestOK, AttemptOK, Quiet, HeldTo, Decided,
        Recovers, In, Is, At, Prompt, Unknown
  <2>5. AttemptOK(r)'
    BY <1>1, <1>2, <1>3, <1>4, <1>5, <2>1
       DEF RowOK, RequestOK, AttemptOK, HeldTo, Decided, In, Is, At, Prompt
  <2>6. ASSUME NEW c \in Recoverers PROVE RecoveryOK(c, r)'
    <3>1. RecoveryOK(c, r)
      BY DEF IInv, LocalOK
    <3> QED
      BY <1>1, <1>2, <1>3, <1>4, <1>5, <2>1, <3>1
         DEF RowOK, CostOK, RequestOK, RecoveryOK, Quiet, HeldTo, Decided,
          Recovers, Copy, In, Is, At, Unknown, Prompt
  <2> QED
    BY <2>2, <2>3, <2>4, <2>5, <2>6 DEF LocalOK
<1> QED
  BY <1>4, <1>7, <1>8, <1>9, Local

\* An attempt that ended may be forgotten.
LEMMA DropAttemptStep ==
  ASSUME IInv, NEW r \in Requests, DropAttempt(r)
  PROVE  IInv'
<1>1. row' = row /\ RowsTypeOK'
  BY DEF DropAttempt, others, IInv, TypeOK, RowsTypeOK
<1>2. /\ WalletTypeOK' /\ ThisAttemptOnly(r)
      /\ attempt'[r].state = "none"
  BY DropEffect DEF DropAttempt, IInv, TypeOK, RowsTypeOK
<1>3. pc' = pc
  BY DEF DropAttempt, requestVars
<1>4. /\ UNCHANGED <<rec, outboxVars, losses>>
      /\ Fault \/ NoFault
  BY DEF DropAttempt, others, NoFault, Fault
<1>5. cost' = cost
  BY DEF DropAttempt, requestVars
<1>6. seen' \in [Requests -> Snapshots]
  BY DEF DropAttempt, IInv, TypeOK, requestVars
<1>7. TypeOK'
  BY <1>1, <1>2, <1>3, <1>4, <1>5, <1>6, OutboxFrame
     DEF IInv, TypeOK, RequestSteps
<1>8. Elsewhere(r)
  BY <1>1, <1>2, <1>3, <1>4, <1>5 DEF Elsewhere, ThisRowOnly, ThisAttemptOnly
<1>9. LocalOK(r)'
  <2>1. /\ RowOK(r) /\ CostOK(r) /\ RequestOK(r) /\ AttemptOK(r)
        /\ ~In(r, {"finalizing"})
    BY DEF DropAttempt, IInv, LocalOK
  <2>2. RowOK(r)'
    BY <1>1, <1>2, <1>3, <1>4, <1>5, <2>1
       DEF RowOK, RequestOK, In, At, Prompt
  <2>3. CostOK(r)'
    BY <1>1, <1>2, <1>3, <1>4, <1>5, <2>1
       DEF RowOK, CostOK, RequestOK, HeldTo, Decided, In, At, Unknown
  <2>4. RequestOK(r)'
    BY <1>1, <1>2, <1>3, <1>4, <1>5, <2>1
       DEF RowOK, CostOK, RequestOK, AttemptOK, Quiet, HeldTo, Decided,
        Recovers, In, Is, At, Prompt, Unknown
  <2>5. AttemptOK(r)'
    BY <1>1, <1>2, <1>3, <1>4, <1>5, <2>1
       DEF RowOK, RequestOK, AttemptOK, HeldTo, Decided, In, Is, At, Prompt
  <2>6. ASSUME NEW c \in Recoverers PROVE RecoveryOK(c, r)'
    <3>1. RecoveryOK(c, r)
      BY DEF IInv, LocalOK
    <3> QED
      BY <1>1, <1>2, <1>3, <1>4, <1>5, <2>1, <3>1
         DEF RowOK, CostOK, RequestOK, RecoveryOK, Quiet, HeldTo, Decided,
          Recovers, Copy, In, Is, At, Unknown, Prompt
  <2> QED
    BY <2>2, <2>3, <2>4, <2>5, <2>6 DEF LocalOK
<1> QED
  BY <1>4, <1>7, <1>8, <1>9, Local

-----------------------------------------------------------------------------
(* The steps of a recovery *)

ThisCopyOnly(c, r) ==
    \A d \in Recoverers, q \in Requests :
        d # c \/ q # r => rec'[d][q] = rec[d][q]

CopiesTypeOK ==
    rec \in [Recoverers -> [Requests -> [step : RecoverySteps, copy : Rows]]]

\* A recovery goes on with the copy of the row that it has.
LEMMA StepsEffect ==
  ASSUME CopiesTypeOK, NEW c \in Recoverers, NEW r \in Requests,
         NEW step \in RecoverySteps, Steps(c, r, step)
  PROVE  /\ CopiesTypeOK' /\ ThisCopyOnly(c, r)
         /\ rec'[c][r].step = step /\ rec'[c][r].copy = rec[c][r].copy
BY DEF CopiesTypeOK, Steps, ThisCopyOnly

\* A recovery that ends forgets its copy.
LEMMA StopsEffect ==
  ASSUME CopiesTypeOK, NEW c \in Recoverers, NEW r \in Requests, Stops(c, r)
  PROVE  /\ CopiesTypeOK' /\ ThisCopyOnly(c, r)
         /\ rec'[c][r].step = "idle"
<1>1. Idle \in [step : RecoverySteps, copy : Rows] /\ Idle.step = "idle"
  BY DEF Idle, RecoverySteps, Rows, NoRow, Statuses, Fingerprints
<1> QED
  BY <1>1 DEF CopiesTypeOK, Stops, ThisCopyOnly

CopyBecomes(c, r, step, copy) ==
    rec' = [rec EXCEPT ![c][r] = [step |-> step, copy |-> copy]]

\* A recovery goes on with another copy.
LEMMA CopyEffect ==
  ASSUME CopiesTypeOK, NEW c \in Recoverers, NEW r \in Requests,
         NEW step \in RecoverySteps, NEW copy \in Rows,
         CopyBecomes(c, r, step, copy)
  PROVE  /\ CopiesTypeOK' /\ ThisCopyOnly(c, r)
         /\ rec'[c][r].step = step /\ rec'[c][r].copy = copy
<1> DEFINE entry == [step |-> step, copy |-> copy]
<1>1. /\ entry \in [step : RecoverySteps, copy : Rows]
      /\ entry.step = step /\ entry.copy = copy
  OBVIOUS
<1>2. rec' = [rec EXCEPT ![c][r] = entry]
  BY DEF CopyBecomes
<1> HIDE DEF entry
<1> QED
  BY <1>1, <1>2 DEF CopiesTypeOK, ThisCopyOnly

\* A recovery takes the hold of the wallet for that of its copy.
LEMMA SharperCopy ==
  ASSUME CopiesTypeOK, NEW c \in Recoverers, NEW r \in Requests,
         NEW reserved \in Nat,
         rec' = [rec EXCEPT ![c][r] = [step |-> "advance",
                   copy |-> [rec[c][r].copy EXCEPT !.hold = reserved]]]
  PROVE  /\ CopiesTypeOK' /\ ThisCopyOnly(c, r)
         /\ rec'[c][r].step = "advance"
         /\ rec'[c][r].copy.hold = reserved
         /\ rec'[c][r].copy.status = rec[c][r].copy.status
<1> DEFINE copy == [rec[c][r].copy EXCEPT !.hold = reserved]
<1>1. rec[c][r].copy \in Rows
  BY DEF CopiesTypeOK
<1>2. /\ copy \in Rows /\ copy.hold = reserved
      /\ copy.status = rec[c][r].copy.status
  BY <1>1 DEF Rows
<1>3. CopyBecomes(c, r, "advance", copy)
  BY DEF CopyBecomes
<1>4. "advance" \in RecoverySteps
  BY DEF RecoverySteps
<1> HIDE DEF copy
<1> QED
  BY <1>2, <1>3, <1>4, CopyEffect

\* A recovery that has decided what a row pays enters that in its copy.
LEMMA DecidedCopy ==
  ASSUME CopiesTypeOK, NEW c \in Recoverers, NEW r \in Requests,
         NEW amount \in Nat,
         rec' = [rec EXCEPT ![c][r] = [step |-> "settle",
                   copy |-> [rec[c][r].copy EXCEPT !.amount = amount]]]
  PROVE  /\ CopiesTypeOK' /\ ThisCopyOnly(c, r)
         /\ rec'[c][r].step = "settle"
         /\ rec'[c][r].copy.hold = rec[c][r].copy.hold
         /\ rec'[c][r].copy.status = rec[c][r].copy.status
         /\ rec'[c][r].copy.amount = amount
<1> DEFINE copy == [rec[c][r].copy EXCEPT !.amount = amount]
<1>1. rec[c][r].copy \in Rows
  BY DEF CopiesTypeOK
<1>2. /\ copy \in Rows /\ copy.amount = amount
      /\ copy.hold = rec[c][r].copy.hold
      /\ copy.status = rec[c][r].copy.status
  BY <1>1 DEF Rows
<1>3. CopyBecomes(c, r, "settle", copy)
  BY DEF CopyBecomes
<1>4. "settle" \in RecoverySteps
  BY DEF RecoverySteps
<1> HIDE DEF copy
<1> QED
  BY <1>2, <1>3, <1>4, CopyEffect

\* What a recovery of one row changes is confined to that row and its attempt.
LEMMA LocalRecovery ==
  ASSUME IInv, NEW r \in Requests, NEW c \in Recoverers,
         RowsTypeOK', ThisRowOnly(r), WalletTypeOK', ThisAttemptOnly(r),
         CopiesTypeOK', ThisCopyOnly(c, r),
         UNCHANGED <<requestVars, outboxVars, losses>>, Fault \/ NoFault,
         RowOK(r)', CostOK(r)', RequestOK(r)', AttemptOK(r)',
         \A d \in Recoverers : RecoveryOK(d, r)'
  PROVE  IInv'
<1>1. UNCHANGED <<pc, seen, cost>>
  BY DEF requestVars
<1>2. OutboxTypeOK'
  BY OutboxFrame DEF IInv, TypeOK
<1>3. TypeOK'
  BY <1>1, <1>2 DEF IInv, TypeOK, CopiesTypeOK
<1>4. Elsewhere(r)
  BY <1>1 DEF Elsewhere, ThisRowOnly, ThisAttemptOnly, ThisCopyOnly
<1>5. LocalOK(r)'
  BY DEF LocalOK
<1>6. UNCHANGED outboxVars
  OBVIOUS
<1> QED
  BY <1>3, <1>4, <1>5, <1>6, Local

\* A recovery takes a copy of an expired or finalizing row.
LEMMA ListStep ==
  ASSUME IInv, NEW r \in Requests, NEW c \in Recoverers, List(c, r)
  PROVE  IInv'
<1>1. /\ row[r] \in Rows
      /\ "recover" \in RecoverySteps /\ CopyBecomes(c, r, "recover", row[r])
  BY DEF List, CopyBecomes, IInv, TypeOK, RowsTypeOK, RecoverySteps
<1>2. RowsTypeOK /\ WalletTypeOK /\ CopiesTypeOK
  BY DEF IInv, TypeOK, CopiesTypeOK
<1>3. /\ UNCHANGED <<requestVars, outboxVars, losses>>
      /\ Fault \/ NoFault
  BY DEF List, idleOthers, NoFault
<1>4. row' = row
  BY DEF List
<1>5. WalletTypeOK' /\ attempt' = attempt
  BY <1>2, StoreFrame DEF List
<1>6. /\ CopiesTypeOK' /\ ThisCopyOnly(c, r)
      /\ rec'[c][r].step = "recover" /\ rec'[c][r].copy = row[r]
  BY <1>1, <1>2, CopyEffect DEF List
<1>7. pc' = pc /\ cost' = cost
  BY <1>3 DEF requestVars
<1>8. RowOK(r)' /\ CostOK(r)' /\ RequestOK(r)' /\ AttemptOK(r)'
  <2>1. /\ RowOK(r) /\ CostOK(r) /\ RequestOK(r) /\ AttemptOK(r)
        /\ RecoveryOK(c, r) /\ Recovers(c, r, "idle") /\ (ExpiredBefore(r) \/ In(r, {"finalizing"}))
    BY DEF List, IInv, LocalOK
  <2>2. RowOK(r)'
    BY <1>1, <1>2, <1>4, <1>5, <1>6, <1>7, <2>1
       DEF RowOK, In, At, RecoveryOK, Recovers, Copy, ExpiredBefore
  <2>3. CostOK(r)'
    BY <1>1, <1>2, <1>4, <1>5, <1>6, <1>7, <2>1
       DEF RowOK, CostOK, HeldTo, Decided, In, At, Unknown, RecoveryOK,
        Recovers, Copy, ExpiredBefore
  <2>4. RequestOK(r)'
    BY <1>1, <1>2, <1>4, <1>5, <1>6, <1>7, <2>1
       DEF RowOK, CostOK, RequestOK, AttemptOK, Quiet, HeldTo, Decided,
        Recovers, In, Is, At, Prompt, Unknown, ThisCopyOnly, CopiesTypeOK,
        RecoveryOK, Copy, ExpiredBefore
  <2>5. AttemptOK(r)'
    BY <1>1, <1>2, <1>4, <1>5, <1>6, <1>7, <2>1
       DEF RowOK, AttemptOK, HeldTo, Decided, In, Is, At, RecoveryOK,
        Recovers, Copy, ExpiredBefore
  <2> QED
    BY <2>2, <2>3, <2>4, <2>5
<1>9. ASSUME NEW d \in Recoverers \ {c} PROVE RecoveryOK(d, r)'
  <2>1. /\ RowOK(r) /\ CostOK(r) /\ RequestOK(r) /\ AttemptOK(r)
        /\ RecoveryOK(c, r) /\ Recovers(c, r, "idle") /\ (ExpiredBefore(r) \/ In(r, {"finalizing"}))
    BY DEF List, IInv, LocalOK
  <2>2. RecoveryOK(d, r) /\ rec'[d][r] = rec[d][r]
    BY <1>1, <1>2, <1>4, <1>5, <1>6, <1>7 DEF IInv, LocalOK, ThisCopyOnly
  <2> QED
    BY <1>1, <1>2, <1>4, <1>5, <1>6, <1>7, <2>1, <2>2
       DEF RowOK, CostOK, RequestOK, RecoveryOK, HeldTo, Decided, Recovers,
        Copy, In, Is, At, Unknown, Prompt, ExpiredBefore
<1>10. RecoveryOK(c, r)'
  <2>1. /\ RowOK(r) /\ CostOK(r) /\ RequestOK(r) /\ AttemptOK(r)
        /\ RecoveryOK(c, r) /\ Recovers(c, r, "idle") /\ (ExpiredBefore(r) \/ In(r, {"finalizing"}))
    BY DEF List, IInv, LocalOK
  <2> QED
    BY <1>1, <1>2, <1>4, <1>5, <1>6, <1>7, <2>1
       DEF RowOK, CostOK, RequestOK, RecoveryOK, HeldTo, Decided, Recovers,
        Copy, In, Is, At, Unknown, Prompt, ExpiredBefore
<1>11. RowsTypeOK' /\ ThisRowOnly(r) /\ ThisAttemptOnly(r)
  BY <1>2, <1>4, <1>5 DEF RowsTypeOK, ThisRowOnly, ThisAttemptOnly
<1> QED
  BY <1>3, <1>5, <1>6, <1>8, <1>9, <1>10, <1>11, LocalRecovery

\* A recovered prepared row gets the verdict zero.
LEMMA RecoverPreparedStep ==
  ASSUME IInv, NEW r \in Requests, NEW c \in Recoverers, RecoverPrepared(c, r)
  PROVE  IInv'
<1>1. BeginRefundFinds(r) => In(r, {"prepared", "authorized"}) \/ HeldTo(r, 0)
  BY DEF IInv, LocalOK, RowOK, BeginRefundFinds, HeldTo, Decided, In
<1>2. RowsTypeOK /\ WalletTypeOK /\ CopiesTypeOK
  BY DEF IInv, TypeOK, CopiesTypeOK
<1>3. /\ UNCHANGED <<requestVars, outboxVars, losses>>
      /\ Fault \/ NoFault
  BY DEF RecoverPrepared, idleOthers, NoFault
<1>4. /\ RowsTypeOK' /\ ThisRowOnly(r)
      /\ In(r, {"prepared", "authorized"}) =>
            /\ row'[r].status = "finalizing" /\ row'[r].hold = row[r].hold
            /\ row'[r].amount = 0 /\ row'[r].expired = row[r].expired
      /\ ~In(r, {"prepared", "authorized"}) => row'[r] = row[r]
  BY <1>1, <1>2, BeginRefundEffect DEF RecoverPrepared
<1>5. WalletTypeOK' /\ attempt' = attempt
  BY <1>2, StoreFrame DEF RecoverPrepared
<1>6. /\ CopiesTypeOK' /\ ThisCopyOnly(c, r)
      /\ rec'[c][r].step \in {"refund", "idle"}
      /\ rec'[c][r].step # "idle" => rec'[c][r].copy = rec[c][r].copy
      /\ rec'[c][r].step = "refund" => BeginRefundFinds(r)
  BY <1>1, <1>2, StepsEffect, StopsEffect DEF RecoverPrepared, RecoverySteps
<1>7. pc' = pc /\ cost' = cost
  BY <1>3 DEF requestVars
<1>8. RowOK(r)' /\ CostOK(r)' /\ RequestOK(r)' /\ AttemptOK(r)'
  <2>1. /\ RowOK(r) /\ CostOK(r) /\ RequestOK(r) /\ AttemptOK(r)
        /\ RecoveryOK(c, r) /\ Recovers(c, r, "recover") /\ Copy(c, r).status = "prepared"
    BY DEF RecoverPrepared, IInv, LocalOK
  <2>2. RowOK(r)'
    BY <1>1, <1>2, <1>4, <1>5, <1>6, <1>7, <2>1
       DEF RowOK, In, At, RecoveryOK, Recovers, Copy
  <2>3. CostOK(r)'
    BY <1>1, <1>2, <1>4, <1>5, <1>6, <1>7, <2>1
       DEF RowOK, CostOK, HeldTo, Decided, In, At, Unknown, RecoveryOK,
        Recovers, Copy
  <2>4. RequestOK(r)'
    BY <1>1, <1>2, <1>4, <1>5, <1>6, <1>7, <2>1
       DEF RowOK, CostOK, RequestOK, AttemptOK, Quiet, HeldTo, Decided,
        Recovers, In, Is, At, Prompt, Unknown, ThisCopyOnly, CopiesTypeOK,
        RecoveryOK, Copy
  <2>5. AttemptOK(r)'
    BY <1>1, <1>2, <1>4, <1>5, <1>6, <1>7, <2>1
       DEF RowOK, AttemptOK, HeldTo, Decided, In, Is, At, RecoveryOK,
        Recovers, Copy
  <2> QED
    BY <2>2, <2>3, <2>4, <2>5
<1>9. ASSUME NEW d \in Recoverers \ {c} PROVE RecoveryOK(d, r)'
  <2>1. /\ RowOK(r) /\ CostOK(r) /\ RequestOK(r) /\ AttemptOK(r)
        /\ RecoveryOK(c, r) /\ Recovers(c, r, "recover") /\ Copy(c, r).status = "prepared"
    BY DEF RecoverPrepared, IInv, LocalOK
  <2>2. RecoveryOK(d, r) /\ rec'[d][r] = rec[d][r]
    BY <1>1, <1>2, <1>4, <1>5, <1>6, <1>7 DEF IInv, LocalOK, ThisCopyOnly
  <2> QED
    BY <1>1, <1>2, <1>4, <1>5, <1>6, <1>7, <2>1, <2>2
       DEF RowOK, CostOK, RequestOK, RecoveryOK, HeldTo, Decided, Recovers,
        Copy, In, Is, At, Unknown, Prompt
<1>10. RecoveryOK(c, r)'
  <2>1. /\ RowOK(r) /\ CostOK(r) /\ RequestOK(r) /\ AttemptOK(r)
        /\ RecoveryOK(c, r) /\ Recovers(c, r, "recover") /\ Copy(c, r).status = "prepared"
    BY DEF RecoverPrepared, IInv, LocalOK
  <2> QED
    BY <1>1, <1>2, <1>4, <1>5, <1>6, <1>7, <2>1
       DEF RowOK, CostOK, RequestOK, RecoveryOK, HeldTo, Decided, Recovers,
        Copy, In, Is, At, Unknown, Prompt
<1>11. RowsTypeOK' /\ ThisRowOnly(r) /\ ThisAttemptOnly(r)
  BY <1>2, <1>4, <1>5 DEF RowsTypeOK, ThisRowOnly, ThisAttemptOnly
<1> QED
  BY <1>3, <1>5, <1>6, <1>8, <1>9, <1>10, <1>11, LocalRecovery

\* A recovered authorized row keeps one of the two holds.
LEMMA RecoverAuthorizedStep ==
  ASSUME IInv, NEW r \in Requests, NEW c \in Recoverers, RecoverAuthorized(c, r)
  PROVE  IInv'
<1>1. Copy(c, r).hold \in Holds /\ Copy(c, r).status = "authorized"
  BY DEF RecoverAuthorized, IInv, LocalOK, RecoveryOK, Recovers
<1>2. Is(r, "held") => attempt[r].reserved \in Holds /\ attempt[r].reserved \in Nat
  BY HoldsPositive DEF IInv, LocalOK, AttemptOK
<1>3. \/ Steps(c, r, "begin")
      \/ /\ Is(r, "held")
         /\ rec' = [rec EXCEPT ![c][r] = [step |-> "advance",
              copy |-> [rec[c][r].copy EXCEPT !.hold = attempt[r].reserved]]]
      \/ Stops(c, r)
  BY DEF RecoverAuthorized, Copy
<1>4. RowsTypeOK /\ WalletTypeOK /\ CopiesTypeOK
  BY DEF IInv, TypeOK, CopiesTypeOK
<1>5. /\ UNCHANGED <<requestVars, outboxVars, losses>>
      /\ Fault \/ NoFault
  BY DEF RecoverAuthorized, idleOthers, NoFault
<1>6. row' = row
  BY DEF RecoverAuthorized
<1>7. WalletTypeOK' /\ attempt' = attempt
  BY <1>4, StoreFrame DEF RecoverAuthorized
<1>8. /\ CopiesTypeOK' /\ ThisCopyOnly(c, r)
      /\ rec'[c][r].step \in {"begin", "advance", "idle"}
      /\ rec'[c][r].step # "idle" =>
            rec'[c][r].copy.hold \in Holds /\ rec'[c][r].copy.status = "authorized"
  <2>1. CASE Steps(c, r, "begin")
    BY <1>1, <1>4, <2>1, StepsEffect DEF RecoverySteps, Copy
  <2>2. CASE /\ Is(r, "held")
             /\ rec' = [rec EXCEPT ![c][r] = [step |-> "advance",
                  copy |-> [rec[c][r].copy EXCEPT !.hold = attempt[r].reserved]]]
    <3>1. /\ CopiesTypeOK' /\ ThisCopyOnly(c, r)
          /\ rec'[c][r].step = "advance"
          /\ rec'[c][r].copy.hold = attempt[r].reserved
          /\ rec'[c][r].copy.status = rec[c][r].copy.status
      BY <1>2, <1>4, <2>2, SharperCopy
    <3> QED
      BY <1>1, <1>2, <2>2, <3>1 DEF Copy
  <2>3. CASE Stops(c, r)
    BY <1>4, <2>3, StopsEffect
  <2> QED
    BY <1>3, <2>1, <2>2, <2>3
<1>9. pc' = pc /\ cost' = cost
  BY <1>5 DEF requestVars
<1>10. RowOK(r)' /\ CostOK(r)' /\ RequestOK(r)' /\ AttemptOK(r)'
  <2>1. /\ RowOK(r) /\ CostOK(r) /\ RequestOK(r) /\ AttemptOK(r)
        /\ RecoveryOK(c, r) /\ Recovers(c, r, "recover") /\ Copy(c, r).status = "authorized"
    BY DEF RecoverAuthorized, IInv, LocalOK
  <2>2. RowOK(r)'
    BY <1>1, <1>2, <1>3, <1>4, <1>6, <1>7, <1>8, <1>9, <2>1
       DEF RowOK, In, At, RecoveryOK, Recovers, Copy
  <2>3. CostOK(r)'
    BY <1>1, <1>2, <1>3, <1>4, <1>6, <1>7, <1>8, <1>9, <2>1
       DEF RowOK, CostOK, HeldTo, Decided, In, At, Unknown, RecoveryOK,
        Recovers, Copy
  <2>4. RequestOK(r)'
    BY <1>1, <1>2, <1>3, <1>4, <1>6, <1>7, <1>8, <1>9, <2>1
       DEF RowOK, CostOK, RequestOK, AttemptOK, Quiet, HeldTo, Decided,
        Recovers, In, Is, At, Prompt, Unknown, ThisCopyOnly, CopiesTypeOK,
        RecoveryOK, Copy
  <2>5. AttemptOK(r)'
    BY <1>1, <1>2, <1>3, <1>4, <1>6, <1>7, <1>8, <1>9, <2>1
       DEF RowOK, AttemptOK, HeldTo, Decided, In, Is, At, RecoveryOK,
        Recovers, Copy
  <2> QED
    BY <2>2, <2>3, <2>4, <2>5
<1>11. ASSUME NEW d \in Recoverers \ {c} PROVE RecoveryOK(d, r)'
  <2>1. /\ RowOK(r) /\ CostOK(r) /\ RequestOK(r) /\ AttemptOK(r)
        /\ RecoveryOK(c, r) /\ Recovers(c, r, "recover") /\ Copy(c, r).status = "authorized"
    BY DEF RecoverAuthorized, IInv, LocalOK
  <2>2. RecoveryOK(d, r) /\ rec'[d][r] = rec[d][r]
    BY <1>1, <1>2, <1>3, <1>4, <1>6, <1>7, <1>8, <1>9
       DEF IInv, LocalOK, ThisCopyOnly
  <2> QED
    BY <1>1, <1>2, <1>3, <1>4, <1>6, <1>7, <1>8, <1>9, <2>1, <2>2
       DEF RowOK, CostOK, RequestOK, RecoveryOK, HeldTo, Decided, Recovers,
        Copy, In, Is, At, Unknown, Prompt
<1>12. RecoveryOK(c, r)'
  <2>1. /\ RowOK(r) /\ CostOK(r) /\ RequestOK(r) /\ AttemptOK(r)
        /\ RecoveryOK(c, r) /\ Recovers(c, r, "recover") /\ Copy(c, r).status = "authorized"
    BY DEF RecoverAuthorized, IInv, LocalOK
  <2> QED
    BY <1>1, <1>2, <1>3, <1>4, <1>6, <1>7, <1>8, <1>9, <2>1
       DEF RowOK, CostOK, RequestOK, RecoveryOK, HeldTo, Decided, Recovers,
        Copy, In, Is, At, Unknown, Prompt
<1>13. RowsTypeOK' /\ ThisRowOnly(r) /\ ThisAttemptOnly(r)
  BY <1>4, <1>6, <1>7 DEF RowsTypeOK, ThisRowOnly, ThisAttemptOnly
<1> QED
  BY <1>5, <1>7, <1>8, <1>10, <1>11, <1>12, <1>13, LocalRecovery

\* The recovered hold is recorded.
LEMMA RecoverAdvanceStep ==
  ASSUME IInv, NEW r \in Requests, NEW c \in Recoverers, RecoverAdvance(c, r)
  PROVE  IInv'
<1>1. /\ Copy(c, r).hold \in Holds /\ row[r].hold \in Holds
      /\ Copy(c, r).hold \in {Hold, TopUpTarget} /\ Copy(c, r).hold \in Nat
      /\ Copy(c, r).status = "authorized"
  BY HoldsPositive
     DEF RecoverAdvance, IInv, LocalOK, RecoveryOK, RowOK, Recovers, In, Holds
<1>2. Larger(row[r].hold, Copy(c, r).hold) \in Holds
  BY <1>1, LargerHold
<1>3. RowsTypeOK /\ WalletTypeOK /\ CopiesTypeOK
  BY DEF IInv, TypeOK, CopiesTypeOK
<1>4. /\ UNCHANGED <<requestVars, outboxVars, losses>>
      /\ Fault \/ NoFault
  BY DEF RecoverAdvance, idleOthers, NoFault
<1>5. /\ RowsTypeOK' /\ ThisRowOnly(r)
      /\ row'[r].status = row[r].status
      /\ row'[r].hold \in Holds
      /\ row'[r].amount = row[r].amount
      /\ row'[r].expired = row[r].expired
  BY <1>1, <1>2, <1>3, AdvanceEffect DEF RecoverAdvance
<1>6. WalletTypeOK' /\ attempt' = attempt
  BY <1>3, StoreFrame DEF RecoverAdvance
<1>7. /\ CopiesTypeOK' /\ ThisCopyOnly(c, r)
      /\ rec'[c][r].step \in {"begin", "idle"}
      /\ rec'[c][r].step # "idle" => rec'[c][r].copy = rec[c][r].copy
  BY <1>1, <1>2, <1>3, StepsEffect, StopsEffect
     DEF RecoverAdvance, RecoverySteps
<1>8. pc' = pc /\ cost' = cost
  BY <1>4 DEF requestVars
<1>9. RowOK(r)' /\ CostOK(r)' /\ RequestOK(r)' /\ AttemptOK(r)'
  <2>1. /\ RowOK(r) /\ CostOK(r) /\ RequestOK(r) /\ AttemptOK(r)
        /\ RecoveryOK(c, r) /\ Recovers(c, r, "advance")
    BY DEF RecoverAdvance, IInv, LocalOK
  <2>2. RowOK(r)'
    BY <1>1, <1>2, <1>3, <1>5, <1>6, <1>7, <1>8, <2>1
       DEF RowOK, In, At, RecoveryOK, Recovers, Copy
  <2>3. CostOK(r)'
    BY <1>1, <1>2, <1>3, <1>5, <1>6, <1>7, <1>8, <2>1
       DEF RowOK, CostOK, HeldTo, Decided, In, At, Unknown, RecoveryOK,
        Recovers, Copy
  <2>4. RequestOK(r)'
    BY <1>1, <1>2, <1>3, <1>5, <1>6, <1>7, <1>8, <2>1
       DEF RowOK, CostOK, RequestOK, AttemptOK, Quiet, HeldTo, Decided,
        Recovers, In, Is, At, Prompt, Unknown, ThisCopyOnly, CopiesTypeOK,
        RecoveryOK, Copy
  <2>5. AttemptOK(r)'
    BY <1>1, <1>2, <1>3, <1>5, <1>6, <1>7, <1>8, <2>1
       DEF RowOK, AttemptOK, HeldTo, Decided, In, Is, At, RecoveryOK,
        Recovers, Copy
  <2> QED
    BY <2>2, <2>3, <2>4, <2>5
<1>10. ASSUME NEW d \in Recoverers \ {c} PROVE RecoveryOK(d, r)'
  <2>1. /\ RowOK(r) /\ CostOK(r) /\ RequestOK(r) /\ AttemptOK(r)
        /\ RecoveryOK(c, r) /\ Recovers(c, r, "advance")
    BY DEF RecoverAdvance, IInv, LocalOK
  <2>2. RecoveryOK(d, r) /\ rec'[d][r] = rec[d][r]
    BY <1>1, <1>2, <1>3, <1>5, <1>6, <1>7, <1>8
       DEF IInv, LocalOK, ThisCopyOnly
  <2> QED
    BY <1>1, <1>2, <1>3, <1>5, <1>6, <1>7, <1>8, <2>1, <2>2
       DEF RowOK, CostOK, RequestOK, RecoveryOK, HeldTo, Decided, Recovers,
        Copy, In, Is, At, Unknown, Prompt
<1>11. RecoveryOK(c, r)'
  <2>1. /\ RowOK(r) /\ CostOK(r) /\ RequestOK(r) /\ AttemptOK(r)
        /\ RecoveryOK(c, r) /\ Recovers(c, r, "advance")
    BY DEF RecoverAdvance, IInv, LocalOK
  <2> QED
    BY <1>1, <1>2, <1>3, <1>5, <1>6, <1>7, <1>8, <2>1
       DEF RowOK, CostOK, RequestOK, RecoveryOK, HeldTo, Decided, Recovers,
        Copy, In, Is, At, Unknown, Prompt
<1>12. RowsTypeOK' /\ ThisRowOnly(r) /\ ThisAttemptOnly(r)
  BY <1>3, <1>5, <1>6 DEF RowsTypeOK, ThisRowOnly, ThisAttemptOnly
<1> QED
  BY <1>4, <1>6, <1>7, <1>9, <1>10, <1>11, <1>12, LocalRecovery

\* The recovery goes on only with the verdict of the row.
LEMMA RecoverBeginStep ==
  ASSUME IInv, NEW r \in Requests, NEW c \in Recoverers, RecoverBegin(c, r)
  PROVE  IInv'
<1>1. /\ Copy(c, r).hold \in Holds /\ Copy(c, r).hold \in Nat \ {0}
      /\ Copy(c, r).status = "authorized"
  BY HoldsPositive DEF RecoverBegin, IInv, LocalOK, RecoveryOK, Recovers
<1>2. BeginFinds(r, Copy(c, r).hold, "recovery") =>
         In(r, {"authorized"}) \/ HeldTo(r, Copy(c, r).hold)
  BY DEF BeginFinds, SameVerdict, HeldTo, Decided, In
<1>3. rec[c][r] \in [step : RecoverySteps, copy : Rows]
  BY DEF IInv, TypeOK
<1>4. RowsTypeOK /\ WalletTypeOK /\ CopiesTypeOK
  BY DEF IInv, TypeOK, CopiesTypeOK
<1>5. /\ UNCHANGED <<requestVars, outboxVars, losses>>
      /\ Fault \/ NoFault
  BY DEF RecoverBegin, idleOthers, NoFault
<1>6. /\ RowsTypeOK' /\ ThisRowOnly(r)
      /\ In(r, {"authorized"}) =>
            /\ row'[r].status = "finalizing" /\ row'[r].hold = row[r].hold
            /\ row'[r].amount = Copy(c, r).hold
            /\ row'[r].expired = row[r].expired
      /\ ~In(r, {"authorized"}) => row'[r] = row[r]
  BY <1>1, <1>2, <1>3, <1>4, DecideEffect
     DEF RecoverBegin, BeginFinalization, Fingerprints
<1>7. WalletTypeOK' /\ attempt' = attempt
  BY <1>4, StoreFrame DEF RecoverBegin
<1>8. /\ CopiesTypeOK' /\ ThisCopyOnly(c, r)
      /\ rec'[c][r].step \in {"settle", "idle"}
      /\ rec'[c][r].step # "idle" =>
            /\ BeginFinds(r, Copy(c, r).hold, "recovery")
            /\ rec'[c][r].copy.status = rec[c][r].copy.status
            /\ rec'[c][r].copy.hold = rec[c][r].copy.hold
            /\ rec'[c][r].copy.amount = rec[c][r].copy.hold
  <2>1. CASE ~BeginFinds(r, Copy(c, r).hold, "recovery")
    <3>1. Stops(c, r)
      BY <2>1 DEF RecoverBegin
    <3> QED
      BY <1>4, <3>1, StopsEffect
  <2>2. CASE BeginFinds(r, Copy(c, r).hold, "recovery")
    <3>1. rec[c][r].copy.hold \in Nat
      BY <1>1 DEF Copy
    <3>2. rec' = [rec EXCEPT ![c][r] = [step |-> "settle",
            copy |-> [rec[c][r].copy EXCEPT !.amount = rec[c][r].copy.hold]]]
      BY <2>2 DEF RecoverBegin, Copy
    <3>3. /\ CopiesTypeOK' /\ ThisCopyOnly(c, r)
          /\ rec'[c][r].step = "settle"
          /\ rec'[c][r].copy.hold = rec[c][r].copy.hold
          /\ rec'[c][r].copy.status = rec[c][r].copy.status
          /\ rec'[c][r].copy.amount = rec[c][r].copy.hold
      BY <1>4, <3>1, <3>2, DecidedCopy
    <3> QED
      BY <2>2, <3>3
  <2> QED
    BY <2>1, <2>2
<1>9. pc' = pc /\ cost' = cost
  BY <1>5 DEF requestVars
<1>10. RowOK(r)' /\ CostOK(r)' /\ RequestOK(r)' /\ AttemptOK(r)'
  <2>1. /\ RowOK(r) /\ CostOK(r) /\ RequestOK(r) /\ AttemptOK(r)
        /\ RecoveryOK(c, r) /\ Recovers(c, r, "begin")
    BY DEF RecoverBegin, IInv, LocalOK
  <2>2. RowOK(r)'
    BY <1>1, <1>2, <1>3, <1>4, <1>6, <1>7, <1>8, <1>9, <2>1
       DEF RowOK, In, At, RecoveryOK, Recovers, Copy
  <2>3. CostOK(r)'
    BY <1>1, <1>2, <1>3, <1>4, <1>6, <1>7, <1>8, <1>9, <2>1
       DEF RowOK, CostOK, HeldTo, Decided, In, At, Unknown, RecoveryOK,
        Recovers, Copy
  <2>4. RequestOK(r)'
    BY <1>1, <1>2, <1>3, <1>4, <1>6, <1>7, <1>8, <1>9, <2>1
       DEF RowOK, CostOK, RequestOK, AttemptOK, Quiet, HeldTo, Decided,
        Recovers, In, Is, At, Prompt, Unknown, ThisCopyOnly, CopiesTypeOK,
        RecoveryOK, Copy
  <2>5. AttemptOK(r)'
    BY <1>1, <1>2, <1>3, <1>4, <1>6, <1>7, <1>8, <1>9, <2>1
       DEF RowOK, AttemptOK, HeldTo, Decided, In, Is, At, RecoveryOK,
        Recovers, Copy
  <2> QED
    BY <2>2, <2>3, <2>4, <2>5
<1>11. ASSUME NEW d \in Recoverers \ {c} PROVE RecoveryOK(d, r)'
  <2>1. /\ RowOK(r) /\ CostOK(r) /\ RequestOK(r) /\ AttemptOK(r)
        /\ RecoveryOK(c, r) /\ Recovers(c, r, "begin")
    BY DEF RecoverBegin, IInv, LocalOK
  <2>2. RecoveryOK(d, r) /\ rec'[d][r] = rec[d][r]
    BY <1>1, <1>2, <1>3, <1>4, <1>6, <1>7, <1>8, <1>9
       DEF IInv, LocalOK, ThisCopyOnly
  <2> QED
    BY <1>1, <1>2, <1>3, <1>4, <1>6, <1>7, <1>8, <1>9, <2>1, <2>2
       DEF RowOK, CostOK, RequestOK, RecoveryOK, HeldTo, Decided, Recovers,
        Copy, In, Is, At, Unknown, Prompt
<1>12. RecoveryOK(c, r)'
  <2>1. /\ RowOK(r) /\ CostOK(r) /\ RequestOK(r) /\ AttemptOK(r)
        /\ RecoveryOK(c, r) /\ Recovers(c, r, "begin")
    BY DEF RecoverBegin, IInv, LocalOK
  <2> QED
    BY <1>1, <1>2, <1>3, <1>4, <1>6, <1>7, <1>8, <1>9, <2>1
       DEF RowOK, CostOK, RequestOK, RecoveryOK, HeldTo, Decided, Recovers,
        Copy, In, Is, At, Unknown, Prompt
<1>13. RowsTypeOK' /\ ThisRowOnly(r) /\ ThisAttemptOnly(r)
  BY <1>4, <1>6, <1>7 DEF RowsTypeOK, ThisRowOnly, ThisAttemptOnly
<1> QED
  BY <1>5, <1>7, <1>8, <1>10, <1>11, <1>12, <1>13, LocalRecovery

\* A finalizing row is recovered under its own verdict.
LEMMA RecoverFinalizingStep ==
  ASSUME IInv, NEW r \in Requests, NEW c \in Recoverers, RecoverFinalizing(c, r)
  PROVE  IInv'
<1>1. RowsTypeOK /\ WalletTypeOK /\ CopiesTypeOK
  BY DEF IInv, TypeOK, CopiesTypeOK
<1>2. /\ UNCHANGED <<requestVars, outboxVars, losses>>
      /\ Fault \/ NoFault
  BY DEF RecoverFinalizing, idleOthers, NoFault
<1>3. row' = row
  BY DEF RecoverFinalizing
<1>4. WalletTypeOK' /\ attempt' = attempt
  BY <1>1, StoreFrame DEF RecoverFinalizing
<1>5. /\ CopiesTypeOK' /\ ThisCopyOnly(c, r)
      /\ rec'[c][r].step = (IF Copy(c, r).amount = 0 THEN "refund" ELSE "settle")
      /\ rec'[c][r].copy = rec[c][r].copy
  BY <1>1, StepsEffect DEF RecoverFinalizing, RecoverySteps
<1>6. pc' = pc /\ cost' = cost
  BY <1>2 DEF requestVars
<1>7. RowOK(r)' /\ CostOK(r)' /\ RequestOK(r)' /\ AttemptOK(r)'
  <2>1. /\ RowOK(r) /\ CostOK(r) /\ RequestOK(r) /\ AttemptOK(r)
        /\ RecoveryOK(c, r) /\ Recovers(c, r, "recover") /\ Copy(c, r).status = "finalizing"
    BY DEF RecoverFinalizing, IInv, LocalOK
  <2>2. RowOK(r)'
    BY <1>1, <1>3, <1>4, <1>5, <1>6, <2>1
       DEF RowOK, In, At, RecoveryOK, Recovers, Copy
  <2>3. CostOK(r)'
    BY <1>1, <1>3, <1>4, <1>5, <1>6, <2>1
       DEF RowOK, CostOK, HeldTo, Decided, In, At, Unknown, RecoveryOK,
        Recovers, Copy
  <2>4. RequestOK(r)'
    BY <1>1, <1>3, <1>4, <1>5, <1>6, <2>1
       DEF RowOK, CostOK, RequestOK, AttemptOK, Quiet, HeldTo, Decided,
        Recovers, In, Is, At, Prompt, Unknown, ThisCopyOnly, CopiesTypeOK,
        RecoveryOK, Copy
  <2>5. AttemptOK(r)'
    BY <1>1, <1>3, <1>4, <1>5, <1>6, <2>1
       DEF RowOK, AttemptOK, HeldTo, Decided, In, Is, At, RecoveryOK,
        Recovers, Copy
  <2> QED
    BY <2>2, <2>3, <2>4, <2>5
<1>8. ASSUME NEW d \in Recoverers \ {c} PROVE RecoveryOK(d, r)'
  <2>1. /\ RowOK(r) /\ CostOK(r) /\ RequestOK(r) /\ AttemptOK(r)
        /\ RecoveryOK(c, r) /\ Recovers(c, r, "recover") /\ Copy(c, r).status = "finalizing"
    BY DEF RecoverFinalizing, IInv, LocalOK
  <2>2. RecoveryOK(d, r) /\ rec'[d][r] = rec[d][r]
    BY <1>1, <1>3, <1>4, <1>5, <1>6 DEF IInv, LocalOK, ThisCopyOnly
  <2> QED
    BY <1>1, <1>3, <1>4, <1>5, <1>6, <2>1, <2>2
       DEF RowOK, CostOK, RequestOK, RecoveryOK, HeldTo, Decided, Recovers,
        Copy, In, Is, At, Unknown, Prompt, Rows
<1>9. RecoveryOK(c, r)'
  <2>1. /\ RowOK(r) /\ CostOK(r) /\ RequestOK(r) /\ AttemptOK(r)
        /\ RecoveryOK(c, r) /\ Recovers(c, r, "recover") /\ Copy(c, r).status = "finalizing"
    BY DEF RecoverFinalizing, IInv, LocalOK
  <2>2. Copy(c, r).amount \in Nat
    BY <1>1 DEF CopiesTypeOK, Copy, Rows
  <2>3. /\ HeldTo(r, Copy(c, r).amount) /\ ~In(r, {"none"})
        /\ Copy(c, r).hold \in Holds
    BY <2>1 DEF RecoveryOK, Recovers
  <2>4. /\ Recovers(c, r, "settle")' => Copy(c, r).amount > 0
        /\ Recovers(c, r, "refund")' => Copy(c, r).amount = 0
        /\ rec'[c][r].step \in {"settle", "refund"}
    BY <1>5, <2>2 DEF Recovers
  <2> QED
    BY <1>3, <1>5, <2>1, <2>3, <2>4
       DEF RecoveryOK, HeldTo, Decided, Recovers, Copy, In
<1>10. RowsTypeOK' /\ ThisRowOnly(r) /\ ThisAttemptOnly(r)
  BY <1>1, <1>3, <1>4 DEF RowsTypeOK, ThisRowOnly, ThisAttemptOnly
<1> QED
  BY <1>2, <1>4, <1>5, <1>7, <1>8, <1>9, <1>10, LocalRecovery

\* The recovery settles the wallet with the verdict of the row.
LEMMA RecoverSettleStep ==
  ASSUME IInv, NEW r \in Requests, NEW c \in Recoverers, RecoverSettle(c, r)
  PROVE  IInv'
<1>1. HeldTo(r, Copy(c, r).amount) /\ row[r].amount > 0 /\ Copy(c, r).amount \in Nat
  BY DEF RecoverSettle, IInv, TypeOK, RowsTypeOK, Rows, LocalOK, RecoveryOK,
         Recovers, Copy
<1>2. RowsTypeOK /\ WalletTypeOK /\ CopiesTypeOK
  BY DEF IInv, TypeOK, CopiesTypeOK
<1>3. /\ UNCHANGED <<requestVars, outboxVars, losses>>
      /\ Fault \/ NoFault
  BY DEF RecoverSettle, idleOthers, NoFault
<1>4. row' = row
  BY DEF RecoverSettle
<1>5. /\ WalletTypeOK' /\ ThisAttemptOnly(r)
      /\ \/ attempt'[r] = attempt[r]
         \/ /\ attempt[r].state = "held" /\ attempt'[r].state = "finalized"
            /\ attempt'[r].actual = Copy(c, r).amount
      /\ FinalizeSucceeds(r, Copy(c, r).amount) => attempt'[r].state = "finalized"
  BY <1>1, <1>2, FinalizeEffect DEF RecoverSettle
<1>6. /\ CopiesTypeOK' /\ ThisCopyOnly(c, r)
      /\ rec'[c][r].step \in {"completeSettlement", "idle"}
      /\ rec'[c][r].step # "idle" => rec'[c][r].copy = rec[c][r].copy
      /\ rec'[c][r].step = "completeSettlement" =>
            FinalizeSucceeds(r, Copy(c, r).amount)
  BY <1>1, <1>2, StepsEffect, StopsEffect DEF RecoverSettle, RecoverySteps
<1>7. pc' = pc /\ cost' = cost
  BY <1>3 DEF requestVars
<1>8. RowOK(r)' /\ CostOK(r)' /\ RequestOK(r)' /\ AttemptOK(r)'
  <2>1. /\ RowOK(r) /\ CostOK(r) /\ RequestOK(r) /\ AttemptOK(r)
        /\ RecoveryOK(c, r) /\ Recovers(c, r, "settle")
    BY DEF RecoverSettle, IInv, LocalOK
  <2>2. RowOK(r)'
    BY <1>1, <1>2, <1>4, <1>5, <1>6, <1>7, <2>1
       DEF RowOK, In, At, RecoveryOK, Recovers, Copy
  <2>3. CostOK(r)'
    BY <1>1, <1>2, <1>4, <1>5, <1>6, <1>7, <2>1
       DEF RowOK, CostOK, HeldTo, Decided, In, At, Unknown, RecoveryOK,
        Recovers, Copy
  <2>4. RequestOK(r)'
    BY <1>1, <1>2, <1>4, <1>5, <1>6, <1>7, <2>1
       DEF RowOK, CostOK, RequestOK, AttemptOK, Quiet, HeldTo, Decided,
        Recovers, In, Is, At, Prompt, Unknown, ThisCopyOnly, CopiesTypeOK,
        RecoveryOK, Copy
  <2>5. AttemptOK(r)'
    BY <1>1, <1>2, <1>4, <1>5, <1>6, <1>7, <2>1
       DEF RowOK, AttemptOK, HeldTo, Decided, In, Is, At, RecoveryOK,
        Recovers, Copy
  <2> QED
    BY <2>2, <2>3, <2>4, <2>5
<1>9. ASSUME NEW d \in Recoverers \ {c} PROVE RecoveryOK(d, r)'
  <2>1. /\ RowOK(r) /\ CostOK(r) /\ RequestOK(r) /\ AttemptOK(r)
        /\ RecoveryOK(c, r) /\ Recovers(c, r, "settle")
    BY DEF RecoverSettle, IInv, LocalOK
  <2>2. RecoveryOK(d, r) /\ rec'[d][r] = rec[d][r]
    BY <1>1, <1>2, <1>4, <1>5, <1>6, <1>7 DEF IInv, LocalOK, ThisCopyOnly
  <2> QED
    BY <1>1, <1>2, <1>4, <1>5, <1>6, <1>7, <2>1, <2>2
       DEF RowOK, CostOK, RequestOK, RecoveryOK, HeldTo, Decided, Recovers,
        Copy, In, Is, At, Unknown, Prompt
<1>10. RecoveryOK(c, r)'
  <2>1. /\ RowOK(r) /\ CostOK(r) /\ RequestOK(r) /\ AttemptOK(r)
        /\ RecoveryOK(c, r) /\ Recovers(c, r, "settle")
    BY DEF RecoverSettle, IInv, LocalOK
  <2> QED
    BY <1>1, <1>2, <1>4, <1>5, <1>6, <1>7, <2>1
       DEF RowOK, CostOK, RequestOK, RecoveryOK, HeldTo, Decided, Recovers,
        Copy, In, Is, At, Unknown, Prompt
<1>11. RowsTypeOK' /\ ThisRowOnly(r) /\ ThisAttemptOnly(r)
  BY <1>2, <1>4, <1>5 DEF RowsTypeOK, ThisRowOnly, ThisAttemptOnly
<1> QED
  BY <1>3, <1>5, <1>6, <1>8, <1>9, <1>10, <1>11, LocalRecovery

\* The recovered row becomes pending only when nothing is held.
LEMMA RecoverCompleteSettlementStep ==
  ASSUME IInv, NEW r \in Requests, NEW c \in Recoverers, RecoverCompleteSettlement(c, r)
  PROVE  IInv'
<1>1. RowsTypeOK /\ WalletTypeOK /\ CopiesTypeOK
  BY DEF IInv, TypeOK, CopiesTypeOK
<1>2. /\ UNCHANGED <<requestVars, outboxVars, losses>>
      /\ Fault \/ NoFault
  BY DEF RecoverCompleteSettlement, idleOthers, NoFault
<1>3. /\ RowsTypeOK' /\ ThisRowOnly(r)
      /\ \/ row'[r].status = row[r].status
         \/ /\ row[r].status = "finalizing" /\ row'[r].status = "pending"
            /\ row[r].amount > 0
      /\ row'[r].hold = row[r].hold
      /\ row'[r].amount = row[r].amount
      /\ row'[r].expired = row[r].expired
  BY <1>1, CompleteSettlementEffect DEF RecoverCompleteSettlement
<1>4. WalletTypeOK' /\ attempt' = attempt
  BY <1>1, StoreFrame DEF RecoverCompleteSettlement
<1>5. /\ CopiesTypeOK' /\ ThisCopyOnly(c, r)
      /\ rec'[c][r].step = "idle"
  BY <1>1, StepsEffect, StopsEffect DEF RecoverCompleteSettlement
<1>6. pc' = pc /\ cost' = cost
  BY <1>2 DEF requestVars
<1>7. RowOK(r)' /\ CostOK(r)' /\ RequestOK(r)' /\ AttemptOK(r)'
  <2>1. /\ RowOK(r) /\ CostOK(r) /\ RequestOK(r) /\ AttemptOK(r)
        /\ RecoveryOK(c, r) /\ Recovers(c, r, "completeSettlement")
    BY DEF RecoverCompleteSettlement, IInv, LocalOK
  <2>2. RowOK(r)'
    BY <1>1, <1>3, <1>4, <1>5, <1>6, <2>1
       DEF RowOK, In, At, RecoveryOK, Recovers, Copy
  <2>3. CostOK(r)'
    BY <1>1, <1>3, <1>4, <1>5, <1>6, <2>1
       DEF RowOK, CostOK, HeldTo, Decided, In, At, Unknown, RecoveryOK,
        Recovers, Copy
  <2>4. RequestOK(r)'
    BY <1>1, <1>3, <1>4, <1>5, <1>6, <2>1
       DEF RowOK, CostOK, RequestOK, AttemptOK, Quiet, HeldTo, Decided,
        Recovers, In, Is, At, Prompt, Unknown, ThisCopyOnly, CopiesTypeOK,
        RecoveryOK, Copy
  <2>5. AttemptOK(r)'
    BY <1>1, <1>3, <1>4, <1>5, <1>6, <2>1
       DEF RowOK, AttemptOK, HeldTo, Decided, In, Is, At, RecoveryOK,
        Recovers, Copy
  <2> QED
    BY <2>2, <2>3, <2>4, <2>5
<1>8. ASSUME NEW d \in Recoverers \ {c} PROVE RecoveryOK(d, r)'
  <2>1. /\ RowOK(r) /\ CostOK(r) /\ RequestOK(r) /\ AttemptOK(r)
        /\ RecoveryOK(c, r) /\ Recovers(c, r, "completeSettlement")
    BY DEF RecoverCompleteSettlement, IInv, LocalOK
  <2>2. RecoveryOK(d, r) /\ rec'[d][r] = rec[d][r]
    BY <1>1, <1>3, <1>4, <1>5, <1>6 DEF IInv, LocalOK, ThisCopyOnly
  <2> QED
    BY <1>1, <1>3, <1>4, <1>5, <1>6, <2>1, <2>2
       DEF RowOK, CostOK, RequestOK, RecoveryOK, HeldTo, Decided, Recovers,
        Copy, In, Is, At, Unknown, Prompt
<1>9. RecoveryOK(c, r)'
  <2>1. /\ RowOK(r) /\ CostOK(r) /\ RequestOK(r) /\ AttemptOK(r)
        /\ RecoveryOK(c, r) /\ Recovers(c, r, "completeSettlement")
    BY DEF RecoverCompleteSettlement, IInv, LocalOK
  <2> QED
    BY <1>1, <1>3, <1>4, <1>5, <1>6, <2>1
       DEF RowOK, CostOK, RequestOK, RecoveryOK, HeldTo, Decided, Recovers,
        Copy, In, Is, At, Unknown, Prompt
<1>10. RowsTypeOK' /\ ThisRowOnly(r) /\ ThisAttemptOnly(r)
  BY <1>1, <1>3, <1>4 DEF RowsTypeOK, ThisRowOnly, ThisAttemptOnly
<1> QED
  BY <1>2, <1>4, <1>5, <1>7, <1>8, <1>9, <1>10, LocalRecovery

\* The recovery completes a refund only when nothing is held.
LEMMA RecoverRefundStep ==
  ASSUME IInv, NEW r \in Requests, NEW c \in Recoverers, RecoverRefund(c, r)
  PROVE  IInv'
<1>1. RowsTypeOK /\ WalletTypeOK /\ CopiesTypeOK
  BY DEF IInv, TypeOK, CopiesTypeOK
<1>2. /\ UNCHANGED <<requestVars, outboxVars, losses>>
      /\ Fault \/ NoFault
  BY DEF RecoverRefund, idleOthers, NoFault
<1>3. row' = row
  BY DEF RecoverRefund
<1>4. /\ WalletTypeOK' /\ ThisAttemptOnly(r)
      /\ \/ attempt'[r] = attempt[r]
         \/ attempt[r].state = "held" /\ attempt'[r].state = "refunded"
      /\ RefundSucceeds(r) \/ Is(r, "none") => attempt'[r].state # "held"
  BY <1>1, RefundEffect DEF RecoverRefund
<1>5. /\ CopiesTypeOK' /\ ThisCopyOnly(c, r)
      /\ rec'[c][r].step \in {"completeRefund", "idle"}
      /\ rec'[c][r].step # "idle" => rec'[c][r].copy = rec[c][r].copy
      /\ rec'[c][r].step = "completeRefund" =>
            Is(r, "none") \/ RefundSucceeds(r)
  BY <1>1, StepsEffect, StopsEffect DEF RecoverRefund, RecoverySteps
<1>6. pc' = pc /\ cost' = cost
  BY <1>2 DEF requestVars
<1>7. RowOK(r)' /\ CostOK(r)' /\ RequestOK(r)' /\ AttemptOK(r)'
  <2>1. /\ RowOK(r) /\ CostOK(r) /\ RequestOK(r) /\ AttemptOK(r)
        /\ RecoveryOK(c, r) /\ Recovers(c, r, "refund")
    BY DEF RecoverRefund, IInv, LocalOK
  <2>2. RowOK(r)'
    BY <1>1, <1>3, <1>4, <1>5, <1>6, <2>1
       DEF RowOK, In, At, RecoveryOK, Recovers, Copy
  <2>3. CostOK(r)'
    BY <1>1, <1>3, <1>4, <1>5, <1>6, <2>1
       DEF RowOK, CostOK, HeldTo, Decided, In, At, Unknown, RecoveryOK,
        Recovers, Copy
  <2>4. RequestOK(r)'
    BY <1>1, <1>3, <1>4, <1>5, <1>6, <2>1
       DEF RowOK, CostOK, RequestOK, AttemptOK, Quiet, HeldTo, Decided,
        Recovers, In, Is, At, Prompt, Unknown, ThisCopyOnly, CopiesTypeOK,
        RecoveryOK, Copy
  <2>5. AttemptOK(r)'
    BY <1>1, <1>3, <1>4, <1>5, <1>6, <2>1
       DEF RowOK, AttemptOK, HeldTo, Decided, In, Is, At, RecoveryOK,
        Recovers, Copy
  <2> QED
    BY <2>2, <2>3, <2>4, <2>5
<1>8. ASSUME NEW d \in Recoverers \ {c} PROVE RecoveryOK(d, r)'
  <2>1. /\ RowOK(r) /\ CostOK(r) /\ RequestOK(r) /\ AttemptOK(r)
        /\ RecoveryOK(c, r) /\ Recovers(c, r, "refund")
    BY DEF RecoverRefund, IInv, LocalOK
  <2>2. RecoveryOK(d, r) /\ rec'[d][r] = rec[d][r]
    BY <1>1, <1>3, <1>4, <1>5, <1>6 DEF IInv, LocalOK, ThisCopyOnly
  <2> QED
    BY <1>1, <1>3, <1>4, <1>5, <1>6, <2>1, <2>2
       DEF RowOK, CostOK, RequestOK, RecoveryOK, HeldTo, Decided, Recovers,
        Copy, In, Is, At, Unknown, Prompt
<1>9. RecoveryOK(c, r)'
  <2>1. /\ RowOK(r) /\ CostOK(r) /\ RequestOK(r) /\ AttemptOK(r)
        /\ RecoveryOK(c, r) /\ Recovers(c, r, "refund")
    BY DEF RecoverRefund, IInv, LocalOK
  <2> QED
    BY <1>1, <1>3, <1>4, <1>5, <1>6, <2>1
       DEF RowOK, CostOK, RequestOK, RecoveryOK, HeldTo, Decided, Recovers,
        Copy, In, Is, At, Unknown, Prompt
<1>10. RowsTypeOK' /\ ThisRowOnly(r) /\ ThisAttemptOnly(r)
  BY <1>1, <1>3, <1>4 DEF RowsTypeOK, ThisRowOnly, ThisAttemptOnly
<1> QED
  BY <1>2, <1>4, <1>5, <1>7, <1>8, <1>9, <1>10, LocalRecovery

\* The recovered row becomes refunded only then.
LEMMA RecoverCompleteRefundStep ==
  ASSUME IInv, NEW r \in Requests, NEW c \in Recoverers, RecoverCompleteRefund(c, r)
  PROVE  IInv'
<1>1. RowsTypeOK /\ WalletTypeOK /\ CopiesTypeOK
  BY DEF IInv, TypeOK, CopiesTypeOK
<1>2. /\ UNCHANGED <<requestVars, outboxVars, losses>>
      /\ Fault \/ NoFault
  BY DEF RecoverCompleteRefund, idleOthers, NoFault
<1>3. /\ RowsTypeOK' /\ ThisRowOnly(r)
      /\ \/ row'[r].status = row[r].status
         \/ /\ row[r].status = "finalizing" /\ row'[r].status = "refunded"
            /\ row[r].amount = 0
      /\ row'[r].hold = row[r].hold
      /\ row'[r].amount = row[r].amount
      /\ row'[r].expired = row[r].expired
  BY <1>1, CompleteRefundEffect DEF RecoverCompleteRefund
<1>4. WalletTypeOK' /\ attempt' = attempt
  BY <1>1, StoreFrame DEF RecoverCompleteRefund
<1>5. /\ CopiesTypeOK' /\ ThisCopyOnly(c, r)
      /\ rec'[c][r].step = "idle"
  BY <1>1, StepsEffect, StopsEffect DEF RecoverCompleteRefund
<1>6. pc' = pc /\ cost' = cost
  BY <1>2 DEF requestVars
<1>7. RowOK(r)' /\ CostOK(r)' /\ RequestOK(r)' /\ AttemptOK(r)'
  <2>1. /\ RowOK(r) /\ CostOK(r) /\ RequestOK(r) /\ AttemptOK(r)
        /\ RecoveryOK(c, r) /\ Recovers(c, r, "completeRefund")
    BY DEF RecoverCompleteRefund, IInv, LocalOK
  <2>2. RowOK(r)'
    BY <1>1, <1>3, <1>4, <1>5, <1>6, <2>1
       DEF RowOK, In, At, RecoveryOK, Recovers, Copy
  <2>3. CostOK(r)'
    BY <1>1, <1>3, <1>4, <1>5, <1>6, <2>1
       DEF RowOK, CostOK, HeldTo, Decided, In, At, Unknown, RecoveryOK,
        Recovers, Copy
  <2>4. RequestOK(r)'
    BY <1>1, <1>3, <1>4, <1>5, <1>6, <2>1
       DEF RowOK, CostOK, RequestOK, AttemptOK, Quiet, HeldTo, Decided,
        Recovers, In, Is, At, Prompt, Unknown, ThisCopyOnly, CopiesTypeOK,
        RecoveryOK, Copy
  <2>5. AttemptOK(r)'
    BY <1>1, <1>3, <1>4, <1>5, <1>6, <2>1
       DEF RowOK, AttemptOK, HeldTo, Decided, In, Is, At, RecoveryOK,
        Recovers, Copy
  <2> QED
    BY <2>2, <2>3, <2>4, <2>5
<1>8. ASSUME NEW d \in Recoverers \ {c} PROVE RecoveryOK(d, r)'
  <2>1. /\ RowOK(r) /\ CostOK(r) /\ RequestOK(r) /\ AttemptOK(r)
        /\ RecoveryOK(c, r) /\ Recovers(c, r, "completeRefund")
    BY DEF RecoverCompleteRefund, IInv, LocalOK
  <2>2. RecoveryOK(d, r) /\ rec'[d][r] = rec[d][r]
    BY <1>1, <1>3, <1>4, <1>5, <1>6 DEF IInv, LocalOK, ThisCopyOnly
  <2> QED
    BY <1>1, <1>3, <1>4, <1>5, <1>6, <2>1, <2>2
       DEF RowOK, CostOK, RequestOK, RecoveryOK, HeldTo, Decided, Recovers,
        Copy, In, Is, At, Unknown, Prompt
<1>9. RecoveryOK(c, r)'
  <2>1. /\ RowOK(r) /\ CostOK(r) /\ RequestOK(r) /\ AttemptOK(r)
        /\ RecoveryOK(c, r) /\ Recovers(c, r, "completeRefund")
    BY DEF RecoverCompleteRefund, IInv, LocalOK
  <2> QED
    BY <1>1, <1>3, <1>4, <1>5, <1>6, <2>1
       DEF RowOK, CostOK, RequestOK, RecoveryOK, HeldTo, Decided, Recovers,
        Copy, In, Is, At, Unknown, Prompt
<1>10. RowsTypeOK' /\ ThisRowOnly(r) /\ ThisAttemptOnly(r)
  BY <1>1, <1>3, <1>4 DEF RowsTypeOK, ThisRowOnly, ThisAttemptOnly
<1> QED
  BY <1>2, <1>4, <1>5, <1>7, <1>8, <1>9, <1>10, LocalRecovery

\* A recovery may stop anywhere.
LEMMA RecoveryFailsStep ==
  ASSUME IInv, NEW r \in Requests, NEW c \in Recoverers, RecoveryFails(c, r)
  PROVE  IInv'
<1>1. RowsTypeOK /\ WalletTypeOK /\ CopiesTypeOK
  BY DEF IInv, TypeOK, CopiesTypeOK
<1>2. /\ UNCHANGED <<requestVars, outboxVars, losses>>
      /\ Fault \/ NoFault
  BY DEF RecoveryFails, idleOthers, NoFault
<1>3. row' = row
  BY DEF RecoveryFails
<1>4. WalletTypeOK' /\ attempt' = attempt
  BY <1>1, StoreFrame DEF RecoveryFails
<1>5. /\ CopiesTypeOK' /\ ThisCopyOnly(c, r)
      /\ rec'[c][r].step = "idle"
  BY <1>1, StepsEffect, StopsEffect DEF RecoveryFails
<1>6. pc' = pc /\ cost' = cost
  BY <1>2 DEF requestVars
<1>7. RowOK(r)' /\ CostOK(r)' /\ RequestOK(r)' /\ AttemptOK(r)'
  <2>1. /\ RowOK(r) /\ CostOK(r) /\ RequestOK(r) /\ AttemptOK(r)
        /\ RecoveryOK(c, r) /\ ~Recovers(c, r, "idle")
    BY DEF RecoveryFails, IInv, LocalOK
  <2>2. RowOK(r)'
    BY <1>1, <1>3, <1>4, <1>5, <1>6, <2>1
       DEF RowOK, In, At, RecoveryOK, Recovers, Copy
  <2>3. CostOK(r)'
    BY <1>1, <1>3, <1>4, <1>5, <1>6, <2>1
       DEF RowOK, CostOK, HeldTo, Decided, In, At, Unknown, RecoveryOK,
        Recovers, Copy
  <2>4. RequestOK(r)'
    BY <1>1, <1>3, <1>4, <1>5, <1>6, <2>1
       DEF RowOK, CostOK, RequestOK, AttemptOK, Quiet, HeldTo, Decided,
        Recovers, In, Is, At, Prompt, Unknown, ThisCopyOnly, CopiesTypeOK,
        RecoveryOK, Copy
  <2>5. AttemptOK(r)'
    BY <1>1, <1>3, <1>4, <1>5, <1>6, <2>1
       DEF RowOK, AttemptOK, HeldTo, Decided, In, Is, At, RecoveryOK,
        Recovers, Copy
  <2> QED
    BY <2>2, <2>3, <2>4, <2>5
<1>8. ASSUME NEW d \in Recoverers \ {c} PROVE RecoveryOK(d, r)'
  <2>1. /\ RowOK(r) /\ CostOK(r) /\ RequestOK(r) /\ AttemptOK(r)
        /\ RecoveryOK(c, r) /\ ~Recovers(c, r, "idle")
    BY DEF RecoveryFails, IInv, LocalOK
  <2>2. RecoveryOK(d, r) /\ rec'[d][r] = rec[d][r]
    BY <1>1, <1>3, <1>4, <1>5, <1>6 DEF IInv, LocalOK, ThisCopyOnly
  <2> QED
    BY <1>1, <1>3, <1>4, <1>5, <1>6, <2>1, <2>2
       DEF RowOK, CostOK, RequestOK, RecoveryOK, HeldTo, Decided, Recovers,
        Copy, In, Is, At, Unknown, Prompt
<1>9. RecoveryOK(c, r)'
  <2>1. /\ RowOK(r) /\ CostOK(r) /\ RequestOK(r) /\ AttemptOK(r)
        /\ RecoveryOK(c, r) /\ ~Recovers(c, r, "idle")
    BY DEF RecoveryFails, IInv, LocalOK
  <2> QED
    BY <1>1, <1>3, <1>4, <1>5, <1>6, <2>1
       DEF RowOK, CostOK, RequestOK, RecoveryOK, HeldTo, Decided, Recovers,
        Copy, In, Is, At, Unknown, Prompt
<1>10. RowsTypeOK' /\ ThisRowOnly(r) /\ ThisAttemptOnly(r)
  BY <1>1, <1>3, <1>4 DEF RowsTypeOK, ThisRowOnly, ThisAttemptOnly
<1> QED
  BY <1>2, <1>4, <1>5, <1>7, <1>8, <1>9, <1>10, LocalRecovery

-----------------------------------------------------------------------------
(* The steps of the outbox, and the loss of the wallet *)

EventType == [delta : Int, by : Workers \cup {None}, lapsed : BOOLEAN,
              delivered : BOOLEAN]
OutType == [step : OutSteps, event : Nat, seen : Snapshots]

\* A step that leaves rows, attempts, requests and recoveries alone keeps the
\* invariant if types and events are in order after it.
LEMMA Outside ==
  ASSUME IInv, TypeOK', EventsOK', row' = row, attempt' = attempt,
         UNCHANGED <<requestVars, rec>>
  PROVE  IInv'
<1>1. UNCHANGED <<pc, cost, rec>>
  BY DEF requestVars
<1>2. ASSUME NEW q \in Requests PROVE LocalOK(q)'
  BY <1>1, <1>2, Frame DEF IInv
<1> QED
  BY <1>2 DEF IInv

\* Types of the variables that the outbox leaves alone.
LEMMA OutsideType ==
  ASSUME IInv, WalletTypeOK', row' = row, OutboxTypeOK',
         UNCHANGED <<requestVars, rec>>
  PROVE  TypeOK'
<1>1. UNCHANGED <<pc, seen, cost, rec>>
  BY DEF requestVars
<1> QED
  BY <1>1 DEF IInv, TypeOK, RowsTypeOK

\* An event is replaced by one of its type.
LEMMA EventEffect ==
  ASSUME events \in Seq(EventType), NEW i \in 1..LastEvent,
         NEW e \in EventType, events' = [events EXCEPT ![i] = e]
  PROVE  /\ events' \in Seq(EventType) /\ LastEvent' = LastEvent
         /\ events'[i] = e
         /\ \A j \in 1..LastEvent : j # i => events'[j] = events[j]
BY ExceptSeq DEF LastEvent

\* An event is appended.
LEMMA AppendEffect ==
  ASSUME events \in Seq(EventType), NEW e \in EventType,
         events' = Append(events, e)
  PROVE  /\ events' \in Seq(EventType) /\ LastEvent' = LastEvent + 1
         /\ events'[LastEvent'] = e
         /\ \A j \in 1..LastEvent : events'[j] = events[j]
BY AppendProperties DEF LastEvent

\* The number of events and each of them have their types.
LEMMA EventsType ==
  ASSUME OutboxTypeOK
  PROVE  /\ events \in Seq(EventType) /\ LastEvent \in Nat
         /\ \A i \in 1..LastEvent : events[i] \in EventType
         /\ out \in [Workers -> OutType]
<1>1. events \in Seq(EventType)
  BY DEF OutboxTypeOK, EventType
<1> QED
  BY <1>1, LenProperties, ElementOfSeq DEF OutboxTypeOK, OutType, LastEvent

\* A worker forgets what it was doing.
LEMMA IdleEffect ==
  ASSUME OutboxTypeOK, NEW w \in Workers, GoesIdle(w)
  PROVE  /\ out' \in [Workers -> OutType] /\ out'[w].step = "idle"
         /\ \A v \in Workers \ {w} : out'[v] = out[v]
<1> DEFINE entry == [step |-> "idle", event |-> 0, seen |-> Unread]
<1>1. entry \in OutType /\ entry.step = "idle"
  BY UnreadType DEF OutType, OutSteps
<1>2. out' = [out EXCEPT ![w] = entry]
  BY DEF GoesIdle
<1>3. out \in [Workers -> OutType]
  BY EventsType
<1> HIDE DEF entry
<1> QED
  BY <1>1, <1>2, <1>3

\* A worker goes on with its event.
LEMMA GoesEffect ==
  ASSUME OutboxTypeOK, NEW w \in Workers, NEW step \in OutSteps, Goes(w, step)
  PROVE  /\ out' \in [Workers -> OutType]
         /\ out'[w].step = step /\ out'[w].event = out[w].event
         /\ \A v \in Workers \ {w} : out'[v] = out[v]
<1>1. out \in [Workers -> OutType]
  BY EventsType
<1> QED
  BY <1>1 DEF Goes, OutType

\* A change of the balance appends an event.
LEMMA ChangeBalanceStep ==
  ASSUME IInv, ChangeBalance, UNCHANGED <<requestVars, rec>>
  PROVE  IInv'
<1>1. PICK delta \in Deltas :
        /\ balance' = balance + delta
        /\ events' = Append(events, [delta |-> delta, by |-> None,
                                     lapsed |-> FALSE, delivered |-> FALSE])
  BY DEF ChangeBalance
<1>2. OutboxTypeOK /\ delta \in Int /\ balance' \in Int
  BY <1>1, OutboxAssumption DEF IInv, TypeOK, OutboxTypeOK
<1>3. [delta |-> delta, by |-> None, lapsed |-> FALSE, delivered |-> FALSE]
        \in EventType
  BY <1>2 DEF EventType
<1>4. events' \in Seq(EventType) /\ LastEvent' = LastEvent + 1
  BY <1>1, <1>2, <1>3, EventsType, AppendEffect
<1>5. row' = row /\ UNCHANGED <<out, faults, losses>>
  BY DEF ChangeBalance
<1>6. WalletTypeOK' /\ attempt' = attempt
  BY StoreFrame DEF ChangeBalance, IInv, TypeOK
<1>7. OutboxTypeOK'
  BY <1>2, <1>4, <1>5 DEF OutboxTypeOK, EventType, Snapshots
<1>8. EventsOK'
  BY <1>2, <1>4, <1>5, EventsType DEF IInv, EventsOK, Event
<1> QED
  BY <1>5, <1>6, <1>7, <1>8, Outside, OutsideType

\* The lease of an event runs out.
LEMMA LapseStep ==
  ASSUME IInv, NEW i \in 1..LastEvent, Lapse(i), UNCHANGED <<requestVars, rec>>
  PROVE  IInv'
<1> DEFINE e == [events[i] EXCEPT !.lapsed = TRUE]
<1>1. OutboxTypeOK
  BY DEF IInv, TypeOK
<1>2. e \in EventType
  BY <1>1, EventsType DEF EventType
<1>3. events' = [events EXCEPT ![i] = e]
  BY DEF Lapse
<1>4. events' \in Seq(EventType) /\ LastEvent' = LastEvent
  <2> HIDE DEF e
  <2> QED
    BY <1>1, <1>2, <1>3, EventsType, EventEffect
<1>5. row' = row /\ UNCHANGED <<balance, out, losses>>
  BY DEF Lapse
<1>6. faults' \in 0..MaxFaults
  BY <1>1, FaultType DEF OutboxTypeOK, Lapse
<1>7. WalletTypeOK' /\ attempt' = attempt
  BY StoreFrame DEF Lapse, IInv, TypeOK
<1>8. OutboxTypeOK'
  BY <1>1, <1>4, <1>5, <1>6 DEF OutboxTypeOK, EventType
<1>9. EventsOK'
  BY <1>4, <1>5 DEF IInv, EventsOK, Event
<1> QED
  BY <1>5, <1>7, <1>8, <1>9, Outside, OutsideType

\* Steps of one worker: what has to be shown.
LEMMA WorkerFrame ==
  ASSUME IInv, NEW w \in Workers, WalletTypeOK', attempt' = attempt,
         UNCHANGED <<row, balance, losses>>, Fault \/ NoFault,
         events' \in Seq(EventType), LastEvent' = LastEvent,
         out' \in [Workers -> OutType],
         \A v \in Workers \ {w} : out'[v] = out[v],
         out'[w].step # "idle" => out'[w].event \in 1..LastEvent,
         UNCHANGED <<requestVars, rec>>
  PROVE  IInv'
<1>1. OutboxTypeOK
  BY DEF IInv, TypeOK
<1>2. faults' \in 0..MaxFaults
  BY <1>1, FaultType DEF OutboxTypeOK
<1>3. OutboxTypeOK'
  BY <1>1, <1>2 DEF OutboxTypeOK, EventType, OutType
<1>4. EventsOK'
  BY DEF IInv, EventsOK, Event
<1> QED
  BY <1>3, <1>4, Outside, OutsideType

\* A worker claims an event that exists.
LEMMA ClaimStep ==
  ASSUME IInv, NEW w \in Workers, Claim(w), UNCHANGED <<requestVars, rec>>
  PROVE  IInv'
<1>1. OutboxTypeOK
  BY DEF IInv, TypeOK
<1>2. PICK i \in 1..LastEvent :
        /\ events' = [events EXCEPT ![i].by = w, ![i].lapsed = FALSE]
        /\ out' = [out EXCEPT ![w].step = "adjust", ![w].event = i]
  BY DEF Claim
<1> DEFINE e == [events[i] EXCEPT !.by = w, !.lapsed = FALSE]
<1>3. e \in EventType
  BY <1>1, EventsType DEF EventType
<1>4. events' = [events EXCEPT ![i] = e]
  BY <1>2
<1>5. events' \in Seq(EventType) /\ LastEvent' = LastEvent
  <2> HIDE DEF e
  <2> QED
    BY <1>1, <1>3, <1>4, EventsType, EventEffect
<1>6. out \in [Workers -> OutType] /\ i \in Nat /\ "adjust" \in OutSteps
  BY <1>1, EventsType DEF OutSteps
<1>7. /\ out' \in [Workers -> OutType] /\ out'[w].event = i
      /\ \A v \in Workers \ {w} : out'[v] = out[v]
  BY <1>2, <1>6 DEF OutType
<1>8. UNCHANGED <<row, balance, losses>> /\ NoFault
  BY DEF Claim, NoFault
<1>9. WalletTypeOK' /\ attempt' = attempt
  BY StoreFrame DEF Claim, IInv, TypeOK
<1> QED
  BY <1>5, <1>7, <1>8, <1>9, WorkerFrame

\* Applying an event leaves the attempts alone.
LEMMA AdjustWalletStep ==
  ASSUME IInv, NEW w \in Workers, AdjustWallet(w), UNCHANGED <<requestVars, rec>>
  PROVE  IInv'
<1>1. OutboxTypeOK /\ WalletTypeOK
  BY DEF IInv, TypeOK
<1>2. Event(w) \in 1..LastEvent
  BY DEF AdjustWallet, IInv, EventsOK
<1>3. /\ Event(w) \in Nat /\ Event(w) - 1 \in Int
      /\ events[Event(w)].delta \in Int
  BY <1>1, <1>2, EventsType DEF EventType
<1>4. \/ Adjust(Event(w), Event(w) - 1, events[Event(w)].delta)
      \/ UNCHANGED store
  BY DEF AdjustWallet
<1>5. WalletTypeOK' /\ attempt' = attempt
  BY <1>1, <1>3, <1>4, AdjustEffect, StoreFrame
<1>6. PICK step \in OutSteps : Goes(w, step)
  BY DEF AdjustWallet, AfterAdjust, OutSteps
<1>7. /\ out' \in [Workers -> OutType] /\ out'[w].event = out[w].event
      /\ \A v \in Workers \ {w} : out'[v] = out[v]
  BY <1>1, <1>6, GoesEffect
<1>8. /\ UNCHANGED <<row, balance, events, losses>>
      /\ Fault \/ NoFault
  BY DEF AdjustWallet
<1>9. events' \in Seq(EventType) /\ LastEvent' = LastEvent
  BY <1>1, <1>8, EventsType DEF LastEvent
<1> QED
  BY <1>2, <1>5, <1>7, <1>8, <1>9, WorkerFrame DEF Event

\* A worker reads a snapshot.
LEMMA ReadSnapshotStep ==
  ASSUME IInv, NEW w \in Workers, ReadSnapshot(w), UNCHANGED <<requestVars, rec>>
  PROVE  IInv'
<1>1. OutboxTypeOK /\ Snapshot \in Snapshots
  BY SnapshotType DEF IInv, TypeOK
<1>2. Event(w) \in 1..LastEvent
  BY DEF ReadSnapshot, IInv, EventsOK
<1>3. PICK step \in OutSteps :
        out' = [out EXCEPT ![w].seen = Snapshot, ![w].step = step]
  BY DEF ReadSnapshot, OutSteps
<1>4. out \in [Workers -> OutType]
  BY <1>1, EventsType
<1>5. /\ out' \in [Workers -> OutType] /\ out'[w].event = out[w].event
      /\ \A v \in Workers \ {w} : out'[v] = out[v]
  BY <1>1, <1>3, <1>4 DEF OutType
<1>6. UNCHANGED <<row, balance, events, losses>> /\ NoFault
  BY DEF ReadSnapshot, NoFault
<1>7. WalletTypeOK' /\ attempt' = attempt
  BY StoreFrame DEF ReadSnapshot, IInv, TypeOK
<1>8. events' \in Seq(EventType) /\ LastEvent' = LastEvent
  BY <1>1, <1>6, EventsType DEF LastEvent
<1> QED
  BY <1>2, <1>5, <1>6, <1>7, <1>8, WorkerFrame DEF Event

\* A worker initialises the wallet.
LEMMA InitializeWalletStep ==
  ASSUME IInv, NEW w \in Workers, InitializeWallet(w),
         UNCHANGED <<requestVars, rec>>
  PROVE  IInv'
<1>1. OutboxTypeOK /\ WalletTypeOK /\ out \in [Workers -> OutType]
  BY EventsType DEF IInv, TypeOK
<1>2. Event(w) \in 1..LastEvent
  BY DEF InitializeWallet, IInv, EventsOK
<1>3. out[w].seen.balance \in Int /\ out[w].seen.at \in Nat
  BY <1>1 DEF OutType, Snapshots
<1>4. WalletTypeOK' /\ attempt' = attempt
  BY <1>1, <1>3, InitializeEffect DEF InitializeWallet
<1>5. out' = [out EXCEPT ![w].step = "replay", ![w].seen = Unread]
  BY DEF InitializeWallet
<1>6. /\ out' \in [Workers -> OutType] /\ out'[w].event = out[w].event
      /\ \A v \in Workers \ {w} : out'[v] = out[v]
  BY <1>1, <1>5, UnreadType DEF OutType, OutSteps
<1>7. UNCHANGED <<row, balance, events, losses>> /\ NoFault
  BY DEF InitializeWallet, NoFault
<1>8. events' \in Seq(EventType) /\ LastEvent' = LastEvent
  BY <1>1, <1>7, EventsType DEF LastEvent
<1> QED
  BY <1>2, <1>4, <1>6, <1>7, <1>8, WorkerFrame DEF Event

\* What the statements that end the work on an event do to it.
LEMMA EndsEffect ==
  ASSUME IInv, NEW w \in Workers, Event(w) \in 1..LastEvent,
         \/ events' = [events EXCEPT ![Event(w)].delivered = TRUE,
                                     ![Event(w)].by = None,
                                     ![Event(w)].lapsed = FALSE]
         \/ events' = [events EXCEPT ![Event(w)].by = None,
                                     ![Event(w)].lapsed = FALSE]
         \/ events' = events
  PROVE  /\ events' \in Seq(EventType) /\ LastEvent' = LastEvent
         /\ \A j \in 1..LastEvent :
              j # Event(w) => events'[j] = events[j]
<1> DEFINE i == Event(w)
           d == [events[i] EXCEPT !.delivered = TRUE, !.by = None,
                                  !.lapsed = FALSE]
           e == [events[i] EXCEPT !.by = None, !.lapsed = FALSE]
<1>1. OutboxTypeOK
  BY DEF IInv, TypeOK
<1>2. d \in EventType /\ e \in EventType
  BY <1>1, EventsType DEF EventType
<1>3. \/ events' = [events EXCEPT ![i] = d]
      \/ events' = [events EXCEPT ![i] = e]
      \/ events' = events
  OBVIOUS
<1> HIDE DEF i, d, e
<1>4. events \in Seq(EventType)
  BY <1>1, EventsType
<1>5. i = Event(w)
  BY DEF i
<1>6. CASE events' = events
  BY <1>4, <1>6 DEF LastEvent
<1>7. CASE events' # events
  BY <1>2, <1>3, <1>4, <1>5, <1>7, EventEffect
<1> QED
  BY <1>6, <1>7

\* A worker acknowledges its event.
LEMMA MarkDeliveredStep ==
  ASSUME IInv, NEW w \in Workers, MarkDelivered(w), UNCHANGED <<requestVars, rec>>
  PROVE  IInv'
<1>1. OutboxTypeOK
  BY DEF IInv, TypeOK
<1>2. Event(w) \in 1..LastEvent
  BY DEF MarkDelivered, IInv, EventsOK
<1>3. events' \in Seq(EventType) /\ LastEvent' = LastEvent
  BY <1>2, EndsEffect DEF MarkDelivered
<1>4. /\ out' \in [Workers -> OutType] /\ out'[w].step = "idle"
      /\ \A v \in Workers \ {w} : out'[v] = out[v]
  BY <1>1, IdleEffect DEF MarkDelivered
<1>5. UNCHANGED <<row, balance, losses>> /\ NoFault
  BY DEF MarkDelivered, NoFault
<1>6. WalletTypeOK' /\ attempt' = attempt
  BY StoreFrame DEF MarkDelivered, IInv, TypeOK
<1> QED
  BY <1>3, <1>4, <1>5, <1>6, WorkerFrame

\* A worker gives its event back.
LEMMA RetryClaimedStep ==
  ASSUME IInv, NEW w \in Workers, RetryClaimed(w), UNCHANGED <<requestVars, rec>>
  PROVE  IInv'
<1>1. OutboxTypeOK
  BY DEF IInv, TypeOK
<1>2. Event(w) \in 1..LastEvent
  BY DEF RetryClaimed, IInv, EventsOK
<1>3. events' \in Seq(EventType) /\ LastEvent' = LastEvent
  BY <1>2, EndsEffect DEF RetryClaimed
<1>4. /\ out' \in [Workers -> OutType] /\ out'[w].step = "idle"
      /\ \A v \in Workers \ {w} : out'[v] = out[v]
  BY <1>1, IdleEffect DEF RetryClaimed
<1>5. UNCHANGED <<row, balance, losses>> /\ NoFault
  BY DEF RetryClaimed, NoFault
<1>6. WalletTypeOK' /\ attempt' = attempt
  BY StoreFrame DEF RetryClaimed, IInv, TypeOK
<1> QED
  BY <1>3, <1>4, <1>5, <1>6, WorkerFrame

\* A worker dies.
LEMMA DropEventStep ==
  ASSUME IInv, NEW w \in Workers, DropEvent(w), UNCHANGED <<requestVars, rec>>
  PROVE  IInv'
<1>1. OutboxTypeOK
  BY DEF IInv, TypeOK
<1>2. /\ out' \in [Workers -> OutType] /\ out'[w].step = "idle"
      /\ \A v \in Workers \ {w} : out'[v] = out[v]
  BY <1>1, IdleEffect DEF DropEvent
<1>3. UNCHANGED <<row, balance, events, losses>> /\ Fault
  BY DEF DropEvent
<1>4. events' \in Seq(EventType) /\ LastEvent' = LastEvent
  BY <1>1, <1>3, EventsType DEF LastEvent
<1>5. WalletTypeOK' /\ attempt' = attempt
  BY StoreFrame DEF DropEvent, IInv, TypeOK
<1> QED
  BY <1>2, <1>3, <1>4, <1>5, WorkerFrame

\* A pending row is moved into the balance.
LEMMA FlushStep ==
  ASSUME IInv, NEW r \in Requests, Flush(r), UNCHANGED <<requestVars, rec>>
  PROVE  IInv'
<1>1. RowsTypeOK /\ OutboxTypeOK /\ ApplyRow(r)
  BY DEF Flush, IInv, TypeOK
<1>2. /\ RowsTypeOK' /\ ThisRowOnly(r)
      /\ row[r].status = "pending" /\ row'[r].status = "applied"
      /\ row'[r].hold = row[r].hold /\ row'[r].amount = row[r].amount
      /\ row'[r].expired = row[r].expired
  BY <1>1, ApplyEffect
<1>3. WalletTypeOK' /\ attempt' = attempt
  BY StoreFrame DEF Flush, IInv, TypeOK
<1>4. UNCHANGED <<pc, seen, cost, rec, events, out, faults, losses>>
  BY DEF Flush, requestVars
<1>5. balance' \in Int
  BY <1>1 DEF Flush, OutboxTypeOK, RowsTypeOK, Rows
<1>6. OutboxTypeOK'
  BY <1>1, <1>4, <1>5 DEF OutboxTypeOK
<1>7. TypeOK'
  BY <1>2, <1>3, <1>4, <1>6 DEF IInv, TypeOK
<1>8. EventsOK'
  BY <1>4 DEF IInv, EventsOK, Event, LastEvent
<1>9. LocalOK(r)'
  <2>1. /\ RowOK(r) /\ CostOK(r) /\ RequestOK(r) /\ AttemptOK(r)
    BY DEF IInv, LocalOK
  <2>2. RowOK(r)'
    BY <1>2, <1>3, <1>4, <2>1 DEF RowOK, RequestOK, In, At, Prompt
  <2>3. CostOK(r)'
    BY <1>2, <1>3, <1>4, <2>1
       DEF RowOK, CostOK, RequestOK, HeldTo, Decided, In, At, Unknown
  <2>4. RequestOK(r)'
    BY <1>2, <1>3, <1>4, <2>1
       DEF RowOK, CostOK, RequestOK, AttemptOK, Quiet, HeldTo, Decided,
        Recovers, In, Is, At, Prompt, Unknown
  <2>5. AttemptOK(r)'
    BY <1>2, <1>3, <1>4, <2>1
       DEF RowOK, RequestOK, AttemptOK, HeldTo, Decided, In, Is, At, Prompt
  <2>6. ASSUME NEW c \in Recoverers PROVE RecoveryOK(c, r)'
    <3>1. RecoveryOK(c, r)
      BY DEF IInv, LocalOK
    <3> QED
      BY <1>2, <1>3, <1>4, <2>1, <3>1
         DEF RowOK, CostOK, RequestOK, RecoveryOK, Quiet, HeldTo, Decided,
          Recovers, Copy, In, Is, At, Unknown, Prompt
  <2> QED
    BY <2>2, <2>3, <2>4, <2>5, <2>6 DEF LocalOK
<1>10. ASSUME NEW q \in Requests \ {r} PROVE LocalOK(q)'
  BY <1>2, <1>3, <1>4, <1>10, Frame DEF IInv, ThisRowOnly
<1> QED
  BY <1>7, <1>8, <1>9, <1>10 DEF IInv

\* The wallet is lost with all attempts.
LEMMA LoseStep ==
  ASSUME IInv, Lose
  PROVE  IInv'
<1>1. WalletTypeOK' /\ \A q \in Requests : attempt'[q].state = "none"
  BY LoseEffect DEF Lose, IInv, TypeOK
<1>2. UNCHANGED <<row, pc, seen, cost, rec, balance, events, out, faults>>
  BY DEF Lose, requestVars, outboxVars
<1>3. losses' \in 0..MaxLosses
  BY OutboxAssumption DEF Lose, IInv, TypeOK, OutboxTypeOK
<1>4. OutboxTypeOK'
  BY <1>2, <1>3 DEF IInv, TypeOK, OutboxTypeOK
<1>5. TypeOK'
  BY <1>1, <1>2, <1>4 DEF IInv, TypeOK, RowsTypeOK
<1>6. EventsOK'
  BY <1>2 DEF IInv, EventsOK, Event, LastEvent
<1>7. ASSUME NEW q \in Requests PROVE LocalOK(q)'
  <2>1. /\ RowOK(q) /\ CostOK(q) /\ RequestOK(q) /\ AttemptOK(q)
    BY DEF IInv, LocalOK
  <2>2. RowOK(q)'
    BY <1>1, <1>2, <2>1 DEF RowOK, RequestOK, In, At, Prompt
  <2>3. CostOK(q)'
    BY <1>1, <1>2, <2>1
       DEF RowOK, CostOK, RequestOK, HeldTo, Decided, In, At, Unknown
  <2>4. RequestOK(q)'
    BY <1>1, <1>2, <2>1
       DEF RowOK, CostOK, RequestOK, AttemptOK, Quiet, HeldTo, Decided,
        Recovers, In, Is, At, Prompt, Unknown
  <2>5. AttemptOK(q)'
    BY <1>1, <1>2, <2>1
       DEF RowOK, RequestOK, AttemptOK, HeldTo, Decided, In, Is, At, Prompt
  <2>6. ASSUME NEW c \in Recoverers PROVE RecoveryOK(c, q)'
    <3>1. RecoveryOK(c, q)
      BY DEF IInv, LocalOK
    <3> QED
      BY <1>1, <1>2, <2>1, <3>1
         DEF RowOK, CostOK, RequestOK, RecoveryOK, Quiet, HeldTo, Decided,
          Recovers, Copy, In, Is, At, Unknown, Prompt
  <2> QED
    BY <2>2, <2>3, <2>4, <2>5, <2>6 DEF LocalOK
<1> QED
  BY <1>5, <1>6, <1>7 DEF IInv

-----------------------------------------------------------------------------
(* The invariant *)

\* The initial states satisfy the invariant.
LEMMA InitInvariant == Init => IInv
<1> SUFFICES ASSUME Init PROVE IInv
  OBVIOUS
<1>1. NoAttempt \in Attempts /\ NoAttempt.state = "none"
  BY DEF NoAttempt, Attempts
<1>2. /\ NoRow \in Rows /\ NoRow.status = "none" /\ ~NoRow.expired
  BY DEF NoRow, Rows, Statuses, Fingerprints
<1>3. /\ attempt = [r \in Requests |-> NoAttempt]
      /\ row = [r \in Requests |-> NoRow]
      /\ pc = [r \in Requests |-> "idle"]
      /\ seen = [r \in Requests |-> Unread]
      /\ cost = [r \in Requests |-> Unknown]
      /\ rec = [c \in Recoverers |-> [r \in Requests |-> Idle]]
  BY DEF Init, WalletInit, RowsInit
<1>4. WalletTypeOK
  <2>1. present = FALSE /\ wallet = 0 /\ watermark = 0
    BY Zenon DEF Init, WalletInit
  <2>2. present \in BOOLEAN
    BY Zenon, <2>1
  <2>3. attempt \in [Requests -> Attempts]
    BY <1>1, <1>3
  <2>4. wallet \in Int /\ watermark \in Nat
    BY <2>1
  <2> QED
    BY Zenon, <2>2, <2>3, <2>4 DEF WalletTypeOK
<1>5. RowsTypeOK
  BY <1>2, <1>3 DEF RowsTypeOK
<1>6. OutboxTypeOK
  <2>1. balance \in Int /\ events = <<>> /\ faults = 0 /\ losses = 0
    BY OutboxAssumption DEF Init, OutboxInit
  <2> DEFINE entry == [step |-> "idle", event |-> 0, seen |-> Unread]
  <2>2. entry \in [step : OutSteps, event : Nat, seen : Snapshots]
    BY UnreadType DEF OutSteps
  <2>3. out = [w \in Workers |-> entry]
    BY DEF Init, OutboxInit
  <2> HIDE DEF entry
  <2>4. out \in [Workers -> [step : OutSteps, event : Nat, seen : Snapshots]]
    BY <2>2, <2>3
  <2> QED
    BY <2>1, <2>4, OutboxAssumption, EmptySeq DEF OutboxTypeOK
<1>7. Idle \in [step : RecoverySteps, copy : Rows] /\ Idle.step = "idle"
  BY <1>2 DEF Idle, RecoverySteps
<1>8. TypeOK
  BY <1>3, <1>4, <1>5, <1>6, <1>7, UnreadType DEF TypeOK, RequestSteps, Unknown
<1>9. EventsOK
  BY DEF Init, OutboxInit, EventsOK
<1>10. ASSUME NEW r \in Requests PROVE LocalOK(r)
  BY <1>1, <1>2, <1>3, <1>7, <1>10
     DEF LocalOK, RowOK, CostOK, RequestOK, AttemptOK, RecoveryOK, Recovers,
         In, Is, At, Prompt, Unknown
<1> QED
  BY <1>8, <1>9, <1>10 DEF IInv

\* Every step keeps it.
LEMMA NextInvariant == IInv /\ [Next]_vars => IInv'
<1> SUFFICES ASSUME IInv, [Next]_vars PROVE IInv'
  OBVIOUS
<1>1. CASE UNCHANGED vars
  <2>1. UNCHANGED <<store, row, balance, events, out, faults, losses, pc, seen,
                    cost, rec>>
    BY <1>1 DEF vars, outboxVars, requestVars
  <2>2. WalletTypeOK' /\ attempt' = attempt
    BY <2>1, StoreFrame DEF IInv, TypeOK
  <2>3. OutboxTypeOK' /\ EventsOK'
    BY <2>1 DEF IInv, TypeOK, OutboxTypeOK, EventsOK, Event, LastEvent
  <2> QED
    BY <2>1, <2>2, <2>3, Outside, OutsideType DEF requestVars
<1>2. ASSUME NEW r \in Requests,
             \/ PrepareRow(r) \/ RequestStep(r)
             \/ TopUpHold(r) \/ Transfer(r) \/ Cancel(r) \/ Abandon(r)
             \/ ExpireRow(r) \/ DropAttempt(r)
      PROVE  IInv'
  BY <1>2, PrepareRowStep, AuthorizeHoldStep, LoadSnapshotStep,
     MarkAuthorizedStep, UndoRowStep, UndoHoldStep, AdvanceHoldStep,
     ApplyUsageStep, BeginSettlementStep, SettleHoldStep,
     FinishSettlementStep, CancelRowStep, ReleaseHoldStep, FinishRefundStep,
     TopUpHoldStep, TransferStep, CancelStep, AbandonStep, ExpireRowStep,
     DropAttemptStep
     DEF RequestStep
<1>3. ASSUME NEW r \in Requests, NEW c \in Recoverers,
             List(c, r) \/ Recover(c, r) \/ RecoveryFails(c, r)
      PROVE  IInv'
  BY <1>3, ListStep, RecoverPreparedStep, RecoverAuthorizedStep,
     RecoverAdvanceStep, RecoverBeginStep, RecoverFinalizingStep,
     RecoverSettleStep, RecoverCompleteSettlementStep, RecoverRefundStep,
     RecoverCompleteRefundStep, RecoveryFailsStep
     DEF Recover
<1>4. CASE OutboxStep
  <2>1. UNCHANGED <<requestVars, rec>>
    BY <1>4 DEF OutboxStep
  <2>2. ASSUME NEW w \in Workers, WorkerStep(w) \/ DropEvent(w) PROVE IInv'
    BY <2>1, <2>2, ClaimStep, AdjustWalletStep, ReadSnapshotStep,
       InitializeWalletStep, MarkDeliveredStep, RetryClaimedStep, DropEventStep
       DEF WorkerStep
  <2> QED
    BY <1>4, <2>1, <2>2, ChangeBalanceStep, LapseStep, FlushStep
       DEF OutboxStep
<1> QED
  BY <1>1, <1>2, <1>3, <1>4, LoseStep DEF Next

\* Rows, attempts, requests and recoveries agree as IInv says in every
\* reachable state of LiveWallet.
THEOREM InvariantHolds == Spec => []IInv
BY InitInvariant, NextInvariant, PTL DEF Spec

\* Every variable of wallet, rows, outbox and actors keeps its type.
THEOREM TypeCorrect == Spec => []TypeOK
<1>1. IInv => TypeOK
  BY DEF IInv
<1> QED
  BY <1>1, InvariantHolds, PTL

\* A charged attempt and its row name the same amount (SameAmountInBothStores),
\* however the request and the recoveries of its row interleave.
THEOREM SameAmount == Spec => []SameAmountInBothStores
<1>1. IInv => SameAmountInBothStores
  BY DEF IInv, LocalOK, AttemptOK, SameAmountInBothStores
<1> QED
  BY <1>1, InvariantHolds, PTL

\* A row that is settled or refunded has left no hold (NothingHeldAtTheEnd).
THEOREM NothingStaysHeld == Spec => []NothingHeldAtTheEnd
<1>1. IInv => NothingHeldAtTheEnd
  BY DEF IInv, LocalOK, AttemptOK, NothingHeldAtTheEnd
<1> QED
  BY <1>1, InvariantHolds, PTL

\* A request whose use is known to cost something is never given back
\* (ServedIsCharged), whoever finishes its row.
THEOREM UseIsCharged == Spec => []ServedIsCharged
<1>1. IInv => ServedIsCharged
  BY DEF IInv, LocalOK, CostOK, Decided, In, ServedIsCharged
<1> QED
  BY <1>1, InvariantHolds, PTL

-----------------------------------------------------------------------------
(* The account *)

Applied(r) == In(r, {"applied"})
Verdict == [r \in Requests |-> IF Decided(r) THEN row[r].amount ELSE Unknown]
Settled == {r \in Requests : Applied(r)}
Amounts == Costs \cup {0, Hold, TopUpTarget}

\* No request is decided or settled.
VerdictsKept(r) ==
    /\ ThisRowOnly(r)
    /\ Decided(r)' <=> Decided(r)
    /\ Decided(r) => row'[r].amount = row[r].amount
    /\ Applied(r)' <=> Applied(r)

\* What r pays is decided.
VerdictGiven(r, amount) ==
    /\ ThisRowOnly(r)
    /\ ~Decided(r) /\ Decided(r)'
    /\ row'[r].amount = amount
    /\ ~Applied(r) /\ ~Applied(r)'

\* Statements that decide nothing.
LEMMA StatementKeeps ==
  ASSUME IInv, NEW r \in Requests,
         \/ Prepare(r) \/ Mark(r) \/ Expire(r)
         \/ \E hold \in Nat : Advance(r, hold)
         \/ CompleteSettlement(r) \/ CompleteRefund(r)
         \/ row' = row
  PROVE  VerdictsKept(r)
<1>1. RowsTypeOK
  BY DEF IInv, TypeOK
<1>2. CASE Prepare(r)
  BY <1>1, <1>2, PrepareEffect DEF VerdictsKept, Decided, Applied, In
<1>3. CASE Mark(r)
  BY <1>1, <1>3, MarkEffect DEF VerdictsKept, Decided, Applied, In
<1>4. CASE Expire(r)
  BY <1>1, <1>4, ExpireEffect DEF VerdictsKept, Decided, Applied, In
<1>5. CASE \E hold \in Nat : Advance(r, hold)
  BY <1>1, <1>5, AdvanceEffect DEF VerdictsKept, Decided, Applied, In
<1>6. CASE CompleteSettlement(r)
  BY <1>1, <1>6, CompleteSettlementEffect
     DEF VerdictsKept, Decided, Applied, In
<1>7. CASE CompleteRefund(r)
  BY <1>1, <1>7, CompleteRefundEffect DEF VerdictsKept, Decided, Applied, In
<1>8. CASE row' = row
  BY <1>8 DEF VerdictsKept, Decided, Applied, In, ThisRowOnly
<1> QED
  BY <1>2, <1>3, <1>4, <1>5, <1>6, <1>7, <1>8

\* A charge is decided once.
LEMMA DecideGives ==
  ASSUME IInv, NEW r \in Requests, NEW amount \in Nat,
         NEW by \in Fingerprints, Decide(r, amount, by)
  PROVE  \/ VerdictsKept(r)
         \/ VerdictGiven(r, amount)
BY DecideEffect
   DEF IInv, TypeOK, VerdictsKept, VerdictGiven, Decided, Applied, In

\* A refund is decided once.
LEMMA BeginRefundGives ==
  ASSUME IInv, NEW r \in Requests, BeginRefund(r)
  PROVE  \/ VerdictsKept(r)
         \/ VerdictGiven(r, 0)
BY BeginRefundEffect
   DEF IInv, TypeOK, VerdictsKept, VerdictGiven, Decided, Applied, In

\* The steps of the account, by what they do to the rows.
AccountStep(r) ==
    /\ balance' = balance /\ cost' = cost
    /\ \/ VerdictsKept(r)
       \/ \E amount \in Amounts :
            VerdictGiven(r, amount) /\ Account!Fair(r, amount)

FlushedStep(r) ==
    /\ ThisRowOnly(r) /\ cost' = cost
    /\ Decided(r) /\ Decided(r)' /\ ~Applied(r) /\ Applied(r)'
    /\ row[r].amount > 0 /\ row'[r].amount = row[r].amount
    /\ balance' = balance - row[r].amount

UsedStep(r) ==
    /\ balance' = balance /\ row' = row
    /\ cost[r] = Unknown
    /\ \E c \in Costs : cost' = [cost EXCEPT ![r] = c]

ChangedStep ==
    /\ row' = row /\ cost' = cost
    /\ \E delta \in Deltas : balance' = balance + delta

\* The steps of a request: at most one fair verdict.
LEMMA RequestAccount ==
  ASSUME IInv, NEW r \in Requests,
         \/ PrepareRow(r) \/ RequestStep(r)
         \/ TopUpHold(r) \/ Cancel(r) \/ Abandon(r)
         \/ ExpireRow(r) \/ DropAttempt(r)
  PROVE  AccountStep(r)
<1>1. balance' = balance /\ cost' = cost
  BY DEF PrepareRow, RequestStep, AuthorizeHold, LoadSnapshot, MarkAuthorized,
         UndoRow, UndoHold, AdvanceHold, ApplyUsage, BeginSettlement,
         SettleHold, FinishSettlement, CancelRow, ReleaseHold, FinishRefund,
         TopUpHold, Cancel, Abandon, ExpireRow, DropAttempt, others,
         outboxVars, requestVars
<1>2. CASE UndoRow(r) \/ CancelRow(r)
  <2>1. BeginRefund(r) \/ row' = row
    BY <1>2 DEF UndoRow, CancelRow
  <2>2. cost[r] = Unknown
    BY <1>2 DEF UndoRow, CancelRow, At, IInv, LocalOK, CostOK
  <2>3. Account!Fair(r, 0) /\ 0 \in Amounts
    BY <2>2 DEF Account!Fair, Unknown, Amounts
  <2> QED
    BY <1>1, <2>1, <2>3, BeginRefundGives, StatementKeeps DEF AccountStep
<1>3. CASE ApplyUsage(r) \/ BeginSettlement(r)
  <2>1. cost[r] \in Costs /\ cost[r] \in Nat
    BY <1>3, WalletAssumption
       DEF ApplyUsage, BeginSettlement, At, IInv, LocalOK, CostOK
  <2>2. Decide(r, cost[r], "usage") \/ row' = row
    BY <1>3 DEF ApplyUsage, BeginSettlement, BeginFinalization
  <2>3. Account!Fair(r, cost[r]) /\ cost[r] \in Amounts
    BY <2>1 DEF Account!Fair, Amounts
  <2>4. "usage" \in Fingerprints
    BY DEF Fingerprints
  <2> QED
    BY <1>1, <2>1, <2>2, <2>3, <2>4, DecideGives, StatementKeeps
       DEF AccountStep
<1>4. CASE ~(\/ UndoRow(r) \/ CancelRow(r) \/ ApplyUsage(r)
             \/ BeginSettlement(r))
  <2>1. \/ Prepare(r) \/ Mark(r) \/ Expire(r) \/ Advance(r, TopUpTarget)
        \/ CompleteSettlement(r) \/ CompleteRefund(r) \/ row' = row
    BY <1>4 DEF PrepareRow, RequestStep, AuthorizeHold, LoadSnapshot,
         MarkAuthorized, UndoHold, AdvanceHold, SettleHold, FinishSettlement,
         ReleaseHold, FinishRefund, TopUpHold, Cancel, Abandon, ExpireRow,
         DropAttempt, others
  <2>2. VerdictsKept(r)
    BY <2>1, StatementKeeps, WalletAssumption
  <2> QED
    BY <1>1, <2>2 DEF AccountStep
<1> QED
  BY <1>2, <1>3, <1>4

\* The steps of a recovery: at most one fair verdict.
LEMMA RecoveryAccount ==
  ASSUME IInv, NEW r \in Requests, NEW c \in Recoverers,
         List(c, r) \/ Recover(c, r) \/ RecoveryFails(c, r)
  PROVE  AccountStep(r)
<1>1. balance' = balance /\ cost' = cost
  BY DEF List, Recover, RecoverPrepared, RecoverAuthorized, RecoverAdvance,
         RecoverBegin, RecoverFinalizing, RecoverSettle,
         RecoverCompleteSettlement, RecoverRefund, RecoverCompleteRefund,
         RecoveryFails, idleOthers, outboxVars, requestVars
<1>2. CASE RecoverPrepared(c, r)
  <2>1. BeginRefund(r)
    BY <1>2 DEF RecoverPrepared
  <2>2. cost[r] = Unknown
    BY <1>2 DEF RecoverPrepared, Recovers, IInv, LocalOK, RecoveryOK
  <2>3. Account!Fair(r, 0) /\ 0 \in Amounts
    BY <2>2 DEF Account!Fair, Unknown, Amounts
  <2> QED
    BY <1>1, <2>1, <2>3, BeginRefundGives DEF AccountStep
<1>3. CASE RecoverBegin(c, r)
  <2>1. Copy(c, r).hold \in Holds
    BY <1>3 DEF RecoverBegin, Recovers, IInv, LocalOK, RecoveryOK
  <2>2. Copy(c, r).hold \in Nat /\ Copy(c, r).hold \in {Hold, TopUpTarget}
    BY <2>1, HoldsPositive DEF Holds
  <2>3. Account!Fair(r, Copy(c, r).hold) /\ Copy(c, r).hold \in Amounts
    BY <2>2 DEF Account!Fair, Amounts
  <2>4. Decide(r, Copy(c, r).hold, "recovery") /\ "recovery" \in Fingerprints
    BY <1>3 DEF RecoverBegin, BeginFinalization, Fingerprints
  <2> QED
    BY <1>1, <2>2, <2>3, <2>4, DecideGives DEF AccountStep
<1>4. CASE ~(RecoverPrepared(c, r) \/ RecoverBegin(c, r))
  <2>1. RecoverAdvance(c, r) => Copy(c, r).hold \in Nat
    BY HoldsPositive DEF RecoverAdvance, Recovers, IInv, LocalOK, RecoveryOK
  <2>2. \/ \E hold \in Nat : Advance(r, hold)
        \/ CompleteSettlement(r) \/ CompleteRefund(r) \/ row' = row
    BY <1>4, <2>1
       DEF List, Recover, RecoverAuthorized, RecoverAdvance,
           RecoverFinalizing, RecoverSettle, RecoverCompleteSettlement,
           RecoverRefund, RecoverCompleteRefund, RecoveryFails
  <2>3. VerdictsKept(r)
    BY <2>2, StatementKeeps
  <2> QED
    BY <1>1, <2>3 DEF AccountStep
<1> QED
  BY <1>2, <1>3, <1>4

\* Every step of the system is one of these, or touches nothing of the account.
LEMMA NextAccount ==
  ASSUME IInv, [Next]_vars
  PROVE  \/ \E r \in Requests : AccountStep(r) \/ FlushedStep(r) \/ UsedStep(r)
         \/ ChangedStep
         \/ UNCHANGED <<row, cost, balance>>
<1>1. ASSUME NEW r \in Requests,
             \/ PrepareRow(r) \/ RequestStep(r)
             \/ TopUpHold(r) \/ Cancel(r) \/ Abandon(r)
             \/ ExpireRow(r) \/ DropAttempt(r)
      PROVE  AccountStep(r)
  BY <1>1, RequestAccount
<1>2. ASSUME NEW r \in Requests, Transfer(r) PROVE UsedStep(r)
  <2>1. cost[r] = Unknown
    BY <1>2 DEF Transfer, At, IInv, LocalOK, CostOK
  <2> QED
    BY <1>2, <2>1 DEF Transfer, UsedStep, others, outboxVars
<1>3. ASSUME NEW r \in Requests, NEW c \in Recoverers,
             List(c, r) \/ Recover(c, r) \/ RecoveryFails(c, r)
      PROVE  AccountStep(r)
  BY <1>3, RecoveryAccount
<1>4. ASSUME NEW r \in Requests, Flush(r), UNCHANGED <<requestVars, rec>>
      PROVE  FlushedStep(r)
  <2>1. /\ ThisRowOnly(r)
        /\ row[r].status = "pending" /\ row'[r].status = "applied"
        /\ row'[r].amount = row[r].amount
    BY <1>4, ApplyEffect DEF Flush, IInv, TypeOK
  <2>2. row[r].amount > 0
    BY <2>1 DEF IInv, LocalOK, RowOK, In
  <2> QED
    BY <1>4, <2>1, <2>2
       DEF FlushedStep, Flush, Decided, Applied, In, requestVars
<1>5. CASE OutboxStep
  <2>1. cost' = cost
    BY <1>5 DEF OutboxStep, requestVars
  <2>2. CASE ChangeBalance
    BY <2>1, <2>2 DEF ChangeBalance, ChangedStep
  <2>3. ASSUME NEW w \in Workers, WorkerStep(w) \/ DropEvent(w)
        PROVE  UNCHANGED <<row, balance>>
    BY <2>3 DEF WorkerStep, Claim, AdjustWallet, ReadSnapshot,
                InitializeWallet, MarkDelivered, RetryClaimed, DropEvent
  <2>4. ASSUME NEW i \in 1..LastEvent, Lapse(i)
        PROVE  UNCHANGED <<row, balance>>
    BY <2>4 DEF Lapse
  <2> QED
    BY <1>4, <1>5, <2>1, <2>2, <2>3, <2>4 DEF OutboxStep
<1>6. CASE Lose
  BY <1>6 DEF Lose, outboxVars, requestVars
<1>7. CASE UNCHANGED vars
  BY <1>7 DEF vars, outboxVars, requestVars
<1> QED
  BY <1>1, <1>2, <1>3, <1>5, <1>6, <1>7 DEF Next

\* What a request pays is decided once (VerdictIsFinal).
THEOREM VerdictStays == Spec => VerdictIsFinal
<1> DEFINE A == \A r \in Requests :
                  In(r, {"finalizing", "pending", "applied", "refunded"}) =>
                    row'[r].amount = row[r].amount
<1>1. ASSUME IInv, [Next]_vars PROVE A
  <2>1. ASSUME NEW r \in Requests, AccountStep(r) \/ FlushedStep(r) PROVE A
    BY <2>1 DEF AccountStep, FlushedStep, VerdictsKept, VerdictGiven,
                ThisRowOnly, Decided
  <2> QED
    BY <1>1, <2>1, NextAccount DEF UsedStep, ChangedStep
<1>2. IInv /\ [Next]_vars => [A]_vars
  BY <1>1
<1>3. VerdictIsFinal <=> [][A]_vars
  BY DEF VerdictIsFinal
<1> QED
  BY <1>2, <1>3, InvariantHolds, PTL DEF Spec

\* The mapped steps.
LEMMA KeptAccount ==
  ASSUME NEW r \in Requests, VerdictsKept(r)
  PROVE  Verdict' = Verdict /\ Settled' = Settled
<1>1. ASSUME NEW q \in Requests
      PROVE  /\ Decided(q)' <=> Decided(q)
             /\ Decided(q) => row'[q].amount = row[q].amount
             /\ Applied(q)' <=> Applied(q)
  BY <1>1 DEF VerdictsKept, ThisRowOnly, Decided, Applied, In
<1>2. \A q \in Requests :
        (IF Decided(q) THEN row[q].amount ELSE Unknown)'
          = (IF Decided(q) THEN row[q].amount ELSE Unknown)
  BY <1>1 DEF Unknown
<1>3. Verdict' = Verdict
  BY <1>2 DEF Verdict
<1>4. Settled' = Settled
  BY <1>1 DEF Settled
<1> QED
  BY <1>3, <1>4

\* A verdict that is given is one of the account.
LEMMA GivenAccount ==
  ASSUME NEW r \in Requests, NEW amount, VerdictGiven(r, amount)
  PROVE  /\ Verdict[r] = Unknown
         /\ Verdict' = [Verdict EXCEPT ![r] = amount] /\ Settled' = Settled
<1>1. ASSUME NEW q \in Requests \ {r}
      PROVE  /\ Decided(q)' <=> Decided(q)
             /\ row'[q].amount = row[q].amount
             /\ Applied(q)' <=> Applied(q)
  BY <1>1 DEF VerdictGiven, ThisRowOnly, Decided, Applied, In
<1>2. \A q \in Requests :
        (IF Decided(q) THEN row[q].amount ELSE Unknown)'
          = IF q = r THEN amount
                     ELSE IF Decided(q) THEN row[q].amount ELSE Unknown
  BY <1>1 DEF VerdictGiven, Unknown
<1>3. Verdict' = [Verdict EXCEPT ![r] = amount]
  BY <1>2 DEF Verdict
<1>4. Settled' = Settled
  BY <1>1 DEF VerdictGiven, Settled
<1>5. Verdict[r] = Unknown
  BY DEF VerdictGiven, Verdict
<1> QED
  BY <1>3, <1>4, <1>5

\* A row that is flushed is one settled verdict.
LEMMA FlushedAccount ==
  ASSUME NEW r \in Requests, FlushedStep(r)
  PROVE  /\ Verdict[r] = row[r].amount /\ r \notin Settled
         /\ Verdict' = Verdict /\ Settled' = Settled \cup {r}
<1>1. ASSUME NEW q \in Requests \ {r}
      PROVE  /\ Decided(q)' <=> Decided(q)
             /\ row'[q].amount = row[q].amount
             /\ Applied(q)' <=> Applied(q)
  BY <1>1 DEF FlushedStep, ThisRowOnly, Decided, Applied, In
<1>2. \A q \in Requests :
        (IF Decided(q) THEN row[q].amount ELSE Unknown)'
          = (IF Decided(q) THEN row[q].amount ELSE Unknown)
  BY <1>1 DEF FlushedStep, Unknown
<1>3. Verdict' = Verdict
  BY <1>2 DEF Verdict
<1>4. Settled' = Settled \cup {r}
  BY <1>1 DEF FlushedStep, Settled
<1> QED
  BY <1>3, <1>4 DEF FlushedStep, Verdict, Settled

\* LiveWallet implements PrepaidAccount (KeepsAccount): wallet, rows, outbox
\* and recoveries charge each request one fair verdict, once.
THEOREM AccountKept == Spec => KeepsAccount
<1>1. /\ Account!vars = <<balance, cost, Verdict, Settled>>
      /\ \A r : Account!Open(r) <=> Verdict[r] = -1
  BY DEF Account!vars, Account!Open, Verdict, Settled, Applied
<1>2. Init => Account!Init
  <2> SUFFICES ASSUME Init PROVE Account!Init
    OBVIOUS
  <2>1. balance \in Int /\ cost = [r \in Requests |-> -1]
    BY OutboxAssumption DEF Init, OutboxInit, Unknown
  <2>2. \A r \in Requests : ~Decided(r) /\ ~Applied(r)
    BY DEF Init, RowsInit, NoRow, Decided, Applied, In
  <2>3. Verdict = [r \in Requests |-> -1] /\ Settled = {}
    BY <2>2 DEF Verdict, Settled, Unknown
  <2> QED
    BY <2>1, <2>3 DEF Account!Init, Verdict, Settled, Applied
<1>3. IInv /\ [Next]_vars => [Account!Next]_(Account!vars)
  <2> SUFFICES ASSUME IInv, [Next]_vars
               PROVE  Account!Next \/ UNCHANGED Account!vars
    OBVIOUS
  <2>1. ASSUME NEW r \in Requests, AccountStep(r), VerdictsKept(r)
        PROVE  UNCHANGED Account!vars
    BY <2>1, KeptAccount
       DEF AccountStep, Account!vars, Verdict, Settled, Applied
  <2>2. ASSUME NEW r \in Requests, AccountStep(r), NEW amount \in Amounts,
               VerdictGiven(r, amount), Account!Fair(r, amount)
        PROVE  Account!Next
    <3>1. /\ Account!Open(r) /\ amount \in Costs \cup {0, Hold, TopUpTarget}
          /\ Verdict' = [Verdict EXCEPT ![r] = amount]
          /\ balance' = balance /\ cost' = cost /\ Settled' = Settled
      BY <1>1, <2>2, GivenAccount DEF AccountStep, Amounts, Unknown
    <3>2. Account!Judge(r)
      BY <2>2, <3>1 DEF Account!Judge, Verdict, Settled, Applied
    <3> QED
      BY <3>2 DEF Account!Next
  <2>3. ASSUME NEW r \in Requests, FlushedStep(r) PROVE Account!Next
    <3>1. /\ Verdict[r] > 0 /\ r \notin Settled
          /\ balance' = balance - Verdict[r]
          /\ Settled' = Settled \cup {r} /\ Verdict' = Verdict /\ cost' = cost
      BY <2>3, FlushedAccount DEF FlushedStep
    <3>2. Account!Settle(r)
      BY <3>1 DEF Account!Settle, Verdict, Settled, Applied
    <3> QED
      BY <3>2 DEF Account!Next
  <2>4. ASSUME NEW r \in Requests, UsedStep(r) PROVE Account!Next
    <3>1. VerdictsKept(r)
      BY <2>4, StatementKeeps DEF UsedStep
    <3>2. Verdict' = Verdict /\ Settled' = Settled
      BY <3>1, KeptAccount
    <3>3. Account!Use(r)
      BY <2>4, <3>2
         DEF UsedStep, Account!Use, Verdict, Settled, Applied, Unknown
    <3> QED
      BY <3>3 DEF Account!Next
  <2>5. ASSUME row' = row PROVE Verdict' = Verdict /\ Settled' = Settled
    BY <2>5 DEF Verdict, Settled, Decided, Applied, In
  <2>6. CASE ChangedStep
    <3>1. Account!Change
      BY <2>5, <2>6 DEF ChangedStep, Account!Change, Verdict, Settled, Applied
    <3> QED
      BY <3>1 DEF Account!Next
  <2>7. CASE UNCHANGED <<row, cost, balance>>
    BY <2>5, <2>7 DEF Account!vars, Verdict, Settled, Applied
  <2> QED
    BY <2>1, <2>2, <2>3, <2>4, <2>6, <2>7, NextAccount DEF AccountStep
<1> QED
  BY <1>2, <1>3, InvariantHolds, PTL DEF Spec, KeepsAccount, Account!Spec

-----------------------------------------------------------------------------
(* The wallet and the events *)

\* Only an event and an initialisation move the watermark.
WatermarkKept == present' = present /\ watermark' = watermark

\* A step of the store, as the watermark sees it.
StoreStep ==
    \/ WatermarkKept
    \/ Lose
    \/ \E w \in Workers : AdjustWallet(w) \/ InitializeWallet(w)
    \/ \E r \in Requests : AuthorizeHold(r)

\* Of requests and recoveries only authorizing may create the wallet.
LEMMA RequestStore ==
  ASSUME NEW r \in Requests,
         \/ PrepareRow(r) \/ RequestStep(r)
         \/ TopUpHold(r) \/ Transfer(r) \/ Cancel(r) \/ Abandon(r)
         \/ ExpireRow(r) \/ DropAttempt(r)
         \/ \E c \in Recoverers :
              List(c, r) \/ Recover(c, r) \/ RecoveryFails(c, r)
  PROVE  WatermarkKept \/ AuthorizeHold(r)
<1>1. \/ UNCHANGED store \/ AuthorizeHold(r) \/ Refund(r) \/ DropMarker(r)
      \/ TopUp(r, TopUpTarget) \/ \E actual : Finalize(r, actual)
  <2>1. CASE \/ PrepareRow(r) \/ RequestStep(r) \/ TopUpHold(r)
             \/ Transfer(r) \/ Cancel(r) \/ Abandon(r) \/ ExpireRow(r)
             \/ DropAttempt(r)
    BY <2>1 DEF PrepareRow, RequestStep, LoadSnapshot, MarkAuthorized,
         UndoRow, UndoHold, AdvanceHold, ApplyUsage, BeginSettlement,
         SettleHold, FinishSettlement, CancelRow, ReleaseHold, FinishRefund,
         TopUpHold, Transfer, Cancel, Abandon, ExpireRow, DropAttempt
  <2>2. CASE \E c \in Recoverers :
               List(c, r) \/ Recover(c, r) \/ RecoveryFails(c, r)
    BY <2>2 DEF List, Recover, RecoverPrepared, RecoverAuthorized,
         RecoverAdvance, RecoverBegin, RecoverFinalizing, RecoverSettle,
         RecoverCompleteSettlement, RecoverRefund, RecoverCompleteRefund,
         RecoveryFails
  <2> QED
    BY <2>1, <2>2
<1> QED
  BY <1>1 DEF store, Refund, Finalize, TopUp, DropMarker, WatermarkKept

\* What may move the watermark.
LEMMA NextStore ==
  ASSUME [Next]_vars
  PROVE  StoreStep
<1>1. CASE OutboxStep
  BY <1>1 DEF OutboxStep, WorkerStep, ChangeBalance, Lapse, Flush, Claim,
       ReadSnapshot, MarkDelivered, RetryClaimed, DropEvent, store,
       WatermarkKept, StoreStep
<1>2. CASE UNCHANGED vars
  BY <1>2 DEF vars, store, WatermarkKept, StoreStep
<1> QED
  BY <1>1, <1>2, RequestStore DEF Next, StoreStep

\* While it exists, the wallet takes the events of the outbox one by one, each
\* once (InOrder).
THEOREM ChangesInOrder == Spec => InOrder
<1> DEFINE A == watermark' # watermark /\ present /\ present' =>
                  /\ watermark' = watermark + 1
                  /\ wallet' = wallet + events[watermark'].delta
<1>1. ASSUME IInv, [Next]_vars PROVE A
  <2> SUFFICES ASSUME watermark' # watermark, present, present'
               PROVE  /\ watermark' = watermark + 1
                      /\ wallet' = wallet + events[watermark'].delta
    OBVIOUS
  <2>1. CASE \E r \in Requests : AuthorizeHold(r)
    <3>1. PICK r \in Requests :
            \/ Authorize(r, row[r].hold, seen[r].balance, seen[r].at, Allowed(r))
            \/ UNCHANGED store
      BY <2>1 DEF AuthorizeHold
    <3> QED
      BY <3>1 DEF Authorize, store
  <2>2. ASSUME NEW w \in Workers, AdjustWallet(w)
        PROVE  /\ watermark' = watermark + 1
               /\ wallet' = wallet + events[watermark'].delta
    <3>1. Event(w) \in 1..LastEvent
      BY <1>1, <2>2 DEF AdjustWallet, IInv, EventsOK
    <3>2. Event(w) \in Nat
      BY <1>1, <3>1, EventsType DEF IInv, TypeOK
    <3>3. Adjust(Event(w), Event(w) - 1, events[Event(w)].delta)
      BY <2>2 DEF AdjustWallet, store
    <3>4. AdjustOutcome(Event(w), Event(w) - 1) = "applied"
      BY <3>3 DEF Adjust
    <3>5. /\ watermark = Event(w) - 1 /\ watermark' = Event(w)
          /\ wallet' = wallet + events[Event(w)].delta
      BY <3>3, <3>4 DEF Adjust, AdjustOutcome
    <3> QED
      BY <3>2, <3>5
  <2>3. ASSUME NEW w \in Workers, InitializeWallet(w) PROVE FALSE
    BY <2>3 DEF InitializeWallet, Initialize
  <2>4. ~Lose /\ ~WatermarkKept
    BY Zenon DEF Lose, LoseWallet, WatermarkKept
  <2> QED
    BY <1>1, <2>1, <2>2, <2>3, <2>4, NextStore DEF StoreStep
<1>2. IInv /\ [Next]_vars => [A]_vars
  BY <1>1
<1>3. InOrder <=> [][A]_vars
  BY DEF InOrder
<1> QED
  BY <1>2, <1>3, InvariantHolds, PTL DEF Spec

-----------------------------------------------------------------------------
(* Acknowledged events, when no snapshot outlives a loss of the wallet *)

HeldAt(at) ==
    /\ \A i \in 1..LastEvent : events[i].delivered => i <= at
    /\ \A w \in Workers : out[w].step = "ack" => Event(w) <= at

\* What was or is being acknowledged is included in the wallet, or, when there
\* is none, in every snapshot that one may be made of.
AckOK ==
    IF present THEN HeldAt(watermark)
    ELSE /\ \A r \in Requests : At(r, "initialize") => HeldAt(seen[r].at)
         /\ \A w \in Workers :
              out[w].step = "initialize" => HeldAt(out[w].seen.at)

\* A snapshot is read after everything that it has to include.
LEMMA SnapshotHolds ==
  ASSUME IInv
  PROVE  HeldAt(LastEvent)
<1>1. OutboxTypeOK /\ LastEvent \in Nat
  BY EventsType DEF IInv, TypeOK
<1> QED
  BY <1>1 DEF IInv, EventsOK, HeldAt

\* A step of a request that creates no wallet.
LEMMA AckOfRequest ==
  ASSUME IInv, AckOK, WatermarkKept, UNCHANGED outboxVars,
         \A r \in Requests : pc'[r] = "initialize" =>
            \/ pc[r] = "initialize" /\ seen'[r] = seen[r]
            \/ seen'[r] = Snapshot
  PROVE  AckOK'
<1>1. UNCHANGED <<events, out, LastEvent>>
  BY DEF outboxVars, LastEvent
<1>2. Snapshot.at = LastEvent
  BY DEF Snapshot
<1>3. \A at : HeldAt(at)' <=> HeldAt(at)
  BY <1>1 DEF HeldAt, Event
<1>4. CASE present
  BY <1>3, <1>4 DEF AckOK, WatermarkKept
<1>5. CASE ~present
  <2>1. ~present'
    BY <1>5 DEF WatermarkKept
  <2>2. ASSUME NEW r \in Requests, pc'[r] = "initialize"
        PROVE  HeldAt(seen'[r].at)
    BY <1>2, <1>5, <2>2, SnapshotHolds DEF AckOK, At
  <2>3. \A r \in Requests : At(r, "initialize")' => HeldAt(seen[r].at)'
    BY <1>1, <2>2 DEF At, HeldAt, Event
  <2>4. \A w \in Workers :
          out'[w].step = "initialize" => HeldAt(out[w].seen.at)'
    BY <1>1, <1>5 DEF AckOK, HeldAt, Event
  <2> QED
    BY <2>1, <2>3, <2>4 DEF AckOK
<1> QED
  BY <1>4, <1>5

\* The steps of requests and recoveries, but for those that may create it.
LEMMA RequestSnapshots ==
  ASSUME IInv, NEW r \in Requests,
         \/ PrepareRow(r) \/ (RequestStep(r) /\ ~AuthorizeHold(r))
         \/ TopUpHold(r) \/ Transfer(r) \/ Cancel(r) \/ Abandon(r)
         \/ ExpireRow(r) \/ DropAttempt(r)
         \/ \E c \in Recoverers :
              List(c, r) \/ Recover(c, r) \/ RecoveryFails(c, r)
  PROVE  /\ UNCHANGED outboxVars
         /\ \A q \in Requests : pc'[q] = "initialize" =>
              \/ pc[q] = "initialize" /\ seen'[q] = seen[q]
              \/ seen'[q] = Snapshot
<1>1. pc \in [Requests -> RequestSteps] /\ seen \in [Requests -> Snapshots]
  BY DEF IInv, TypeOK
<1>2. UNCHANGED outboxVars
  BY DEF PrepareRow, RequestStep, LoadSnapshot, MarkAuthorized, UndoRow,
         UndoHold, AdvanceHold, ApplyUsage, BeginSettlement, SettleHold,
         FinishSettlement, CancelRow, ReleaseHold, FinishRefund, TopUpHold,
         Transfer, Cancel, Abandon, ExpireRow, DropAttempt, List, Recover,
         RecoverPrepared, RecoverAuthorized, RecoverAdvance, RecoverBegin,
         RecoverFinalizing, RecoverSettle, RecoverCompleteSettlement,
         RecoverRefund, RecoverCompleteRefund, RecoveryFails, others,
         idleOthers
<1>3. CASE LoadSnapshot(r)
  BY <1>1, <1>2, <1>3 DEF LoadSnapshot, To
<1>4. CASE Abandon(r)
  BY <1>1, <1>2, <1>4 DEF Abandon, To
<1>5. CASE ~LoadSnapshot(r) /\ ~Abandon(r)
  <2>1. seen' = seen
    BY <1>5 DEF PrepareRow, RequestStep, MarkAuthorized, UndoRow,
         UndoHold, AdvanceHold, ApplyUsage, BeginSettlement, SettleHold,
         FinishSettlement, CancelRow, ReleaseHold, FinishRefund, TopUpHold,
         Transfer, Cancel, ExpireRow, DropAttempt, List, Recover,
         RecoverPrepared, RecoverAuthorized, RecoverAdvance, RecoverBegin,
         RecoverFinalizing, RecoverSettle, RecoverCompleteSettlement,
         RecoverRefund, RecoverCompleteRefund, RecoveryFails, idleOthers,
         requestVars
  <2>2. pc' = pc \/ \E step \in RequestSteps \ {"initialize"} : To(r, step)
    BY <1>5 DEF PrepareRow, RequestStep, MarkAuthorized, UndoRow,
         UndoHold, AdvanceHold, ApplyUsage, BeginSettlement, SettleHold,
         FinishSettlement, CancelRow, ReleaseHold, FinishRefund, TopUpHold,
         Transfer, Cancel, ExpireRow, DropAttempt, List, Recover,
         RecoverPrepared, RecoverAuthorized, RecoverAdvance, RecoverBegin,
         RecoverFinalizing, RecoverSettle, RecoverCompleteSettlement,
         RecoverRefund, RecoverCompleteRefund, RecoveryFails, idleOthers,
         requestVars, RequestSteps
  <2> QED
    BY <1>1, <1>2, <2>1, <2>2 DEF To
<1> QED
  BY <1>3, <1>4, <1>5

\* Only an allowed call creates the wallet.
LEMMA AuthorizeCreates ==
  ASSUME WalletTypeOK, NEW r \in Requests, NEW hold, NEW start, NEW at,
         NEW allow \in BOOLEAN, Authorize(r, hold, start, at, allow)
  PROVE  \/ WatermarkKept
         \/ ~present /\ present' /\ watermark' = at /\ allow
<1>1. CASE present
  <2>1. present' = TRUE
    BY <1>1, Zenon DEF Authorize
  <2>2. watermark' = watermark
    BY <1>1 DEF Authorize
  <2>3. present = TRUE
    BY <1>1, Zenon DEF WalletTypeOK
  <2> QED
    BY <2>1, <2>2, <2>3 DEF WatermarkKept
<1>2. CASE ~present
  <2> DEFINE writes == AuthorizeOutcome(r, hold, start, allow)
                         \in {"insufficient", "applied"}
  <2>1. present' = (present \/ writes)
    BY Zenon DEF Authorize
  <2>2. watermark' = IF writes THEN at ELSE watermark
    BY <1>2 DEF Authorize
  <2>3. present = FALSE
    BY <1>2, Zenon DEF WalletTypeOK
  <2>4. CASE ~writes
    <3>1. (present \/ writes) = FALSE
      BY <1>2, <2>4
    <3>2. present' = FALSE
      BY <2>1, <3>1, Zenon
    <3>3. watermark' = watermark
      BY <2>4, <2>2
    <3> QED
      BY <2>3, <3>2, <3>3 DEF WatermarkKept
  <2>5. CASE writes
    <3>1. allow
      BY <1>2, <2>5 DEF AuthorizeOutcome
    <3>2. present'
      BY <2>1, <2>5, Zenon
    <3>3. watermark' = at
      BY <2>5, <2>2
    <3> QED
      BY <1>2, <3>1, <3>2, <3>3
  <2> QED
    BY <2>4, <2>5
<1> QED
  BY <1>1, <1>2

\* The one call of a request that may create the wallet.
LEMMA AckOfAuthorize ==
  ASSUME IInv, AckOK, NEW r \in Requests, AuthorizeHold(r)
  PROVE  AckOK'
<1>1. \/ Authorize(r, row[r].hold, seen[r].balance, seen[r].at, Allowed(r))
      \/ UNCHANGED store
  BY DEF AuthorizeHold
<1>2. UNCHANGED outboxVars /\ UNCHANGED <<events, out, LastEvent>>
  BY DEF AuthorizeHold, others, outboxVars, LastEvent
<1>3. \A q \in Requests : pc'[q] = "initialize" =>
        pc[q] = "initialize" /\ seen'[q] = seen[q]
  <2>1. pc \in [Requests -> RequestSteps] /\ seen \in [Requests -> Snapshots]
    BY DEF IInv, TypeOK
  <2>2. \E step \in RequestSteps \ {"initialize"} : To(r, step)
    BY DEF AuthorizeHold, AfterAuthorize, RequestSteps
  <2> QED
    BY <2>1, <2>2 DEF AuthorizeHold, To
<1>4. CASE WatermarkKept
  BY <1>2, <1>3, <1>4, AckOfRequest
<1>5. CASE ~WatermarkKept
  <2>1. ~present /\ present' /\ watermark' = seen[r].at /\ Allowed(r)
    <3>1. Allowed(r) \in BOOLEAN /\ WalletTypeOK
      BY DEF Allowed, At, IInv, TypeOK, Snapshots
    <3>2. ~UNCHANGED store
      BY <1>5 DEF store, WatermarkKept
    <3> QED
      BY <1>1, <1>5, <3>1, <3>2, AuthorizeCreates
  <2>2. HeldAt(seen[r].at)
    BY <2>1 DEF AckOK, Allowed
  <2>3. HeldAt(watermark)'
    BY <1>2, <2>1, <2>2 DEF HeldAt, Event
  <2> QED
    BY <2>1, <2>3 DEF AckOK
<1> QED
  BY <1>4, <1>5

\* A worker that neither begins nor ends an acknowledgement, and reads no
\* snapshot that is not the current one.
LEMMA AckOfWorker ==
  ASSUME IInv, AckOK, WatermarkKept, UNCHANGED <<pc, seen>>,
         NEW w \in Workers, \A v \in Workers \ {w} : out'[v] = out[v],
         out'[w].step = "ack" => present /\ out'[w].event <= watermark,
         out'[w].step = "initialize" => out'[w].seen = Snapshot,
         LastEvent' = LastEvent,
         \A i \in 1..LastEvent : events'[i].delivered = events[i].delivered
  PROVE  AckOK'
<1>1. \A at : (present => at = watermark) => (HeldAt(at) => HeldAt(at)')
  BY DEF HeldAt, Event
<1>2. Snapshot.at = LastEvent
  BY DEF Snapshot
<1>3. CASE present
  BY <1>1, <1>3 DEF AckOK, WatermarkKept
<1>4. CASE ~present
  <2>1. ~present'
    BY <1>4 DEF WatermarkKept
  <2>2. HeldAt(LastEvent)'
    BY <1>1, <1>4, SnapshotHolds
  <2>3. ASSUME NEW r \in Requests, At(r, "initialize")' PROVE HeldAt(seen[r].at)'
    BY <1>1, <1>4, <2>3 DEF AckOK, At
  <2>4. ASSUME NEW v \in Workers, out'[v].step = "initialize"
        PROVE  HeldAt(out[v].seen.at)'
    BY <1>1, <1>2, <1>4, <2>2, <2>4 DEF AckOK
  <2> QED
    BY <2>1, <2>3, <2>4 DEF AckOK
<1> QED
  BY <1>3, <1>4

\* A worker acknowledges what the wallet has just, or already, included.
LEMMA AckOfAdjust ==
  ASSUME IInv, AckOK, NEW w \in Workers, AdjustWallet(w),
         UNCHANGED <<requestVars, rec>>
  PROVE  AckOK'
<1> DEFINE i == Event(w)
           outcome == AdjustOutcome(i, i - 1)
<1>1. OutboxTypeOK /\ watermark \in Nat
  BY DEF IInv, TypeOK, WalletTypeOK
<1>2. i \in 1..LastEvent /\ i \in Nat
  BY <1>1, EventsType DEF AdjustWallet, IInv, EventsOK
<1>3. UNCHANGED <<pc, seen, events, LastEvent>>
  BY DEF AdjustWallet, requestVars, LastEvent
<1>4. PICK step \in OutSteps \ {"initialize"} :
        Goes(w, step)
        /\ (step = "ack" =>
              /\ Adjust(i, i - 1, events[i].delta)
              /\ outcome \in {"applied", "idempotent"})
  BY DEF AdjustWallet, AfterAdjust, OutSteps
<1>5. /\ out'[w].step = step /\ out'[w].event = i
      /\ \A v \in Workers \ {w} : out'[v] = out[v]
  BY <1>1, <1>4, GoesEffect DEF Event
<1>6. Adjust(i, i - 1, events[i].delta) \/ UNCHANGED store
  BY DEF AdjustWallet
<1>7. CASE Adjust(i, i - 1, events[i].delta) /\ outcome = "applied"
  <2>1. present' = present /\ watermark' = i
    BY <1>7 DEF Adjust
  <2>2. present /\ watermark = i - 1
    BY <1>7 DEF AdjustOutcome
  <2>3. HeldAt(watermark)
    BY <2>2 DEF AckOK
  <2>4. HeldAt(i)'
    <3>1. ASSUME NEW j \in 1..LastEvent, events[j].delivered PROVE j <= i
      BY <1>1, <1>2, <2>2, <2>3, <3>1, EventsType DEF HeldAt
    <3>2. ASSUME NEW v \in Workers \ {w}, out[v].step = "ack"
          PROVE  out[v].event <= i
      <4>1. Event(v) \in 1..LastEvent
        BY <3>2 DEF IInv, EventsOK
      <4> QED
        BY <1>1, <1>2, <2>2, <2>3, <3>2, <4>1, EventsType DEF HeldAt, Event
    <3>3. out'[w].event <= i
      BY <1>2, <1>5
    <3>4. \A v \in Workers : out'[v].step = "ack" => out'[v].event <= i
      BY <1>5, <3>2, <3>3
    <3>5. events' = events /\ i' = out'[w].event
      BY <1>3 DEF Event
    <3> QED
      BY <1>3, <1>5, <3>1, <3>4, <3>5 DEF HeldAt, Event
  <2>5. present' /\ HeldAt(watermark)'
    BY <1>5, <2>1, <2>2, <2>4 DEF HeldAt, Event
  <2> QED
    BY <2>5 DEF AckOK
<1>8. CASE ~(Adjust(i, i - 1, events[i].delta) /\ outcome = "applied")
  <2>1. WatermarkKept
    BY <1>6, <1>8 DEF Adjust, store, WatermarkKept
  <2>2. out'[w].step = "ack" => present /\ out'[w].event <= watermark
    BY <1>4, <1>5, <1>8 DEF AdjustOutcome, Included
  <2> QED
    BY <1>3, <1>4, <1>5, <2>1, <2>2, AckOfWorker
<1> QED
  BY <1>7, <1>8

\* A snapshot that the wallet is made of includes what is acknowledged.
LEMMA AckOfInitialize ==
  ASSUME IInv, AckOK, NEW w \in Workers, InitializeWallet(w),
         UNCHANGED <<requestVars, rec>>
  PROVE  AckOK'
<1>1. out \in [Workers -> OutType]
  BY EventsType DEF IInv, TypeOK
<1>2. UNCHANGED <<pc, seen, events, LastEvent>>
  BY DEF InitializeWallet, requestVars, LastEvent
<1>3. /\ out'[w].step = "replay"
      /\ \A v \in Workers \ {w} : out'[v] = out[v]
  BY <1>1 DEF InitializeWallet, OutType
<1>4. present'
  BY Zenon DEF InitializeWallet, Initialize
<1>5. CASE present
  <2>1. HeldAt(watermark) /\ watermark' = watermark
    BY <1>5 DEF AckOK, InitializeWallet, Initialize
  <2>2. HeldAt(watermark)'
    BY <1>2, <1>3, <2>1 DEF HeldAt, Event
  <2> QED
    BY <1>4, <2>2 DEF AckOK
<1>6. CASE ~present
  <2>1. HeldAt(out[w].seen.at) /\ watermark' = out[w].seen.at
    BY <1>6 DEF AckOK, InitializeWallet, Initialize
  <2>2. HeldAt(watermark)'
    BY <1>2, <1>3, <2>1 DEF HeldAt, Event
  <2> QED
    BY <1>4, <2>2 DEF AckOK
<1> QED
  BY <1>5, <1>6

\* An acknowledged event was being acknowledged.
LEMMA AckOfDelivered ==
  ASSUME IInv, AckOK, NEW w \in Workers, MarkDelivered(w),
         UNCHANGED <<requestVars, rec>>
  PROVE  AckOK'
<1>1. OutboxTypeOK
  BY DEF IInv, TypeOK
<1>2. out[w].step = "ack" /\ Event(w) \in 1..LastEvent
  BY DEF MarkDelivered, IInv, EventsOK
<1>3. /\ LastEvent' = LastEvent
      /\ \A j \in 1..LastEvent : j # Event(w) => events'[j] = events[j]
  BY <1>2, EndsEffect DEF MarkDelivered
<1>4. /\ out'[w].step = "idle"
      /\ \A v \in Workers \ {w} : out'[v] = out[v]
  BY <1>1, IdleEffect DEF MarkDelivered
<1>5. UNCHANGED <<present, watermark, pc, seen>>
  BY DEF MarkDelivered, store, requestVars
<1>6. ASSUME NEW at, HeldAt(at) PROVE HeldAt(at)'
  BY <1>2, <1>3, <1>4, <1>6 DEF HeldAt, Event
<1>7. CASE present
  BY <1>5, <1>6, <1>7 DEF AckOK
<1>8. CASE ~present
  <2>1. ASSUME NEW r \in Requests, At(r, "initialize")' PROVE HeldAt(seen[r].at)'
    BY <1>5, <1>6, <1>8, <2>1 DEF AckOK, At
  <2>2. ASSUME NEW v \in Workers, out'[v].step = "initialize"
        PROVE  HeldAt(out[v].seen.at)'
    BY <1>4, <1>6, <1>8, <2>2 DEF AckOK
  <2> QED
    BY <1>5, <1>8, <2>1, <2>2 DEF AckOK
<1> QED
  BY <1>7, <1>8

\* The other steps of a worker.
LEMMA AckOfOther ==
  ASSUME IInv, AckOK, NEW w \in Workers,
         \/ Claim(w) \/ ReadSnapshot(w) \/ RetryClaimed(w) \/ DropEvent(w),
         UNCHANGED <<requestVars, rec>>
  PROVE  AckOK'
<1>1. OutboxTypeOK /\ events \in Seq(EventType) /\ out \in [Workers -> OutType]
  BY EventsType DEF IInv, TypeOK
<1>2. WatermarkKept /\ UNCHANGED <<pc, seen>>
  BY DEF Claim, ReadSnapshot, RetryClaimed, DropEvent, store, requestVars,
         WatermarkKept
<1>3. CASE Claim(w)
  <2>1. PICK i \in 1..LastEvent :
          /\ events' = [events EXCEPT ![i].by = w, ![i].lapsed = FALSE]
          /\ out' = [out EXCEPT ![w].step = "adjust", ![w].event = i]
    BY <1>3 DEF Claim
  <2> DEFINE e == [events[i] EXCEPT !.by = w, !.lapsed = FALSE]
  <2>2. e \in EventType /\ e.delivered = events[i].delivered
    BY <1>1, EventsType DEF EventType
  <2>3. events' = [events EXCEPT ![i] = e]
    BY <2>1
  <2>4. /\ LastEvent' = LastEvent
        /\ \A j \in 1..LastEvent : events'[j].delivered = events[j].delivered
    <3> HIDE DEF e
    <3> QED
      BY <1>1, <2>2, <2>3, EventEffect
  <2>5. /\ out'[w].step = "adjust"
        /\ \A v \in Workers \ {w} : out'[v] = out[v]
    BY <1>1, <2>1 DEF OutType
  <2> QED
    BY <1>2, <2>4, <2>5, AckOfWorker
<1>4. CASE ReadSnapshot(w)
  <2>1. PICK step \in {"retry", "initialize"} :
          out' = [out EXCEPT ![w].seen = Snapshot, ![w].step = step]
    BY <1>4 DEF ReadSnapshot
  <2>2. /\ out'[w].step = step /\ out'[w].seen = Snapshot
        /\ \A v \in Workers \ {w} : out'[v] = out[v]
    BY <1>1, <2>1 DEF OutType
  <2>3. UNCHANGED <<events, LastEvent>>
    BY <1>4 DEF ReadSnapshot, LastEvent
  <2> QED
    BY <1>2, <2>1, <2>2, <2>3, AckOfWorker
<1>5. CASE RetryClaimed(w)
  <2>1. Event(w) \in 1..LastEvent
    BY <1>5 DEF RetryClaimed, IInv, EventsOK
  <2> DEFINE e == [events[Event(w)] EXCEPT !.by = None, !.lapsed = FALSE]
  <2>2. e \in EventType /\ e.delivered = events[Event(w)].delivered
    BY <1>1, <2>1, EventsType DEF EventType
  <2>3. events' = [events EXCEPT ![Event(w)] = e] \/ events' = events
    BY <1>5 DEF RetryClaimed
  <2>4. /\ LastEvent' = LastEvent
        /\ \A j \in 1..LastEvent : events'[j].delivered = events[j].delivered
    <3>1. CASE events' = events
      BY <3>1 DEF LastEvent
    <3>2. CASE events' = [events EXCEPT ![Event(w)] = e]
      <4> HIDE DEF e
      <4> QED
        BY <1>1, <2>1, <2>2, <3>2, EventEffect
    <3> QED
      BY <2>3, <3>1, <3>2
  <2>5. /\ out'[w].step = "idle"
        /\ \A v \in Workers \ {w} : out'[v] = out[v]
    BY <1>1, <1>5, IdleEffect DEF RetryClaimed
  <2> QED
    BY <1>2, <2>4, <2>5, AckOfWorker
<1>6. CASE DropEvent(w)
  <2>1. /\ out'[w].step = "idle"
        /\ \A v \in Workers \ {w} : out'[v] = out[v]
    BY <1>1, <1>6, IdleEffect DEF DropEvent
  <2>2. UNCHANGED <<events, LastEvent>>
    BY <1>6 DEF DropEvent, LastEvent
  <2> QED
    BY <1>2, <2>1, <2>2, AckOfWorker
<1> QED
  BY <1>3, <1>4, <1>5, <1>6

\* A new event is not delivered, and a lapsed one stays as it is.
LEMMA AckOfEvents ==
  ASSUME IInv, AckOK,
         \/ ChangeBalance \/ (\E i \in 1..LastEvent : Lapse(i))
         \/ (\E r \in Requests : Flush(r)),
         UNCHANGED <<requestVars, rec>>
  PROVE  AckOK'
<1>1. OutboxTypeOK /\ events \in Seq(EventType) /\ LastEvent \in Nat
  BY EventsType DEF IInv, TypeOK
<1>2. WatermarkKept /\ UNCHANGED <<out, pc, seen>>
  BY DEF ChangeBalance, Lapse, Flush, store, requestVars, WatermarkKept
<1>3. \A j \in 1..LastEvent' :
        events'[j].delivered => j \in 1..LastEvent /\ events[j].delivered
  <2>1. CASE ChangeBalance
    <3>1. PICK delta \in Deltas :
            events' = Append(events, [delta |-> delta, by |-> None,
                                      lapsed |-> FALSE, delivered |-> FALSE])
      BY <2>1 DEF ChangeBalance
    <3> DEFINE e == [delta |-> delta, by |-> None, lapsed |-> FALSE,
                     delivered |-> FALSE]
    <3>2. e \in EventType /\ ~e.delivered
      BY OutboxAssumption DEF EventType
    <3>3. events' = Append(events, e)
      BY <3>1
    <3> HIDE DEF e
    <3>4. /\ LastEvent' = LastEvent + 1 /\ events'[LastEvent'] = e
          /\ \A j \in 1..LastEvent : events'[j] = events[j]
      BY <1>1, <3>2, <3>3, AppendEffect
    <3> QED
      BY <1>1, <3>2, <3>4
  <2>2. ASSUME NEW i \in 1..LastEvent, Lapse(i)
        PROVE  \A j \in 1..LastEvent' :
                 events'[j].delivered => j \in 1..LastEvent /\ events[j].delivered
    <3> DEFINE e == [events[i] EXCEPT !.lapsed = TRUE]
    <3>1. e \in EventType /\ e.delivered = events[i].delivered
      BY <1>1, EventsType DEF EventType
    <3>2. events' = [events EXCEPT ![i] = e]
      BY <2>2 DEF Lapse
    <3> HIDE DEF e
    <3> QED
      BY <1>1, <3>1, <3>2, EventEffect
  <2>3. CASE \E r \in Requests : Flush(r)
    BY <2>3 DEF Flush, LastEvent
  <2> QED
    BY <2>1, <2>2, <2>3
<1>4. ASSUME NEW at, HeldAt(at) PROVE HeldAt(at)'
  BY <1>2, <1>3, <1>4 DEF HeldAt, Event
<1>5. CASE present
  BY <1>2, <1>4, <1>5 DEF AckOK, WatermarkKept
<1>6. CASE ~present
  <2>1. ~present'
    BY <1>6, <1>2 DEF WatermarkKept
  <2>2. ASSUME NEW r \in Requests, At(r, "initialize")' PROVE HeldAt(seen[r].at)'
    BY <1>2, <1>4, <1>6, <2>2 DEF AckOK, At
  <2>3. ASSUME NEW v \in Workers, out'[v].step = "initialize"
        PROVE  HeldAt(out[v].seen.at)'
    BY <1>2, <1>4, <1>6, <2>3 DEF AckOK
  <2> QED
    BY <2>1, <2>2, <2>3 DEF AckOK
<1> QED
  BY <1>5, <1>6

\* A loss of the wallet leaves no snapshot behind.
LEMMA AckOfLose ==
  ASSUME IInv, ~StaleSnapshots, Lose
  PROVE  AckOK'
<1>1. present' = FALSE
  BY Zenon DEF Lose, LoseWallet
<1>2. ~Reads /\ UNCHANGED <<pc, seen, out>>
  BY DEF Lose, outboxVars, requestVars
<1>3. ~present'
  BY <1>1, Zenon
<1> QED
  BY <1>2, <1>3 DEF Reads, AckOK, At

\* An acknowledged change is in the wallet, as long as there is one
\* (AcknowledgedIsIncluded), unless a snapshot may outlive a loss of the wallet.
THEOREM AcknowledgedChangesAreIncluded ==
  ASSUME ~StaleSnapshots
  PROVE  Spec => []AcknowledgedIsIncluded
<1>1. Init => AckOK
  <2> SUFFICES ASSUME Init PROVE AckOK
    OBVIOUS
  <2>1. present = FALSE
    BY Zenon DEF Init, WalletInit
  <2>2. ~present
    BY <2>1, Zenon
  <2>3. \A r \in Requests : ~At(r, "initialize")
    BY DEF Init, At
  <2>4. \A w \in Workers : out[w].step # "initialize"
    BY DEF Init, OutboxInit
  <2> QED
    BY <2>2, <2>3, <2>4 DEF AckOK
<1>2. IInv /\ AckOK /\ [Next]_vars => AckOK'
  <2> SUFFICES ASSUME IInv, AckOK, [Next]_vars PROVE AckOK'
    OBVIOUS
  <2>1. CASE UNCHANGED vars
    <3>1. UNCHANGED <<store, outboxVars, pc, seen>>
      BY <2>1 DEF vars, requestVars
    <3>2. WatermarkKept
      BY <3>1 DEF store, WatermarkKept
    <3> QED
      BY <3>1, <3>2, AckOfRequest
  <2>2. ASSUME NEW r \in Requests,
               \/ PrepareRow(r) \/ RequestStep(r)
               \/ TopUpHold(r) \/ Transfer(r) \/ Cancel(r) \/ Abandon(r)
               \/ ExpireRow(r) \/ DropAttempt(r)
               \/ \E c \in Recoverers :
                    List(c, r) \/ Recover(c, r) \/ RecoveryFails(c, r)
        PROVE  AckOK'
    <3>1. CASE AuthorizeHold(r)
      BY <3>1, AckOfAuthorize
    <3>2. CASE ~AuthorizeHold(r)
      <4>1. WatermarkKept
        BY <2>2, <3>2, RequestStore
      <4> QED
        BY <2>2, <3>2, <4>1, RequestSnapshots, AckOfRequest
    <3> QED
      BY <3>1, <3>2
  <2>3. CASE OutboxStep
    <3>1. UNCHANGED <<requestVars, rec>>
      BY <2>3 DEF OutboxStep
    <3>2. ASSUME NEW w \in Workers, WorkerStep(w) \/ DropEvent(w) PROVE AckOK'
      BY <3>1, <3>2, AckOfAdjust, AckOfInitialize, AckOfDelivered, AckOfOther
         DEF WorkerStep
    <3> QED
      BY <2>3, <3>1, <3>2, AckOfEvents DEF OutboxStep
  <2> QED
    BY <2>1, <2>2, <2>3, AckOfLose DEF Next
<1>3. IInv /\ AckOK => AcknowledgedIsIncluded
  BY DEF AckOK, HeldAt, AcknowledgedIsIncluded
<1> QED
  BY <1>1, <1>2, <1>3, InvariantHolds, PTL DEF Spec

-----------------------------------------------------------------------------
(* Finite sums of functions *)

\* The element that a sum takes out of s first.
Pick(s) == CHOOSE x \in s : TRUE

\* g is the table of the sums of f over the subsets of S.
IsSum(g, f, S) ==
    g = [s \in SUBSET S |->
            IF s = {} THEN 0 ELSE f[Pick(s)] + g[s \ {Pick(s)}]]

\* The sums of f over the subsets of S.
Table(f, S) == CHOOSE g : IsSum(g, f, S)

\* The sum of the function f over S.
Sum(f, S) == Table(f, S)[S]

\* What is taken out of a set was in it.
LEMMA PickIn == ASSUME NEW s, s # {} PROVE Pick(s) \in s
BY DEF Pick

\* Of subsets of a finite set one has no other of them within it.
LEMMA SmallestOf ==
  ASSUME NEW S, IsFiniteSet(S), NEW T, T \subseteq SUBSET S, T # {}
  PROVE  \E s \in T : \A t \in SUBSET s : t # s => t \notin T
<1>1. T \subseteq FiniteSubsetsOf(S)
  BY FS_Subset DEF FiniteSubsetsOf
<1>2. PICK s \in T : \A t \in T : ~(<<t, s>> \in StrictSubsetOrdering(S))
  BY <1>1, FS_StrictSubsetOrderingWellFounded, WFMin
<1> QED
  BY <1>2 DEF StrictSubsetOrdering

\* A table of sums at one subset.
LEMMA IsSumAt ==
  ASSUME NEW S, NEW f, NEW g, IsSum(g, f, S), NEW s \in SUBSET S
  PROVE  g[s] = IF s = {} THEN 0 ELSE f[Pick(s)] + g[s \ {Pick(s)}]
<1>1. g[s] = [t \in SUBSET S |->
            IF t = {} THEN 0 ELSE f[Pick(t)] + g[t \ {Pick(t)}]][s]
  BY DEF IsSum
<1> QED
  BY <1>1

\* Tables of the same function agree where both are defined.
LEMMA SumUnique ==
  ASSUME NEW A, IsFiniteSet(A), NEW B \in SUBSET A, NEW f, NEW g, NEW h,
         IsSum(g, f, A), IsSum(h, f, B), NEW u \in SUBSET B
  PROVE  g[u] = h[u]
<1> DEFINE T == {s \in SUBSET B : g[s] # h[s]}
<1> SUFFICES ASSUME T # {} PROVE FALSE
  OBVIOUS
<1>0. T \subseteq SUBSET B /\ IsFiniteSet(B)
  BY FS_Subset
<1> HIDE DEF T
<1>1. PICK s \in T : \A t \in SUBSET s : t # s => t \notin T
  BY <1>0, SmallestOf
<1> USE DEF T
<1>2. s # {}
  BY IsSumAt
<1>3. Pick(s) \in s
  BY <1>2, PickIn
<1>4. s \ {Pick(s)} \notin T
  BY <1>1, <1>3
<1>5. g[s \ {Pick(s)}] = h[s \ {Pick(s)}]
  BY <1>4
<1>6. s \in SUBSET A /\ s \in SUBSET B
  OBVIOUS
<1>7. g[s] = h[s]
  BY <1>2, <1>5, <1>6, IsSumAt
<1> QED
  BY <1>7

\* Every function has a table of sums over a finite set.
LEMMA SumExists ==
  ASSUME NEW S, IsFiniteSet(S), NEW f
  PROVE  IsSum(Table(f, S), f, S)
<1> DEFINE T == {s \in SUBSET S : ~\E g : IsSum(g, f, s)}
<1> SUFFICES ASSUME T # {} PROVE FALSE
  BY DEF Table
<1>0. T \subseteq SUBSET S /\ IsFiniteSet(S)
  OBVIOUS
<1> HIDE DEF T
<1>1. PICK s \in T : \A t \in SUBSET s : t # s => t \notin T
  BY <1>0, SmallestOf
<1> USE DEF T
<1>2. ASSUME NEW t \in SUBSET s, t # s PROVE IsSum(Table(f, t), f, t)
  BY <1>1, <1>2 DEF Table
<1> DEFINE h == [t \in SUBSET s |->
                   IF t = {} THEN 0 ELSE f[Pick(t)] + Sum(f, t \ {Pick(t)})]
<1>3. ASSUME NEW u \in SUBSET s, u # s PROVE h[u] = Sum(f, u)
  <2>1. Sum(f, u) = IF u = {} THEN 0
                    ELSE f[Pick(u)] + Table(f, u)[u \ {Pick(u)}]
    BY <1>2, <1>3, IsSumAt DEF Sum
  <2>2. CASE u = {}
    BY <2>1, <2>2
  <2>3. CASE u # {}
    <3> DEFINE v == u \ {Pick(u)}
    <3>1. v \in SUBSET u /\ v \in SUBSET s /\ v # s
      BY <2>3, PickIn
    <3>2. IsFiniteSet(u)
      BY FS_Subset
    <3>3. Table(f, u)[v] = Sum(f, v)
      BY <1>2, <1>3, <3>1, <3>2, SumUnique DEF Sum
    <3> QED
      BY <2>1, <2>3, <3>3
  <2> QED
    BY <2>2, <2>3
<1>4. ASSUME NEW t \in SUBSET s, t # {}
      PROVE  h[t \ {Pick(t)}] = Sum(f, t \ {Pick(t)})
  BY <1>3, <1>4, PickIn
<1>5. h = [t \in SUBSET s |-> IF t = {} THEN 0 ELSE f[Pick(t)] + h[t \ {Pick(t)}]]
  BY <1>4
<1>6. IsSum(h, f, s)
  BY <1>5 DEF IsSum
<1> QED
  BY <1>6

\* The empty sum.
LEMMA SumEmpty == ASSUME NEW f PROVE Sum(f, {}) = 0
BY SumExists, IsSumAt, FS_EmptySet DEF Sum

\* A sum without the element that is taken out first.
LEMMA SumPick ==
  ASSUME NEW S, IsFiniteSet(S), S # {}, NEW f
  PROVE  Sum(f, S) = f[Pick(S)] + Sum(f, S \ {Pick(S)})
<1>1. IsFiniteSet(S \ {Pick(S)})
  BY FS_Subset
<1>2. Sum(f, S) = f[Pick(S)] + Table(f, S)[S \ {Pick(S)}]
  BY SumExists, IsSumAt DEF Sum
<1> QED
  BY <1>1, <1>2, SumExists, SumUnique DEF Sum

\* A sum of integers is one.
LEMMA SumType ==
  ASSUME NEW S, IsFiniteSet(S), NEW f, \A x \in S : f[x] \in Int
  PROVE  Sum(f, S) \in Int
<1> DEFINE T == {s \in SUBSET S : Sum(f, s) \notin Int}
<1> SUFFICES ASSUME T # {} PROVE FALSE
  OBVIOUS
<1>0. T \subseteq SUBSET S /\ IsFiniteSet(S)
  OBVIOUS
<1> HIDE DEF T
<1>1. PICK s \in T : \A t \in SUBSET s : t # s => t \notin T
  BY <1>0, SmallestOf
<1> USE DEF T
<1>2. s # {}
  <2>1. CASE s = {}
    BY <2>1, SumEmpty
  <2> QED
    BY <2>1
<1>3. Pick(s) \in s
  BY <1>2, PickIn
<1>4. Sum(f, s \ {Pick(s)}) \in Int
  BY <1>1, <1>3
<1>5. IsFiniteSet(s)
  BY FS_Subset
<1>6. Sum(f, s) = f[Pick(s)] + Sum(f, s \ {Pick(s)})
  BY <1>2, <1>5, SumPick
<1> QED
  BY <1>3, <1>4, <1>6

\* A sum of zeros is zero.
LEMMA SumZero ==
  ASSUME NEW S, IsFiniteSet(S), NEW f, \A x \in S : f[x] = 0
  PROVE  Sum(f, S) = 0
<1> DEFINE T == {s \in SUBSET S : Sum(f, s) # 0}
<1> SUFFICES ASSUME T # {} PROVE FALSE
  OBVIOUS
<1>0. T \subseteq SUBSET S /\ IsFiniteSet(S)
  OBVIOUS
<1> HIDE DEF T
<1>1. PICK s \in T : \A t \in SUBSET s : t # s => t \notin T
  BY <1>0, SmallestOf
<1> USE DEF T
<1>2. s # {} /\ IsFiniteSet(s)
  BY SumEmpty, FS_Subset
<1>3. Pick(s) \in s
  BY <1>2, PickIn
<1>4. Sum(f, s \ {Pick(s)}) = 0
  BY <1>1, <1>3
<1>5. Sum(f, s) = f[Pick(s)] + Sum(f, s \ {Pick(s)})
  BY <1>2, SumPick
<1> QED
  BY <1>3, <1>4, <1>5

\* A sum depends only on the values over its set.
LEMMA SumSame ==
  ASSUME NEW S, IsFiniteSet(S), NEW f, NEW g, \A x \in S : f[x] = g[x]
  PROVE  Sum(f, S) = Sum(g, S)
<1> DEFINE T == {s \in SUBSET S : Sum(f, s) # Sum(g, s)}
<1> SUFFICES ASSUME T # {} PROVE FALSE
  OBVIOUS
<1>0. T \subseteq SUBSET S /\ IsFiniteSet(S)
  OBVIOUS
<1> HIDE DEF T
<1>1. PICK s \in T : \A t \in SUBSET s : t # s => t \notin T
  BY <1>0, SmallestOf
<1> USE DEF T
<1>2. s # {} /\ IsFiniteSet(s)
  BY SumEmpty, FS_Subset
<1>3. Pick(s) \in s
  BY <1>2, PickIn
<1>4. Sum(f, s \ {Pick(s)}) = Sum(g, s \ {Pick(s)})
  BY <1>1, <1>3
<1>5. /\ Sum(f, s) = f[Pick(s)] + Sum(f, s \ {Pick(s)})
      /\ Sum(g, s) = g[Pick(s)] + Sum(g, s \ {Pick(s)})
  BY <1>2, SumPick
<1> QED
  BY <1>3, <1>4, <1>5

\* A sum without any of its elements: the order does not matter.
LEMMA SumWithout ==
  ASSUME NEW S, IsFiniteSet(S), NEW f, \A x \in S : f[x] \in Int, NEW x \in S
  PROVE  Sum(f, S) = f[x] + Sum(f, S \ {x})
<1> DEFINE T == {s \in SUBSET S : \E y \in s : Sum(f, s) # f[y] + Sum(f, s \ {y})}
<1> SUFFICES ASSUME T # {} PROVE FALSE
  OBVIOUS
<1>0. T \subseteq SUBSET S /\ IsFiniteSet(S)
  OBVIOUS
<1> HIDE DEF T
<1>1. PICK s \in T : \A t \in SUBSET s : t # s => t \notin T
  BY <1>0, SmallestOf
<1> USE DEF T
<1>2. PICK y \in s : Sum(f, s) # f[y] + Sum(f, s \ {y})
  OBVIOUS
<1> DEFINE p == Pick(s)
<1>3. s # {} /\ IsFiniteSet(s) /\ p \in s /\ p \in S /\ y \in S
  BY PickIn, FS_Subset
<1>4. Sum(f, s) = f[p] + Sum(f, s \ {p})
  BY <1>3, SumPick
<1>5. p # y
  BY <1>2, <1>4
<1>6. Sum(f, s \ {p}) = f[y] + Sum(f, (s \ {p}) \ {y})
  BY <1>1, <1>3, <1>5
<1>7. Sum(f, s \ {y}) = f[p] + Sum(f, (s \ {y}) \ {p})
  BY <1>1, <1>3, <1>5
<1>8. (s \ {p}) \ {y} = (s \ {y}) \ {p}
  OBVIOUS
<1>9. Sum(f, (s \ {p}) \ {y}) \in Int
  <2>1. IsFiniteSet((s \ {p}) \ {y})
    BY <1>3, FS_Subset
  <2> QED
    BY <2>1, SumType
<1> QED
  BY <1>2, <1>3, <1>4, <1>6, <1>7, <1>8, <1>9

\* A sum of which one term changes.
LEMMA SumChange ==
  ASSUME NEW S, IsFiniteSet(S), NEW f, NEW g, NEW x \in S,
         \A y \in S : f[y] \in Int /\ g[y] \in Int,
         \A y \in S \ {x} : f[y] = g[y]
  PROVE  Sum(g, S) = Sum(f, S) - f[x] + g[x]
<1>1. Sum(f, S) = f[x] + Sum(f, S \ {x}) /\ Sum(g, S) = g[x] + Sum(g, S \ {x})
  BY SumWithout
<1>2. IsFiniteSet(S \ {x})
  BY FS_Subset
<1>3. Sum(f, S \ {x}) = Sum(g, S \ {x})
  BY <1>2, SumSame
<1>4. Sum(f, S \ {x}) \in Int
  BY <1>2, SumType
<1> QED
  BY <1>1, <1>3, <1>4

-----------------------------------------------------------------------------
(* What the balance does not know, and what the wallet does not *)

\* What is due for each request, and what each event changes.
Dues == [r \in Requests |-> Due(r)]
Changes == [i \in 1..LastEvent |-> events[i].delta]

\* What the wallet has given out and the balance does not know.
Owed == Sum(Dues, Requests)

\* What a wallet that has been told of the events up to `at` does not know.
Untold(at) == Sum(Changes, (at + 1)..LastEvent)

\* A charge of r is about to be made pending.
Settling(r) ==
    /\ In(r, {"finalizing"})
    /\ \/ At(r, "completeSettlement")
       \/ \E c \in Recoverers : Recovers(c, r, "completeSettlement")

\* Nothing that was charged to an earlier wallet will reach the balance.
NothingDue == \A r \in Requests : ~In(r, {"pending"}) /\ ~Settling(r)

\* A wallet made of the snapshot would be conserved.
Exact(s) ==
    /\ s.at \in 0..LastEvent
    /\ balance = s.balance + Untold(s.at)
    /\ NothingDue

\* The inductive invariant of Conserved: the equation itself, with what may
\* become pending; and, when there is no wallet, what one may be made of.
SumsOK ==
    IF present
    THEN /\ watermark \in 0..LastEvent
         /\ wallet = balance - Owed - Untold(watermark)
         /\ \A r \in Requests : Settling(r) => Is(r, "finalized")
    ELSE /\ \A r \in Requests : Is(r, "none")
         /\ \A r \in Requests :
              At(r, "initialize") /\ ~seen[r].unsettled => Exact(seen[r])
         /\ \A w \in Workers :
              out[w].step = "initialize" => Exact(out[w].seen)

\* What is due for a request is an amount.
LEMMA DueType ==
  ASSUME RowsTypeOK, WalletTypeOK, NEW r \in Requests
  PROVE  Due(r) \in Nat
BY DEF RowsTypeOK, WalletTypeOK, Rows, Attempts, Due, In, Is

\* So it is after a step.
LEMMA DueTypeNext ==
  ASSUME RowsTypeOK', WalletTypeOK', NEW r \in Requests
  PROVE  Due(r)' \in Nat
BY DEF RowsTypeOK, WalletTypeOK, Rows, Attempts, Due, In, Is

\* A step that changes what is due for one request only.
LEMMA OwedChange ==
  ASSUME IsFiniteSet(Requests), IInv, IInv', NEW r \in Requests,
         \A q \in Requests \ {r} : Due(q)' = Due(q)
  PROVE  /\ Owed \in Int /\ Owed' = Owed - Due(r) + Due(r)'
<1>1. \A q \in Requests : Dues[q] \in Int /\ Dues'[q] \in Int
  BY DueType, DueTypeNext DEF IInv, TypeOK, Dues
<1>2. \A q \in Requests \ {r} : Dues[q] = Dues'[q]
  BY DEF Dues
<1>3. Dues[r] = Due(r) /\ Dues'[r] = Due(r)'
  BY DEF Dues
<1>4. Sum(Dues', Requests) = Sum(Dues, Requests) - Dues[r] + Dues'[r]
  BY <1>1, <1>2, SumChange
<1>5. Owed' = Sum(Dues', Requests)
  BY DEF Owed
<1>6. Owed \in Int
  BY <1>1, SumType DEF Owed
<1> QED
  BY <1>3, <1>4, <1>5, <1>6 DEF Owed

\* The changes still to be told add up to an integer.
LEMMA UntoldType ==
  ASSUME OutboxTypeOK, NEW at \in Nat
  PROVE  Untold(at) \in Int
<1>1. \A i \in 1..LastEvent : Changes[i] \in Int
  BY EventsType DEF Changes, EventType
<1>2. IsFiniteSet((at + 1)..LastEvent)
  BY EventsType, FS_Interval
<1>3. (at + 1)..LastEvent \subseteq 1..LastEvent
  BY EventsType
<1> QED
  BY <1>1, <1>2, <1>3, SumType DEF Untold

\* Nothing is left to tell after the last event.
LEMMA UntoldNone ==
  ASSUME OutboxTypeOK
  PROVE  Untold(LastEvent) = 0
<1>1. (LastEvent + 1)..LastEvent = {}
  BY EventsType
<1> QED
  BY <1>1, SumEmpty DEF Untold

\* Telling the next event.
LEMMA UntoldFirst ==
  ASSUME OutboxTypeOK, NEW i \in 1..LastEvent
  PROVE  Untold(i - 1) = events[i].delta + Untold(i)
<1>1. i \in Nat /\ LastEvent \in Nat
  BY EventsType
<1>2. \A j \in 1..LastEvent : Changes[j] \in Int /\ Changes[j] = events[j].delta
  BY EventsType DEF Changes, EventType
<1>3. IsFiniteSet(i..LastEvent) /\ i \in i..LastEvent
  BY <1>1, FS_Interval
<1>4. i..LastEvent \subseteq 1..LastEvent
  BY <1>1
<1>5. (i..LastEvent) \ {i} = (i + 1)..LastEvent
  BY <1>1
<1>6. Sum(Changes, i..LastEvent) = Changes[i] + Sum(Changes, (i..LastEvent) \ {i})
  BY <1>2, <1>3, <1>4, SumWithout
<1>7. (i - 1) + 1 = i
  BY <1>1
<1> QED
  BY <1>2, <1>5, <1>6, <1>7 DEF Untold

\* Claims, leases and acknowledgements leave the changes alone.
LEMMA UntoldKept ==
  ASSUME OutboxTypeOK, NEW at \in Nat, LastEvent' = LastEvent,
         \A i \in 1..LastEvent : events'[i].delta = events[i].delta
  PROVE  Untold(at)' = Untold(at)
<1>1. \A i \in 1..LastEvent : Changes'[i] = Changes[i]
  BY DEF Changes
<1>2. IsFiniteSet((at + 1)..LastEvent)
  BY EventsType, FS_Interval
<1>3. (at + 1)..LastEvent \subseteq 1..LastEvent
  BY EventsType
<1>4. Sum(Changes', (at + 1)..LastEvent) = Sum(Changes, (at + 1)..LastEvent)
  BY <1>1, <1>2, <1>3, SumSame
<1> QED
  BY <1>4 DEF Untold

\* A new event is one more change to be told.
LEMMA UntoldMore ==
  ASSUME OutboxTypeOK, OutboxTypeOK', NEW at \in 0..LastEvent,
         LastEvent' = LastEvent + 1,
         \A i \in 1..LastEvent : events'[i].delta = events[i].delta
  PROVE  Untold(at)' = Untold(at) + events'[LastEvent'].delta
<1> DEFINE last == LastEvent + 1
           later == (at + 1)..last
<1>1. LastEvent \in Nat
  BY EventsType
<1>2. \A i \in 1..last : Changes'[i] \in Int /\ Changes'[i] = events'[i].delta
  <2>1. events' \in Seq(EventType) /\ Len(events') = last
    BY DEF OutboxTypeOK, EventType, LastEvent
  <2>2. \A i \in 1..last : events'[i] \in EventType
    BY <2>1, ElementOfSeq
  <2> QED
    BY <2>2 DEF Changes, EventType
<1>3. IsFiniteSet(later) /\ last \in later /\ later \subseteq 1..last
  BY <1>1, FS_Interval
<1>4. later \ {last} = (at + 1)..LastEvent
  BY <1>1
<1>5. Sum(Changes', later) = Changes'[last] + Sum(Changes', later \ {last})
  BY <1>2, <1>3, SumWithout
<1>6. \A i \in later \ {last} : Changes'[i] = Changes[i]
  BY <1>1, <1>4 DEF Changes
<1>7. Sum(Changes', later \ {last}) = Sum(Changes, later \ {last})
  <2>1. IsFiniteSet(later \ {last})
    BY <1>3, FS_Subset
  <2> QED
    BY <1>6, <2>1, SumSame
<1>8. Untold(at)' = Sum(Changes', later)
  BY DEF Untold
<1>9. Untold(at) \in Int
  BY <1>1, UntoldType
<1>10. Changes'[last] = events'[LastEvent'].delta /\ Changes'[last] \in Int
  BY <1>1, <1>2
<1>11. Untold(at) = Sum(Changes, later \ {last})
  BY <1>4 DEF Untold
<1> HIDE DEF later
<1> QED
  BY <1>5, <1>7, <1>8, <1>9, <1>10, <1>11

-----------------------------------------------------------------------------
(* A step of one request and the wallet *)

\* Somebody is about to complete the settlement of r.
Settler(r) ==
    \/ At(r, "completeSettlement")
    \/ \E c \in Recoverers : Recovers(c, r, "completeSettlement")

\* The part of SumsOK that is about r alone.
SettlingOK(r) ==
    IF present THEN Settling(r) => Is(r, "finalized") ELSE Is(r, "none")

\* The statements on a row, but for the one that completes a settlement ...
Statement(r) ==
    \/ Prepare(r) \/ Mark(r) \/ Expire(r)
    \/ \E hold \in Nat : Advance(r, hold)
    \/ \E amount \in Nat, by \in Fingerprints : Decide(r, amount, by)
    \/ BeginRefund(r) \/ CompleteRefund(r)
    \/ row' = row

\* ... the scripts on an attempt, but for the one that takes a hold ...
Script(r) ==
    \/ TopUp(r, TopUpTarget)
    \/ Refund(r)
    \/ \E actual \in Nat : HeldTo(r, actual) /\ Finalize(r, actual)
    \/ DropMarker(r) /\ ~In(r, {"finalizing"})

\* ... and what a step may do of them.
MovesOnce(r) ==
    \/ UNCHANGED store /\ Statement(r)
    \/ UNCHANGED store /\ Settler(r) /\ CompleteSettlement(r)
    \/ row' = row /\ Script(r)

\* Only who saw the charge in the wallet goes on to complete a settlement.
SettlesOnlyCharged(r) ==
    /\ Settler(r)' => Settler(r) \/ (present /\ Is(r, "finalized")')
    /\ \A q \in Requests \ {r} : Settler(q)' => Settler(q)

\* The step keeps the books of r.
Orderly(r) ==
    IF present
    THEN /\ wallet' + Due(r)' = wallet + Due(r)
         /\ Settling(r)' => Is(r, "finalized")'
    ELSE /\ Is(r, "none")'
         /\ Settling(r)' => Settling(r)
         /\ In(r, {"pending"})' => In(r, {"pending"}) \/ Settling(r)

\* Whoever is about to complete a settlement has a verdict to pay.
LEMMA SettlerDecided ==
  ASSUME IInv, NEW r \in Requests, Settler(r)
  PROVE  Decided(r) /\ row[r].amount > 0
<1>1. CASE At(r, "completeSettlement")
  BY <1>1 DEF IInv, LocalOK, RequestOK
<1>2. ASSUME NEW c \in Recoverers, Recovers(c, r, "completeSettlement")
      PROVE  Decided(r) /\ row[r].amount > 0
  BY <1>2 DEF IInv, LocalOK, RecoveryOK, Recovers
<1> QED
  BY <1>1, <1>2 DEF Settler

\* What a statement does to the statuses that what is due depends on.
LEMMA StatementMoves ==
  ASSUME IInv, NEW r \in Requests, Statement(r)
  PROVE  /\ In(r, {"pending"})' <=> In(r, {"pending"})
         /\ In(r, {"pending"}) => row'[r].amount = row[r].amount
         /\ In(r, {"finalizing"})' =>
              In(r, {"prepared", "authorized", "finalizing"})
         /\ Is(r, "finalized") =>
              (In(r, {"finalizing"})' <=> In(r, {"finalizing"}))
<1> DEFINE P == /\ In(r, {"pending"})' <=> In(r, {"pending"})
                /\ In(r, {"pending"}) => row'[r].amount = row[r].amount
                /\ In(r, {"finalizing"})' =>
                     In(r, {"prepared", "authorized", "finalizing"})
                /\ Is(r, "finalized") =>
                     (In(r, {"finalizing"})' <=> In(r, {"finalizing"}))
<1>0. /\ RowsTypeOK
      /\ Is(r, "finalized") => /\ In(r, {"finalizing", "pending", "applied"})
                               /\ row[r].amount > 0
  BY DEF IInv, TypeOK, LocalOK, AttemptOK
<1>1. CASE Prepare(r)
  BY <1>0, <1>1, PrepareEffect DEF In
<1>2. CASE Mark(r)
  BY <1>0, <1>2, MarkEffect DEF In
<1>3. CASE Expire(r)
  BY <1>0, <1>3, ExpireEffect DEF In
<1>4. CASE \E hold \in Nat : Advance(r, hold)
  BY <1>0, <1>4, AdvanceEffect DEF In
<1>5. CASE \E amount \in Nat, by \in Fingerprints : Decide(r, amount, by)
  BY <1>0, <1>5, DecideEffect DEF In
<1>6. CASE BeginRefund(r)
  BY <1>0, <1>6, BeginRefundEffect DEF In
<1>7. CASE CompleteRefund(r)
  BY <1>0, <1>7, CompleteRefundEffect DEF In
<1>8. CASE row' = row
  BY <1>8 DEF In
<1> QED
  BY <1>1, <1>2, <1>3, <1>4, <1>5, <1>6, <1>7, <1>8 DEF Statement

\* Statements neither charge nor release anything.
LEMMA OrderlyStatement ==
  ASSUME IInv, IInv', NEW r \in Requests, SettlingOK(r),
         UNCHANGED store, Statement(r), SettlesOnlyCharged(r)
  PROVE  Orderly(r)
<1>1. UNCHANGED <<present, wallet, attempt>>
  BY DEF store
<1>2. Due(r)' = Due(r)
  BY <1>1, StatementMoves DEF Due, Is
<1>3. wallet \in Int /\ Due(r) \in Nat
  BY DueType DEF IInv, TypeOK, WalletTypeOK
<1>4. ASSUME Settling(r)', ~Is(r, "finalized")' PROVE Settling(r)
  <2>1. Settler(r)
    BY <1>4 DEF Settling, SettlesOnlyCharged, Settler
  <2>2. In(r, {"finalizing"})
    BY <1>4, <2>1, SettlerDecided, StatementMoves DEF Settling, Decided, In
  <2> QED
    BY <2>1, <2>2 DEF Settling, Settler
<1>5. Is(r, "finalized")' <=> Is(r, "finalized")
  BY <1>1 DEF Is
<1>6. Is(r, "none")' <=> Is(r, "none")
  BY <1>1 DEF Is
<1>7. Is(r, "none") => ~Is(r, "finalized")
  BY DEF Is
<1> QED
  BY <1>1, <1>2, <1>3, <1>4, <1>5, <1>6, <1>7, StatementMoves
     DEF Orderly, SettlingOK

\* A completed settlement turns what was charged into what is pending.
LEMMA OrderlySettlement ==
  ASSUME IInv, IInv', NEW r \in Requests, SettlingOK(r),
         UNCHANGED store, Settler(r), CompleteSettlement(r)
  PROVE  Orderly(r)
<1>1. UNCHANGED <<present, wallet, attempt>>
  BY DEF store
<1>2. /\ \/ row'[r].status = row[r].status
         \/ row[r].status = "finalizing" /\ row'[r].status = "pending"
      /\ row'[r].amount = row[r].amount
  BY CompleteSettlementEffect DEF IInv, TypeOK
<1>3. In(r, {"finalizing"}) => Settling(r)
  BY DEF Settling, Settler
<1>4. Settling(r)' => Settling(r)
  BY <1>2, <1>3 DEF Settling, In
<1>5. Is(r, "finalized") => attempt[r].actual = row[r].amount
  BY DEF IInv, LocalOK, AttemptOK
<1>6. present => Due(r)' = Due(r)
  BY <1>1, <1>2, <1>3, <1>5 DEF Due, Is, In, SettlingOK
<1>7. wallet \in Int /\ Due(r) \in Nat
  BY DueType DEF IInv, TypeOK, WalletTypeOK
<1>8. In(r, {"pending"})' => In(r, {"pending"}) \/ Settling(r)
  BY <1>2, <1>3 DEF In
<1> QED
  BY <1>1, <1>4, <1>6, <1>7, <1>8 DEF Orderly, SettlingOK, Is

\* A script moves as much as it makes due.
LEMMA OrderlyScript ==
  ASSUME IInv, IInv', NEW r \in Requests, SettlingOK(r),
         row' = row, Script(r), SettlesOnlyCharged(r)
  PROVE  Orderly(r)
<1>0. /\ WalletTypeOK /\ RowsTypeOK
      /\ Is(r, "held") => ~In(r, {"pending"})
  BY DEF IInv, TypeOK, LocalOK, AttemptOK, In
<1>1. /\ attempt \in [Requests -> Attempts] /\ wallet \in Int
      /\ attempt[r].reserved \in Nat
  BY <1>0 DEF WalletTypeOK, Attempts
<1>2. \A statuses : In(r, statuses)' <=> In(r, statuses)
  BY DEF In
<1>3. ASSUME ~present PROVE UNCHANGED <<wallet, attempt>>
  BY <1>3 DEF Script, TopUp, TopUpOutcome, Refund, Finalize, DropMarker,
              SettlingOK, Is
<1>4. \/ UNCHANGED <<wallet, attempt>>
      \/ /\ Is(r, "held") /\ Is(r, "held")'
         /\ wallet' = wallet + attempt[r].reserved - attempt'[r].reserved
      \/ /\ Is(r, "held") /\ Is(r, "finalized")' /\ In(r, {"finalizing"})
         /\ wallet' = wallet + attempt[r].reserved - attempt'[r].actual
      \/ /\ Is(r, "held") /\ Is(r, "refunded")'
         /\ wallet' = wallet + attempt[r].reserved
      \/ /\ ~Is(r, "held") /\ Is(r, "none")' /\ ~In(r, {"finalizing"})
         /\ wallet' = wallet
  <2>1. CASE TopUp(r, TopUpTarget)
    BY <1>1, <2>1, WalletAssumption
       DEF TopUp, TopUpOutcome, Is, Attempts
  <2>2. CASE Refund(r)
    BY <1>1, <2>2 DEF Refund, Is, Attempts
  <2>3. ASSUME NEW actual \in Nat, HeldTo(r, actual), Finalize(r, actual)
        PROVE  \/ UNCHANGED <<wallet, attempt>>
               \/ /\ Is(r, "held") /\ Is(r, "finalized")'
                  /\ In(r, {"finalizing"})
                  /\ wallet' = wallet + attempt[r].reserved
                                 - attempt'[r].actual
    <3>1. Is(r, "held") => In(r, {"finalizing"})
      BY <2>3 DEF HeldTo, Decided, IInv, LocalOK, AttemptOK, In
    <3> QED
      BY <1>1, <2>3, <3>1 DEF Finalize, FinalizeReturn, Is, Attempts
  <2>4. CASE DropMarker(r) /\ ~In(r, {"finalizing"})
    BY <1>1, <2>4 DEF DropMarker, NoAttempt, Is, Attempts
  <2> QED
    BY <2>1, <2>2, <2>3, <2>4 DEF Script
<1>5. wallet' \in Int /\ attempt'[r] \in Attempts
  BY DEF IInv, TypeOK, WalletTypeOK
<1>6. /\ Due(r) \in Nat /\ attempt'[r].reserved \in Nat
      /\ attempt'[r].actual \in Nat
  BY <1>0, <1>5, DueType DEF Attempts
<1>7. wallet' + Due(r)' = wallet + Due(r)
  <2>1. CASE UNCHANGED <<wallet, attempt>>
    BY <1>1, <1>6, <2>1 DEF Due, Is, In
  <2>2. CASE Is(r, "held")
    <3>1. Due(r) = attempt[r].reserved
      BY <1>0, <2>2 DEF Due, Is, In
    <3>2. /\ Is(r, "held")' => Due(r)' = attempt'[r].reserved
          /\ Is(r, "finalized")' /\ In(r, {"finalizing"}) =>
               Due(r)' = attempt'[r].actual
          /\ Is(r, "refunded")' => Due(r)' = 0
      BY <1>0, <1>2, <2>2 DEF Due, Is, In
    <3> QED
      BY <1>1, <1>4, <1>5, <1>6, <2>2, <3>1, <3>2 DEF Is
  <2>3. CASE ~Is(r, "held") /\ Is(r, "none")' /\ ~In(r, {"finalizing"})
             /\ wallet' = wallet
    BY <1>1, <1>6, <2>3 DEF Due, Is, In
  <2> QED
    BY <1>4, <2>1, <2>2, <2>3
<1>8. Settling(r)' => Settling(r) \/ (present /\ Is(r, "finalized")')
  BY <1>2 DEF Settling, Settler, SettlesOnlyCharged
<1>9. Settling(r) /\ Is(r, "finalized") => Is(r, "finalized")'
  BY <1>2, <1>4 DEF Settling, Is
<1> QED
  BY <1>2, <1>3, <1>7, <1>8, <1>9 DEF Orderly, SettlingOK, Is

\* A step of a request is one statement or one script.
LEMMA RequestMoves ==
  ASSUME IInv, NEW r \in Requests,
         \/ PrepareRow(r) \/ (RequestStep(r) /\ ~AuthorizeHold(r))
         \/ TopUpHold(r) \/ Transfer(r) \/ Cancel(r) \/ Abandon(r)
         \/ ExpireRow(r) \/ DropAttempt(r)
  PROVE  MovesOnce(r) /\ SettlesOnlyCharged(r)
<1>1. /\ WalletTypeOK /\ TopUpTarget \in Nat /\ Costs \subseteq Nat
      /\ pc \in [Requests -> RequestSteps]
  BY WalletAssumption DEF IInv, TypeOK
<1>2. CASE SettleHold(r)
  <2>1. HeldTo(r, cost[r]) /\ row' = row /\ rec' = rec
    BY <1>2 DEF SettleHold, IInv, LocalOK, RequestOK, others
  <2>2. cost[r] \in Nat
    <3>1. cost[r] = row[r].amount
      BY <2>1 DEF HeldTo
    <3> QED
      BY <3>1 DEF IInv, TypeOK, RowsTypeOK, Rows
  <2>3. CASE cost[r] = 0
    <3>1. Refund(r) /\ \E step \in {"completeRefund", "done"} : To(r, step)
      BY <1>2, <2>3 DEF SettleHold
    <3>2. SettlesOnlyCharged(r)
      BY <1>1, <2>1, <3>1 DEF To, SettlesOnlyCharged, Settler, At, Recovers
    <3> QED
      BY <2>1, <3>1, <3>2 DEF MovesOnce, Script
  <2>4. CASE cost[r] # 0
    <3>1. /\ Finalize(r, cost[r])
          /\ To(r, IF FinalizeSucceeds(r, cost[r]) THEN "completeSettlement"
                                                   ELSE "done")
      BY <1>2, <2>4 DEF SettleHold
    <3>2. FinalizeSucceeds(r, cost[r]) => present /\ Is(r, "finalized")'
      BY <1>1, <2>2, <3>1, FinalizeEffect DEF FinalizeSucceeds, Is
    <3>3. SettlesOnlyCharged(r)
      BY <1>1, <2>1, <3>1, <3>2
         DEF To, SettlesOnlyCharged, Settler, At, Recovers
    <3> QED
      BY <2>1, <2>2, <3>1, <3>3 DEF MovesOnce, Script
  <2> QED
    BY <2>3, <2>4
<1>3. CASE FinishSettlement(r)
  <2>1. /\ UNCHANGED store /\ CompleteSettlement(r) /\ rec' = rec
        /\ At(r, "completeSettlement") /\ To(r, "done")
    BY <1>3 DEF FinishSettlement, others
  <2> QED
    BY <1>1, <2>1 DEF MovesOnce, SettlesOnlyCharged, Settler, To, At, Recovers
<1>4. CASE ~SettleHold(r) /\ ~FinishSettlement(r)
  <2>1. \/ UNCHANGED store /\ Statement(r)
        \/ row' = row /\ Script(r)
    <3>1. CASE ApplyUsage(r) \/ BeginSettlement(r)
      <4>1. cost[r] \in Nat
        BY <1>1, <3>1 DEF ApplyUsage, BeginSettlement, At, IInv, LocalOK, CostOK
      <4>2. "usage" \in Fingerprints
        BY DEF Fingerprints
      <4> QED
        BY <3>1, <4>1, <4>2
           DEF ApplyUsage, BeginSettlement, BeginFinalization, Statement
    <3>2. CASE PrepareRow(r) \/ ExpireRow(r) \/ DropAttempt(r) \/ TopUpHold(r)
      BY <3>2 DEF PrepareRow, ExpireRow, DropAttempt, TopUpHold, Statement,
           Script
    <3>3. CASE UndoHold(r) \/ ReleaseHold(r)
      BY <3>3 DEF UndoHold, ReleaseHold, Script
    <3>4. CASE AdvanceHold(r)
      BY <1>1, <3>4 DEF AdvanceHold, Statement
    <3>5. CASE \/ LoadSnapshot(r) \/ MarkAuthorized(r) \/ UndoRow(r)
               \/ Transfer(r) \/ Cancel(r) \/ Abandon(r)
               \/ CancelRow(r) \/ FinishRefund(r)
      BY <3>5 DEF LoadSnapshot, MarkAuthorized, UndoRow, Transfer, Cancel,
           Abandon, CancelRow, FinishRefund, Statement
    <3> QED
      BY <1>4, <3>1, <3>2, <3>3, <3>4, <3>5 DEF RequestStep
  <2>2. /\ rec' = rec
        /\ \/ pc' = pc
           \/ \E step \in RequestSteps \ {"completeSettlement"} : To(r, step)
    BY <1>4 DEF PrepareRow, RequestStep, LoadSnapshot, MarkAuthorized,
         UndoRow, UndoHold, AdvanceHold, ApplyUsage, BeginSettlement,
         CancelRow, ReleaseHold, FinishRefund, TopUpHold, Transfer, Cancel,
         Abandon, ExpireRow, DropAttempt, others, requestVars, RequestSteps
  <2>3. SettlesOnlyCharged(r)
    BY <1>1, <2>2 DEF SettlesOnlyCharged, Settler, To, At, Recovers
  <2> QED
    BY <2>1, <2>3 DEF MovesOnce
<1> QED
  BY <1>2, <1>3, <1>4

\* So is a step of a recovery.
LEMMA RecoveryMoves ==
  ASSUME IInv, NEW r \in Requests, NEW c \in Recoverers,
         List(c, r) \/ Recover(c, r) \/ RecoveryFails(c, r)
  PROVE  MovesOnce(r) /\ SettlesOnlyCharged(r)
<1>1. /\ WalletTypeOK /\ CopiesTypeOK
      /\ Copy(c, r).amount \in Nat /\ Copy(c, r).hold \in Nat
  BY DEF IInv, TypeOK, CopiesTypeOK, Copy, Rows
<1>2. pc' = pc
  BY DEF List, Recover, RecoverPrepared, RecoverAuthorized, RecoverAdvance,
         RecoverBegin, RecoverFinalizing, RecoverSettle,
         RecoverCompleteSettlement, RecoverRefund, RecoverCompleteRefund,
         RecoveryFails, idleOthers, requestVars
<1>3. CASE RecoverSettle(c, r)
  <2> DEFINE amount == Copy(c, r).amount
  <2>1. /\ Recovers(c, r, "settle") /\ Finalize(r, amount) /\ row' = row
        /\ IF FinalizeSucceeds(r, amount)
           THEN Steps(c, r, "completeSettlement") ELSE Stops(c, r)
    BY <1>3 DEF RecoverSettle
  <2>2. HeldTo(r, amount)
    BY <2>1 DEF Recovers, IInv, LocalOK, RecoveryOK
  <2>3. FinalizeSucceeds(r, amount) => present /\ Is(r, "finalized")'
    BY <1>1, <2>1, FinalizeEffect DEF FinalizeSucceeds, Is
  <2>4. Stops(c, r) => \A d \in Recoverers :
           Recovers(d, r, "completeSettlement")' =>
             Recovers(d, r, "completeSettlement")
    BY <1>1, StopsEffect DEF ThisCopyOnly, Recovers
  <2>5. ThisCopyOnly(c, r)
    BY <1>1, <2>1, StopsEffect, StepsEffect DEF RecoverySteps
  <2>6. SettlesOnlyCharged(r)
    BY <1>2, <2>1, <2>3, <2>4, <2>5
       DEF SettlesOnlyCharged, Settler, At, Recovers, ThisCopyOnly
  <2> QED
    BY <1>1, <2>1, <2>2, <2>6 DEF MovesOnce, Script
<1>4. CASE ~RecoverSettle(c, r)
  <2>1. MovesOnce(r)
    <3>1. CASE RecoverBegin(c, r)
      <4>1. "recovery" \in Fingerprints
        BY DEF Fingerprints
      <4> QED
        BY <1>1, <3>1, <4>1
           DEF RecoverBegin, BeginFinalization, MovesOnce, Statement
    <3>2. CASE RecoverAdvance(c, r)
      BY <1>1, <3>2 DEF RecoverAdvance, MovesOnce, Statement
    <3>3. CASE RecoverCompleteSettlement(c, r)
      BY <3>3 DEF RecoverCompleteSettlement, MovesOnce, Settler
    <3>4. CASE RecoverRefund(c, r)
      BY <3>4 DEF RecoverRefund, MovesOnce, Script
    <3>5. CASE \/ List(c, r) \/ RecoverPrepared(c, r)
               \/ RecoverAuthorized(c, r) \/ RecoverFinalizing(c, r)
               \/ RecoverCompleteRefund(c, r) \/ RecoveryFails(c, r)
      BY <3>5 DEF List, RecoverPrepared, RecoverAuthorized,
           RecoverFinalizing, RecoverCompleteRefund, RecoveryFails,
           MovesOnce, Statement
    <3> QED
      BY <1>4, <3>1, <3>2, <3>3, <3>4, <3>5 DEF Recover
  <2>2. /\ ThisCopyOnly(c, r)
        /\ rec'[c][r].step # "completeSettlement"
    <3>1. \/ Stops(c, r)
          \/ \E step \in RecoverySteps \ {"completeSettlement"} :
               Steps(c, r, step)
          \/ CopyBecomes(c, r, "recover", row[r])
          \/ rec' = [rec EXCEPT ![c][r] = [step |-> "advance",
                       copy |-> [rec[c][r].copy EXCEPT
                                   !.hold = attempt[r].reserved]]]
          \/ rec' = [rec EXCEPT ![c][r] = [step |-> "settle",
                       copy |-> [rec[c][r].copy EXCEPT
                                   !.amount = Copy(c, r).hold]]]
      <4>1. CASE RecoverAuthorized(c, r)
        BY <4>1 DEF RecoverAuthorized, RecoverySteps
      <4>2. CASE RecoverBegin(c, r)
        BY <4>2 DEF RecoverBegin
      <4>3. CASE List(c, r)
        BY <4>3 DEF List, CopyBecomes
      <4>4. CASE ~RecoverAuthorized(c, r) /\ ~RecoverBegin(c, r) /\ ~List(c, r)
        BY <1>4, <4>4 DEF Recover, RecoverPrepared, RecoverAdvance,
             RecoverFinalizing, RecoverCompleteSettlement, RecoverRefund,
             RecoverCompleteRefund, RecoveryFails, RecoverySteps
      <4> QED
        BY <4>1, <4>2, <4>3, <4>4
    <3>2. /\ row[r] \in Rows /\ attempt[r].reserved \in Nat
          /\ "recover" \in RecoverySteps
      BY DEF IInv, TypeOK, RowsTypeOK, WalletTypeOK, Attempts, RecoverySteps
    <3>3. CASE Stops(c, r)
      BY <1>1, <3>3, StopsEffect
    <3>4. ASSUME NEW step \in RecoverySteps \ {"completeSettlement"},
                 Steps(c, r, step)
          PROVE  ThisCopyOnly(c, r) /\ rec'[c][r].step # "completeSettlement"
      BY <1>1, <3>4, StepsEffect
    <3>5. CASE CopyBecomes(c, r, "recover", row[r])
      BY <1>1, <3>2, <3>5, CopyEffect
    <3>6. CASE rec' = [rec EXCEPT ![c][r] = [step |-> "advance",
                         copy |-> [rec[c][r].copy EXCEPT
                                     !.hold = attempt[r].reserved]]]
      BY <1>1, <3>2, <3>6, SharperCopy
    <3>7. CASE rec' = [rec EXCEPT ![c][r] = [step |-> "settle",
                         copy |-> [rec[c][r].copy EXCEPT
                                     !.amount = Copy(c, r).hold]]]
      BY <1>1, <3>7, DecidedCopy
    <3> QED
      BY <3>1, <3>3, <3>4, <3>5, <3>6, <3>7
  <2>3. SettlesOnlyCharged(r)
    BY <1>2, <2>2
       DEF SettlesOnlyCharged, Settler, At, Recovers, ThisCopyOnly
  <2> QED
    BY <2>1, <2>3
<1> QED
  BY <1>3, <1>4

-----------------------------------------------------------------------------
(* The wallet and the balance, when no snapshot outlives a loss of the wallet *)

\* Neither touches another request.
LEMMA MovesElsewhere ==
  ASSUME IInv, NEW r \in Requests, MovesOnce(r)
  PROVE  ThisRowOnly(r) /\ ThisAttemptOnly(r)
<1>1. RowsTypeOK /\ WalletTypeOK
  BY DEF IInv, TypeOK
<1>2. UNCHANGED store => ThisAttemptOnly(r)
  BY DEF store, ThisAttemptOnly
<1>3. ASSUME Statement(r) PROVE ThisRowOnly(r)
  <2>1. CASE Prepare(r) \/ Mark(r) \/ Expire(r)
    BY <1>1, <2>1, PrepareEffect, MarkEffect, ExpireEffect
  <2>2. CASE \E hold \in Nat : Advance(r, hold)
    BY <1>1, <2>2, AdvanceEffect
  <2>3. CASE \E amount \in Nat, by \in Fingerprints : Decide(r, amount, by)
    BY <1>1, <2>3, DecideEffect
  <2>4. CASE BeginRefund(r) \/ CompleteRefund(r)
    BY <1>1, <2>4, BeginRefundEffect, CompleteRefundEffect
  <2>5. CASE row' = row
    BY <2>5 DEF ThisRowOnly
  <2> QED
    BY <1>3, <2>1, <2>2, <2>3, <2>4, <2>5 DEF Statement
<1>4. CompleteSettlement(r) => ThisRowOnly(r)
  BY <1>1, CompleteSettlementEffect
<1>5. ASSUME row' = row, Script(r) PROVE ThisRowOnly(r) /\ ThisAttemptOnly(r)
  BY <1>1, <1>5, WalletAssumption, TopUpEffect, RefundEffect, FinalizeEffect,
     DropEffect DEF Script, ThisRowOnly
<1> QED
  BY <1>2, <1>3, <1>4, <1>5 DEF MovesOnce

\* Such a step keeps the books of its request.
LEMMA MovesOrderly ==
  ASSUME IInv, IInv', NEW r \in Requests, SettlingOK(r),
         MovesOnce(r), SettlesOnlyCharged(r)
  PROVE  Orderly(r)
BY OrderlyStatement, OrderlySettlement, OrderlyScript DEF MovesOnce

\* Nothing is due where nothing is held or pending.
LEMMA OwedNothing ==
  ASSUME IsFiniteSet(Requests), NothingDue, \A r \in Requests : Is(r, "none")
  PROVE  Owed = 0 /\ \A r \in Requests : Due(r) = 0
<1>1. \A r \in Requests : Due(r) = 0
  BY DEF NothingDue, Due, Is
<1>2. \A r \in Requests : Dues[r] = 0
  BY <1>1 DEF Dues
<1> QED
  BY <1>1, <1>2, SumZero DEF Owed

\* A snapshot that counts nothing as unsettled is exact.
LEMMA ExactSnapshot ==
  ASSUME IInv, ~HasUnsettled
  PROVE  Exact(Snapshot)
<1>1. OutboxTypeOK /\ LastEvent \in Nat /\ balance \in Int
  BY EventsType DEF IInv, TypeOK, OutboxTypeOK
<1>2. Untold(LastEvent) = 0
  BY <1>1, UntoldNone
<1>3. NothingDue
  BY DEF NothingDue, Settling, HasUnsettled, UnsettledStatuses, In
<1>4. Snapshot.at = LastEvent /\ Snapshot.balance = balance
  BY DEF Snapshot
<1> QED
  BY <1>1, <1>2, <1>3, <1>4 DEF Exact

\* An exact snapshot stays exact while balance and changes stay.
LEMMA ExactKept ==
  ASSUME IInv, NothingDue', balance' = balance, UNCHANGED <<LastEvent>>,
         \A i \in 1..LastEvent : events'[i].delta = events[i].delta,
         NEW s \in Snapshots, Exact(s)
  PROVE  Exact(s)'
<1>1. s.at \in Nat /\ OutboxTypeOK
  BY DEF Snapshots, IInv, TypeOK
<1>2. Untold(s.at)' = Untold(s.at)
  BY <1>1, UntoldKept
<1> QED
  BY <1>2 DEF Exact

\* A step of a request or recovery that neither creates nor loses the wallet.
LEMMA SumsOfRequest ==
  ASSUME IsFiniteSet(Requests), IInv, IInv', SumsOK, NEW r \in Requests,
         UNCHANGED outboxVars, WatermarkKept, Orderly(r),
         ThisRowOnly(r), ThisAttemptOnly(r), SettlesOnlyCharged(r),
         \A q \in Requests : pc'[q] = "initialize" =>
            \/ pc[q] = "initialize" /\ seen'[q] = seen[q]
            \/ seen'[q] = Snapshot
  PROVE  SumsOK'
<1>1. UNCHANGED <<balance, events, out, LastEvent>>
  BY DEF outboxVars, LastEvent
<1>2. OutboxTypeOK /\ watermark \in Nat /\ seen \in [Requests -> Snapshots]
      /\ seen' \in [Requests -> Snapshots] /\ out \in [Workers -> OutType]
      /\ wallet \in Int /\ wallet' \in Int /\ balance \in Int
  BY EventsType DEF IInv, TypeOK, OutboxTypeOK, WalletTypeOK
<1>3. \A q \in Requests \ {r} :
        /\ Due(q)' = Due(q)
        /\ Settling(q)' => Settling(q)
        /\ \A state : Is(q, state)' <=> Is(q, state)
        /\ In(q, {"pending"})' <=> In(q, {"pending"})
  BY DEF ThisRowOnly, ThisAttemptOnly, SettlesOnlyCharged, Settling, Settler,
         Due, In, Is
<1>4. CASE present
  <2>1. Owed \in Int /\ Owed' = Owed - Due(r) + Due(r)'
    BY <1>3, OwedChange
  <2>2. Untold(watermark)' = Untold(watermark) /\ Untold(watermark) \in Int
    <3>1. watermark' = watermark
      BY DEF WatermarkKept
    <3> QED
      BY <1>1, <1>2, <3>1, UntoldKept, UntoldType DEF Untold
  <2>3. Due(r) \in Nat /\ Due(r)' \in Nat
    BY DueType, DueTypeNext DEF IInv, TypeOK
  <2>4. wallet' = balance' - Owed' - Untold(watermark)'
    <3>1. wallet' + Due(r)' = wallet + Due(r)
      BY <1>4 DEF Orderly
    <3>2. wallet = balance - Owed - Untold(watermark)
      BY <1>4 DEF SumsOK
    <3> QED
      BY <1>1, <1>2, <2>1, <2>2, <2>3, <3>1, <3>2
  <2>5. \A q \in Requests : Settling(q)' => Is(q, "finalized")'
    BY <1>3, <1>4 DEF Orderly, SumsOK
  <2> QED
    BY <1>1, <1>4, <2>4, <2>5 DEF SumsOK, WatermarkKept
<1>5. CASE ~present
  <2>1. ~present'
    BY <1>5 DEF WatermarkKept
  <2>2. \A q \in Requests : Is(q, "none")'
    BY <1>3, <1>5 DEF Orderly, SumsOK
  <2>3. NothingDue => NothingDue'
    BY <1>3, <1>5 DEF Orderly, NothingDue
  <2>4. ASSUME NEW s \in Snapshots, Exact(s) PROVE Exact(s)'
    BY <1>1, <2>3, <2>4, ExactKept DEF Exact
  <2>5. Snapshot \in Snapshots
    BY SnapshotType DEF IInv
  <2>6. ASSUME NEW q \in Requests, At(q, "initialize")', ~seen'[q].unsettled
        PROVE  Exact(seen[q])'
    <3>1. CASE At(q, "initialize") /\ seen'[q] = seen[q]
      BY <1>2, <1>5, <2>4, <2>6, <3>1 DEF SumsOK, Exact
    <3>2. CASE seen'[q] = Snapshot
      <4>1. ~HasUnsettled
        BY <2>6, <3>2 DEF Snapshot
      <4>2. Exact(Snapshot)
        BY <4>1, ExactSnapshot
      <4> QED
        BY <2>4, <2>5, <3>2, <4>2 DEF Exact
    <3> QED
      BY <2>6, <3>1, <3>2 DEF At
  <2>7. ASSUME NEW w \in Workers, out'[w].step = "initialize"
        PROVE  Exact(out[w].seen)'
    <3>1. /\ out[w].seen \in Snapshots /\ Exact(out[w].seen)
          /\ out'[w].seen = out[w].seen
      BY <1>1, <1>2, <1>5, <2>7 DEF SumsOK, OutType
    <3> QED
      BY <2>4, <3>1 DEF Exact
  <2> QED
    BY <2>1, <2>2, <2>6, <2>7 DEF SumsOK
<1> QED
  BY <1>4, <1>5

\* A hold that is taken from a wallet that is there.
LEMMA OrderlyAuthorize ==
  ASSUME IInv, IInv', NEW r \in Requests, SettlingOK(r),
         AuthorizeHold(r), WatermarkKept
  PROVE  /\ Orderly(r) /\ SettlesOnlyCharged(r)
         /\ ThisRowOnly(r) /\ ThisAttemptOnly(r)
<1> DEFINE hold == row[r].hold
           start == seen[r].balance
           outcome == AuthorizeOutcome(r, hold, start, Allowed(r))
<1>1. /\ WalletTypeOK /\ RowsTypeOK /\ hold \in Nat /\ start \in Int
      /\ seen[r].at \in Nat /\ Allowed(r) \in BOOLEAN
      /\ wallet \in Int /\ attempt \in [Requests -> Attempts]
      /\ pc \in [Requests -> RequestSteps]
  BY DEF IInv, TypeOK, WalletTypeOK, RowsTypeOK, Rows, Snapshots, Allowed, At
<1>2. /\ row' = row /\ rec' = rec
      /\ \E step \in RequestSteps \ {"completeSettlement"} : To(r, step)
      /\ \/ Authorize(r, hold, start, seen[r].at, Allowed(r))
         \/ UNCHANGED store
  BY DEF AuthorizeHold, AfterAuthorize, RequestSteps, others
<1>3. In(r, {"prepared"})
  BY DEF AuthorizeHold, IInv, LocalOK, RequestOK
<1>4. ThisRowOnly(r) /\ ThisAttemptOnly(r)
  BY <1>1, <1>2, AuthorizeEffect DEF ThisRowOnly, ThisAttemptOnly, store
<1>5. SettlesOnlyCharged(r)
  BY <1>1, <1>2 DEF SettlesOnlyCharged, Settler, To, At, Recovers
<1>6. ~Settling(r)' /\ ~In(r, {"pending"})'
  BY <1>2, <1>3 DEF Settling, In
<1>7. CASE UNCHANGED store
  <2>1. wallet' = wallet /\ attempt' = attempt
    BY <1>7 DEF store
  <2>2. Due(r)' = Due(r) /\ Due(r) \in Nat
    BY <1>1, <1>2, <2>1, DueType DEF Due, Is, In
  <2> QED
    BY <1>1, <1>4, <1>5, <1>6, <2>1, <2>2 DEF Orderly, SettlingOK, Is
<1>8. CASE Authorize(r, hold, start, seen[r].at, Allowed(r)) /\ present
  <2>1. CASE outcome = "applied"
    <3>1. wallet' = wallet - hold /\ Is(r, "none")
      BY <1>1, <1>8, <2>1 DEF Authorize, AuthorizeOutcome, Funds
    <3>2. attempt'[r].state = "held" /\ attempt'[r].reserved = hold
      BY <1>1, <1>8, <2>1 DEF Authorize
    <3>3. Due(r) = 0 /\ Due(r)' = hold
      BY <1>2, <1>3, <3>1, <3>2 DEF Due, Is, In
    <3> QED
      BY <1>1, <1>4, <1>5, <1>6, <1>8, <3>1, <3>3 DEF Orderly
  <2>2. CASE outcome # "applied"
    <3>1. wallet' = wallet /\ attempt' = attempt
      BY <1>1, <1>8, <2>2 DEF Authorize, Funds
    <3>2. Due(r)' = Due(r) /\ Due(r) \in Nat
      BY <1>1, <1>2, <3>1, DueType DEF Due, Is, In
    <3> QED
      BY <1>1, <1>4, <1>5, <1>6, <1>8, <3>1, <3>2 DEF Orderly
  <2> QED
    BY <2>1, <2>2
<1>9. CASE Authorize(r, hold, start, seen[r].at, Allowed(r)) /\ ~present
  <2>1. outcome \notin {"insufficient", "applied"}
    <3>1. present' = (present \/ outcome \in {"insufficient", "applied"})
      BY <1>9, Zenon DEF Authorize
    <3>2. present' = present /\ present = FALSE
      BY <1>1, <1>9, Zenon DEF WatermarkKept, WalletTypeOK
    <3> QED
      BY <3>1, <3>2, Zenon
  <2>2. attempt' = attempt
    BY <1>9, <2>1 DEF Authorize
  <2> QED
    BY <1>4, <1>5, <1>6, <1>9, <2>2 DEF Orderly, SettlingOK, Is
<1> QED
  BY <1>2, <1>7, <1>8, <1>9

\* A hold that is taken from a wallet made of a snapshot.
LEMMA SumsOfCreation ==
  ASSUME IsFiniteSet(Requests), IInv, IInv', SumsOK, NEW r \in Requests,
         AuthorizeHold(r), ~WatermarkKept
  PROVE  SumsOK'
<1> DEFINE hold == row[r].hold
           start == seen[r].balance
           outcome == AuthorizeOutcome(r, hold, start, Allowed(r))
<1>1. /\ WalletTypeOK /\ RowsTypeOK /\ OutboxTypeOK
      /\ hold \in Nat /\ start \in Int
      /\ seen[r].at \in Nat /\ Allowed(r) \in BOOLEAN
      /\ attempt \in [Requests -> Attempts] /\ balance \in Int
      /\ pc \in [Requests -> RequestSteps] /\ wallet' \in Int
  BY DEF IInv, TypeOK, WalletTypeOK, RowsTypeOK, Rows, Snapshots, Allowed, At,
         OutboxTypeOK
<1> PICK at \in Nat : at = seen[r].at
  BY <1>1
<1>2. /\ row' = row /\ rec' = rec /\ UNCHANGED <<balance, events, LastEvent>>
      /\ \E step \in RequestSteps \ {"completeSettlement"} : To(r, step)
      /\ Authorize(r, hold, start, at, Allowed(r))
  BY DEF AuthorizeHold, AfterAuthorize, RequestSteps, others, outboxVars,
         LastEvent, store, WatermarkKept
<1>3. In(r, {"prepared"})
  BY DEF AuthorizeHold, IInv, LocalOK, RequestOK
<1>4. ~present /\ present' /\ watermark' = at /\ Allowed(r)
  BY <1>1, <1>2, AuthorizeCreates
<1>5. Exact(seen[r]) /\ \A q \in Requests : Is(q, "none")
  BY <1>4 DEF SumsOK, Allowed
<1>6. Owed = 0 /\ \A q \in Requests : Due(q) = 0
  BY <1>5, OwedNothing DEF Exact
<1>7. ThisAttemptOnly(r)
  BY <1>1, <1>2, AuthorizeEffect
<1>8. Owed' = Due(r)' /\ Due(r)' \in Nat
  <2>1. \A q \in Requests \ {r} : Due(q)' = Due(q)
    BY <1>2, <1>7 DEF ThisAttemptOnly, Due, In, Is
  <2>2. Due(r)' \in Nat
    BY DueTypeNext DEF IInv, TypeOK
  <2> QED
    BY <1>6, <2>1, <2>2, OwedChange
<1>9. wallet' = start - Due(r)'
  <2>1. outcome \in {"insufficient", "applied"}
    BY <1>2, <1>4, Zenon DEF Authorize
  <2>2. CASE outcome = "applied"
    <3>1. wallet' = start - hold
      BY <1>1, <1>2, <1>4, <2>2 DEF Authorize, Funds
    <3>2. attempt'[r].state = "held" /\ attempt'[r].reserved = hold
      BY <1>1, <1>2, <2>2 DEF Authorize
    <3>3. Due(r)' = hold
      BY <1>2, <1>3, <3>2 DEF Due, Is, In
    <3> QED
      BY <3>1, <3>3
  <2>3. CASE outcome = "insufficient"
    <3>1. wallet' = start - 0 /\ attempt' = attempt
      BY <1>1, <1>2, <1>4, <2>3 DEF Authorize, Funds
    <3>2. Due(r)' = Due(r)
      BY <1>2, <3>1 DEF Due, Is, In
    <3> QED
      BY <1>1, <1>6, <3>1, <3>2
  <2> QED
    BY <2>1, <2>2, <2>3
<1>10. \A q \in Requests : ~Settling(q)'
  <2>1. \A q \in Requests : Settling(q)' => Settling(q)
    BY <1>1, <1>2 DEF Settling, In, At, To, Recovers
  <2> QED
    BY <1>5, <2>1 DEF Exact, NothingDue
<1>11. Untold(at)' = Untold(at) /\ Untold(at) \in Int
  BY <1>1, <1>2, UntoldKept, UntoldType
<1>12. Untold(watermark)' = Untold(at)'
  BY <1>2, <1>4 DEF Untold
<1>13. wallet' = balance' - Owed' - Untold(watermark)'
  BY <1>1, <1>2, <1>5, <1>8, <1>9, <1>11, <1>12 DEF Exact
<1>14. watermark' \in 0..LastEvent'
  BY <1>2, <1>4, <1>5 DEF Exact
<1> QED
  BY <1>4, <1>10, <1>13, <1>14 DEF SumsOK

\* A step of the outbox that keeps the changes and the balance.
LEMMA SumsFrame ==
  ASSUME IInv, SumsOK,
         UNCHANGED <<row, attempt, requestVars, rec, balance>>,
         UNCHANGED <<present, wallet, watermark>>,
         LastEvent' = LastEvent,
         \A i \in 1..LastEvent : events'[i].delta = events[i].delta,
         \A w \in Workers : out'[w].step = "initialize" =>
           \/ out[w].step = "initialize" /\ out'[w].seen = out[w].seen
           \/ ~HasUnsettled /\ out'[w].seen = Snapshot
  PROVE  SumsOK'
<1>1. UNCHANGED <<pc, seen>>
  BY DEF requestVars
<1>2. /\ OutboxTypeOK /\ watermark \in Nat
      /\ seen \in [Requests -> Snapshots] /\ out \in [Workers -> OutType]
  BY EventsType DEF IInv, TypeOK, WalletTypeOK
<1>3. \A q \in Requests :
        /\ Settling(q)' <=> Settling(q)
        /\ In(q, {"pending"})' <=> In(q, {"pending"})
        /\ \A state : Is(q, state)' <=> Is(q, state)
  BY <1>1 DEF Settling, In, Is, At, Recovers
<1>4. CASE present
  <2>1. Owed' = Owed
    BY DEF Owed, Dues, Due, In, Is
  <2>2. Untold(watermark)' = Untold(watermark)
    <3> PICK at \in Nat : at = watermark
      BY <1>2
    <3>1. Untold(at)' = Untold(at)
      BY <1>2, UntoldKept
    <3> QED
      BY <3>1 DEF Untold
  <2> QED
    BY <1>3, <1>4, <2>1, <2>2 DEF SumsOK
<1>5. CASE ~present
  <2>1. NothingDue' <=> NothingDue
    BY <1>3 DEF NothingDue
  <2>2. ASSUME NEW s \in Snapshots, Exact(s) PROVE Exact(s)'
    BY <2>1, <2>2, ExactKept DEF Exact
  <2>3. ASSUME NEW q \in Requests, At(q, "initialize"), ~seen[q].unsettled
        PROVE  Exact(seen[q])'
    <3>1. seen[q] \in Snapshots /\ Exact(seen[q])
      BY <1>2, <1>5, <2>3 DEF SumsOK
    <3> QED
      BY <1>1, <2>2, <3>1 DEF Exact
  <2>4. ASSUME NEW w \in Workers, out'[w].step = "initialize"
        PROVE  Exact(out[w].seen)'
    <3>1. CASE out[w].step = "initialize" /\ out'[w].seen = out[w].seen
      <4>1. out[w].seen \in Snapshots /\ Exact(out[w].seen)
        BY <1>2, <1>5, <3>1 DEF SumsOK, OutType
      <4> QED
        BY <2>2, <3>1, <4>1 DEF Exact
    <3>2. CASE ~HasUnsettled /\ out'[w].seen = Snapshot
      <4>1. Snapshot \in Snapshots /\ Exact(Snapshot)
        BY <3>2, SnapshotType, ExactSnapshot DEF IInv
      <4> QED
        BY <2>2, <3>2, <4>1 DEF Exact
    <3> QED
      BY <2>4, <3>1, <3>2
  <2> QED
    BY <1>1, <1>3, <1>5, <2>3, <2>4 DEF SumsOK, At
<1> QED
  BY <1>4, <1>5

\* What a worker writes to an event is not its change.
LEMMA ChangesKept ==
  ASSUME OutboxTypeOK, EventsOK, NEW w \in Workers,
         \/ Claim(w) \/ ReadSnapshot(w) \/ MarkDelivered(w) \/ RetryClaimed(w)
         \/ DropEvent(w)
  PROVE  /\ LastEvent' = LastEvent
         /\ \A i \in 1..LastEvent : events'[i].delta = events[i].delta
<1>1. /\ events \in Seq(EventType)
      /\ \A i \in 1..LastEvent : events[i] \in EventType
      /\ out[w].step # "idle" => Event(w) \in 1..LastEvent
  BY EventsType DEF EventsOK
<1>2. CASE events' = events
  BY <1>2 DEF LastEvent
<1>3. ASSUME NEW i \in 1..LastEvent, NEW e \in EventType,
             e.delta = events[i].delta, events' = [events EXCEPT ![i] = e]
      PROVE  /\ LastEvent' = LastEvent
             /\ \A j \in 1..LastEvent : events'[j].delta = events[j].delta
  <2>1. /\ LastEvent' = LastEvent
        /\ events'[i] = e
        /\ \A j \in 1..LastEvent : j # i => events'[j] = events[j]
    <3>1. events \in Seq(EventType)
      BY <1>1
    <3> QED
      BY <1>3, <3>1, EventEffect, Zenon
  <2>2. ASSUME NEW j \in 1..LastEvent
        PROVE  events'[j].delta = events[j].delta
    <3>1. CASE j = i
      BY <1>3, <2>1, <3>1, Zenon
    <3>2. CASE j # i
      BY <2>1, <3>2, Zenon
    <3> QED
      BY <3>1, <3>2
  <2> QED
    BY <2>1, <2>2, Zenon
<1>4. CASE Claim(w)
  <2>1. PICK i \in 1..LastEvent :
          events' = [events EXCEPT ![i].by = w, ![i].lapsed = FALSE]
    BY <1>4 DEF Claim
  <2> DEFINE e == [events[i] EXCEPT !.by = w, !.lapsed = FALSE]
  <2>2. e \in EventType /\ e.delta = events[i].delta
    BY <1>1 DEF EventType
  <2>3. events' = [events EXCEPT ![i] = e]
    BY <2>1
  <2> HIDE DEF e
  <2> QED
    BY <1>3, <2>2, <2>3
<1>5. CASE MarkDelivered(w) /\ Claimed(w)
  <2> DEFINE i == Event(w)
             e == [events[i] EXCEPT !.delivered = TRUE, !.by = None,
                                    !.lapsed = FALSE]
  <2>1. i \in 1..LastEvent
    BY <1>1, <1>5 DEF MarkDelivered
  <2>2. e \in EventType /\ e.delta = events[i].delta
    BY <1>1, <2>1 DEF EventType
  <2>3. events' = [events EXCEPT ![i] = e]
    BY <1>5 DEF MarkDelivered
  <2> HIDE DEF e, i
  <2> QED
    BY <1>3, <2>1, <2>2, <2>3
<1>6. CASE RetryClaimed(w) /\ Claimed(w)
  <2> DEFINE i == Event(w)
             e == [events[i] EXCEPT !.by = None, !.lapsed = FALSE]
  <2>1. i \in 1..LastEvent
    BY <1>1, <1>6 DEF RetryClaimed
  <2>2. e \in EventType /\ e.delta = events[i].delta
    BY <1>1, <2>1 DEF EventType
  <2>3. events' = [events EXCEPT ![i] = e]
    BY <1>6 DEF RetryClaimed
  <2> HIDE DEF e, i
  <2> QED
    BY <1>3, <2>1, <2>2, <2>3
<1> QED
  BY <1>2, <1>4, <1>5, <1>6
     DEF ReadSnapshot, MarkDelivered, RetryClaimed, DropEvent

\* The steps of a worker that leave the wallet alone.
LEMMA SumsOfWorker ==
  ASSUME IInv, SumsOK, NEW w \in Workers,
         \/ Claim(w) \/ ReadSnapshot(w) \/ MarkDelivered(w) \/ RetryClaimed(w)
         \/ DropEvent(w),
         UNCHANGED <<requestVars, rec>>
  PROVE  SumsOK'
<1>1. OutboxTypeOK /\ EventsOK /\ out \in [Workers -> OutType]
  BY EventsType DEF IInv, TypeOK
<1>2. UNCHANGED <<row, attempt, balance, present, wallet, watermark>>
  BY DEF Claim, ReadSnapshot, MarkDelivered, RetryClaimed, DropEvent, store
<1>3. /\ LastEvent' = LastEvent
      /\ \A i \in 1..LastEvent : events'[i].delta = events[i].delta
  BY <1>1, ChangesKept
<1>4. ASSUME NEW v \in Workers, out'[v].step = "initialize"
      PROVE  \/ out[v].step = "initialize" /\ out'[v].seen = out[v].seen
             \/ ~HasUnsettled /\ out'[v].seen = Snapshot
  <2>1. CASE Claim(w)
    BY <1>1, <1>4, <2>1 DEF Claim, OutType
  <2>2. CASE ReadSnapshot(w)
    BY <1>1, <1>4, <2>2 DEF ReadSnapshot, OutType
  <2>3. CASE GoesIdle(w)
    BY <1>1, <1>4, <2>3, IdleEffect
  <2> QED
    BY <2>1, <2>2, <2>3 DEF MarkDelivered, RetryClaimed, DropEvent
<1> QED
  BY <1>2, <1>3, <1>4, SumsFrame

\* A lease that runs out.
LEMMA SumsOfLapse ==
  ASSUME IInv, SumsOK, NEW i \in 1..LastEvent, Lapse(i),
         UNCHANGED <<requestVars, rec>>
  PROVE  SumsOK'
<1>1. UNCHANGED <<row, attempt, balance, present, wallet, watermark, out>>
  BY DEF Lapse, store
<1>2. events \in Seq(EventType) /\ events[i] \in EventType
  BY EventsType DEF IInv, TypeOK
<1> DEFINE e == [events[i] EXCEPT !.lapsed = TRUE]
<1>3. e \in EventType /\ e.delta = events[i].delta
  BY <1>2 DEF EventType
<1>4. events' = [events EXCEPT ![i] = e]
  BY DEF Lapse
<1> HIDE DEF e
<1>5. /\ LastEvent' = LastEvent
      /\ \A j \in 1..LastEvent : events'[j].delta = events[j].delta
  BY <1>2, <1>3, <1>4, EventEffect
<1> QED
  BY <1>1, <1>5, SumsFrame

\* What is due depends on rows and attempts only.
LEMMA OwedKept ==
  ASSUME IsFiniteSet(Requests), IInv, UNCHANGED <<row, attempt>>
  PROVE  Owed' = Owed /\ Owed \in Int
<1>1. \A q \in Requests : Dues[q] \in Int
  BY DueType DEF IInv, TypeOK, Dues
<1>2. Owed \in Int
  BY <1>1, SumType DEF Owed
<1> QED
  BY <1>2 DEF Owed, Dues, Due, In, Is

\* The wallet takes in the first event it has not been told of.
LEMMA SumsOfAdjust ==
  ASSUME IsFiniteSet(Requests), IInv, IInv', SumsOK,
         NEW w \in Workers, AdjustWallet(w), UNCHANGED <<requestVars, rec>>
  PROVE  SumsOK'
<1> PICK i \in 1..LastEvent : i = Event(w)
  BY DEF AdjustWallet, IInv, EventsOK
<1>1. /\ OutboxTypeOK /\ events \in Seq(EventType) /\ LastEvent \in Nat
      /\ events[i] \in EventType /\ out \in [Workers -> OutType]
      /\ wallet \in Int /\ watermark \in Nat /\ balance \in Int
      /\ i \in Nat
  BY EventsType DEF IInv, TypeOK, OutboxTypeOK, WalletTypeOK
<1>2. /\ UNCHANGED <<row, balance, events, LastEvent>>
      /\ Adjust(i, i - 1, events[i].delta) \/ UNCHANGED store
  BY DEF AdjustWallet, LastEvent
<1>3. attempt' = attempt /\ present' = present
  BY <1>2 DEF Adjust, store
<1>4. \A v \in Workers : out'[v].step = "initialize" =>
        out[v].step = "initialize" /\ out'[v].seen = out[v].seen
  <2>1. \E step \in OutSteps \ {"initialize"} : Goes(w, step)
    BY DEF AdjustWallet, AfterAdjust, OutSteps
  <2> QED
    BY <1>1, <2>1 DEF Goes, OutType
<1>5. CASE UNCHANGED <<wallet, watermark>>
  BY <1>2, <1>3, <1>4, <1>5, SumsFrame
<1>6. CASE ~UNCHANGED <<wallet, watermark>>
  <2>1. /\ present /\ watermark = i - 1
        /\ wallet' = wallet + events[i].delta /\ watermark' = i
    BY <1>2, <1>6 DEF Adjust, AdjustOutcome, store
  <2>2. Owed' = Owed /\ Owed \in Int
    BY <1>2, <1>3, OwedKept
  <2>3. Untold(watermark) = events[i].delta + Untold(i)
    BY <1>1, <2>1, UntoldFirst
  <2>4. Untold(i)' = Untold(i) /\ Untold(i) \in Int
    BY <1>1, <1>2, UntoldKept, UntoldType
  <2>5. Untold(watermark)' = Untold(i)'
    BY <2>1 DEF Untold
  <2>6. wallet = balance - Owed - Untold(watermark)
    BY <2>1 DEF SumsOK
  <2>7. events[i].delta \in Int
    BY <1>1 DEF EventType
  <2>8. wallet' = balance' - Owed' - Untold(watermark)'
    <3>1. balance \in Int /\ balance' = balance
      BY <1>1, <1>2
    <3>2. wallet' = wallet + events[i].delta
      BY <2>1
    <3>3. Untold(watermark)' = Untold(i)
      BY <2>4, <2>5
    <3> QED
      BY <2>2, <2>3, <2>4, <2>6, <2>7, <3>1, <3>2, <3>3
  <2>9. \A q \in Requests : Settling(q)' => Is(q, "finalized")'
    <3>1. pc' = pc /\ rec' = rec
      BY DEF requestVars
    <3> QED
      BY <1>2, <1>3, <2>1, <3>1 DEF SumsOK, Settling, In, At, Recovers, Is
  <2>10. watermark' \in 0..LastEvent'
    BY <1>1, <1>2, <2>1
  <2> QED
    BY <1>3, <2>1, <2>8, <2>9, <2>10 DEF SumsOK
<1> QED
  BY <1>5, <1>6

\* A worker makes the wallet of its snapshot.
LEMMA SumsOfInitialize ==
  ASSUME IsFiniteSet(Requests), IInv, IInv', SumsOK,
         NEW w \in Workers, InitializeWallet(w), UNCHANGED <<requestVars, rec>>
  PROVE  SumsOK'
<1>1. /\ OutboxTypeOK /\ out \in [Workers -> OutType] /\ balance \in Int
      /\ UNCHANGED <<row, balance, events, LastEvent, attempt, pc>>
  BY EventsType DEF IInv, TypeOK, OutboxTypeOK, InitializeWallet, LastEvent,
     Initialize, requestVars
<1>2. \A v \in Workers : out'[v].step = "initialize" =>
        out[v].step = "initialize" /\ out'[v].seen = out[v].seen
  BY <1>1 DEF InitializeWallet, OutType
<1>3. CASE present
  <2>1. wallet' = wallet /\ watermark' = watermark
    BY <1>3 DEF InitializeWallet, Initialize
  <2>2. present' = present
    <3>1. present' = TRUE /\ present = TRUE
      BY <1>3, Zenon DEF InitializeWallet, Initialize, IInv, TypeOK,
         WalletTypeOK
    <3> QED
      BY <3>1
  <2> QED
    BY <1>1, <1>2, <2>1, <2>2, SumsFrame
<1>4. CASE ~present
  <2> PICK s \in Snapshots : s = out[w].seen
    BY <1>1 DEF OutType
  <2>1. Exact(s)
    BY <1>4 DEF SumsOK, InitializeWallet
  <2>2. wallet' = s.balance /\ watermark' = s.at
    BY <1>4 DEF InitializeWallet, Initialize
  <2>3. present'
    BY Zenon DEF InitializeWallet, Initialize
  <2>4. s.at \in Nat /\ s.balance \in Int
    BY DEF Snapshots
  <2>5. Owed = 0 /\ Owed' = Owed
    <3>1. \A q \in Requests : Is(q, "none")
      BY <1>4 DEF SumsOK
    <3> QED
      BY <1>1, <2>1, <3>1, OwedNothing, OwedKept DEF Exact
  <2>6. Untold(s.at)' = Untold(s.at) /\ Untold(s.at) \in Int
    BY <1>1, <2>4, UntoldKept, UntoldType
  <2>7. Untold(watermark)' = Untold(s.at)'
    BY <2>2 DEF Untold
  <2>8. balance = s.balance + Untold(s.at)
    BY <2>1 DEF Exact
  <2>9. wallet' = balance' - Owed' - Untold(watermark)'
    BY <1>1, <2>2, <2>4, <2>5, <2>6, <2>7, <2>8
  <2>10. \A q \in Requests : ~Settling(q)'
    BY <1>1, <2>1 DEF Exact, NothingDue, Settling, In, At, Recovers
  <2>11. watermark' \in 0..LastEvent'
    BY <1>1, <2>1, <2>2 DEF Exact
  <2> QED
    BY <2>3, <2>9, <2>10, <2>11 DEF SumsOK
<1> QED
  BY <1>3, <1>4

\* A change of the balance is an event that the wallet has not been told of.
LEMMA SumsOfChange ==
  ASSUME IsFiniteSet(Requests), IInv, IInv', SumsOK, ChangeBalance,
         UNCHANGED <<requestVars, rec>>
  PROVE  SumsOK'
<1>1. PICK delta \in Deltas :
        /\ balance' = balance + delta
        /\ events' = Append(events, [delta |-> delta, by |-> None,
                                     lapsed |-> FALSE, delivered |-> FALSE])
  BY DEF ChangeBalance
<1> DEFINE e == [delta |-> delta, by |-> None, lapsed |-> FALSE,
                 delivered |-> FALSE]
<1>2. e \in EventType /\ e.delta = delta /\ delta \in Int
  BY OutboxAssumption DEF EventType
<1>3. events' = Append(events, e)
  BY <1>1
<1> HIDE DEF e
<1>4. /\ OutboxTypeOK /\ OutboxTypeOK' /\ events \in Seq(EventType)
      /\ LastEvent \in Nat /\ balance \in Int /\ wallet \in Int
      /\ seen \in [Requests -> Snapshots] /\ out \in [Workers -> OutType]
  BY EventsType DEF IInv, TypeOK, OutboxTypeOK, WalletTypeOK
<1>5. /\ LastEvent' = LastEvent + 1 /\ events'[LastEvent'].delta = delta
      /\ \A j \in 1..LastEvent : events'[j].delta = events[j].delta
  BY <1>2, <1>3, <1>4, AppendEffect
<1>6. UNCHANGED <<row, attempt, present, wallet, watermark, out, pc, seen, rec>>
  BY DEF ChangeBalance, store, requestVars
<1>7. ASSUME NEW at \in 0..LastEvent
      PROVE  Untold(at)' = Untold(at) + delta /\ Untold(at) \in Int
  BY <1>4, <1>5, UntoldMore, UntoldType
<1>8. \A q \in Requests :
        /\ Settling(q)' <=> Settling(q)
        /\ In(q, {"pending"})' <=> In(q, {"pending"})
        /\ \A state : Is(q, state)' <=> Is(q, state)
  BY <1>6 DEF Settling, In, Is, At, Recovers
<1>9. CASE present
  <2>1. Owed' = Owed /\ Owed \in Int
    BY <1>6, OwedKept
  <2> PICK at \in 0..LastEvent : at = watermark
    BY <1>9 DEF SumsOK
  <2>2. Untold(watermark)' = Untold(at)'
    BY <1>6 DEF Untold
  <2>3. wallet = balance - Owed - Untold(at)
    BY <1>9 DEF SumsOK
  <2>4. wallet' = balance' - Owed' - Untold(watermark)'
    BY <1>1, <1>2, <1>4, <1>6, <1>7, <2>1, <2>2, <2>3
  <2>5. watermark' \in 0..LastEvent'
    BY <1>4, <1>5, <1>6
  <2> QED
    BY <1>6, <1>8, <1>9, <2>4, <2>5 DEF SumsOK
<1>10. CASE ~present
  <2>1. ASSUME NEW s \in Snapshots, Exact(s) PROVE Exact(s)'
    <3>1. s.at \in 0..LastEvent /\ s.balance \in Int /\ NothingDue
          /\ balance = s.balance + Untold(s.at)
      BY <2>1 DEF Exact, Snapshots
    <3>2. s.at \in 0..LastEvent'
      BY <1>4, <1>5, <3>1
    <3>3. NothingDue'
      BY <1>8, <3>1 DEF NothingDue
    <3>4. balance' = s.balance + Untold(s.at)'
      BY <1>1, <1>2, <1>7, <3>1
    <3> QED
      BY <3>2, <3>3, <3>4 DEF Exact
  <2>2. ASSUME NEW q \in Requests, At(q, "initialize"), ~seen[q].unsettled
        PROVE  Exact(seen[q])'
    <3>1. seen[q] \in Snapshots /\ Exact(seen[q])
      BY <1>4, <1>10, <2>2 DEF SumsOK
    <3> QED
      BY <1>6, <2>1, <3>1 DEF Exact
  <2>3. ASSUME NEW w \in Workers, out[w].step = "initialize"
        PROVE  Exact(out[w].seen)'
    <3>1. out[w].seen \in Snapshots /\ Exact(out[w].seen)
      BY <1>4, <1>10, <2>3 DEF SumsOK, OutType
    <3> QED
      BY <1>6, <2>1, <3>1 DEF Exact
  <2> QED
    BY <1>6, <1>8, <1>10, <2>2, <2>3 DEF SumsOK, At
<1> QED
  BY <1>9, <1>10

\* A flush moves what was charged to the wallet into the balance.
LEMMA SumsOfFlush ==
  ASSUME IsFiniteSet(Requests), IInv, IInv', SumsOK,
         NEW r \in Requests, Flush(r), UNCHANGED <<requestVars, rec>>
  PROVE  SumsOK'
<1>1. /\ OutboxTypeOK /\ RowsTypeOK /\ balance \in Int /\ wallet \in Int
      /\ watermark \in Nat /\ row[r].amount \in Nat
  BY DEF IInv, TypeOK, OutboxTypeOK, WalletTypeOK, RowsTypeOK, Rows
<1>2. /\ UNCHANGED <<events, LastEvent, attempt, present, wallet, watermark,
                     pc, rec>>
      /\ balance' = balance - row[r].amount
  BY DEF Flush, store, requestVars, LastEvent
<1>3. /\ ThisRowOnly(r)
      /\ row[r].status = "pending" /\ row'[r].status = "applied"
  BY <1>1, ApplyEffect DEF Flush
<1>4. \A q \in Requests \ {r} : Due(q)' = Due(q)
  BY <1>2, <1>3 DEF ThisRowOnly, Due, In, Is
<1>5. Due(r) = row[r].amount /\ Due(r)' = 0
  <2>1. ~Is(r, "held")
    BY <1>3 DEF IInv, LocalOK, AttemptOK, In
  <2> QED
    BY <1>2, <1>3, <2>1 DEF Due, In, Is
<1>6. Owed \in Int /\ Owed' = Owed - row[r].amount
  BY <1>1, <1>4, <1>5, OwedChange
<1>7. \A q \in Requests : Settling(q)' => Settling(q)
  BY <1>2, <1>3 DEF Settling, ThisRowOnly, In, At, Recovers
<1>8. CASE present
  <2> PICK at \in Nat : at = watermark
    BY <1>1
  <2>1. Untold(at)' = Untold(at) /\ Untold(at) \in Int
    BY <1>1, <1>2, UntoldKept, UntoldType
  <2>2. Untold(watermark)' = Untold(at)'
    BY <1>2 DEF Untold
  <2>3. wallet = balance - Owed - Untold(at)
    BY <1>8 DEF SumsOK
  <2>4. wallet' = balance' - Owed' - Untold(watermark)'
    BY <1>1, <1>2, <1>6, <2>1, <2>2, <2>3
  <2> QED
    BY <1>2, <1>7, <1>8, <2>4 DEF SumsOK, Is
<1>9. CASE ~present
  <2>1. \A s : ~Exact(s)
    BY <1>3 DEF Exact, NothingDue, In
  <2>2. UNCHANGED <<seen, out>>
    BY DEF Flush, requestVars
  <2> QED
    BY <1>2, <1>9, <2>1, <2>2 DEF SumsOK, Is, At
<1> QED
  BY <1>8, <1>9

\* A loss of the wallet leaves no snapshot behind.
LEMMA SumsOfLose ==
  ASSUME IInv, ~StaleSnapshots, Lose
  PROVE  SumsOK'
<1>1. ~present'
  <2>1. present' = FALSE
    BY Zenon DEF Lose, LoseWallet
  <2> QED
    BY <2>1, Zenon
<1>2. ~Reads /\ UNCHANGED <<pc, seen, out>>
  BY DEF Lose, outboxVars, requestVars
<1>3. \A q \in Requests : attempt'[q].state = "none"
  BY LoseEffect DEF Lose, IInv, TypeOK
<1> QED
  BY <1>1, <1>2, <1>3 DEF Reads, SumsOK, At, Is

\* At first there is no wallet and no snapshot.
LEMMA SumsInit == Init => SumsOK
<1> SUFFICES ASSUME Init PROVE SumsOK
  OBVIOUS
<1>1. present = FALSE /\ attempt = [r \in Requests |-> NoAttempt]
  BY Zenon DEF Init, WalletInit
<1>2. ~present
  BY <1>1, Zenon
<1>3. \A r \in Requests : ~At(r, "initialize") /\ Is(r, "none")
  BY <1>1 DEF Init, At, Is, NoAttempt
<1>4. \A w \in Workers : out[w].step # "initialize"
  BY DEF Init, OutboxInit
<1> QED
  BY <1>2, <1>3, <1>4 DEF SumsOK

\* Every step keeps the books.
LEMMA NextSums ==
  ASSUME IsFiniteSet(Requests), ~StaleSnapshots,
         IInv, SumsOK, [Next]_vars
  PROVE  SumsOK'
<1>1. IInv'
  BY NextInvariant
<1>2. CASE UNCHANGED vars
  <2>1. UNCHANGED <<row, attempt, requestVars, rec, balance, events, out,
                    present, wallet, watermark>>
    BY <1>2 DEF vars, store, outboxVars
  <2>2. LastEvent' = LastEvent
    BY <2>1 DEF LastEvent
  <2> QED
    BY <2>1, <2>2, SumsFrame
<1>3. ASSUME NEW r \in Requests,
             \/ PrepareRow(r) \/ RequestStep(r)
             \/ TopUpHold(r) \/ Transfer(r) \/ Cancel(r) \/ Abandon(r)
             \/ ExpireRow(r) \/ DropAttempt(r)
             \/ \E c \in Recoverers :
                  List(c, r) \/ Recover(c, r) \/ RecoveryFails(c, r)
      PROVE  SumsOK'
  <2>1. SettlingOK(r)
    BY DEF SumsOK, SettlingOK
  <2>2. CASE AuthorizeHold(r)
    <3>1. CASE WatermarkKept
      <4>1. /\ Orderly(r) /\ SettlesOnlyCharged(r)
            /\ ThisRowOnly(r) /\ ThisAttemptOnly(r)
        BY <1>1, <2>1, <2>2, <3>1, OrderlyAuthorize
      <4>2. UNCHANGED outboxVars
        BY <2>2 DEF AuthorizeHold, others
      <4>3. \A q \in Requests : pc'[q] = "initialize" =>
              pc[q] = "initialize" /\ seen'[q] = seen[q]
        <5>1. pc \in [Requests -> RequestSteps]
              /\ seen \in [Requests -> Snapshots]
          BY DEF IInv, TypeOK
        <5>2. \E step \in RequestSteps \ {"initialize"} : To(r, step)
          BY <2>2 DEF AuthorizeHold, AfterAuthorize, RequestSteps
        <5> QED
          BY <2>2, <5>1, <5>2 DEF AuthorizeHold, To
      <4> QED
        BY <1>1, <3>1, <4>1, <4>2, <4>3, SumsOfRequest
    <3>2. CASE ~WatermarkKept
      BY <1>1, <2>2, <3>2, SumsOfCreation
    <3> QED
      BY <3>1, <3>2
  <2>3. CASE ~AuthorizeHold(r)
    <3>1. MovesOnce(r) /\ SettlesOnlyCharged(r)
      BY <1>3, <2>3, RequestMoves, RecoveryMoves
    <3>2. ThisRowOnly(r) /\ ThisAttemptOnly(r) /\ Orderly(r)
      BY <1>1, <2>1, <3>1, MovesElsewhere, MovesOrderly
    <3>3. WatermarkKept
      BY <1>3, <2>3, RequestStore
    <3>4. /\ UNCHANGED outboxVars
          /\ \A q \in Requests : pc'[q] = "initialize" =>
               \/ pc[q] = "initialize" /\ seen'[q] = seen[q]
               \/ seen'[q] = Snapshot
      BY <1>3, <2>3, RequestSnapshots
    <3> QED
      BY <1>1, <3>1, <3>2, <3>3, <3>4, SumsOfRequest
  <2> QED
    BY <2>2, <2>3
<1>4. CASE OutboxStep
  <2>1. UNCHANGED <<requestVars, rec>>
    BY <1>4 DEF OutboxStep
  <2>2. ASSUME NEW w \in Workers, WorkerStep(w) \/ DropEvent(w) PROVE SumsOK'
    BY <1>1, <2>1, <2>2, SumsOfWorker, SumsOfAdjust, SumsOfInitialize
       DEF WorkerStep
  <2> QED
    BY <1>1, <1>4, <2>1, <2>2, SumsOfChange, SumsOfLapse, SumsOfFlush
       DEF OutboxStep
<1> QED
  BY <1>2, <1>3, <1>4, SumsOfLose DEF Next

\* The sum of what is due is the one that Conserved takes.
LEMMA DuesSummed ==
  ASSUME IsFiniteSet(Requests)
  PROVE  MapThenSumSet(Due, Requests) = Owed
<1> DEFINE E(h) == h = [s \in SUBSET Requests |->
                          IF s = {} THEN 0
                          ELSE Due(CHOOSE x \in s : TRUE)
                               + h[s \ {CHOOSE x \in s : TRUE}]]
           g == Table(Dues, Requests)
           k == CHOOSE h : E(h)
<1>1. IsSum(g, Dues, Requests)
  BY SumExists
<1>2. ASSUME NEW h PROVE IsSum(h, Dues, Requests) <=> E(h)
  <2>1. \A s \in SUBSET Requests : s # {} => Dues[Pick(s)] = Due(Pick(s))
    BY PickIn DEF Dues
  <2>2. [s \in SUBSET Requests |->
           IF s = {} THEN 0 ELSE Dues[Pick(s)] + h[s \ {Pick(s)}]]
        = [s \in SUBSET Requests |->
             IF s = {} THEN 0 ELSE Due(Pick(s)) + h[s \ {Pick(s)}]]
    BY <2>1
  <2>3. E(h) <=> h = [s \in SUBSET Requests |->
                        IF s = {} THEN 0
                        ELSE Due(Pick(s)) + h[s \ {Pick(s)}]]
    BY Zenon DEF Pick
  <2> HIDE DEF E
  <2> QED
    BY Zenon, <2>2, <2>3 DEF IsSum
<1>3. E(k)
  <2>1. E(g)
    BY Zenon, <1>1, <1>2
  <2> HIDE DEF E
  <2> QED
    BY Zenon, <2>1
<1>4. MapThenSumSet(Due, Requests) = k[Requests]
  BY DEF MapThenSumSet, MapThenFoldSet
<1>5. Owed = g[Requests]
  BY DEF Owed, Sum
<1> HIDE DEF k, E, g
<1>6. IsSum(k, Dues, Requests)
  BY Zenon, <1>2, <1>3
<1>7. k[Requests] = g[Requests]
  BY <1>1, <1>6, SumUnique
<1> QED
  BY <1>4, <1>5, <1>7

\* So is the sum of the changes.
LEMMA ChangesSummed ==
  ASSUME OutboxTypeOK, watermark \in Nat
  PROVE  MapThenSumSet(LAMBDA i : events[i].delta, (watermark + 1)..LastEvent)
           = Untold(watermark)
<1> DEFINE Later == (watermark + 1)..LastEvent
           E(h) == h = [s \in SUBSET Later |->
                          IF s = {} THEN 0
                          ELSE events[CHOOSE x \in s : TRUE].delta
                               + h[s \ {CHOOSE x \in s : TRUE}]]
           g == Table(Changes, Later)
           k == CHOOSE h : E(h)
<1>1. IsFiniteSet(Later) /\ Later \subseteq 1..LastEvent
  <2>1. LastEvent \in Nat
    BY EventsType
  <2>2. IsFiniteSet(Later)
    BY <2>1, FS_Interval
  <2>3. Later \subseteq 1..LastEvent
    BY <2>1
  <2> QED
    BY <2>2, <2>3
<1>2. IsSum(g, Changes, Later)
  BY <1>1, SumExists
<1>3. ASSUME NEW h PROVE IsSum(h, Changes, Later) <=> E(h)
  <2> HIDE DEF Later
  <2>1. \A s \in SUBSET Later :
          s # {} => Changes[Pick(s)] = events[Pick(s)].delta
    BY <1>1, PickIn DEF Changes
  <2>2. [s \in SUBSET Later |->
           IF s = {} THEN 0 ELSE Changes[Pick(s)] + h[s \ {Pick(s)}]]
        = [s \in SUBSET Later |->
             IF s = {} THEN 0 ELSE events[Pick(s)].delta + h[s \ {Pick(s)}]]
    BY <2>1
  <2>3. E(h) <=> h = [s \in SUBSET Later |->
                        IF s = {} THEN 0
                        ELSE events[Pick(s)].delta + h[s \ {Pick(s)}]]
    BY Zenon DEF Pick
  <2> HIDE DEF E
  <2> QED
    BY Zenon, <2>2, <2>3 DEF IsSum
<1>4. E(k)
  <2>1. E(g)
    BY Zenon, <1>2, <1>3
  <2> HIDE DEF E
  <2> QED
    BY Zenon, <2>1
<1>5. MapThenSumSet(LAMBDA i : events[i].delta, (watermark + 1)..LastEvent)
        = k[Later]
  BY DEF MapThenSumSet, MapThenFoldSet
<1>6. Untold(watermark) = g[Later]
  BY DEF Untold, Sum
<1> DEFINE M == MapThenSumSet(LAMBDA i : events[i].delta,
                              (watermark + 1)..LastEvent)
<1>7. M = k[Later]
  BY <1>5
<1> HIDE DEF k, E, g, Later, M
<1>8. IsSum(k, Changes, Later)
  BY Zenon, <1>3, <1>4
<1>9. k[Later] = g[Later]
  BY <1>1, <1>2, <1>8, SumUnique
<1>10. M = Untold(watermark)
  BY <1>6, <1>7, <1>9
<1> QED
  BY <1>10 DEF M

\* The wallet is the balance less what it has given out and less the changes
\* it has not been told of (Conserved), for any number of requests, of events
\* and of losses, unless a snapshot may outlive a loss of the wallet.
THEOREM WalletConserved ==
  ASSUME IsFiniteSet(Requests), ~StaleSnapshots
  PROVE  Spec => []Conserved
<1>1. Init => SumsOK
  BY SumsInit
<1>2. IInv /\ SumsOK /\ [Next]_vars => SumsOK'
  BY NextSums
<1>3. IInv /\ SumsOK => Conserved
  <2> SUFFICES ASSUME IInv, SumsOK, present
               PROVE  wallet = balance - MapThenSumSet(Due, Requests)
                        - MapThenSumSet(LAMBDA i : events[i].delta,
                                        (watermark + 1)..LastEvent)
    BY DEF Conserved
  <2>1. OutboxTypeOK /\ watermark \in Nat
    BY DEF IInv, TypeOK, WalletTypeOK
  <2>2. wallet = balance - Owed - Untold(watermark)
    BY DEF SumsOK
  <2>3. MapThenSumSet(Due, Requests) = Owed
    BY DuesSummed
  <2>4. MapThenSumSet(LAMBDA i : events[i].delta, (watermark + 1)..LastEvent)
          = Untold(watermark)
    BY <2>1, ChangesSummed
  <2> QED
    BY <2>2, <2>3, <2>4
<1> QED
  BY <1>1, <1>2, <1>3, InvariantHolds, PTL DEF Spec
=============================================================================
