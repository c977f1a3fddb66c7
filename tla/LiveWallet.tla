----------------------------- MODULE LiveWallet ------------------------------
(* Requests that are paid from the live wallet of one user. A request writes  *)
(* its settlement row, takes a hold from the wallet, is served, and settles   *)
(* what it used; a failed one gives the hold back. Recovery workers finish    *)
(* the rows that requests left behind, and a flush moves what was charged to  *)
(* the wallet into users.balance. Wallet (Redis) and rows (PostgreSQL) have   *)
(* no common transaction: an action is one script or one statement.           *)
EXTENDS BalanceOutbox, FiniteSetsExt

CONSTANTS
    TopUpTarget,  \* the hold a long stream asks for
    Costs,        \* what a served request may turn out to cost
    Recoverers    \* recovery goroutines, of all instances

ASSUME WalletAssumption == TopUpTarget \in Nat /\ Costs \subseteq Nat

VARIABLES
    pc,     \* the next call of each request
    seen,   \* the snapshot it has read
    cost,   \* what it used, once it is known
    rec     \* what each recovery goroutine does, with its copy of the row

requestVars == <<pc, seen, cost>>
vars == <<store, row, outboxVars, faults, losses, requestVars, rec>>

Unknown == -1

RequestSteps ==
    {"idle", "authorize", "snapshot", "initialize", "mark", "serving",
     "advance", "use", "begin", "settle", "completeSettlement", "cancel",
     "release", "undo", "undoBegun", "undoBlind", "completeRefund", "done"}

RecoverySteps ==
    {"idle", "recover", "advance", "begin", "settle", "completeSettlement",
     "refund", "completeRefund"}

Idle == [step |-> "idle", copy |-> NoRow]

TypeOK ==
    /\ WalletTypeOK /\ RowsTypeOK /\ OutboxTypeOK
    /\ pc \in [Requests -> RequestSteps]
    /\ seen \in [Requests -> Snapshots]
    /\ cost \in [Requests -> Nat \cup {Unknown}]
    /\ rec \in [Recoverers -> [Requests -> [step : RecoverySteps, copy : Rows]]]

Init ==
    /\ WalletInit /\ RowsInit /\ OutboxInit
    /\ pc = [r \in Requests |-> "idle"]
    /\ seen = [r \in Requests |-> Unread]
    /\ cost = [r \in Requests |-> Unknown]
    /\ rec = [c \in Recoverers |-> [r \in Requests |-> Idle]]

To(r, step) == pc' = [pc EXCEPT ![r] = step]
At(r, step) == pc[r] = step

others == <<outboxVars, losses, rec>>

-----------------------------------------------------------------------------
(* Preauthorize. A call that fails may have taken effect; where its failure   *)
(* only ends the request, Abandon stands for it.                              *)

PrepareRow(r) ==
    /\ At(r, "idle")
    /\ Prepare(r)
    /\ To(r, "authorize")
    /\ UNCHANGED <<store, seen, cost, faults, others>>

AfterAuthorize(r, outcome) ==
    CASE outcome \in {"applied", "idempotent"} /\ attempt'[r].state = "held"
            -> "mark"
      [] At(r, "authorize") /\ outcome = "notfound" -> "snapshot"
      [] OTHER -> "undo"

\* Variant for testing: the unsettled rows are not looked at.
AllowedAlways(r) == At(r, "initialize")

(* AuthorizeExistingLiveBalance never creates a wallet; the second call may,  *)
(* from the snapshot, unless it saw unsettled rows.                           *)
Allowed(r) == At(r, "initialize") /\ ~seen[r].unsettled

AuthorizeHold(r) ==
    LET hold == row[r].hold IN
    /\ pc[r] \in {"authorize", "initialize"}
    /\ \/ /\ Authorize(r, hold, seen[r].balance, seen[r].at, Allowed(r))
          /\ To(r, AfterAuthorize(r, AuthorizeOutcome(r, hold, seen[r].balance,
                                                      Allowed(r))))
          /\ NoFault
       \/ /\ \/ Authorize(r, hold, seen[r].balance, seen[r].at, Allowed(r))
             \/ UNCHANGED store
          /\ To(r, "undo")
          /\ Fault
    /\ seen' = [seen EXCEPT ![r] = Unread]
    /\ UNCHANGED <<row, cost, others>>

LoadSnapshot(r) ==
    /\ At(r, "snapshot")
    /\ \/ seen' = [seen EXCEPT ![r] = Snapshot] /\ To(r, "initialize") /\ NoFault
       \/ UNCHANGED seen /\ To(r, "undo") /\ Fault
    /\ UNCHANGED <<store, row, cost, others>>

MarkAuthorized(r) ==
    /\ At(r, "mark")
    /\ \/ Mark(r) /\ To(r, IF MarkFinds(r) THEN "serving" ELSE "undo") /\ NoFault
       \/ (Mark(r) \/ UNCHANGED row) /\ To(r, "undo") /\ Fault
    /\ UNCHANGED <<store, seen, cost, others>>

(* compensateAuthorizationFailure: the wallet is refunded even when the row   *)
(* could not be given its verdict.                                            *)
UndoRow(r) ==
    /\ At(r, "undo")
    /\ \/ /\ BeginRefund(r) /\ NoFault
          /\ To(r, IF BeginRefundFinds(r) THEN "undoBegun" ELSE "undoBlind")
       \/ (BeginRefund(r) \/ UNCHANGED row) /\ To(r, "undoBlind") /\ Fault
    /\ UNCHANGED <<store, seen, cost, others>>

\* Variant for testing: only the row is undone.
UndoHoldRowOnly(r) ==
    /\ pc[r] \in {"undoBegun", "undoBlind"}
    /\ To(r, IF At(r, "undoBegun") THEN "completeRefund" ELSE "done")
    /\ UNCHANGED <<store, row, seen, cost, faults, others>>

UndoHold(r) ==
    /\ pc[r] \in {"undoBegun", "undoBlind"}
    /\ Refund(r)
    /\ To(r, IF At(r, "undoBegun") /\ (Is(r, "none") \/ RefundSucceeds(r))
             THEN "completeRefund" ELSE "done")
    /\ UNCHANGED <<row, seen, cost, faults, others>>

-----------------------------------------------------------------------------
(* The guard of a request that is being served. A top-up that fails stops the *)
(* stream; what was sent is settled all the same.                             *)

TopUpHold(r) ==
    /\ At(r, "serving")
    /\ TopUp(r, TopUpTarget)
    /\ TopUpOutcome(r, TopUpTarget) = "applied"
    /\ To(r, "advance")
    /\ UNCHANGED <<row, seen, cost, faults, others>>

AdvanceHold(r) ==
    /\ At(r, "advance")
    /\ \/ Advance(r, TopUpTarget) /\ NoFault
       \/ UNCHANGED row /\ Fault
    /\ To(r, "serving")
    /\ UNCHANGED <<store, seen, cost, others>>

(* The usage task takes the guard over with what the provider reported ...    *)
Transfer(r) ==
    /\ At(r, "serving")
    /\ \E c \in Costs : cost' = [cost EXCEPT ![r] = c]
    /\ To(r, "use")
    /\ UNCHANGED <<store, row, seen, faults, others>>

(* ... or the handler keeps it and its deferred Refund gives the hold back.   *)
Cancel(r) ==
    /\ At(r, "serving")
    /\ To(r, "cancel")
    /\ UNCHANGED <<store, row, seen, cost, faults, others>>

(* Apply fixes the charge in the transaction of the usage record; whatever    *)
(* it answers, Finalize follows.                                              *)
ApplyUsage(r) ==
    /\ At(r, "use")
    /\ \/ Decide(r, cost[r], "usage") /\ NoFault
       \/ UNCHANGED row /\ Fault
    /\ To(r, "begin")
    /\ UNCHANGED <<store, seen, cost, others>>

BeginSettlement(r) ==
    /\ At(r, "begin")
    /\ BeginFinalization(r, cost[r], "usage")
    /\ To(r, IF BeginFinds(r, cost[r], "usage") THEN "settle" ELSE "done")
    /\ UNCHANGED <<store, seen, cost, faults, others>>

SettleHold(r) ==
    /\ At(r, "settle")
    /\ IF cost[r] = 0
       THEN Refund(r) /\ To(r, IF RefundSucceeds(r) THEN "completeRefund"
                                                    ELSE "done")
       ELSE /\ Finalize(r, cost[r])
            /\ To(r, IF FinalizeSucceeds(r, cost[r]) THEN "completeSettlement"
                                                     ELSE "done")
    /\ UNCHANGED <<row, seen, cost, faults, others>>

FinishSettlement(r) ==
    /\ At(r, "completeSettlement")
    /\ CompleteSettlement(r)
    /\ To(r, "done")
    /\ UNCHANGED <<store, seen, cost, faults, others>>

(* Guard.Refund stops at the first call that fails.                           *)
CancelRow(r) ==
    /\ At(r, "cancel")
    /\ BeginRefund(r)
    /\ To(r, IF BeginRefundFinds(r) THEN "release" ELSE "done")
    /\ UNCHANGED <<store, seen, cost, faults, others>>

ReleaseHold(r) ==
    /\ At(r, "release")
    /\ Refund(r)
    /\ To(r, IF RefundSucceeds(r) THEN "completeRefund" ELSE "done")
    /\ UNCHANGED <<row, seen, cost, faults, others>>

FinishRefund(r) ==
    /\ At(r, "completeRefund")
    /\ CompleteRefund(r)
    /\ To(r, "done")
    /\ UNCHANGED <<store, seen, cost, faults, others>>

(* The process dies, the usage queue drops the task, or the call that failed  *)
(* ends the request.                                                          *)
Abandon(r) ==
    /\ pc[r] \notin {"idle", "done"}
    /\ Fault
    /\ To(r, "done")
    /\ seen' = [seen EXCEPT ![r] = Unread]
    /\ UNCHANGED <<store, row, cost, others>>

RequestStep(r) ==
    \/ AuthorizeHold(r) \/ LoadSnapshot(r) \/ MarkAuthorized(r)
    \/ UndoRow(r) \/ UndoHold(r)
    \/ AdvanceHold(r)
    \/ ApplyUsage(r) \/ BeginSettlement(r) \/ SettleHold(r)
    \/ FinishSettlement(r)
    \/ CancelRow(r) \/ ReleaseHold(r) \/ FinishRefund(r)

-----------------------------------------------------------------------------
(* RecoverBalancePreauthorization works on a copy of the row; FOR UPDATE SKIP *)
(* LOCKED ends with the SELECT, so several goroutines may hold copies.        *)

Copy(c, r) == rec[c][r].copy
Steps(c, r, step) == rec' = [rec EXCEPT ![c][r].step = step]
Stops(c, r) == rec' = [rec EXCEPT ![c][r] = Idle]
Recovers(c, r, step) == rec[c][r].step = step

idleOthers == <<outboxVars, losses, requestVars>>

(* A finalizing row is taken when it is 30 s old, which any of them may be.   *)
List(c, r) ==
    /\ Recovers(c, r, "idle")
    /\ ExpiredBefore(r) \/ In(r, {"finalizing"})
    /\ rec' = [rec EXCEPT ![c][r] = [step |-> "recover", copy |-> row[r]]]
    /\ UNCHANGED <<store, row, faults, idleOthers>>

\* Variant for testing: every overdue row is refunded.
RecoverPreparedAny(c, r) ==
    /\ Recovers(c, r, "recover") /\ Copy(c, r).status # "finalizing"
    /\ BeginRefund(r)
    /\ IF BeginRefundFinds(r) THEN Steps(c, r, "refund") ELSE Stops(c, r)
    /\ UNCHANGED <<store, faults, idleOthers>>

RecoverPrepared(c, r) ==
    /\ Recovers(c, r, "recover") /\ Copy(c, r).status = "prepared"
    /\ BeginRefund(r)
    /\ IF BeginRefundFinds(r) THEN Steps(c, r, "refund") ELSE Stops(c, r)
    /\ UNCHANGED <<store, faults, idleOthers>>

(* reconcileAuthorizedBalancePreauthorizationHold: an attempt that is not     *)
(* there leaves the recorded hold, one that is over stops the recovery.       *)
RecoverAuthorized(c, r) ==
    /\ Recovers(c, r, "recover") /\ Copy(c, r).status = "authorized"
    /\ CASE Is(r, "none") -> Steps(c, r, "begin")
         [] Is(r, "held") /\ present /\ attempt[r].reserved >= Copy(c, r).hold ->
               rec' = [rec EXCEPT ![c][r] =
                         [step |-> "advance",
                          copy |-> [@.copy EXCEPT !.hold = attempt[r].reserved]]]
         [] OTHER -> Stops(c, r)
    /\ UNCHANGED <<store, row, faults, idleOthers>>

RecoverAdvance(c, r) ==
    /\ Recovers(c, r, "advance")
    /\ Advance(r, Copy(c, r).hold)
    /\ IF AdvanceFinds(r) THEN Steps(c, r, "begin") ELSE Stops(c, r)
    /\ UNCHANGED <<store, faults, idleOthers>>

(* The hold is charged in full: what was used is not known.                   *)
RecoverBegin(c, r) ==
    /\ Recovers(c, r, "begin")
    /\ BeginFinalization(r, Copy(c, r).hold, "recovery")
    /\ IF BeginFinds(r, Copy(c, r).hold, "recovery")
       THEN rec' = [rec EXCEPT ![c][r] =
                      [step |-> "settle",
                       copy |-> [@.copy EXCEPT !.amount = Copy(c, r).hold]]]
       ELSE Stops(c, r)
    /\ UNCHANGED <<store, faults, idleOthers>>

RecoverFinalizing(c, r) ==
    /\ Recovers(c, r, "recover") /\ Copy(c, r).status = "finalizing"
    /\ Steps(c, r, IF Copy(c, r).amount = 0 THEN "refund" ELSE "settle")
    /\ UNCHANGED <<store, row, faults, idleOthers>>

RecoverSettle(c, r) ==
    /\ Recovers(c, r, "settle")
    /\ Finalize(r, Copy(c, r).amount)
    /\ IF FinalizeSucceeds(r, Copy(c, r).amount)
       THEN Steps(c, r, "completeSettlement") ELSE Stops(c, r)
    /\ UNCHANGED <<row, faults, idleOthers>>

RecoverCompleteSettlement(c, r) ==
    /\ Recovers(c, r, "completeSettlement")
    /\ CompleteSettlement(r)
    /\ Stops(c, r)
    /\ UNCHANGED <<store, faults, idleOthers>>

\* Variant for testing: an attempt that is not there is left for ever.
RecoverRefundFound(c, r) ==
    /\ Recovers(c, r, "refund")
    /\ Refund(r)
    /\ IF RefundSucceeds(r) THEN Steps(c, r, "completeRefund") ELSE Stops(c, r)
    /\ UNCHANGED <<row, faults, idleOthers>>

(* An attempt that is not there never was, or went with the wallet.           *)
RecoverRefund(c, r) ==
    /\ Recovers(c, r, "refund")
    /\ Refund(r)
    /\ IF Is(r, "none") \/ RefundSucceeds(r)
       THEN Steps(c, r, "completeRefund") ELSE Stops(c, r)
    /\ UNCHANGED <<row, faults, idleOthers>>

RecoverCompleteRefund(c, r) ==
    /\ Recovers(c, r, "completeRefund")
    /\ CompleteRefund(r)
    /\ Stops(c, r)
    /\ UNCHANGED <<store, faults, idleOthers>>

RecoveryFails(c, r) ==
    /\ ~Recovers(c, r, "idle")
    /\ Fault
    /\ Stops(c, r)
    /\ UNCHANGED <<store, row, idleOthers>>

Recover(c, r) ==
    \/ RecoverPrepared(c, r) \/ RecoverAuthorized(c, r)
    \/ RecoverAdvance(c, r) \/ RecoverBegin(c, r)
    \/ RecoverFinalizing(c, r)
    \/ RecoverSettle(c, r) \/ RecoverCompleteSettlement(c, r)
    \/ RecoverRefund(c, r) \/ RecoverCompleteRefund(c, r)

-----------------------------------------------------------------------------
(* Six hours pass. The calls before a request is served, and those after a    *)
(* failure there, take seconds.                                               *)
Prompt == {"authorize", "snapshot", "initialize", "mark", "undo", "undoBegun",
           "undoBlind"}

ExpireRow(r) ==
    /\ In(r, {"prepared", "authorized"}) /\ ~row[r].expired
    /\ pc[r] \notin Prompt
    /\ Expire(r)
    /\ UNCHANGED <<store, faults, others, requestVars>>

(* Fifteen minutes pass after an attempt ended. Recovery runs every two       *)
(* seconds on finalizing rows, so none is left behind for that long.          *)
DropAttempt(r) ==
    /\ ~In(r, {"finalizing"})
    /\ DropMarker(r)
    /\ UNCHANGED <<row, faults, others, requestVars>>

Reads == \/ \E r \in Requests : At(r, "initialize")
         \/ \E w \in Workers : out[w].step = "initialize"

Lose ==
    /\ losses < MaxLosses
    /\ StaleSnapshots \/ ~Reads
    /\ LoseWallet
    /\ losses' = losses + 1
    /\ UNCHANGED <<row, outboxVars, faults, requestVars, rec>>

OutboxStep ==
    /\ \/ ChangeBalance
       \/ \E i \in 1..LastEvent : Lapse(i)
       \/ \E w \in Workers : WorkerStep(w) \/ DropEvent(w)
       \/ \E r \in Requests : Flush(r)
    /\ UNCHANGED <<requestVars, rec>>

Next ==
    \/ \E r \in Requests :
        \/ PrepareRow(r) \/ RequestStep(r)
        \/ TopUpHold(r) \/ Transfer(r) \/ Cancel(r) \/ Abandon(r)
        \/ ExpireRow(r) \/ DropAttempt(r)
        \/ \E c \in Recoverers : List(c, r) \/ Recover(c, r) \/ RecoveryFails(c, r)
    \/ OutboxStep
    \/ Lose

Spec == Init /\ [][Next]_vars

(* Goroutines go on and their calls return; the pollers of recovery, flush    *)
(* and outbox come back to every row and event; time passes. Users owe        *)
(* nothing, and a provider need not answer.                                   *)
Fairness ==
    /\ \A r \in Requests :
        /\ WF_vars(RequestStep(r))
        /\ WF_vars(ExpireRow(r))
        /\ WF_vars(Flush(r) /\ UNCHANGED <<requestVars, rec>>)
        /\ \A c \in Recoverers : SF_vars(List(c, r)) /\ WF_vars(Recover(c, r))
    /\ \A w \in Workers :
        WF_vars(WorkerStep(w) /\ UNCHANGED <<requestVars, rec>>)
    /\ \A i \in 1..MaxEvents :
        WF_vars(Lapse(i) /\ ~Works(events[i].by, i)
                         /\ UNCHANGED <<requestVars, rec>>)

FairSpec == Spec /\ Fairness

-----------------------------------------------------------------------------
(* What the wallet has given out and the balance does not know yet.           *)
Due(r) ==
    CASE In(r, {"pending"}) -> row[r].amount
      [] ~In(r, {"pending"}) /\ Is(r, "held") -> attempt[r].reserved
      [] In(r, {"finalizing"}) /\ Is(r, "finalized") -> attempt[r].actual
      [] OTHER -> 0

(* The wallet is the balance less what requests hold or were charged without  *)
(* the balance knowing, and less the changes it has not been told of.         *)
Conserved ==
    present => wallet = balance - MapThenSumSet(Due, Requests)
                      - MapThenSumSet(LAMBDA i : events[i].delta,
                                      (watermark + 1)..LastEvent)

(* The request and the recovery of its expired row may both settle it: Redis  *)
(* and PostgreSQL keep the same amount.                                       *)
SameAmountInBothStores ==
    \A r \in Requests : Is(r, "finalized") =>
        /\ In(r, {"finalizing", "pending", "applied"})
        /\ attempt[r].actual = row[r].amount

(* A row that is settled or refunded has left no hold in the wallet.          *)
NothingHeldAtTheEnd ==
    \A r \in Requests :
        In(r, {"pending", "applied", "refunded"}) => ~Is(r, "held")

(* A request whose use is known to cost something is never given back: crash, *)
(* expiry and recovery charge its use or its hold (the recovery worker's      *)
(* comment: refunding would turn the crash window into a free call).          *)
ServedIsCharged ==
    \A r \in Requests : cost[r] > 0 =>
        /\ ~In(r, {"refunded"})
        /\ In(r, {"finalizing", "pending", "applied"}) => row[r].amount > 0

(* Whoever decides what a request pays decides it for good.                   *)
VerdictIsFinal ==
    [][\A r \in Requests :
        In(r, {"finalizing", "pending", "applied", "refunded"}) =>
            row'[r].amount = row[r].amount]_vars

(* The wallet takes in every change once and in the order of the chain, for   *)
(* as long as it exists; an event is acknowledged only when it is included.   *)
InOrder ==
    [][watermark' # watermark /\ present /\ present' =>
          /\ watermark' = watermark + 1
          /\ wallet' = wallet + events[watermark'].delta]_vars

AcknowledgedIsIncluded ==
    present => \A i \in 1..LastEvent : events[i].delivered => i <= watermark

(* The account that the wallet promises.                                      *)
Decided(r) == In(r, {"finalizing", "pending", "applied", "refunded"})

Account == INSTANCE PrepaidAccount WITH
    used <- cost,
    verdict <- [r \in Requests |-> IF Decided(r) THEN row[r].amount ELSE Unknown],
    settled <- {r \in Requests : In(r, {"applied"})}

KeepsAccount == Account!Spec

(* Every row that a request opened is settled or refunded in the end.         *)
SettlementEnds ==
    \A r \in Requests :
        ~In(r, {"none"}) ~> In(r, {"applied", "refunded"})

(* Every change of the balance reaches the wallet.                            *)
EventsAreDelivered ==
    \A i \in 1..MaxEvents :
        i <= LastEvent ~> (i <= LastEvent /\ events[i].delivered)
=============================================================================
