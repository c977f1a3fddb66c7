---------------------------- MODULE BalanceOutbox ----------------------------
(* The user's balance in PostgreSQL, the outbox of its changes that the       *)
(* trigger of users.balance fills, and the workers that deliver them to the   *)
(* wallet: each event is claimed under a lease, applied at the watermark of   *)
(* its predecessor and acknowledged; a missing wallet is first initialised    *)
(* from a snapshot. Usage that the wallet was already charged for             *)
(* (SettlementRow) is settled without an event.                               *)
EXTENDS SettlementRow, Sequences

CONSTANTS
    Workers,     \* outbox workers, of all instances
    Balances,    \* balances the user may start with
    Deltas,      \* changes other than preauthorised usage
    MaxEvents,   \* bound on these changes
    MaxFaults,   \* bound on crashes, failed calls and overrun leases
    MaxLosses,   \* bound on losses of the wallet
    StaleSnapshots  \* whether a snapshot may outlive a loss of the wallet

ASSUME OutboxAssumption ==
    /\ Balances \subseteq Int
    /\ Deltas \subseteq Int \ {0}
    /\ {MaxEvents, MaxFaults, MaxLosses} \subseteq Nat
    /\ StaleSnapshots \in BOOLEAN

VARIABLES
    balance,   \* users.balance
    events,    \* live_balance_adjustment_outbox of the user, by position in
               \* its chain: change, claimed_by, delivered_at, lease lapsed
    out,       \* what each worker is about to do, to which event
    faults, losses

None == "none"

Fault == faults < MaxFaults /\ faults' = faults + 1
NoFault == UNCHANGED faults

outboxVars == <<balance, events, out>>

LastEvent == Len(events)

OutSteps == {"idle", "adjust", "snapshot", "initialize", "replay", "ack",
             "retry"}

Snapshots == [balance : Int, at : Nat, unsettled : BOOLEAN]
Unread == [balance |-> 0, at |-> 0, unsettled |-> FALSE]

(* LoadLiveBalanceInitializationSnapshot: one statement.                      *)
Snapshot == [balance |-> balance, at |-> LastEvent, unsettled |-> HasUnsettled]

OutboxTypeOK ==
    /\ balance \in Int
    /\ events \in Seq([delta : Int, by : Workers \cup {None},
                       lapsed : BOOLEAN, delivered : BOOLEAN])
    /\ out \in [Workers -> [step : OutSteps, event : Nat, seen : Snapshots]]
    /\ faults \in 0..MaxFaults
    /\ losses \in 0..MaxLosses

OutboxInit ==
    /\ balance \in Balances
    /\ events = <<>>
    /\ out = [w \in Workers |-> [step |-> "idle", event |-> 0, seen |-> Unread]]
    /\ faults = 0
    /\ losses = 0

Goes(w, step) == out' = [out EXCEPT ![w].step = step]
GoesIdle(w) ==
    out' = [out EXCEPT ![w] = [step |-> "idle", event |-> 0, seen |-> Unread]]

Event(w) == out[w].event

-----------------------------------------------------------------------------
(* Any statement that changes users.balance: payment, refund, redemption,     *)
(* usage without a hold. The trigger appends the event in the same            *)
(* transaction, under the lock of the user's head row.                        *)
ChangeBalance ==
    /\ LastEvent < MaxEvents
    /\ \E delta \in Deltas :
        /\ balance' = balance + delta
        /\ events' = Append(events, [delta |-> delta, by |-> None,
                                     lapsed |-> FALSE, delivered |-> FALSE])
    /\ UNCHANGED <<store, row, out, faults, losses>>

(* Only the oldest undelivered event of a user can be claimed, if nobody has  *)
(* it or the lease of whoever has it is over.                                 *)
Oldest(i) ==
    /\ ~events[i].delivered
    /\ \A j \in 1..(i - 1) : events[j].delivered

\* Variant for testing: a lease that ran out is not taken over.
FreeUnclaimed(i) == events[i].by = None

Free(i) == events[i].by = None \/ events[i].lapsed

Claim(w) ==
    /\ out[w].step = "idle"
    /\ \E i \in 1..LastEvent :
        /\ Oldest(i) /\ Free(i)
        /\ events' = [events EXCEPT ![i].by = w, ![i].lapsed = FALSE]
        /\ out' = [out EXCEPT ![w].step = "adjust", ![w].event = i]
    /\ UNCHANGED <<store, row, balance, faults, losses>>

Works(w, i) == out[w].step # "idle" /\ Event(w) = i

(* The lease of an event runs out. That its holder is still at work on it     *)
(* counts as a fault: the calls time out long before.                         *)
Lapse(i) ==
    /\ i \in 1..LastEvent
    /\ events[i].by # None /\ ~events[i].lapsed
    /\ IF Works(events[i].by, i) THEN Fault ELSE NoFault
    /\ events' = [events EXCEPT ![i].lapsed = TRUE]
    /\ UNCHANGED <<store, row, balance, out, losses>>

\* Variant for testing: a wallet that is not there counts as adjusted.
AfterAdjustLenient(w, outcome) ==
    IF outcome = "conflict" THEN "retry" ELSE "ack"

AfterAdjust(w, outcome) ==
    CASE outcome \in {"applied", "idempotent"} -> "ack"
      [] outcome = "notfound" /\ out[w].step = "adjust" -> "snapshot"
      [] OTHER -> "retry"

(* ApplyExternalBalanceOutboxAdjustment, and its replay after a recovery. A   *)
(* call that fails may have taken effect.                                     *)
AdjustWallet(w) ==
    LET i == Event(w) IN
    /\ out[w].step \in {"adjust", "replay"}
    /\ \/ /\ Adjust(i, i - 1, events[i].delta)
          /\ Goes(w, AfterAdjust(w, AdjustOutcome(i, i - 1)))
          /\ NoFault
       \/ /\ Adjust(i, i - 1, events[i].delta) \/ UNCHANGED store
          /\ Goes(w, "retry")
          /\ Fault
    /\ UNCHANGED <<row, balance, events, losses>>

ReadSnapshot(w) ==
    /\ out[w].step = "snapshot"
    /\ out' = [out EXCEPT ![w].seen = Snapshot,
                          ![w].step = IF HasUnsettled THEN "retry"
                                                      ELSE "initialize"]
    /\ UNCHANGED <<store, row, balance, events, faults, losses>>

InitializeWallet(w) ==
    /\ out[w].step = "initialize"
    /\ Initialize(out[w].seen.balance, out[w].seen.at)
    /\ out' = [out EXCEPT ![w].step = "replay", ![w].seen = Unread]
    /\ UNCHANGED <<row, balance, events, faults, losses>>

Claimed(w) == events[Event(w)].by = w /\ ~events[Event(w)].delivered

MarkDelivered(w) ==
    /\ out[w].step = "ack"
    /\ events' = IF Claimed(w)
                 THEN [events EXCEPT ![Event(w)].delivered = TRUE,
                                     ![Event(w)].by = None,
                                     ![Event(w)].lapsed = FALSE]
                 ELSE events
    /\ GoesIdle(w)
    /\ UNCHANGED <<store, row, balance, faults, losses>>

RetryClaimed(w) ==
    /\ out[w].step = "retry"
    /\ events' = IF Claimed(w)
                 THEN [events EXCEPT ![Event(w)].by = None,
                                     ![Event(w)].lapsed = FALSE]
                 ELSE events
    /\ GoesIdle(w)
    /\ UNCHANGED <<store, row, balance, faults, losses>>

(* The worker dies, or the statement that ends its work fails.                *)
DropEvent(w) ==
    /\ out[w].step # "idle"
    /\ Fault
    /\ GoesIdle(w)
    /\ UNCHANGED <<store, row, balance, events, losses>>

WorkerStep(w) ==
    \/ Claim(w)
    \/ AdjustWallet(w)
    \/ ReadSnapshot(w)
    \/ InitializeWallet(w)
    \/ MarkDelivered(w)
    \/ RetryClaimed(w)

-----------------------------------------------------------------------------
\* Variant for testing: the trigger is left on.
FlushWithEvent(r) ==
    /\ ApplyRow(r)
    /\ balance' = balance - row[r].amount
    /\ events' = Append(events, [delta |-> -row[r].amount, by |-> None,
                                 lapsed |-> FALSE, delivered |-> FALSE])
    /\ UNCHANGED <<store, out, faults, losses>>

(* FlushPendingBalanceSettlements: a batch is one transaction; one row of it  *)
(* here, since the rows of a user commute and leave HasUnsettled true until   *)
(* the last. The transaction tells the trigger to skip the outbox.            *)
Flush(r) ==
    /\ ApplyRow(r)
    /\ balance' = balance - row[r].amount
    /\ UNCHANGED events
    /\ UNCHANGED <<store, out, faults, losses>>
=============================================================================
