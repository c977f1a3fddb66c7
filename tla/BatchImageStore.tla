-------------------------- MODULE BatchImageStore --------------------------
(***************************************************************************)
(* What the parts of the batch image pipeline share about one job: its row *)
(* in PostgreSQL, the balance of its user with the claims that make every  *)
(* movement of the hold happen once, and the queue in Redis.  The queue    *)
(* scripts and the statements of the repositories are operators from the   *)
(* old record to the new one.                                              *)
(***************************************************************************)
EXTENDS Integers

CONSTANTS
    Hold,         \* the amount a job freezes
    Costs,        \* what its images may turn out to cost
    Balances,     \* what the user may own when the job is submitted
    Frozen,       \* what other jobs of the user may have frozen
    MaxRetries    \* batchImageSettlementMaxRetries

\* A group's hold multiplier is never below its discount: no cost exceeds the hold.
ASSUME BatchAssumption ==
    /\ Hold \in Nat \ {0} /\ Costs \subseteq 0..Hold
    /\ Balances \subseteq Nat /\ Frozen \subseteq Nat
    /\ MaxRetries \in Nat \ {0}

-----------------------------------------------------------------------------
(* The row of the job.  stale: updated_at is older than the recovery's cutoff. *)

Allowed == [created   |-> {"uploading", "submitted", "cancelled"},
            uploading |-> {"submitted", "cancelled"},
            submitted |-> {"running", "indexing", "cancelled"},
            running   |-> {"running", "indexing", "cancelled"},
            indexing  |-> {"settling"},
            settling  |-> {"completed"}]

Open        == DOMAIN Allowed
Unsubmitted == {"created", "uploading"}
Given       == {"failed", "cancelled"}
Terminal    == {"completed"} \cup Given

CanTransition(j, to) ==
    j.status \in Open /\ (to = "failed" \/ to \in Allowed[j.status])

Jobs == [status : {"none"} \cup Open \cup Terminal,
         named : BOOLEAN,           \* the provider's job name is stored
         code : {"", "QUEUE_FAILED", "SETTLEMENT", "OTHER"},
         retries : 0..MaxRetries,
         cost : Costs \cup {0},     \* of the images indexed
         stale : BOOLEAN,
         hidden : BOOLEAN]          \* the user does not see it any more

NoJob == [status |-> "none", named |-> FALSE, code |-> "", retries |-> 0,
          cost |-> 0, stale |-> FALSE, hidden |-> FALSE]

Moved(j, to) ==
    [j EXCEPT !.status = to, !.stale = FALSE,
              !.code = IF to = "failed" THEN "OTHER" ELSE @]

Submitted(j) == [j EXCEPT !.status = "submitted", !.named = TRUE, !.stale = FALSE]

\* By id alone, whatever the status is.
SubmitFailed(j) == [j EXCEPT !.status = "failed", !.code = "OTHER", !.stale = FALSE]
QueueFailed(j)  == [j EXCEPT !.code = "QUEUE_FAILED"]

\* retry_count counts on; only whether the limit is reached matters.
SettlementFailed(j) ==
    [j EXCEPT !.code = "SETTLEMENT",
              !.retries = IF @ < MaxRetries THEN @ + 1 ELSE @]

Exhausted(j) == j.retries = MaxRetries /\ j.code = "SETTLEMENT"

AwaitsQueue(j)   == j.status = "submitted" /\ j.named /\ j.code = "QUEUE_FAILED"
QueueRecovered(j) == IF j.named /\ j.code = "QUEUE_FAILED" THEN [j EXCEPT !.code = ""] ELSE j

Abandoned(j) == j.status \in Unsubmitted /\ ~j.named /\ j.stale

Hidden(j) == [j EXCEPT !.hidden = @ \/ j.status \in Terminal]

-----------------------------------------------------------------------------
(* The hold.  Every movement first claims its request id; a claim that is    *)
(* already there makes the call succeed without effect.  A release that      *)
(* finds no hold keeps its claim: "nothing" tells that this happened.        *)

Claims   == {"hold", "capture", "release", "nothing"}
Accounts == [claims : SUBSET Claims, balance : Nat, frozen : Nat, others : Nat]

\* Variant for testing: the hold is taken without asking for the balance.
ReserveFailsNever(a) == FALSE

ReserveFails(a) == "hold" \notin a.claims /\ a.balance < Hold
CaptureFails(a) == "capture" \notin a.claims /\ a.frozen < Hold
ReleaseFails(a) ==
    "release" \notin a.claims /\ "hold" \in a.claims /\ a.frozen < Hold

Reserved(a) ==
    IF "hold" \in a.claims THEN a
    ELSE [a EXCEPT !.claims = @ \cup {"hold"},
                   !.balance = @ - Hold, !.frozen = @ + Hold]

Captured(a, cost) ==
    IF "capture" \in a.claims THEN a
    ELSE [a EXCEPT !.claims = @ \cup {"capture"},
                   !.balance = @ + (Hold - cost), !.frozen = @ - Hold]

\* Variant for testing: the claim of an earlier release is not respected.
ReleasedAgain(a) ==
    [a EXCEPT !.claims = @ \cup {"release"},
              !.balance = @ + Hold, !.frozen = @ - Hold]

Released(a) ==
    IF "release" \in a.claims THEN a
    ELSE IF "hold" \notin a.claims
    THEN [a EXCEPT !.claims = @ \cup {"release", "nothing"}]
    ELSE [a EXCEPT !.claims = @ \cup {"release"},
                   !.balance = @ + Hold, !.frozen = @ - Hold]

-----------------------------------------------------------------------------
(* The queue: copies in the ready list, membership of the delayed and active *)
(* sets, the inflight key that lets a job be enqueued once.                  *)

Queues == [inflight : BOOLEAN, ready : Nat, delayed : BOOLEAN,
           active : {"no", "live", "stale"}]
Empty  == [inflight |-> FALSE, ready |-> 0, delayed |-> FALSE, active |-> "no"]

Enqueued(q)  == IF q.inflight THEN q
                ELSE [q EXCEPT !.inflight = TRUE, !.ready = @ + 1]
Taken(q)     == [q EXCEPT !.ready = @ - 1, !.active = "live"]
\* Variant for testing: the job leaves the active set and enters no other.
RequeuedNowhere(q) == [q EXCEPT !.active = "no"]

Requeued(q)  == [q EXCEPT !.active = "no", !.delayed = TRUE]
Acked(q)     == [q EXCEPT !.active = "no", !.delayed = FALSE, !.inflight = FALSE]
MovedDue(q)  == [q EXCEPT !.delayed = FALSE, !.ready = @ + 1]
Recovered(q) == [q EXCEPT !.active = "no", !.ready = @ + 1]
=============================================================================
