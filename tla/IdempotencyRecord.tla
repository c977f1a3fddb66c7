-------------------------- MODULE IdempotencyRecord --------------------------
(***************************************************************************)
(* The row of idempotency_records that belongs to one (scope, key), and    *)
(* the statements of idempotencyRepository on it.  The idempotency         *)
(* coordinator and the system operation lock both run on these.            *)
(*                                                                         *)
(* Every caller reads its clock once, at the start, and compares and       *)
(* writes times by that reading.  Times are therefore kept relative to the *)
(* present: `lock` and `expires` are the time left, `late[w]` is how long  *)
(* ago w read its clock, so that "locked_until <= now" of w is             *)
(* record.lock <= -late[w].  Times further back than MaxLate are all alike.*)
(***************************************************************************)
EXTENDS Integers

CONSTANTS
    Workers,        \* goroutines that use this key
    Fingerprints,   \* request fingerprints
    Ttl, Timeout,   \* record TTL, processing timeout, in ticks
    MaxLock,        \* the longest lock any caller sets
    MaxLate,        \* how long a worker may be at one call
    MaxFaults       \* how many crashes and failing statements

ASSUME RecordAssumption ==
    /\ Ttl \in Nat \ {0} /\ Timeout \in Nat \ {0}
    /\ MaxLock \in Nat /\ Timeout <= MaxLock
    /\ MaxLate \in Nat /\ MaxFaults \in Nat

VARIABLES
    record,   \* the row; without one its status is "absent"
    knows,    \* is the row whose id a worker has the one that is there?
    late,     \* per worker: time since it read its clock
    faults

store == <<record, knows>>

Times(max) == -MaxLate..max

Statuses == {"processing", "succeeded", "failed_retryable"}

\* locked_until NULL is in nobody's way.
Null == -MaxLate

Rows == [fp : Fingerprints, status : Statuses \cup {"absent"},
         lock : Times(MaxLock), expires : Times(Ttl)]

RecordOK ==
    /\ record \in Rows
    /\ knows \in [Workers -> BOOLEAN] /\ late \in [Workers -> 0..MaxLate]
    /\ faults \in 0..MaxFaults

RecordInit ==
    /\ record \in [fp : Fingerprints, status : {"absent"}, lock : {Null},
                   expires : {Null}]
    /\ knows = [w \in Workers |-> FALSE]
    /\ late = [w \in Workers |-> 0] /\ faults = 0

Fault == faults < MaxFaults /\ faults' = faults + 1
NoFault == UNCHANGED faults

Present == record.status # "absent"

-----------------------------------------------------------------------------
(* idempotencyRepository *)

\* INSERT ... ON CONFLICT DO NOTHING, by a worker that finds no row.
CreateProcessing(w, fp) ==
    /\ ~Present
    /\ record' = [fp |-> fp, status |-> "processing",
                  lock |-> Timeout - late[w], expires |-> Ttl - late[w]]
    /\ knows' = [knows EXCEPT ![w] = TRUE]

\* The WHERE clause of TryReclaim: id, status and lock; not the expiry, not
\* the fingerprint.
Reclaimable(w, from) ==
    Present /\ knows[w] /\ record.status = from /\ record.lock <= -late[w]

\* The SET clause: neither the fingerprint nor the stored response.
Reclaim(w) ==
    /\ record' = [record EXCEPT !.status = "processing",
                                !.lock = Timeout - late[w],
                                !.expires = Ttl - late[w]]
    /\ UNCHANGED knows

\* MarkSucceeded and MarkFailedRetryable: by id alone; without the row nothing
\* happens and nothing is reported.
Mark(w, s, lock, expires) ==
    /\ record' = IF Present /\ knows[w]
                 THEN [record EXCEPT !.status = s, !.lock = lock,
                                     !.expires = expires]
                 ELSE record
    /\ UNCHANGED knows

\* The WHERE clause of ExtendProcessingLock.
Extendable(w, fp) ==
    Present /\ knows[w] /\ record.status = "processing" /\ record.fp = fp

\* Variant for testing: the lock is left out.
ExtendExpiry == record' = [record EXCEPT !.expires = Ttl]

Extend == record' = [record EXCEPT !.lock = Timeout, !.expires = Ttl]

\* Variant for testing: a record in processing is left alone.
DeleteExpiredFinished ==
    /\ Present /\ record.expires <= 0 /\ record.status # "processing"
    /\ record' = [record EXCEPT !.status = "absent", !.lock = Null,
                                !.expires = Null]
    /\ knows' = [w \in Workers |-> FALSE]

\* DeleteExpired, every minute: whatever the status.
DeleteExpired ==
    /\ Present /\ record.expires <= 0
    /\ record' = [record EXCEPT !.status = "absent", !.lock = Null,
                                !.expires = Null]
    /\ knows' = [w \in Workers |-> FALSE]

-----------------------------------------------------------------------------
(* Time *)

Earlier(t) == IF t > -MaxLate THEN t - 1 ELSE t

\* One tick for the row and for the workers in `busy`.
Age(busy) ==
    /\ \A w \in busy : late[w] < MaxLate
    /\ late' = [w \in Workers |-> IF w \in busy THEN late[w] + 1 ELSE late[w]]
    /\ record' = [record EXCEPT !.lock = Earlier(@), !.expires = Earlier(@)]
    /\ UNCHANGED knows
=============================================================================
