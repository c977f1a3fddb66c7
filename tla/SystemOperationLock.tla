------------------------- MODULE SystemOperationLock -------------------------
(***************************************************************************)
(* SystemOperationLockService: update, rollback and restart of the server  *)
(* exclude one another by a record whose lock is a lease, renewed by a     *)
(* goroutine of the holder.  The record outlives the operation; the next   *)
(* one reclaims it.  Every operation has an id of its own, which is the    *)
(* fingerprint of the record it inserts.                                   *)
(*                                                                         *)
(* Timeout is the lease, Ttl the TTL of system operations.                 *)
(***************************************************************************)
EXTENDS IdempotencyRecord

CONSTANT RenewInterval   \* a third of the lease

ASSUME RenewAssumption ==
    RenewInterval \in Nat \ {0} /\ 2 * RenewInterval + MaxLate < Timeout

VARIABLES
    pc, op, seen,    \* per operation: next call, operationID, status it read
    loop, due        \* its renewLoop, time since its last tick

operations == <<pc, op, seen>>
renewals   == <<loop, due>>
vars       == <<store, late, faults, operations, renewals>>

PCs == {"idle", "create", "read", "reclaim", "hold"}

TypeOK ==
    /\ RecordOK
    /\ pc \in [Workers -> PCs] /\ op \in [Workers -> Fingerprints]
    /\ seen \in [Workers -> Statuses]
    /\ loop \in [Workers -> {"on", "stopping", "off"}]
    /\ due \in [Workers -> 0..RenewInterval]

Init ==
    /\ RecordInit
    /\ pc = [w \in Workers |-> "idle"] /\ op \in [Workers -> Fingerprints]
    /\ seen = [w \in Workers |-> "processing"]
    /\ loop = [w \in Workers |-> "off"] /\ due = [w \in Workers |-> 0]

-----------------------------------------------------------------------------
At(w, l) == pc[w] = l

Goto(w, l) == pc' = [pc EXCEPT ![w] = l] /\ UNCHANGED <<op, late>>

\* Acquire returns without the lock.
Refused(w) ==
    /\ pc' = [pc EXCEPT ![w] = "idle"] /\ late' = [late EXCEPT ![w] = 0]
    /\ UNCHANGED <<op, seen, record, renewals>>

Unavailable(w) == Fault /\ Refused(w) /\ UNCHANGED knows

\* Acquire returns the lock and starts its renewLoop.
Acquired(w) ==
    /\ pc' = [pc EXCEPT ![w] = "hold"] /\ late' = [late EXCEPT ![w] = 0]
    /\ loop' = [loop EXCEPT ![w] = "on"]
    /\ due' = [due EXCEPT ![w] = 0]
    /\ UNCHANGED <<op, seen>>

\* The id of an operation hashes its Idempotency-Key; no two here share a key.
Unused(f) == f # record.fp /\ \A w \in Workers : pc[w] # "idle" => f # op[w]

Start(w) ==
    /\ At(w, "idle") /\ loop[w] = "off" /\ NoFault
    /\ pc' = [pc EXCEPT ![w] = "create"]
    /\ \E f \in Fingerprints : Unused(f) /\ op' = [op EXCEPT ![w] = f]
    /\ knows' = [knows EXCEPT ![w] = FALSE]
    /\ UNCHANGED <<record, late, seen, renewals>>

Create(w) ==
    /\ At(w, "create")
    /\ \/ CreateProcessing(w, op[w]) /\ Acquired(w) /\ NoFault
       \/ /\ Present /\ NoFault /\ Goto(w, "read")
          /\ UNCHANGED <<store, seen, renewals>>
       \/ Unavailable(w)

\* The lease of a running operation.
IsBusy(w) == record.status = "processing" /\ record.lock > -late[w]

Read(w) ==
    /\ At(w, "read")
    /\ \/ /\ NoFault /\ knows' = [knows EXCEPT ![w] = Present]
          /\ IF ~Present \/ IsBusy(w) THEN Refused(w)
             ELSE /\ Goto(w, "reclaim")
                  /\ seen' = [seen EXCEPT ![w] = record.status]
                  /\ UNCHANGED <<record, renewals>>
       \/ Unavailable(w)

TryReclaim(w) ==
    /\ At(w, "reclaim")
    /\ \/ Reclaimable(w, seen[w]) /\ Reclaim(w) /\ Acquired(w) /\ NoFault
       \/ /\ ~Reclaimable(w, seen[w]) /\ NoFault
          /\ Refused(w) /\ UNCHANGED knows
       \/ Unavailable(w)

\* Variant for testing: the outcome is written, the renewLoop is not stopped.
ReleaseRenewing(w) ==
    /\ At(w, "hold") /\ Goto(w, "idle") /\ UNCHANGED <<seen, renewals>>
    /\ \/ Mark(w, "succeeded", Null, Ttl) /\ NoFault
       \/ Mark(w, "failed_retryable", 0, Ttl) /\ NoFault
       \/ Fault /\ UNCHANGED store

\* Release closes the stop channel and writes the outcome; an error of that is
\* ignored.
Release(w) ==
    /\ At(w, "hold") /\ Goto(w, "idle") /\ UNCHANGED <<seen, due>>
    /\ loop' = [loop EXCEPT ![w] = IF @ = "on" THEN "stopping" ELSE @]
    /\ \/ Mark(w, "succeeded", Null, Ttl) /\ NoFault
       \/ Mark(w, "failed_retryable", 0, Ttl) /\ NoFault
       \/ Fault /\ UNCHANGED store

\* An error of ExtendProcessingLock: the next tick tries again.
RenewFails(w) == Fault /\ UNCHANGED <<store, loop>>

\* A tick of the renewLoop, even one that wins over a closed stop channel.
Renew(w) ==
    /\ loop[w] # "off" /\ due[w] = RenewInterval
    /\ due' = [due EXCEPT ![w] = 0]
    /\ UNCHANGED <<late, operations>>
    /\ \/ /\ Extendable(w, op[w]) /\ Extend /\ NoFault
          /\ UNCHANGED <<knows, loop>>
       \/ /\ ~Extendable(w, op[w]) /\ NoFault
          /\ loop' = [loop EXCEPT ![w] = "off"]
          /\ UNCHANGED store
       \/ RenewFails(w)

\* The renewLoop finds the stop channel closed.
Stop(w) ==
    /\ loop[w] = "stopping" /\ NoFault
    /\ loop' = [loop EXCEPT ![w] = "off"]
    /\ UNCHANGED <<store, late, operations, due>>

\* The process of the operation dies, its renewLoop with it.
Crash(w) ==
    /\ ~At(w, "idle") /\ Fault
    /\ pc' = [pc EXCEPT ![w] = "idle"] /\ late' = [late EXCEPT ![w] = 0]
    /\ loop' = [loop EXCEPT ![w] = "off"]
    /\ UNCHANGED <<store, op, seen, due>>

Cleanup == DeleteExpired /\ NoFault /\ UNCHANGED <<late, operations, renewals>>

Acquiring == {w \in Workers : pc[w] \in {"create", "read", "reclaim"}}

\* A tick that is due, or a closed stop channel, is seen within one unit of time.
Tick ==
    /\ Age(Acquiring) /\ NoFault
    /\ \A w \in Workers : loop[w] # "off" => loop[w] = "on" /\ due[w] < RenewInterval
    /\ due' = [w \in Workers |-> IF loop[w] = "on" THEN due[w] + 1 ELSE 0]
    /\ UNCHANGED <<operations, loop>>

Step(w) ==
    Create(w) \/ Read(w) \/ TryReclaim(w) \/ Renew(w) \/ Stop(w)

Next ==
    \/ \E w \in Workers : Start(w) \/ Step(w) \/ Release(w) \/ Crash(w)
    \/ Cleanup \/ Tick

Spec == Init /\ [][Next]_vars

\* An operation may run for ever, everything else goes on.
Fairness ==
    (\A w \in Workers : WF_vars(Step(w))) /\ WF_vars(Cleanup) /\ WF_vars(Tick)

FairSpec == Spec /\ Fairness

-----------------------------------------------------------------------------
(* Safety *)

\* The operation that inserted the record.
Creator(w) == At(w, "hold") /\ Present /\ knows[w] /\ op[w] = record.fp

\* A renewal that fails leaves the renewLoop of the operation running.
CreatorIsRenewed == \A w \in Workers : Creator(w) => loop[w] = "on"

\* While it runs, and one renewal may fail, no other operation starts.
CreatorKeepsLock ==
    [][\A v, w \in Workers :
          Creator(v) /\ v # w /\ ~At(w, "hold") => pc'[w] # "hold"]_vars

-----------------------------------------------------------------------------
(* Liveness, under FairSpec *)

Free == ~Present \/ record.status # "processing" \/ record.lock <= 0

\* The lock of an operation that died is free again one day.
AbandonedLockIsFreed ==
    (\A w \in Workers : ~At(w, "hold"))
        ~> (Free \/ \E w \in Workers : At(w, "hold"))

-----------------------------------------------------------------------------
(* What the comments say that the code does not do *)

\* "a later retry then hits the system operation lock": two operations never run
\* at a time.
OneOperation == \A v, w \in Workers : At(v, "hold") /\ At(w, "hold") => v = w
=============================================================================
