----------------------------- MODULE Idempotency -----------------------------
(***************************************************************************)
(* IdempotencyCoordinator.Execute: requests that carry one Idempotency-Key *)
(* share one record; the first executes, later ones are answered from the  *)
(* record or refused, a failed one may be retried after a backoff, and an  *)
(* expired record is reclaimed or deleted.                                 *)
(*                                                                         *)
(* `window` is the time left in which an effect of this key that took place*)
(* must not be repeated; `outlived` says that a record has expired.        *)
(***************************************************************************)
EXTENDS IdempotencyRecord

CONSTANTS
    Backoff,    \* FailedRetryBackoff
    MaxStall    \* how late a request may be that does not execute yet

ASSUME BackoffAssumption ==
    Backoff \in Nat /\ Backoff <= MaxLock /\ MaxStall \in 0..MaxLate

VARIABLES
    pc, fp, seen,   \* per request: next call, fingerprint, status it read
    body,           \* stored response: fingerprint it answers, if readable
    window, outlived

requests == <<pc, fp, seen>>
ghosts   == <<window, outlived>>
vars     == <<store, late, faults, requests, body, ghosts>>

PCs == {"idle", "create", "read", "reclaim", "reread", "retry", "run", "mark",
        "failed"}

\* A response that was cut to MaxStoredResponseLen is no JSON any more.
NoBody == "none"
CutBody == "cut"

TypeOK ==
    /\ RecordOK
    /\ pc \in [Workers -> PCs] /\ fp \in [Workers -> Fingerprints]
    /\ seen \in [Workers -> Statuses]
    /\ body \in Fingerprints \cup {NoBody, CutBody}
    /\ window \in 0..Ttl /\ outlived \in BOOLEAN

Init ==
    /\ RecordInit
    /\ pc = [w \in Workers |-> "idle"] /\ fp \in [Workers -> Fingerprints]
    /\ seen = [w \in Workers |-> "processing"]
    /\ body = NoBody /\ window = 0 /\ outlived = FALSE

-----------------------------------------------------------------------------
At(w, l) == pc[w] = l

Goto(w, l) == pc' = [pc EXCEPT ![w] = l] /\ UNCHANGED <<fp, seen, late>>

\* Return from Execute with whatever answer.
Leave(w) ==
    /\ pc' = [pc EXCEPT ![w] = "idle"] /\ late' = [late EXCEPT ![w] = 0]
    /\ UNCHANGED <<fp, seen>>

\* A statement that fails is answered IDEMPOTENCY_STORE_UNAVAILABLE.
Unavailable(w) == Fault /\ Leave(w) /\ UNCHANGED <<store, body, ghosts>>

Start(w) ==
    /\ At(w, "idle") /\ NoFault
    /\ pc' = [pc EXCEPT ![w] = "create"]
    /\ \E f \in Fingerprints : fp' = [fp EXCEPT ![w] = f]
    /\ knows' = [knows EXCEPT ![w] = FALSE]
    /\ UNCHANGED <<record, late, seen, body, ghosts>>

Create(w) ==
    /\ At(w, "create")
    /\ \/ /\ CreateProcessing(w, fp[w]) /\ NoFault
          /\ body' = NoBody /\ Goto(w, "run") /\ UNCHANGED ghosts
       \/ /\ Present /\ NoFault
          /\ Goto(w, "read") /\ UNCHANGED <<store, body, ghosts>>
       \/ Unavailable(w)

SameRequest(w) == record.fp = fp[w]

\* The switch over the status that was read: a success is replayed, a running
\* or backed off request is refused, a failed one is tried again.
NextCall(w) ==
    IF record.status = "failed_retryable" /\ record.lock <= -late[w]
    THEN "retry" ELSE "idle"

Decide(w) == IF NextCall(w) = "idle" THEN Leave(w) ELSE Goto(w, "retry")

\* Variant for testing: the lock is taken for the expiry.
ExpiredByLock(w) == record.lock <= -late[w]

Expired(w) == record.expires <= -late[w]

\* GetByScopeAndKeyHash and what follows until the next statement.
Read(w) ==
    /\ At(w, "read")
    /\ \/ /\ NoFault /\ UNCHANGED <<record, body, ghosts>>
          /\ knows' = [knows EXCEPT ![w] = Present]
          /\ IF ~Present THEN Leave(w)
             ELSE IF ~SameRequest(w) THEN Leave(w)
             ELSE IF Expired(w)
                  THEN /\ pc' = [pc EXCEPT ![w] = "reclaim"]
                       /\ seen' = [seen EXCEPT ![w] = record.status]
                       /\ UNCHANGED <<fp, late>>
                  ELSE Decide(w)
       \/ Unavailable(w)

\* Variant for testing: the lock of the record is not looked at.
TakesOverUnlocked(w, from) == Present /\ knows[w] /\ record.status = from

TakesOver(w, from) == Reclaimable(w, from)

\* TryReclaim of an expired record, and of a failed one.
TryReclaim(w, from, otherwise) ==
    \/ /\ TakesOver(w, from) /\ NoFault
       /\ Reclaim(w) /\ Goto(w, "run") /\ UNCHANGED <<body, ghosts>>
    \/ /\ ~TakesOver(w, from) /\ NoFault
       /\ IF otherwise = "idle" THEN Leave(w) ELSE Goto(w, otherwise)
       /\ UNCHANGED <<store, body, ghosts>>
    \/ Unavailable(w)

ReclaimExpired(w) == At(w, "reclaim") /\ TryReclaim(w, seen[w], "reread")

ReclaimFailed(w) == At(w, "retry") /\ TryReclaim(w, "failed_retryable", "idle")

\* After a lost reclaim the record is read again, its expiry is not.
Reread(w) ==
    /\ At(w, "reread")
    /\ \/ /\ NoFault /\ UNCHANGED <<record, body, ghosts>>
          /\ knows' = [knows EXCEPT ![w] = Present]
          /\ IF ~Present THEN Leave(w)
             ELSE IF ~SameRequest(w) THEN Leave(w)
             ELSE Decide(w)
       \/ Unavailable(w)

\* Variant for testing: the error of the operation is dropped.
RunUnchecked(w) ==
    /\ At(w, "run") /\ NoFault /\ UNCHANGED <<store, body, outlived>>
    /\ Goto(w, "mark")
    /\ window' = Ttl - late[w] \/ UNCHANGED window

\* The business operation takes effect or returns an error.
Run(w) ==
    /\ At(w, "run") /\ NoFault /\ UNCHANGED <<store, body, outlived>>
    /\ \/ Goto(w, "mark") /\ window' = Ttl - late[w]
       \/ Goto(w, "failed") /\ UNCHANGED window

MarkSucceeded(w) ==
    /\ At(w, "mark") /\ UNCHANGED ghosts
    /\ \/ /\ Mark(w, "succeeded", Null, Ttl - late[w])
          /\ IF Present /\ knows[w] THEN body' \in {fp[w], CutBody}
                                    ELSE UNCHANGED body
          /\ NoFault
       \/ Fault /\ UNCHANGED <<store, body>>
    /\ Leave(w)

MarkFailedRetryable(w) ==
    /\ At(w, "failed") /\ UNCHANGED <<body, ghosts>>
    /\ \/ Mark(w, "failed_retryable", Backoff, Ttl - late[w]) /\ NoFault
       \/ Fault /\ UNCHANGED store
    /\ Leave(w)

\* The process dies, or the operation panics.
Crash(w) == ~At(w, "idle") /\ Unavailable(w)

\* IdempotencyCleanupService.
Cleanup ==
    /\ DeleteExpired /\ NoFault
    /\ UNCHANGED <<late, requests, body, ghosts>>

Executing == {w \in Workers : pc[w] \in {"run", "mark", "failed"}}
Busy == {w \in Workers : pc[w] # "idle"}

\* The calls before the business operation are quick, the operation need not be.
Tick ==
    /\ Age(Busy) /\ NoFault
    /\ \A w \in Busy \ Executing : late[w] < MaxStall
    /\ window' = IF window > 0 THEN window - 1 ELSE 0
    /\ outlived' = (outlived \/ (Present /\ record.expires = 1))
    /\ UNCHANGED <<requests, body>>

Step(w) ==
    Create(w) \/ Read(w) \/ ReclaimExpired(w) \/ Reread(w) \/ ReclaimFailed(w)
        \/ Run(w) \/ MarkSucceeded(w) \/ MarkFailedRetryable(w)

Next == (\E w \in Workers : Start(w) \/ Step(w) \/ Crash(w)) \/ Cleanup \/ Tick

Spec == Init /\ [][Next]_vars

\* A request runs on, the cleanup runs every minute and time passes; new
\* requests need not come.
Fairness ==
    /\ \A w \in Workers : WF_vars(Step(w))
    /\ WF_vars(Cleanup) /\ WF_vars(Tick)

FairSpec == Spec /\ Fairness

-----------------------------------------------------------------------------
(* Safety *)

\* Two requests with one key never execute side by side, through expiry,
\* cleanup, retries and crashes: an execution that outlasts its lock is not
\* taken over, as long as it does not outlast the record.
OneExecution == \A v, w \in Executing : v = w

\* Nothing is executed under a key that another payload claimed.
KeyOfOnePayload == \A w \in Executing : Present => record.fp = fp[w]

\* What would be replayed is the answer to this very request, of an effect that
\* took place, and for no longer than promised.
ReplayIsTrue ==
    Present /\ record.status = "succeeded" =>
        /\ body \in {record.fp, CutBody}
        /\ record.expires > 0 => window = record.expires

\* Until the first record expires the effect happens at most once, whatever is
\* retried, crashes or fails.
OnceBeforeExpiry == ~outlived /\ window > 0 => \A w \in Workers : pc[w] # "run"

-----------------------------------------------------------------------------
(* Liveness, under FairSpec *)

\* A request that died leaves a processing record; it does not block the key
\* for ever.
ProcessingEnds ==
    (Present /\ record.status = "processing")
        ~> ~(Present /\ record.status = "processing")

-----------------------------------------------------------------------------
(* What a test says that the code does not do *)

\* "concurrent same-key requests should execute business side-effect once".
OncePerWindow == window > 0 => \A w \in Workers : pc[w] # "run"
=============================================================================
