-------------------------- MODULE IdempotencyProofs --------------------------
(***************************************************************************)
(* Theorems about Idempotency for any number of requests, payloads and     *)
(* faults and any TTL, timeout and backoff.  They assume what TimingOK     *)
(* says: the calls before an execution take less than the processing       *)
(* timeout, and an execution ends before its record expires.               *)
(***************************************************************************)
EXTENDS Idempotency, TLAPS

TimingOK == MaxStall < Timeout /\ MaxLate < Ttl

\* An id that is known to be right is the id of a row.
KnowsRow == \A w \in Workers : knows[w] => Present

\* Who does not execute is not late.
Prompt == \A w \in Workers : w \notin Executing => late[w] <= MaxStall

\* Who is about to reclaim has compared the fingerprint of that very row.
Matching ==
    \A w \in Workers :
        pc[w] \in {"reclaim", "retry"} /\ knows[w] => record.fp = fp[w]

\* Who executes owns the row, which lives as long as it was promised to.
OwnsRow ==
    \A w \in Executing :
        /\ knows[w] /\ record.status = "processing" /\ record.fp = fp[w]
        /\ record.expires = Ttl - late[w]

\* Who saw the expired record of a dead request does so too late.
Outpaced ==
    \A v, w \in Workers :
        /\ w \in Executing
        /\ pc[v] = "reclaim" /\ knows[v] /\ seen[v] = "processing"
        => record.lock > -late[v]

\* The inductive invariant.
IInv == /\ TypeOK /\ KnowsRow /\ Prompt /\ Matching
        /\ OwnsRow /\ Outpaced /\ OneExecution

\* An effect is counted from the clock of the request that caused it.
Counted == \A w \in Workers : pc[w] = "mark" => window = Ttl - late[w]

\* Until a record expires nobody sees an expired one ...
NobodyReclaims ==
    ~outlived => /\ Present => record.expires > 0
                 /\ \A w \in Workers : pc[w] \notin {"reclaim", "reread"}

\* ... and the effect stands in the record, or nobody is about to mark it failed.
EffectIsKept ==
    ~outlived /\ window > 0 =>
        /\ record.status \in {"processing", "succeeded"}
        /\ \A w \in Workers : pc[w] \notin {"run", "failed"}

\* The inductive invariant about effects and answers.
EffectInv == ReplayIsTrue /\ Counted /\ NobodyReclaims /\ EffectIsKept

-----------------------------------------------------------------------------
(* One request at a time *)

\* The initial state satisfies the inductive invariant.
LEMMA InitIInv == Init => IInv
<1> SUFFICES ASSUME Init PROVE IInv
  OBVIOUS
<1> USE DEF Init, RecordInit, Executing
<1>1. RecordOK
  <2>1. record \in Rows
    BY RecordAssumption DEF Rows, Times, Null
  <2> QED
    BY <2>1, RecordAssumption DEF RecordOK
<1>2. TypeOK
  <2>1. pc \in [Workers -> PCs] /\ seen \in [Workers -> Statuses]
    BY DEF PCs, Statuses
  <2>2. window \in 0..Ttl
    BY RecordAssumption
  <2> QED
    BY <1>1, <2>1, <2>2 DEF TypeOK
<1>3. KnowsRow /\ Prompt /\ Matching
  BY BackoffAssumption DEF KnowsRow, Prompt, Matching
<1>4. OwnsRow /\ Outpaced /\ OneExecution
  BY DEF OwnsRow, Outpaced, OneExecution
<1> QED
  BY <1>2, <1>3, <1>4 DEF IInv

\* What the type invariant says of the parts of the state.
LEMMA Types ==
  ASSUME IInv
  PROVE  /\ record \in Rows /\ knows \in [Workers -> BOOLEAN]
         /\ late \in [Workers -> 0..MaxLate] /\ faults \in 0..MaxFaults
         /\ pc \in [Workers -> PCs] /\ fp \in [Workers -> Fingerprints]
         /\ seen \in [Workers -> Statuses] /\ window \in 0..Ttl
         /\ record.lock \in Int /\ record.expires \in Int
         /\ record.status \in Statuses \cup {"absent"}
         /\ Ttl \in Nat /\ Timeout \in Nat /\ MaxLock \in Nat /\ MaxLate \in Nat
         /\ Backoff \in Nat /\ MaxStall \in Nat
  BY RecordAssumption, BackoffAssumption DEF IInv, TypeOK, RecordOK, Rows, Times

\* One more fault stays within the bound.
LEMMA FaultType ==
  ASSUME IInv, Fault \/ NoFault PROVE faults' \in 0..MaxFaults
  BY RecordAssumption DEF IInv, TypeOK, RecordOK, Fault, NoFault

\* A row that is given another status, lock and expiry is a row.
LEMMA RowType ==
  ASSUME IInv, NEW s \in Statuses \cup {"absent"},
         NEW lock \in Times(MaxLock), NEW expires \in Times(Ttl)
  PROVE  /\ [record EXCEPT !.status = s, !.lock = lock, !.expires = expires]
              \in Rows
         /\ [record EXCEPT !.lock = lock, !.expires = expires] \in Rows
  BY DEF IInv, TypeOK, RecordOK, Rows

\* Times count from the clock of a request.
LEMMA TimeType ==
  /\ \A t \in 0..MaxLate :
       Timeout - t \in Times(MaxLock) /\ Ttl - t \in Times(Ttl)
  /\ Null \in Times(MaxLock) /\ Null \in Times(Ttl)
  /\ Backoff \in Times(MaxLock)
  BY RecordAssumption, BackoffAssumption DEF Times, Null

\* A request returns.
LEMMA LeaveInv ==
  ASSUME IInv, NEW w \in Workers, Leave(w), Fault \/ NoFault,
         UNCHANGED <<record, body, ghosts>>,
         \/ UNCHANGED knows
         \/ \E b \in BOOLEAN : knows' = [knows EXCEPT ![w] = b] /\ (b => Present)
  PROVE  IInv'
<1> USE Types DEF Leave, ghosts, Present, Executing
<1>1. TypeOK'
  BY FaultType DEF IInv, TypeOK, RecordOK, PCs
<1>2. KnowsRow'
  BY DEF IInv, KnowsRow
<1>3. Prompt'
  BY DEF IInv, Prompt
<1>4. Matching'
  BY DEF IInv, Matching
<1>5. OwnsRow'
  BY DEF IInv, OwnsRow
<1>6. Outpaced'
  BY DEF IInv, Outpaced
<1>7. OneExecution'
  BY DEF IInv, OneExecution
<1> QED
  BY <1>1, <1>2, <1>3, <1>4, <1>5, <1>6, <1>7 DEF IInv

\* A statement that fails changes nothing.
LEMMA UnavailableInv ==
  ASSUME IInv, NEW w \in Workers, Unavailable(w) PROVE IInv'
  BY LeaveInv DEF Unavailable, store, ghosts

\* A request that does not execute goes on to a call that does not either.
LEMMA GotoInv ==
  ASSUME IInv, NEW w \in Workers, w \notin Executing,
         NEW l \in {"read", "reread"}, Goto(w, l), NoFault,
         UNCHANGED <<store, body, ghosts>>
  PROVE  IInv'
<1> USE Types DEF Goto, ghosts, store, Present, Executing
<1>1. TypeOK'
  BY FaultType DEF IInv, TypeOK, RecordOK, PCs
<1>2. KnowsRow' /\ Prompt' /\ Matching'
  BY DEF IInv, KnowsRow, Prompt, Matching
<1>3. OwnsRow' /\ Outpaced' /\ OneExecution'
  BY DEF IInv, OwnsRow, Outpaced, OneExecution
<1> QED
  BY <1>1, <1>2, <1>3 DEF IInv

\* A request begins.
LEMMA StartInv ==
  ASSUME IInv, NEW w \in Workers, Start(w) PROVE IInv'
<1> USE Types DEF Start, At, ghosts, Present, Executing
<1>1. TypeOK'
  BY FaultType DEF IInv, TypeOK, RecordOK, PCs
<1>2. KnowsRow' /\ Prompt' /\ Matching'
  BY DEF IInv, KnowsRow, Prompt, Matching
<1>3. OwnsRow' /\ Outpaced' /\ OneExecution'
  BY DEF IInv, OwnsRow, Outpaced, OneExecution
<1> QED
  BY <1>1, <1>2, <1>3 DEF IInv

\* Who executes keeps the row: nobody inserts another.
LEMMA CreateInv ==
  ASSUME TimingOK, IInv, NEW w \in Workers, Create(w) PROVE IInv'
<1> USE Types DEF At
<1>1. CASE CreateProcessing(w, fp[w]) /\ NoFault /\ body' = NoBody
           /\ Goto(w, "run") /\ UNCHANGED ghosts /\ At(w, "create")
  <2> USE <1>1 DEF CreateProcessing, Goto, ghosts, Present, Executing
  <2>1. late[w] \in 0..MaxLate /\ late[w] <= MaxStall /\ fp[w] \in Fingerprints
    BY DEF IInv, Prompt
  <2>2. record' \in Rows
    BY <2>1, TimeType DEF Rows, Statuses
  <2>3. TypeOK'
    BY <2>2, FaultType DEF IInv, TypeOK, RecordOK, PCs
  <2>4. Executing = {}
    BY DEF IInv, OwnsRow
  <2>5. \A v \in Workers : ~knows[v]
    BY DEF IInv, KnowsRow
  <2>6. KnowsRow' /\ Prompt' /\ Matching'
    BY <2>5 DEF IInv, KnowsRow, Prompt, Matching
  <2>7. OwnsRow' /\ OneExecution'
    BY <2>4 DEF IInv, OwnsRow, OneExecution
  <2>8. Outpaced'
    BY <2>5 DEF IInv, Outpaced
  <2> QED
    BY <2>3, <2>6, <2>7, <2>8 DEF IInv
<1>2. CASE NoFault /\ Goto(w, "read") /\ UNCHANGED <<store, body, ghosts>>
  BY <1>2, GotoInv DEF Create, Executing
<1> QED
  BY <1>1, <1>2, UnavailableInv DEF Create

\* Who executes has not expired, so a request that reads the record then is
\* not about to reclaim it.
LEMMA ReadInv ==
  ASSUME TimingOK, IInv, NEW w \in Workers, Read(w) \/ Reread(w) PROVE IInv'
<1> USE Types DEF At, ghosts
<1>1. CASE Leave(w) /\ NoFault /\ UNCHANGED <<record, body, ghosts>>
           /\ knows' = [knows EXCEPT ![w] = Present]
  BY <1>1, LeaveInv DEF Present
<1>2. CASE /\ NoFault /\ UNCHANGED <<record, body, ghosts, fp, late>>
           /\ knows' = [knows EXCEPT ![w] = Present]
           /\ Present /\ SameRequest(w) /\ w \notin Executing
           /\ \/ pc' = [pc EXCEPT ![w] = "retry"] /\ UNCHANGED seen
              \/ /\ pc' = [pc EXCEPT ![w] = "reclaim"] /\ Expired(w)
                 /\ seen' = [seen EXCEPT ![w] = record.status]
  <2> USE <1>2 DEF Present, SameRequest, Expired, Executing
  <2>1. TypeOK'
    BY FaultType DEF IInv, TypeOK, RecordOK, PCs
  <2>2. KnowsRow' /\ Prompt' /\ Matching'
    BY DEF IInv, KnowsRow, Prompt, Matching
  <2>3. OwnsRow' /\ OneExecution'
    BY DEF IInv, OwnsRow, OneExecution
  <2>4. Outpaced'
    <3>1. \A v \in Executing : record.expires > 0
      BY DEF IInv, OwnsRow, TimingOK
    <3>2. pc'[w] = "reclaim" => Executing = {}
      BY <3>1
    <3> QED
      BY <3>2 DEF IInv, Outpaced
  <2> QED
    BY <2>1, <2>2, <2>3, <2>4 DEF IInv
<1> QED
  BY <1>1, <1>2, UnavailableInv
  DEF Read, Reread, Decide, Goto, Executing

\* Who reclaims a record becomes its only executor.
LEMMA TakeOverInv ==
  ASSUME TimingOK, IInv, NEW w \in Workers, NEW from \in Statuses,
         \/ pc[w] = "reclaim" /\ from = seen[w]
         \/ pc[w] = "retry" /\ from = "failed_retryable",
         Reclaimable(w, from), NoFault, Reclaim(w), Goto(w, "run"),
         UNCHANGED <<body, ghosts>>
  PROVE  IInv'
<1> USE Types DEF Reclaimable, Reclaim, Goto, ghosts, Present, Executing
<1>1. late[w] \in 0..MaxLate /\ late[w] <= MaxStall
  BY DEF IInv, Prompt
<1>2. record' \in Rows
  BY <1>1, TimeType, RowType DEF Statuses
<1>3. TypeOK'
  BY <1>2, FaultType DEF IInv, TypeOK, RecordOK, PCs
<1>4. Executing = {}
  BY DEF IInv, OwnsRow, Outpaced
<1>5. record' = [record EXCEPT !.status = "processing",
                   !.lock = Timeout - late[w], !.expires = Ttl - late[w]]
  OBVIOUS
<1>6. /\ record'.fp = record.fp /\ record'.status = "processing"
      /\ record'.lock = Timeout - late[w] /\ record'.expires = Ttl - late[w]
  BY <1>5 DEF IInv, Rows
<1>7. KnowsRow' /\ Prompt' /\ Matching'
  BY <1>6 DEF IInv, KnowsRow, Prompt, Matching
<1>8. OwnsRow' /\ OneExecution'
  BY <1>4, <1>6 DEF IInv, OwnsRow, OneExecution, Matching
<1>9. Outpaced'
  BY <1>1, <1>6 DEF IInv, Outpaced, TimingOK
<1> QED
  BY <1>3, <1>7, <1>8, <1>9 DEF IInv

\* A reclaim that is lost changes nothing.
LEMMA ReclaimInv ==
  ASSUME TimingOK, IInv, NEW w \in Workers,
         ReclaimExpired(w) \/ ReclaimFailed(w)
  PROVE  IInv'
<1> USE Types DEF At, TryReclaim, TakesOver
<1>1. CASE ReclaimExpired(w)
  <2>1. seen[w] \in Statuses /\ w \notin Executing
    BY <1>1 DEF IInv, ReclaimExpired, Executing
  <2>2. CASE Reclaimable(w, seen[w]) /\ NoFault /\ Reclaim(w) /\ Goto(w, "run")
             /\ UNCHANGED <<body, ghosts>>
    BY <1>1, <2>1, <2>2, TakeOverInv DEF ReclaimExpired
  <2>3. CASE NoFault /\ Goto(w, "reread") /\ UNCHANGED <<store, body, ghosts>>
    BY <2>1, <2>3, GotoInv
  <2> QED
    BY <1>1, <2>2, <2>3, UnavailableInv DEF ReclaimExpired
<1>2. CASE ReclaimFailed(w)
  <2>1. CASE Reclaimable(w, "failed_retryable") /\ NoFault /\ Reclaim(w)
             /\ Goto(w, "run") /\ UNCHANGED <<body, ghosts>>
    BY <1>2, <2>1, TakeOverInv DEF ReclaimFailed, Statuses
  <2>2. CASE NoFault /\ Leave(w) /\ UNCHANGED <<store, body, ghosts>>
    BY <2>2, LeaveInv DEF store, ghosts
  <2> QED
    BY <1>2, <2>1, <2>2, UnavailableInv DEF ReclaimFailed
<1> QED
  BY <1>1, <1>2

\* The operation ends.
LEMMA RunInv ==
  ASSUME TimingOK, IInv, NEW w \in Workers, Run(w) PROVE IInv'
<1> USE Types DEF Run, At, Goto, store, Present, Executing
<1>1. TypeOK'
  BY FaultType DEF IInv, TypeOK, RecordOK, PCs, TimingOK
<1>2. KnowsRow' /\ Prompt' /\ Matching'
  BY DEF IInv, KnowsRow, Prompt, Matching
<1>3. OwnsRow' /\ OneExecution'
  BY DEF IInv, OwnsRow, OneExecution
<1>4. Outpaced'
  BY DEF IInv, Outpaced
<1> QED
  BY <1>1, <1>2, <1>3, <1>4 DEF IInv

\* The only executor writes the outcome and leaves nobody executing.
LEMMA MarkInv ==
  ASSUME IInv, NEW w \in Workers, MarkSucceeded(w) \/ MarkFailedRetryable(w)
  PROVE  IInv'
<1> USE Types DEF At, Leave, Mark, Null, Executing
<1>1. w \in Executing /\ Executing = {w} /\ fp[w] \in Fingerprints
      /\ late[w] \in 0..MaxLate
  BY DEF MarkSucceeded, MarkFailedRetryable, IInv, OneExecution
<1>2. Executing' = {}
  BY <1>1 DEF MarkSucceeded, MarkFailedRetryable, IInv
<1>3. record' \in Rows /\ record'.fp = record.fp /\ (Present => Present')
  <2>1. \/ UNCHANGED record
        \/ \E s \in {"succeeded", "failed_retryable"}, l \in {-MaxLate, Backoff} :
              record' = [record EXCEPT !.status = s, !.lock = l,
                                       !.expires = Ttl - late[w]]
    BY DEF MarkSucceeded, MarkFailedRetryable, store
  <2> QED
    <3>1. Ttl - late[w] \in Times(Ttl)
      BY <1>1, TimeType
    <3>2. -MaxLate \in Times(MaxLock) /\ Backoff \in Times(MaxLock)
      BY TimeType
    <3>3. CASE UNCHANGED record
      BY <3>3 DEF Present
    <3>4. ASSUME NEW s \in {"succeeded", "failed_retryable"},
                 NEW l \in {-MaxLate, Backoff},
                 record' = [record EXCEPT !.status = s, !.lock = l,
                                          !.expires = Ttl - late[w]]
          PROVE  record' \in Rows /\ record'.fp = record.fp
                 /\ (Present => Present')
      <4>1. s \in Statuses /\ l \in Times(MaxLock)
        BY <3>2 DEF Statuses
      <4>2. record' \in Rows
        BY <3>1, <3>4, <4>1, RowType
      <4> QED
        BY <3>4, <4>2 DEF Present, Rows
    <3> QED
      BY <2>1, <3>3, <3>4
<1>4. /\ pc' = [pc EXCEPT ![w] = "idle"] /\ late' = [late EXCEPT ![w] = 0]
      /\ UNCHANGED <<fp, seen, knows, ghosts>>
  BY DEF MarkSucceeded, MarkFailedRetryable, store, ghosts
<1>5. TypeOK'
  <2>1. body' \in Fingerprints \cup {NoBody, CutBody}
    BY <1>1 DEF MarkSucceeded, MarkFailedRetryable, IInv, TypeOK
  <2>2. faults' \in 0..MaxFaults
    BY FaultType DEF MarkSucceeded, MarkFailedRetryable, IInv
  <2> QED
    BY <1>3, <1>4, <2>1, <2>2 DEF IInv, TypeOK, RecordOK, PCs, ghosts
<1>6. KnowsRow' /\ Prompt' /\ Matching'
  BY <1>3, <1>4 DEF IInv, KnowsRow, Prompt, Matching
<1>7. OwnsRow' /\ OneExecution' /\ Outpaced'
  BY <1>2 DEF OwnsRow, OneExecution, Outpaced
<1> QED
  BY <1>5, <1>6, <1>7 DEF IInv

\* A record in use has not expired.
LEMMA CleanupInv == ASSUME TimingOK, IInv, Cleanup PROVE IInv'
<1> USE Types DEF Cleanup, DeleteExpired, requests, ghosts, Null, Executing
<1>1. Executing = {}
  BY DEF IInv, OwnsRow, TimingOK
<1>2. record' \in Rows /\ \A w \in Workers : ~knows'[w]
  <2>1. record' = [record EXCEPT !.status = "absent", !.lock = -MaxLate,
                                 !.expires = -MaxLate]
    OBVIOUS
  <2>2. -MaxLate \in Times(MaxLock) /\ -MaxLate \in Times(Ttl)
    BY TimeType
  <2>3. record' \in Rows
    <3>1. "absent" \in Statuses \cup {"absent"}
      OBVIOUS
    <3> QED
      BY ONLY <2>1, <2>2, <3>1, RowType, IInv
  <2>4. knows' = [w \in Workers |-> FALSE]
    OBVIOUS
  <2> QED
    BY <2>3, <2>4
<1>3. TypeOK'
  BY <1>2, FaultType DEF IInv, TypeOK, RecordOK
<1>4. KnowsRow' /\ Prompt' /\ Matching'
  BY <1>2 DEF IInv, KnowsRow, Prompt, Matching
<1>5. OwnsRow' /\ OneExecution' /\ Outpaced'
  BY <1>1 DEF OwnsRow, OneExecution, Outpaced
<1> QED
  BY <1>3, <1>4, <1>5 DEF IInv

\* Time passes for the row and for the requests alike.
LEMMA TickInv == ASSUME TimingOK, IInv, Tick PROVE IInv'
<1> USE Types DEF Tick, Age, requests, Executing, Busy, Earlier
<1>1. /\ record' = [record EXCEPT !.lock = Earlier(@), !.expires = Earlier(@)]
      /\ record'.lock = Earlier(record.lock)
      /\ record'.expires = Earlier(record.expires)
      /\ record'.fp = record.fp /\ record'.status = record.status
  BY DEF IInv, Rows
<1>2. record' \in Rows
  <2>1. record.lock \in Times(MaxLock) /\ record.expires \in Times(Ttl)
    BY DEF Rows
  <2>2. /\ Earlier(record.lock) \in Times(MaxLock)
        /\ Earlier(record.expires) \in Times(Ttl)
    BY <2>1, RecordAssumption DEF Times
  <2> QED
    BY <2>2, RowType
<1>3. /\ late' \in [Workers -> 0..MaxLate]
      /\ \A w \in Workers :
           late'[w] = IF pc[w] # "idle" THEN late[w] + 1 ELSE late[w]
  BY DEF IInv
<1>4. TypeOK'
  BY <1>2, <1>3, FaultType DEF IInv, TypeOK, RecordOK
<1>5. KnowsRow' /\ Prompt' /\ Matching'
  BY <1>1, <1>3 DEF IInv, KnowsRow, Prompt, Matching, Present
<1>6. OwnsRow'
  <2> SUFFICES ASSUME NEW w \in Executing
               PROVE  /\ knows'[w] /\ record'.status = "processing"
                      /\ record'.fp = fp'[w] /\ record'.expires = Ttl - late'[w]
    BY DEF OwnsRow
  <2>1. w \in Workers /\ record.expires = Ttl - late[w] /\ late[w] < MaxLate
    BY DEF IInv, OwnsRow
  <2>2. record'.expires = Ttl - late'[w]
    BY <1>1, <1>3, <2>1 DEF IInv, TimingOK
  <2> QED
    BY <1>1, <2>2 DEF IInv, OwnsRow
<1>7. Outpaced'
  <2> SUFFICES ASSUME NEW v \in Workers, NEW w \in Workers, w \in Executing,
                      pc[v] = "reclaim", knows[v], seen[v] = "processing"
               PROVE  record'.lock > -late'[v]
    BY DEF Outpaced
  <2>1. record.lock > -late[v] /\ late[v] < MaxLate
    BY DEF IInv, Outpaced
  <2> QED
    BY <1>1, <1>3, <2>1 DEF IInv
<1>8. OneExecution'
  BY DEF IInv, OneExecution
<1> QED
  BY <1>4, <1>5, <1>6, <1>7, <1>8 DEF IInv

\* Every step preserves the inductive invariant.
LEMMA NextIInv == ASSUME TimingOK, IInv, [Next]_vars PROVE IInv'
<1>1. ASSUME NEW w \in Workers, Start(w) \/ Step(w) \/ Crash(w) PROVE IInv'
  BY <1>1, StartInv, CreateInv, ReadInv, ReclaimInv, RunInv, MarkInv,
     UnavailableInv DEF Step, Crash
<1>2. CASE UNCHANGED vars
  BY <1>2 DEF vars, store, requests, ghosts, IInv, TypeOK, RecordOK, KnowsRow,
     Present, Prompt, Matching, OwnsRow, Outpaced, OneExecution, Executing
<1> QED
  BY <1>1, <1>2, CleanupInv, TickInv DEF Next

-----------------------------------------------------------------------------
(* Effects and answers *)

\* The initial state satisfies the effect invariant.
LEMMA InitEffect == Init => EffectInv
  BY DEF Init, RecordInit, EffectInv, ReplayIsTrue, Counted, NobodyReclaims,
     EffectIsKept, Present

\* A step that neither executes nor writes an answer, by a request that sees an
\* expired record only when there is one.
LEMMA QuietEffect ==
  ASSUME IInv, EffectInv, NEW w \in Workers, UNCHANGED <<record, body, ghosts>>,
         NEW l \in {"idle", "create", "read", "reclaim", "reread", "retry"},
         pc' = [pc EXCEPT ![w] = l],
         \A v \in Workers : v # w => late'[v] = late[v],
         ~outlived => l \notin {"reclaim", "reread"}
  PROVE  EffectInv'
<1> USE Types DEF ghosts, EffectInv, Present
<1>1. ReplayIsTrue' /\ Counted'
  BY DEF ReplayIsTrue, Counted
<1>2. NobodyReclaims' /\ EffectIsKept'
  BY DEF NobodyReclaims, EffectIsKept
<1> QED
  BY <1>1, <1>2

\* A statement that fails.
LEMMA UnavailableEffect ==
  ASSUME IInv, EffectInv, NEW w \in Workers, Unavailable(w) PROVE EffectInv'
  BY QuietEffect, Types DEF Unavailable, Leave, store

\* A new record is of no effect yet.
LEMMA CreateEffect ==
  ASSUME TimingOK, IInv, EffectInv, NEW w \in Workers, Create(w)
  PROVE  EffectInv'
<1> USE Types DEF At, Goto
<1>1. CASE CreateProcessing(w, fp[w]) /\ body' = NoBody /\ Goto(w, "run")
           /\ UNCHANGED ghosts
  <2> USE <1>1 DEF CreateProcessing, ghosts, Present, EffectInv
  <2>1. late[w] \in 0..MaxLate /\ record'.status = "processing"
        /\ record'.expires = Ttl - late[w]
    OBVIOUS
  <2>2. ReplayIsTrue' /\ Counted'
    BY <2>1 DEF ReplayIsTrue, Counted
  <2>3. NobodyReclaims'
    BY <2>1 DEF NobodyReclaims, TimingOK
  <2>4. EffectIsKept'
    BY DEF EffectIsKept, Statuses
  <2> QED
    BY <2>2, <2>3, <2>4
<1>2. CASE Goto(w, "read") /\ UNCHANGED <<store, body, ghosts>>
  BY <1>2, QuietEffect DEF store
<1> QED
  BY <1>1, <1>2, UnavailableEffect DEF Create

\* Nobody reads an expired record before one has expired.
LEMMA ReadEffect ==
  ASSUME IInv, EffectInv, NEW w \in Workers, Read(w) \/ Reread(w)
  PROVE  EffectInv'
<1> USE Types DEF At, Leave, Goto, Decide
<1>1. Expired(w) /\ Present => outlived
  BY DEF Expired, EffectInv, NobodyReclaims
<1> QED
  BY <1>1, QuietEffect, UnavailableEffect DEF Read, Reread

\* Until a record expires, only a failed one is reclaimed.
LEMMA ReclaimEffect ==
  ASSUME TimingOK, IInv, EffectInv, NEW w \in Workers,
         ReclaimExpired(w) \/ ReclaimFailed(w)
  PROVE  EffectInv'
<1> USE Types DEF At, TryReclaim, TakesOver, Goto, Leave
<1>1. outlived \/ ReclaimFailed(w)
  BY DEF ReclaimExpired, EffectInv, NobodyReclaims
<1>2. CASE Reclaim(w) /\ pc' = [pc EXCEPT ![w] = "run"]
           /\ UNCHANGED <<body, ghosts, late>>
           /\ (outlived \/ Reclaimable(w, "failed_retryable"))
  <2> USE <1>2 DEF Reclaim, Reclaimable, ghosts, Present, EffectInv
  <2>1. late[w] \in 0..MaxLate /\ record'.status = "processing"
        /\ record'.expires = Ttl - late[w]
    BY DEF Rows
  <2>2. ReplayIsTrue' /\ Counted'
    BY <2>1 DEF ReplayIsTrue, Counted
  <2>3. NobodyReclaims'
    BY <2>1 DEF NobodyReclaims, TimingOK
  <2>4. EffectIsKept'
    BY <2>1 DEF EffectIsKept
  <2> QED
    BY <2>2, <2>3, <2>4
<1>3. CASE UNCHANGED <<store, body, ghosts, late>>
           /\ \/ pc' = [pc EXCEPT ![w] = "reread"] /\ outlived
              \/ pc' = [pc EXCEPT ![w] = "idle"]
  BY <1>3, QuietEffect DEF store
<1>4. CASE Leave(w) /\ UNCHANGED <<store, body, ghosts>>
  BY <1>4, QuietEffect DEF store
<1> QED
  BY <1>1, <1>2, <1>3, <1>4, UnavailableEffect DEF ReclaimExpired, ReclaimFailed

\* The effect takes place with the record in processing.
LEMMA RunEffect ==
  ASSUME IInv, EffectInv, NEW w \in Workers, Run(w) PROVE EffectInv'
<1> USE Types DEF Run, At, Goto, store, Present, Executing, EffectInv
<1>1. w \in Executing /\ Executing = {w} /\ record.status = "processing"
  BY DEF IInv, OneExecution, OwnsRow
<1>2. ReplayIsTrue' /\ Counted'
  BY <1>1 DEF ReplayIsTrue, Counted
<1>3. NobodyReclaims'
  BY DEF NobodyReclaims
<1>4. EffectIsKept'
  BY <1>1 DEF EffectIsKept
<1> QED
  BY <1>2, <1>3, <1>4

\* The answer is recorded for as long as the effect counts.
LEMMA MarkEffect ==
  ASSUME TimingOK, IInv, EffectInv, NEW w \in Workers,
         MarkSucceeded(w) \/ MarkFailedRetryable(w)
  PROVE  EffectInv'
<1> USE Types DEF At, Leave, Executing, EffectInv
<1>1. /\ w \in Executing /\ Executing = {w} /\ late[w] \in 0..MaxLate
      /\ record.status = "processing" /\ knows[w] /\ record.fp = fp[w]
      /\ record.expires = Ttl - late[w]
  BY DEF MarkSucceeded, MarkFailedRetryable, IInv, OneExecution, OwnsRow
<1>2. /\ pc' = [pc EXCEPT ![w] = "idle"] /\ late' = [late EXCEPT ![w] = 0]
      /\ UNCHANGED ghosts
  BY DEF MarkSucceeded, MarkFailedRetryable
<1>3. /\ record'.fp = record.fp /\ record'.expires = record.expires
      /\ \/ record'.status = "processing"
         \/ /\ pc[w] = "mark" /\ record'.status = "succeeded"
            /\ body' \in {fp[w], CutBody}
         \/ pc[w] = "failed" /\ record'.status = "failed_retryable"
  <2>1. CASE MarkSucceeded(w)
    BY <1>1, <2>1 DEF MarkSucceeded, Mark, store, Present, Rows
  <2>2. CASE MarkFailedRetryable(w)
    BY <1>1, <2>2 DEF MarkFailedRetryable, Mark, store, Present, Rows
  <2> QED
    BY <2>1, <2>2
<1>4. ReplayIsTrue'
  BY <1>1, <1>2, <1>3 DEF ReplayIsTrue, Counted, ghosts, Present
<1>5. Counted' /\ NobodyReclaims'
  BY <1>1, <1>2, <1>3 DEF Counted, NobodyReclaims, ghosts, Present, TimingOK
<1>6. EffectIsKept'
  BY <1>1, <1>2, <1>3 DEF EffectIsKept, ghosts
<1> QED
  BY <1>4, <1>5, <1>6

\* The record and its effect age together.
LEMMA TimeEffect ==
  ASSUME TimingOK, IInv, EffectInv, Tick \/ Cleanup PROVE EffectInv'
<1> USE Types DEF EffectInv, requests
<1>1. CASE Tick
  <2> USE <1>1 DEF Tick, Age, Present
  <2>1. /\ record'.expires = Earlier(record.expires)
        /\ record'.fp = record.fp /\ record'.status = record.status
    BY DEF Rows
  <2>2. \A w \in Workers : pc[w] # "idle" => late'[w] = late[w] + 1
    BY DEF Busy
  <2>3. ReplayIsTrue'
    BY <2>1 DEF ReplayIsTrue, Earlier
  <2>4. Counted'
    <3> SUFFICES ASSUME NEW w \in Workers, pc[w] = "mark"
                 PROVE  window' = Ttl - late'[w]
      BY DEF Counted
    <3>1. window = Ttl - late[w] /\ late[w] < MaxLate
      BY DEF Counted, Busy
    <3> QED
      BY <2>2, <3>1 DEF TimingOK
  <2>5. ~outlived' => ~outlived /\ ~(Present /\ record.expires = 1)
    BY Zenon
  <2>6. NobodyReclaims'
    BY <2>1, <2>5 DEF NobodyReclaims, Earlier
  <2>7. EffectIsKept'
    BY <2>1, <2>5 DEF EffectIsKept
  <2> QED
    BY <2>3, <2>4, <2>6, <2>7
<1>2. CASE Cleanup
  <2> USE <1>2 DEF Cleanup, DeleteExpired, Present, ghosts
  <2>1. outlived /\ record'.status = "absent"
    BY DEF NobodyReclaims, Rows
  <2> QED
    BY <2>1 DEF ReplayIsTrue, Counted, NobodyReclaims, EffectIsKept
<1> QED
  BY <1>1, <1>2

\* Every step preserves the effect invariant.
LEMMA NextEffect ==
  ASSUME TimingOK, IInv, EffectInv, [Next]_vars PROVE EffectInv'
<1>1. ASSUME NEW w \in Workers, Start(w) PROVE EffectInv'
  BY <1>1, QuietEffect DEF Start, At
<1>2. ASSUME NEW w \in Workers, Step(w) \/ Crash(w) PROVE EffectInv'
  BY <1>2, CreateEffect, ReadEffect, ReclaimEffect, RunEffect, MarkEffect,
     UnavailableEffect DEF Step, Crash
<1>3. CASE UNCHANGED vars
  BY <1>3 DEF vars, store, requests, ghosts, EffectInv, ReplayIsTrue, Counted,
     NobodyReclaims, EffectIsKept, Present
<1> QED
  BY <1>1, <1>2, <1>3, TimeEffect DEF Next

-----------------------------------------------------------------------------
(* The theorems *)

\* The inductive invariant holds.
LEMMA SpecIInv == ASSUME TimingOK PROVE Spec => []IInv
<1>1. IInv /\ [Next]_vars => IInv'
  BY NextIInv
<1> QED
  BY InitIInv, <1>1, PTL DEF Spec

\* Type correctness.
THEOREM TypeCorrect == ASSUME TimingOK PROVE Spec => []TypeOK
  BY SpecIInv, PTL DEF IInv

\* Two requests with one key never execute side by side, whatever expires, is
\* cleaned up, retried or crashes.
THEOREM OneAtATime == ASSUME TimingOK PROVE Spec => []OneExecution
  BY SpecIInv, PTL DEF IInv

\* Nothing is executed under a key that another payload claimed.
THEOREM KeyKeepsPayload == ASSUME TimingOK PROVE Spec => []KeyOfOnePayload
<1>1. IInv => KeyOfOnePayload
  BY DEF IInv, OwnsRow, KeyOfOnePayload
<1> QED
  BY <1>1, SpecIInv, PTL

\* The effect invariant holds.
LEMMA SpecEffect == ASSUME TimingOK PROVE Spec => []EffectInv
<1>1. IInv /\ EffectInv /\ [Next]_vars => EffectInv'
  BY NextEffect
<1> QED
  BY InitEffect, SpecIInv, <1>1, PTL DEF Spec

\* A replayed answer belongs to this request and to an effect that took place.
THEOREM AnswersAreTrue == ASSUME TimingOK PROVE Spec => []ReplayIsTrue
  BY SpecEffect, PTL DEF EffectInv

\* Until the first record expires the effect happens at most once.
THEOREM OnceUntilExpiry == ASSUME TimingOK PROVE Spec => []OnceBeforeExpiry
<1>1. EffectInv => OnceBeforeExpiry
  BY DEF EffectInv, EffectIsKept, OnceBeforeExpiry
<1> QED
  BY <1>1, SpecEffect, PTL
=============================================================================
