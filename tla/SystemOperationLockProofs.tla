---------------------- MODULE SystemOperationLockProofs ----------------------
(***************************************************************************)
(* Proofs about SystemOperationLock, for any number of operations, any     *)
(* lease, any renewal interval, and as many failing calls as the lease     *)
(* leaves room for.                                                        *)
(***************************************************************************)
EXTENDS SystemOperationLock, TLAPS

-----------------------------------------------------------------------------
(* The row.                                                                  *)

\* Every statement on the row yields a row.
LEMMA RowTypes ==
    ASSUME RecordAssumption, RecordOK, NEW w \in Workers
    PROVE  /\ \A f \in Fingerprints : CreateProcessing(w, f) =>
                 record' \in Rows /\ knows' \in [Workers -> BOOLEAN]
           /\ Reclaim(w) => record' \in Rows /\ knows' \in [Workers -> BOOLEAN]
           /\ \A s \in Statuses, l \in {Null, 0} : Mark(w, s, l, Ttl) =>
                 record' \in Rows /\ knows' \in [Workers -> BOOLEAN]
           /\ Extend => record' \in Rows
           /\ DeleteExpired => record' \in Rows /\ knows' \in [Workers -> BOOLEAN]
<1>1. /\ late[w] \in 0..MaxLate /\ record \in Rows /\ knows \in [Workers -> BOOLEAN]
      /\ Timeout \in Nat /\ Ttl \in Nat /\ MaxLock \in Nat /\ MaxLate \in Nat
      /\ Timeout <= MaxLock
  BY DEF RecordOK, RecordAssumption
<1>2. /\ Timeout - late[w] \in Times(MaxLock) /\ Ttl - late[w] \in Times(Ttl)
      /\ Timeout \in Times(MaxLock) /\ Ttl \in Times(Ttl) /\ Null \in Times(Ttl)
      /\ Null \in Times(MaxLock) /\ 0 \in Times(MaxLock)
  BY <1>1 DEF Times, Null
<1>3. \A f \in Fingerprints : CreateProcessing(w, f) =>
          record' \in Rows /\ knows' \in [Workers -> BOOLEAN]
  BY <1>1, <1>2 DEF CreateProcessing, Rows, Statuses
<1>4. Reclaim(w) => record' \in Rows /\ knows' \in [Workers -> BOOLEAN]
  BY <1>1, <1>2 DEF Reclaim, Rows, Statuses
<1>5. \A s \in Statuses, l \in {Null, 0} : Mark(w, s, l, Ttl) =>
          record' \in Rows /\ knows' \in [Workers -> BOOLEAN]
  BY <1>1, <1>2 DEF Mark, Rows
<1>6. Extend => record' \in Rows
  BY <1>1, <1>2 DEF Extend, Rows
<1>7. DeleteExpired => record' \in Rows /\ knows' \in [Workers -> BOOLEAN]
  BY <1>1, <1>2 DEF DeleteExpired, Rows
<1> QED BY <1>3, <1>4, <1>5, <1>6, <1>7

\* Time takes one from the lock and from the clocks it counts on.
LEMMA AgeTypes ==
    ASSUME RecordAssumption, RecordOK, NEW busy \in SUBSET Workers, Age(busy)
    PROVE  /\ record' \in Rows /\ knows' = knows /\ late' \in [Workers -> 0..MaxLate]
           /\ record' = [record EXCEPT !.lock = record'.lock, !.expires = record'.expires]
           /\ record.lock > 0 => record'.lock = record.lock - 1
<1>1. /\ late \in [Workers -> 0..MaxLate] /\ record \in Rows
      /\ Ttl \in Nat /\ MaxLock \in Nat /\ MaxLate \in Nat
  BY DEF RecordOK, RecordAssumption
<1>2. record.lock \in Times(MaxLock) /\ record.expires \in Times(Ttl)
  BY <1>1 DEF Rows
<1>3. Earlier(record.lock) \in Times(MaxLock) /\ Earlier(record.expires) \in Times(Ttl)
  BY <1>1, <1>2 DEF Earlier, Times
<1>4. record' = [record EXCEPT !.lock = Earlier(record.lock), !.expires = Earlier(record.expires)]
  BY DEF Age
<1>5. record' \in Rows BY <1>1, <1>3, <1>4 DEF Rows
<1>6. record'.lock = Earlier(record.lock) /\ record'.expires = Earlier(record.expires)
  BY <1>1, <1>4 DEF Rows
<1>7. record.lock > 0 => record'.lock = record.lock - 1
  BY <1>1, <1>2, <1>6 DEF Earlier, Times
<1>8. late' \in [Workers -> 0..MaxLate]
  <2>1. ASSUME NEW w \in Workers
        PROVE  (IF w \in busy THEN late[w] + 1 ELSE late[w]) \in 0..MaxLate
    BY <1>1, <2>1 DEF Age
  <2> QED BY <2>1 DEF Age
<1> QED BY <1>4, <1>5, <1>6, <1>7, <1>8 DEF Age

-----------------------------------------------------------------------------
(* The invariant.  The lease of an operation is renewed before it runs out,  *)
(* and what runs against it is bounded by the faults that have occurred.     *)

\* As many renewals in a row may fail as there are faults.
RoomForFaults == (MaxFaults + 1) * RenewInterval + MaxLate < Timeout

\* The lease that failed renewals may have cost.
Spent == faults * RenewInterval

\* A row that is not there is known to nobody.
KnowsOK == ~Present => \A w \in Workers : ~knows[w]

\* Operations that run have ids of their own, and the row has the id of one that
\* has inserted it.
OpsOK ==
    /\ \A v, w \in Workers : ~At(v, "idle") /\ ~At(w, "idle") /\ v # w => op[v] # op[w]
    /\ \A w \in Acquiring : op[w] # record.fp

\* What holds while the operation that inserted the row runs.
Safe(v) ==
    /\ record.status = "processing"
    /\ loop[v] = "on"
    /\ record.lock + due[v] >= Timeout - MaxLate - Spent
    /\ \A w \in Workers \ {v} : At(w, "hold") => ~knows[w]

IInv == /\ TypeOK /\ KnowsOK /\ OpsOK
        /\ \A v \in Workers : Creator(v) => Safe(v)

LEMMA Spending ==
    ASSUME TypeOK, RoomForFaults, RecordAssumption, RenewAssumption
    PROVE  /\ Spent \in Nat /\ Spent + RenewInterval + MaxLate < Timeout
           /\ NoFault => Spent' = Spent
           /\ Fault => Spent' = Spent + RenewInterval
<1>1. /\ faults \in Nat /\ MaxFaults \in Nat /\ faults <= MaxFaults
      /\ RenewInterval \in Nat /\ MaxLate \in Nat /\ Timeout \in Nat
  BY DEF TypeOK, RecordOK, RecordAssumption, RenewAssumption
<1>2. /\ Spent \in Nat /\ (faults + 1) * RenewInterval = Spent + RenewInterval
      /\ (MaxFaults + 1) * RenewInterval =
             (faults + 1) * RenewInterval + (MaxFaults - faults) * RenewInterval
      /\ (MaxFaults - faults) * RenewInterval \in Nat
      /\ (MaxFaults + 1) * RenewInterval \in Nat
  BY <1>1 DEF Spent
<1>3. Spent + RenewInterval + MaxLate < Timeout
  BY <1>1, <1>2 DEF RoomForFaults
<1> QED BY <1>1, <1>2, <1>3 DEF Spent, Fault, NoFault

\* While the operation that inserted the row runs, nobody finds its lease expired.
LEMMA LeaseLasts ==
    ASSUME IInv, RoomForFaults, NEW v \in Workers, Creator(v)
    PROVE  record.lock > 0 /\ \A w \in Workers, s \in Statuses : ~Reclaimable(w, s)
<1>1. Spent \in Nat /\ Spent + RenewInterval + MaxLate < Timeout
  BY Spending, RecordAssumption, RenewAssumption DEF IInv
<1>2. /\ record.lock \in Int /\ due[v] \in 0..RenewInterval /\ RenewInterval \in Nat
      /\ late \in [Workers -> 0..MaxLate] /\ MaxLate \in Nat /\ Timeout \in Nat
  BY RecordAssumption, RenewAssumption DEF IInv, TypeOK, RecordOK, Rows, Times
<1>3. record.lock + due[v] >= Timeout - MaxLate - Spent
  BY DEF IInv, Safe
<1>4. record.lock > 0 BY <1>1, <1>2, <1>3
<1>5. ASSUME NEW w \in Workers PROVE ~(record.lock <= -late[w])
  BY <1>2, <1>4
<1> QED BY <1>4, <1>5 DEF Reclaimable

LEMMA InvInit == Init => IInv
<1> SUFFICES ASSUME Init PROVE IInv OBVIOUS
<1>1. RecordOK
  <2>1. MaxLate \in Nat /\ MaxFaults \in Nat /\ MaxLock \in Nat /\ Ttl \in Nat
    BY RecordAssumption
  <2>2. Null \in Times(MaxLock) /\ Null \in Times(Ttl)
    BY <2>1 DEF Null, Times
  <2> QED BY <2>1, <2>2 DEF Init, RecordInit, RecordOK, Rows
<1>2. TypeOK
  BY <1>1, RenewAssumption DEF Init, TypeOK, PCs, Statuses
<1>3. KnowsOK /\ OpsOK /\ \A v \in Workers : ~Creator(v)
  BY DEF Init, RecordInit, KnowsOK, OpsOK, Acquiring, At, Creator
<1> QED BY <1>2, <1>3 DEF IInv

\* The assumptions, and what the invariant says of the types.
LEMMA Facts ==
    ASSUME TypeOK
    PROVE  /\ RecordOK /\ RecordAssumption
           /\ Timeout \in Nat /\ MaxLate \in Nat /\ RenewInterval \in Nat
           /\ record.lock \in Int /\ due \in [Workers -> 0..RenewInterval]
           /\ late \in [Workers -> 0..MaxLate] /\ knows \in [Workers -> BOOLEAN]
           /\ pc \in [Workers -> PCs] /\ op \in [Workers -> Fingerprints]
           /\ loop \in [Workers -> {"on", "stopping", "off"}]
BY RecordAssumption, RenewAssumption DEF TypeOK, RecordOK, Rows, Times

\* Faults are counted.
LEMMA FaultTypes ==
    ASSUME TypeOK, Fault \/ NoFault
    PROVE  faults' \in 0..MaxFaults
<1>1. faults \in 0..MaxFaults /\ MaxFaults \in Nat
  BY RecordAssumption DEF TypeOK, RecordOK
<1> QED BY <1>1 DEF Fault, NoFault

LEMMA StartKeeps ==
    ASSUME IInv, RoomForFaults, NEW w \in Workers, Start(w)
    PROVE  IInv'
<1>0. TypeOK /\ KnowsOK /\ OpsOK BY DEF IInv
<1> USE Facts
<1>1. TypeOK'
  BY <1>0, FaultTypes DEF Start, TypeOK, RecordOK, PCs, renewals
<1>2. KnowsOK'
  BY <1>0 DEF Start, KnowsOK, Present
<1>3. OpsOK'
  BY <1>0 DEF Start, OpsOK, Acquiring, At, Unused
<1>4. ASSUME NEW v \in Workers, Creator(v)' PROVE Safe(v)'
  <2>1. v # w /\ Creator(v)
    BY <1>0, <1>4 DEF Start, Creator, At, Present
  <2>2. Safe(v) BY <2>1 DEF IInv
  <2> QED BY <1>0, <2>1, <2>2 DEF Start, Safe, At, renewals, Spent, NoFault
<1> QED BY <1>1, <1>2, <1>3, <1>4 DEF IInv

\* An attempt that is refused, for whatever reason, leaves the lock alone.
LEMMA RefusedKeeps ==
    ASSUME IInv, RoomForFaults, NEW w \in Workers, pc[w] \in {"create", "read", "reclaim"},
           Refused(w), Fault \/ NoFault,
           UNCHANGED knows \/ knows' = [knows EXCEPT ![w] = Present]
    PROVE  IInv'
<1>0. TypeOK /\ KnowsOK /\ OpsOK BY DEF IInv
<1> USE Facts
<1>1. TypeOK'
  <2>1. knows' \in [Workers -> BOOLEAN]
    <3>1. [knows EXCEPT ![w] = Present] \in [Workers -> BOOLEAN]
      BY <1>0 DEF Present
    <3> QED BY <1>0, <3>1
  <2>2. pc' \in [Workers -> PCs] /\ late' \in [Workers -> 0..MaxLate]
    BY <1>0 DEF Refused, PCs
  <2>3. faults' \in 0..MaxFaults BY <1>0, FaultTypes
  <2> QED BY <1>0, <2>1, <2>2, <2>3 DEF Refused, TypeOK, RecordOK, renewals
<1>2. KnowsOK'
  BY <1>0 DEF Refused, KnowsOK, Present
<1>3. OpsOK'
  BY <1>0 DEF Refused, OpsOK, Acquiring, At
<1>4. ASSUME NEW v \in Workers, Creator(v)' PROVE Safe(v)'
  <2>1. v # w /\ Creator(v)
    BY <1>0, <1>4 DEF Refused, Creator, At, Present
  <2>2. Safe(v) BY <2>1 DEF IInv
  <2>3. Spent' >= Spent /\ Spent \in Nat /\ Spent' \in Nat
    BY <1>0, Spending, RenewAssumption, RecordAssumption
  <2>4. record' = record /\ due' = due /\ loop' = loop BY DEF Refused, renewals
  <2>5. record'.lock + due'[v] >= Timeout - MaxLate - Spent'
    BY <1>0, <2>2, <2>3, <2>4 DEF Safe
  <2>6. \A u \in Workers \ {v} : At(u, "hold")' => ~knows'[u]
    BY <1>0, <2>2 DEF Safe, Refused, At
  <2> QED BY <2>2, <2>4, <2>5, <2>6 DEF Safe
<1> QED BY <1>1, <1>2, <1>3, <1>4 DEF IInv

LEMMA CreateKeeps ==
    ASSUME IInv, RoomForFaults, NEW w \in Workers, Create(w)
    PROVE  IInv'
<1>0. TypeOK /\ KnowsOK /\ OpsOK BY DEF IInv
<1>a. pc[w] = "create" BY DEF Create, At
<1> USE Facts
<1>1. CASE CreateProcessing(w, op[w]) /\ Acquired(w) /\ NoFault
  <2>1. record' \in Rows /\ knows' \in [Workers -> BOOLEAN]
    BY <1>0, <1>1, RowTypes
  <2>2. TypeOK'
    <3>1. /\ pc' \in [Workers -> PCs] /\ loop' \in [Workers -> {"on", "stopping", "off"}]
          /\ UNCHANGED <<op, seen>>
      BY <1>0, <1>1 DEF Acquired, PCs
    <3>2. late' \in [Workers -> 0..MaxLate] /\ due' \in [Workers -> 0..RenewInterval]
      BY <1>0, <1>1 DEF Acquired
    <3>3. faults' \in 0..MaxFaults BY <1>0, <1>1, FaultTypes
    <3> QED BY <1>0, <2>1, <3>1, <3>2, <3>3 DEF TypeOK, RecordOK
  <2>3. /\ record'.status = "processing" /\ record'.fp = op[w]
        /\ record'.lock = Timeout - late[w]
        /\ \A v \in Workers : knows'[v] <=> v = w
    BY <1>0, <1>1 DEF CreateProcessing, KnowsOK
  <2>4. KnowsOK' BY <2>3 DEF KnowsOK, Present
  <2>5. OpsOK'
    BY <1>0, <1>1, <1>a, <2>3 DEF Acquired, OpsOK, Acquiring, At
  <2>6. ASSUME NEW v \in Workers, Creator(v)' PROVE Safe(v)'
    <3>1. v = w BY <2>3, <2>6 DEF Creator
    <3>2. Spent' \in Nat BY <1>0, <1>1, Spending, RenewAssumption, RecordAssumption
    <3>3. loop'[w] = "on" /\ due'[w] = 0 BY <1>0, <1>1 DEF Acquired
    <3>4. record'.lock + due'[w] >= Timeout - MaxLate - Spent'
      BY <1>0, <2>3, <3>2, <3>3
    <3> QED BY <2>3, <3>1, <3>3, <3>4 DEF Safe
  <2> QED BY <2>2, <2>4, <2>5, <2>6 DEF IInv
<1>2. CASE Present /\ NoFault /\ Goto(w, "read") /\ UNCHANGED <<store, seen, renewals>>
  <2>1. TypeOK'
    BY <1>0, <1>2, FaultTypes DEF Goto, TypeOK, RecordOK, PCs, store, renewals
  <2>2. KnowsOK' BY <1>0, <1>2 DEF KnowsOK, Present, store
  <2>3. OpsOK' BY <1>0, <1>2, <1>a DEF OpsOK, Goto, Acquiring, At, store
  <2>4. ASSUME NEW v \in Workers, Creator(v)' PROVE Safe(v)'
    <3>1. v # w /\ Creator(v)
      BY <1>0, <1>2, <2>4 DEF Goto, Creator, At, Present, store
    <3>2. Safe(v) BY <3>1 DEF IInv
    <3> QED BY <1>0, <1>2, <3>1, <3>2 DEF Goto, Safe, At, store, renewals, Spent, NoFault
  <2> QED BY <2>1, <2>2, <2>3, <2>4 DEF IInv
<1>3. CASE Unavailable(w)
  BY <1>a, <1>3, RefusedKeeps DEF Unavailable
<1> QED BY <1>1, <1>2, <1>3 DEF Create

LEMMA ReadKeeps ==
    ASSUME IInv, RoomForFaults, NEW w \in Workers, Read(w)
    PROVE  IInv'
<1>0. TypeOK /\ KnowsOK /\ OpsOK BY DEF IInv
<1>a. pc[w] = "read" BY DEF Read, At
<1> USE Facts
<1>1. CASE Refused(w) /\ NoFault /\ knows' = [knows EXCEPT ![w] = Present]
  BY <1>a, <1>1, RefusedKeeps
<1>2. CASE /\ Present /\ NoFault /\ knows' = [knows EXCEPT ![w] = Present]
           /\ Goto(w, "reclaim") /\ seen' = [seen EXCEPT ![w] = record.status]
           /\ UNCHANGED <<record, renewals>>
  <2>0. record.status \in Statuses
    BY <1>0, <1>2 DEF TypeOK, RecordOK, Rows, Present
  <2>1. TypeOK'
    BY <1>0, <1>2, <2>0, FaultTypes DEF Goto, TypeOK, RecordOK, PCs, renewals
  <2>2. KnowsOK' BY <1>0, <1>2 DEF KnowsOK, Present
  <2>3. OpsOK' BY <1>0, <1>2, <1>a DEF OpsOK, Goto, Acquiring, At
  <2>4. ASSUME NEW v \in Workers, Creator(v)' PROVE Safe(v)'
    <3>1. v # w /\ Creator(v)
      BY <1>0, <1>2, <2>4 DEF Goto, Creator, At, Present
    <3>2. Safe(v) BY <3>1 DEF IInv
    <3> QED BY <1>0, <1>2, <3>1, <3>2 DEF Goto, Safe, At, renewals, Spent, NoFault
  <2> QED BY <2>1, <2>2, <2>3, <2>4 DEF IInv
<1>3. CASE Unavailable(w)
  BY <1>a, <1>3, RefusedKeeps DEF Unavailable
<1> QED BY <1>1, <1>2, <1>3 DEF Read

LEMMA TryReclaimKeeps ==
    ASSUME IInv, RoomForFaults, NEW w \in Workers, TryReclaim(w)
    PROVE  IInv'
<1>0. TypeOK /\ KnowsOK /\ OpsOK BY DEF IInv
<1>a. pc[w] = "reclaim" BY DEF TryReclaim, At
<1> USE Facts
<1>1. CASE Reclaimable(w, seen[w]) /\ Reclaim(w) /\ Acquired(w) /\ NoFault
  <2>0. /\ record' \in Rows /\ knows' = knows /\ Present
        /\ record'.status = "processing" /\ record'.fp = record.fp
    BY <1>0, <1>1, RowTypes DEF Reclaim, Reclaimable, RecordOK, Rows
  <2>1. TypeOK'
    BY <1>0, <1>1, <2>0, FaultTypes, RenewAssumption DEF Acquired, TypeOK, RecordOK, PCs
  <2>2. KnowsOK' BY <2>0 DEF KnowsOK, Present
  <2>3. OpsOK' BY <1>0, <1>1, <1>a, <2>0 DEF OpsOK, Acquired, Acquiring, At
  <2>4. ASSUME NEW v \in Workers, Creator(v)' PROVE FALSE
    <3>1. CASE v = w
      <4>1. op[w] = record.fp BY <1>1, <2>0, <2>4, <3>1 DEF Creator, Acquired
      <4> QED BY <1>0, <1>a, <4>1 DEF OpsOK, Acquiring
    <3>2. CASE v # w
      <4>1. Creator(v)
        BY <1>0, <1>1, <2>0, <2>4, <3>2 DEF Creator, Acquired, At
      <4>2. seen[w] \in Statuses BY <1>0 DEF TypeOK
      <4> QED BY <1>1, <4>1, <4>2, LeaseLasts
    <3> QED BY <3>1, <3>2
  <2> QED BY <2>1, <2>2, <2>3, <2>4 DEF IInv
<1>2. CASE NoFault /\ Refused(w) /\ UNCHANGED knows
  BY <1>a, <1>2, RefusedKeeps
<1>3. CASE Unavailable(w)
  BY <1>a, <1>3, RefusedKeeps DEF Unavailable
<1> QED BY <1>1, <1>2, <1>3 DEF TryReclaim

\* Another operation that ends does not know the row any more.
LEMMA ReleaseKeeps ==
    ASSUME IInv, RoomForFaults, NEW w \in Workers, Release(w)
    PROVE  IInv'
<1>0. TypeOK /\ KnowsOK /\ OpsOK BY DEF IInv
<1> USE Facts
<1>1. /\ At(w, "hold") /\ pc' = [pc EXCEPT ![w] = "idle"] /\ UNCHANGED <<op, late, seen, due>>
      /\ loop' = [loop EXCEPT ![w] = IF @ = "on" THEN "stopping" ELSE @]
      /\ Fault \/ NoFault
  BY DEF Release, Goto
<1>2. \/ \E s \in Statuses, l \in {Null, 0} : Mark(w, s, l, Ttl)
      \/ UNCHANGED <<record, knows>>
  BY DEF Release, Statuses, store
<1>3. /\ record' \in Rows /\ knows' = knows /\ record'.fp = record.fp
      /\ Present' <=> Present
      /\ ~knows[w] => record' = record
  <2>1. CASE UNCHANGED <<record, knows>>
    BY <1>0, <2>1 DEF RecordOK, Present
  <2>2. CASE \E s \in Statuses, l \in {Null, 0} : Mark(w, s, l, Ttl)
    <3>1. PICK s \in Statuses, l \in {Null, 0} : Mark(w, s, l, Ttl) BY <2>2
    <3>2. record' \in Rows BY <1>0, <3>1, RowTypes
    <3>3. record'.fp = record.fp /\ (Present' <=> Present)
      BY <1>0, <3>1 DEF Mark, RecordOK, Rows, Present, Statuses
    <3> QED BY <3>1, <3>2, <3>3 DEF Mark
  <2> QED BY <1>2, <2>1, <2>2
<1>4. TypeOK'
  <2>1. /\ pc' \in [Workers -> PCs] /\ loop' \in [Workers -> {"on", "stopping", "off"}]
    BY <1>0, <1>1 DEF PCs
  <2>2. faults' \in 0..MaxFaults BY <1>0, <1>1, FaultTypes
  <2> QED BY <1>0, <1>1, <1>3, <2>1, <2>2 DEF TypeOK, RecordOK
<1>5. KnowsOK' BY <1>0, <1>3 DEF KnowsOK
<1>6. OpsOK' BY <1>0, <1>1, <1>3 DEF OpsOK, Acquiring, At
<1>7. ASSUME NEW v \in Workers, Creator(v)' PROVE Safe(v)'
  <2>1. v # w /\ Creator(v)
    BY <1>0, <1>1, <1>3, <1>7 DEF Creator, At
  <2>2. Safe(v) BY <2>1 DEF IInv
  <2>3. record' = record BY <1>1, <1>3, <2>1, <2>2 DEF Safe
  <2>4. Spent' >= Spent /\ Spent \in Nat /\ Spent' \in Nat
    BY <1>0, <1>1, Spending, RenewAssumption, RecordAssumption
  <2>5. record'.lock + due'[v] >= Timeout - MaxLate - Spent'
    BY <1>0, <1>1, <2>2, <2>3, <2>4 DEF Safe
  <2>6. loop'[v] = "on" BY <1>0, <1>1, <2>1, <2>2 DEF Safe
  <2>7. \A u \in Workers \ {v} : At(u, "hold")' => ~knows'[u]
    BY <1>0, <1>1, <1>3, <2>2 DEF Safe, At
  <2> QED BY <2>2, <2>3, <2>5, <2>6, <2>7 DEF Safe
<1> QED BY <1>4, <1>5, <1>6, <1>7 DEF IInv

\* A renewal that takes place restores the lease; one that fails costs an interval.
LEMMA RenewKeeps ==
    ASSUME IInv, RoomForFaults, NEW w \in Workers, Renew(w)
    PROVE  IInv'
<1>0. TypeOK /\ KnowsOK /\ OpsOK BY DEF IInv
<1> USE Facts
<1>1. /\ UNCHANGED <<pc, op, seen, late, knows>>
      /\ due[w] = RenewInterval /\ due' = [due EXCEPT ![w] = 0]
      /\ \/ Extendable(w, op[w]) /\ Extend /\ NoFault /\ loop' = loop
         \/ ~Extendable(w, op[w]) /\ NoFault /\ loop' = [loop EXCEPT ![w] = "off"] /\ record' = record
         \/ Fault /\ loop' = loop /\ record' = record
  BY DEF Renew, RenewFails, operations, store
<1>2. /\ record' \in Rows /\ record'.fp = record.fp /\ record'.status = record.status
      /\ record' = record \/ record'.lock = Timeout
  <2>0. record \in Rows BY <1>0 DEF TypeOK, RecordOK
  <2>1. CASE record' = record
    BY <2>0, <2>1
  <2>2. CASE Extend
    <3>1. record' \in Rows BY <1>0, <2>2, RowTypes
    <3>2. /\ record'.fp = record.fp /\ record'.status = record.status
          /\ record'.lock = Timeout
      BY <2>0, <2>2 DEF Rows, Extend
    <3> QED BY <3>1, <3>2
  <2> QED BY <1>1, <2>1, <2>2
<1>3. TypeOK'
  <2>1. due' \in [Workers -> 0..RenewInterval] BY <1>0, <1>1
  <2>2. loop' \in [Workers -> {"on", "stopping", "off"}] BY <1>0, <1>1
  <2>3. faults' \in 0..MaxFaults BY <1>0, <1>1, FaultTypes
  <2> QED BY <1>0, <1>1, <1>2, <2>1, <2>2, <2>3 DEF TypeOK, RecordOK
<1>4. KnowsOK' BY <1>0, <1>1, <1>2 DEF KnowsOK, Present
<1>5. OpsOK' BY <1>0, <1>1, <1>2 DEF OpsOK, Acquiring, At
<1>6. ASSUME NEW v \in Workers, Creator(v)' PROVE Safe(v)'
  <2>1. Creator(v) BY <1>1, <1>2, <1>6 DEF Creator, At, Present
  <2>2. Safe(v) BY <2>1 DEF IInv
  <2>3. Extendable(v, op[v]) BY <2>1, <2>2 DEF Creator, Extendable, Safe
  <2>4. /\ Spent \in Nat /\ Spent' \in Nat
        /\ NoFault => Spent' = Spent
        /\ Fault => Spent' = Spent + RenewInterval
    BY <1>0, <1>1, Spending, RenewAssumption, RecordAssumption
  <2>5. loop'[v] = "on"
    <3>1. CASE w = v BY <1>1, <2>2, <2>3, <3>1 DEF Safe
    <3>2. CASE w # v BY <1>0, <1>1, <2>2, <3>2 DEF Safe
    <3> QED BY <3>1, <3>2
  <2>6. record'.lock + due'[v] >= Timeout - MaxLate - Spent'
    <3>1. CASE record'.lock = Timeout
      <4>1. due'[v] \in Nat BY <1>0, <1>1
      <4> QED BY <1>0, <2>4, <3>1, <4>1
    <3>2. CASE record' = record /\ w # v
      <4>1. due'[v] = due[v] BY <1>0, <1>1, <3>2
      <4>2. Spent' >= Spent BY <1>0, <1>1, <2>4
      <4> QED BY <1>0, <2>2, <2>4, <3>2, <4>1, <4>2 DEF Safe
    <3>3. CASE record' = record /\ w = v /\ record'.lock # Timeout
      <4>1. Fault BY <1>0, <1>1, <2>3, <3>3 DEF Extend, RecordOK, Rows
      <4>2. due[v] = RenewInterval /\ due'[v] = 0 BY <1>0, <1>1, <3>3
      <4> QED BY <1>0, <2>2, <2>4, <3>3, <4>1, <4>2 DEF Safe
    <3> QED BY <1>2, <3>1, <3>2, <3>3
  <2>7. \A u \in Workers \ {v} : At(u, "hold")' => ~knows'[u]
    BY <1>1, <2>2 DEF Safe, At
  <2> QED BY <1>2, <2>2, <2>5, <2>6, <2>7 DEF Safe
<1> QED BY <1>3, <1>4, <1>5, <1>6 DEF IInv

\* A loop that was told to stop is not the one of a running operation, and a process
\* that dies takes only its own along.
LEMMA StopKeeps ==
    ASSUME IInv, RoomForFaults, NEW w \in Workers, Stop(w) \/ Crash(w)
    PROVE  IInv'
<1>0. TypeOK /\ KnowsOK /\ OpsOK BY DEF IInv
<1> USE Facts
<1>1. /\ UNCHANGED <<record, knows, op, seen, due>>
      /\ loop' = [loop EXCEPT ![w] = "off"] /\ (Fault \/ NoFault)
      /\ \/ pc' = pc /\ late' = late /\ loop[w] = "stopping"
         \/ pc' = [pc EXCEPT ![w] = "idle"] /\ late' = [late EXCEPT ![w] = 0]
  BY DEF Stop, Crash, store, operations
<1>2. TypeOK'
  <2>1. /\ pc' \in [Workers -> PCs] /\ loop' \in [Workers -> {"on", "stopping", "off"}]
        /\ late' \in [Workers -> 0..MaxLate]
    <3>1. 0 \in 0..MaxLate BY <1>0
    <3>2. [late EXCEPT ![w] = 0] \in [Workers -> 0..MaxLate] BY <1>0, <3>1
    <3>3. [pc EXCEPT ![w] = "idle"] \in [Workers -> PCs] BY <1>0 DEF PCs
    <3>4. loop' \in [Workers -> {"on", "stopping", "off"}] BY <1>0, <1>1
    <3> QED BY <1>0, <1>1, <3>2, <3>3, <3>4
  <2>2. faults' \in 0..MaxFaults BY <1>0, <1>1, FaultTypes
  <2> QED BY <1>0, <1>1, <2>1, <2>2 DEF TypeOK, RecordOK
<1>3. KnowsOK' BY <1>0, <1>1 DEF KnowsOK, Present
<1>4. OpsOK' BY <1>0, <1>1 DEF OpsOK, Acquiring, At
<1>5. ASSUME NEW v \in Workers, Creator(v)' PROVE Safe(v)'
  <2>1. Creator(v) BY <1>0, <1>1, <1>5 DEF Creator, At, Present
  <2>2. Safe(v) BY <2>1 DEF IInv
  <2>3. v # w
    BY <1>0, <1>1, <1>5, <2>2 DEF Safe, Creator, At
  <2>4. Spent' >= Spent /\ Spent \in Nat /\ Spent' \in Nat
    BY <1>0, <1>1, Spending, RenewAssumption, RecordAssumption
  <2>5. record'.lock + due'[v] >= Timeout - MaxLate - Spent'
    <3>1. record' = record /\ due' = due BY <1>1
    <3>2. record.lock + due[v] >= Timeout - MaxLate - Spent BY <2>2 DEF Safe
    <3> QED BY <1>0, <2>4, <3>1, <3>2
  <2>6. loop'[v] = "on" BY <1>0, <1>1, <2>2, <2>3 DEF Safe
  <2>7. \A u \in Workers \ {v} : At(u, "hold")' => ~knows'[u]
    BY <1>0, <1>1, <2>2 DEF Safe, At
  <2> QED BY <1>1, <2>2, <2>5, <2>6, <2>7 DEF Safe
<1> QED BY <1>2, <1>3, <1>4, <1>5 DEF IInv

LEMMA CleanupKeeps ==
    ASSUME IInv, Cleanup
    PROVE  IInv'
<1>0. TypeOK /\ KnowsOK /\ OpsOK BY DEF IInv
<1> USE Facts
<1>1. /\ UNCHANGED <<late, pc, op, seen, loop, due, faults>>
      /\ record'.status = "absent" /\ record'.fp = record.fp
      /\ knows' = [u \in Workers |-> FALSE]
  BY <1>0 DEF Cleanup, DeleteExpired, NoFault, operations, renewals, RecordOK, Rows
<1>2. record' \in Rows
  <2>1. Null \in Times(MaxLock) /\ Null \in Times(Ttl)
    BY RecordAssumption DEF Null, Times
  <2> QED BY <1>0, <2>1 DEF Cleanup, DeleteExpired, RecordOK, Rows
<1>3. TypeOK' BY <1>0, <1>1, <1>2 DEF TypeOK, RecordOK
<1>4. KnowsOK' BY <1>1 DEF KnowsOK
<1>5. OpsOK' BY <1>0, <1>1 DEF OpsOK, Acquiring, At
<1>6. \A v \in Workers : ~Creator(v)' BY <1>1 DEF Creator, Present
<1> QED BY <1>3, <1>4, <1>5, <1>6 DEF IInv

\* Time takes from the lease what it adds to the time since the last renewal.
LEMMA TickKeeps ==
    ASSUME IInv, RoomForFaults, Tick
    PROVE  IInv'
<1>0. TypeOK /\ KnowsOK /\ OpsOK BY DEF IInv
<1> USE Facts
<1>1. /\ record' \in Rows /\ knows' = knows /\ late' \in [Workers -> 0..MaxLate]
      /\ record'.fp = record.fp /\ record'.status = record.status
      /\ record.lock > 0 => record'.lock = record.lock - 1
  <2>1. /\ Acquiring \in SUBSET Workers /\ Age(Acquiring)
    BY DEF Acquiring, Tick
  <2>2. record' = [record EXCEPT !.lock = record'.lock, !.expires = record'.expires]
    BY <1>0, <2>1, AgeTypes
  <2>3. record'.fp = record.fp /\ record'.status = record.status
    BY <1>0, <2>2 DEF RecordOK, Rows
  <2> QED BY <1>0, <2>1, <2>3, AgeTypes
<1>2. /\ UNCHANGED <<pc, op, seen, loop, faults>>
      /\ \A u \in Workers : loop[u] # "off" => loop[u] = "on" /\ due[u] < RenewInterval
      /\ due' = [u \in Workers |-> IF loop[u] = "on" THEN due[u] + 1 ELSE 0]
  BY DEF Tick, operations, NoFault
<1>3. TypeOK'
  <2>1. due' \in [Workers -> 0..RenewInterval] BY <1>0, <1>2
  <2> QED BY <1>0, <1>1, <1>2, <2>1 DEF TypeOK, RecordOK
<1>4. KnowsOK' BY <1>0, <1>1 DEF KnowsOK, Present
<1>5. OpsOK' BY <1>0, <1>1, <1>2 DEF OpsOK, Acquiring, At
<1>6. ASSUME NEW v \in Workers, Creator(v)' PROVE Safe(v)'
  <2>1. Creator(v) BY <1>1, <1>2, <1>6 DEF Creator, At, Present
  <2>2. Safe(v) BY <2>1 DEF IInv
  <2>3. record.lock > 0 BY <2>1, LeaseLasts
  <2>4. due'[v] = due[v] + 1 BY <1>2, <2>2 DEF Safe
  <2>5. Spent' = Spent /\ Spent \in Nat
    BY <1>0, <1>2, Spending, RenewAssumption, RecordAssumption DEF NoFault
  <2>6. record'.lock + due'[v] >= Timeout - MaxLate - Spent'
    BY <1>0, <1>1, <2>2, <2>3, <2>4, <2>5 DEF Safe
  <2> QED BY <1>1, <1>2, <2>2, <2>6 DEF Safe, At
<1> QED BY <1>3, <1>4, <1>5, <1>6 DEF IInv

LEMMA Invariance == ASSUME RoomForFaults PROVE Spec => []IInv
<1>1. Init => IInv BY InvInit
<1>2. IInv /\ [Next]_vars => IInv'
  <2> SUFFICES ASSUME IInv, [Next]_vars PROVE IInv' OBVIOUS
  <2>1. ASSUME NEW w \in Workers, Start(w) \/ Step(w) \/ Release(w) \/ Crash(w)
        PROVE  IInv'
    BY <2>1, StartKeeps, CreateKeeps, ReadKeeps, TryReclaimKeeps, RenewKeeps, StopKeeps,
       ReleaseKeeps DEF Step
  <2>2. CASE UNCHANGED vars
    <3>1. UNCHANGED <<record, knows, late, faults, pc, op, seen, loop, due>>
      BY <2>2 DEF vars, store, operations, renewals
    <3>2. TypeOK' BY <3>1 DEF IInv, TypeOK, RecordOK
    <3>3. KnowsOK' /\ OpsOK' BY <3>1 DEF IInv, KnowsOK, OpsOK, Present, Acquiring, At
    <3>4. ASSUME NEW v \in Workers, Creator(v)' PROVE Safe(v)'
      <4>1. Creator(v) BY <3>1, <3>4 DEF Creator, At, Present
      <4>2. Safe(v) BY <4>1 DEF IInv
      <4> QED BY <3>1, <4>2 DEF Safe, At, Spent
    <3> QED BY <3>2, <3>3, <3>4 DEF IInv
  <2> QED BY <2>1, <2>2, CleanupKeeps, TickKeeps DEF Next
<1> QED BY <1>1, <1>2, PTL DEF Spec

-----------------------------------------------------------------------------
(* The results.                                                              *)

\* Every variable keeps its type, if failing renewals fit into the lease.
THEOREM TypeCorrect == ASSUME RoomForFaults PROVE Spec => []TypeOK
<1>1. IInv => TypeOK BY DEF IInv
<1> QED BY <1>1, Invariance, PTL

\* A renewal that fails does not end the renewLoop of the operation that inserted the
\* lock: no tick finds the lock beyond extension.
THEOREM RenewalGoesOn == ASSUME RoomForFaults PROVE Spec => []CreatorIsRenewed
<1>1. IInv => CreatorIsRenewed BY DEF IInv, Safe, CreatorIsRenewed
<1> QED BY <1>1, Invariance, PTL

\* The operation that inserted the lock keeps it while it runs: however many renewals
\* fail, as long as the lease has room for them, no other operation acquires it.
THEOREM LockIsKept == ASSUME RoomForFaults PROVE Spec => CreatorKeepsLock
<1>1. IInv /\ [Next]_vars =>
          [\A v, w \in Workers :
              Creator(v) /\ v # w /\ ~At(w, "hold") => pc'[w] # "hold"]_vars
  <2> SUFFICES ASSUME IInv, Next, NEW v \in Workers, NEW w \in Workers,
                      Creator(v), v # w, ~At(w, "hold")
               PROVE  pc'[w] # "hold"
    OBVIOUS
  <2>0. pc \in [Workers -> PCs] /\ seen[w] \in Statuses BY DEF IInv, TypeOK
  <2>1. Present /\ ~Reclaimable(w, seen[w])
    BY <2>0, LeaseLasts DEF Creator
  <2>2. ASSUME NEW u \in Workers, Start(u) \/ Step(u) \/ Release(u) \/ Crash(u)
        PROVE  pc'[w] # "hold"
    <3>1. CASE u # w
      BY <2>0, <2>2, <3>1 DEF Start, Step, Release, Crash, Create, Read, TryReclaim, Renew,
         Stop, Unavailable, Refused, Acquired, Goto, At, operations
    <3>2. CASE u = w
      BY <2>0, <2>1, <2>2, <3>2 DEF Start, Step, Release, Crash, Create, Read, TryReclaim,
         Renew, Stop, Unavailable, Refused, CreateProcessing, Goto, At, operations
    <3> QED BY <3>1, <3>2
  <2>3. CASE Cleanup \/ Tick
    BY <2>0, <2>3 DEF Cleanup, Tick, operations, At
  <2> QED BY <2>2, <2>3 DEF Next
<1> QED BY <1>1, Invariance, PTL DEF Spec, CreatorKeepsLock

=============================================================================
