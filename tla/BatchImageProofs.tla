-------------------------- MODULE BatchImageProofs --------------------------
(***************************************************************************)
(* Proofs about BatchImage, for any number of workers, faults, calls and   *)
(* retries, any hold and any balance.                                      *)
(***************************************************************************)
EXTENDS BatchImage, TLAPS

-----------------------------------------------------------------------------
(* The operators of the store keep records well formed.                      *)

\* The statuses a job can leave, written out.
LEMMA OpenIs ==
    Open = {"created", "uploading", "submitted", "running", "indexing", "settling"}
BY DEF Open, Allowed

\* What the transition table says of each status that is asked for.
LEMMA Transitions ==
    ASSUME NEW j
    PROVE  /\ CanTransition(j, "uploading") => j.status = "created"
           /\ CanTransition(j, "submitted") => j.status \in Unsubmitted
           /\ CanTransition(j, "running") => j.status \in {"submitted", "running"}
           /\ CanTransition(j, "indexing") => j.status \in {"submitted", "running"}
           /\ CanTransition(j, "settling") => j.status = "indexing"
           /\ CanTransition(j, "cancelled") =>
                  j.status \in Unsubmitted \cup {"submitted", "running"}
           /\ CanTransition(j, "failed") <=> j.status \in Open
           /\ j.status = "created" => CanTransition(j, "uploading")
<1> USE DEF CanTransition, Unsubmitted, Allowed
<1>1. CASE j.status = "created"   BY <1>1, OpenIs
<1>2. CASE j.status = "uploading" BY <1>2, OpenIs
<1>3. CASE j.status = "submitted" BY <1>3, OpenIs
<1>4. CASE j.status = "running"   BY <1>4, OpenIs
<1>5. CASE j.status = "indexing"  BY <1>5, OpenIs
<1>6. CASE j.status = "settling"  BY <1>6, OpenIs
<1>7. CASE j.status \notin Open   BY <1>7, OpenIs
<1> QED BY <1>1, <1>2, <1>3, <1>4, <1>5, <1>6, <1>7, OpenIs

\* Every statement on the row yields a row.
LEMMA JobTypes ==
    ASSUME BatchAssumption, NEW j \in Jobs
    PROVE  /\ [NoJob EXCEPT !.status = "created"] \in Jobs /\ NoJob \in Jobs
           /\ \A s \in Open \cup Given : Moved(j, s) \in Jobs
           /\ Submitted(j) \in Jobs /\ SubmitFailed(j) \in Jobs
           /\ QueueFailed(j) \in Jobs /\ QueueRecovered(j) \in Jobs
           /\ SettlementFailed(j) \in Jobs /\ Hidden(j) \in Jobs
           /\ \A b \in BOOLEAN : [j EXCEPT !.stale = b] \in Jobs
           /\ \A c \in Costs : [j EXCEPT !.cost = c] \in Jobs
           /\ [j EXCEPT !.status = "completed"] \in Jobs
<1> USE DEF Given, Terminal
<1>0. MaxRetries \in Nat /\ MaxRetries > 0
  BY DEF BatchAssumption
<1>1. NoJob \in Jobs /\ [NoJob EXCEPT !.status = "created"] \in Jobs
  <2>1. 0 \in 0..MaxRetries BY <1>0
  <2>2. NoJob \in Jobs BY <2>1 DEF Jobs, NoJob
  <2> QED BY <2>2, OpenIs DEF Jobs
<1>2. \A s \in Open \cup Given : Moved(j, s) \in Jobs
  BY DEF Moved, Jobs
<1>3. Submitted(j) \in Jobs /\ SubmitFailed(j) \in Jobs
  BY OpenIs DEF Submitted, SubmitFailed, Jobs
<1>4. QueueFailed(j) \in Jobs /\ QueueRecovered(j) \in Jobs
  BY DEF QueueFailed, QueueRecovered, Jobs
<1>5. SettlementFailed(j) \in Jobs
  <2>0. j.retries \in 0..MaxRetries BY DEF Jobs
  <2>1. (IF j.retries < MaxRetries THEN j.retries + 1 ELSE j.retries) \in 0..MaxRetries
    BY <1>0, <2>0
  <2> QED BY <2>1 DEF SettlementFailed, Jobs
<1>6. Hidden(j) \in Jobs
  BY DEF Hidden, Jobs
<1>7. /\ \A b \in BOOLEAN : [j EXCEPT !.stale = b] \in Jobs
      /\ \A c \in Costs : [j EXCEPT !.cost = c] \in Jobs
      /\ [j EXCEPT !.status = "completed"] \in Jobs
  BY DEF Jobs
<1> QED BY <1>1, <1>2, <1>3, <1>4, <1>5, <1>6, <1>7

\* Every movement that does not fail yields an account: nothing is overdrawn.
LEMMA AccountTypes ==
    ASSUME BatchAssumption, NEW a \in Accounts
    PROVE  /\ ~ReserveFails(a) => Reserved(a) \in Accounts
           /\ \A c \in Costs \cup {0} : ~CaptureFails(a) => Captured(a, c) \in Accounts
           /\ ~ReleaseFails(a) => Released(a) \in Accounts
<1>0. /\ Hold \in Nat /\ a.claims \subseteq Claims
      /\ a.balance \in Nat /\ a.frozen \in Nat /\ a.others \in Nat
  BY DEF Accounts, BatchAssumption
<1>1. ASSUME ~ReserveFails(a) PROVE Reserved(a) \in Accounts
  <2>1. CASE "hold" \in a.claims BY <2>1 DEF Reserved
  <2>2. CASE "hold" \notin a.claims
    <3>1. /\ a.balance - Hold \in Nat /\ a.frozen + Hold \in Nat
          /\ a.claims \cup {"hold"} \in SUBSET Claims
      BY <1>0, <1>1, <2>2 DEF ReserveFails, Claims
    <3> QED BY <3>1, <2>2 DEF Reserved, Accounts
  <2> QED BY <2>1, <2>2
<1>2. ASSUME NEW c \in Costs \cup {0}, ~CaptureFails(a) PROVE Captured(a, c) \in Accounts
  <2>1. CASE "capture" \in a.claims BY <2>1 DEF Captured
  <2>2. CASE "capture" \notin a.claims
    <3>0. c \in 0..Hold BY <1>0 DEF BatchAssumption
    <3>1. /\ a.balance + (Hold - c) \in Nat /\ a.frozen - Hold \in Nat
          /\ a.claims \cup {"capture"} \in SUBSET Claims
      BY <1>0, <1>2, <2>2, <3>0 DEF CaptureFails, Claims
    <3> QED BY <3>1, <2>2 DEF Captured, Accounts
  <2> QED BY <2>1, <2>2
<1>3. ASSUME ~ReleaseFails(a) PROVE Released(a) \in Accounts
  <2>1. CASE "release" \in a.claims BY <2>1 DEF Released
  <2>2. CASE "release" \notin a.claims /\ "hold" \notin a.claims
    <3>1. a.claims \cup {"release", "nothing"} \in SUBSET Claims BY <1>0 DEF Claims
    <3> QED BY <3>1, <2>2 DEF Released, Accounts
  <2>3. CASE "release" \notin a.claims /\ "hold" \in a.claims
    <3>1. /\ a.balance + Hold \in Nat /\ a.frozen - Hold \in Nat
          /\ a.claims \cup {"release"} \in SUBSET Claims
      BY <1>0, <1>3, <2>3 DEF ReleaseFails, Claims
    <3> QED BY <3>1, <2>3 DEF Released, Accounts
  <2> QED BY <2>1, <2>2, <2>3
<1> QED BY <1>1, <1>2, <1>3

\* Every script on the queue yields a queue.
LEMMA QueueTypes ==
    ASSUME NEW q \in Queues
    PROVE  /\ Empty \in Queues /\ Enqueued(q) \in Queues
           /\ q.ready > 0 => Taken(q) \in Queues
           /\ Requeued(q) \in Queues /\ Acked(q) \in Queues
           /\ MovedDue(q) \in Queues /\ Recovered(q) \in Queues
           /\ [q EXCEPT !.active = "stale"] \in Queues
<1>0. q.ready \in Nat /\ q.ready + 1 \in Nat
  BY DEF Queues
<1>1. Empty \in Queues /\ Enqueued(q) \in Queues
  <2>1. Empty \in Queues BY DEF Queues, Empty
  <2>2. CASE q.inflight BY <2>1, <2>2 DEF Enqueued
  <2>3. CASE ~q.inflight BY <1>0, <2>1, <2>3 DEF Enqueued, Queues
  <2> QED BY <2>2, <2>3
<1>2. q.ready > 0 => Taken(q) \in Queues
  <2>2. q.ready > 0 => q.ready - 1 \in Nat BY <1>0
  <2> QED BY <2>2 DEF Taken, Queues
<1>3. Requeued(q) \in Queues /\ Acked(q) \in Queues /\ [q EXCEPT !.active = "stale"] \in Queues
  BY DEF Queues, Requeued, Acked
<1>4. MovedDue(q) \in Queues /\ Recovered(q) \in Queues
  BY <1>0 DEF Queues, MovedDue, Recovered
<1> QED BY <1>1, <1>2, <1>3, <1>4

\* What each statement does to the status and to the provider's name.
LEMMA JobEffects ==
    ASSUME NEW j \in Jobs
    PROVE  /\ [NoJob EXCEPT !.status = "created"].status = "created"
           /\ ~[NoJob EXCEPT !.status = "created"].named
           /\ \A s : Moved(j, s).status = s /\ Moved(j, s).named = j.named
           /\ Submitted(j).status = "submitted" /\ Submitted(j).named
           /\ SubmitFailed(j).status = "failed" /\ SubmitFailed(j).named = j.named
           /\ QueueFailed(j).status = j.status /\ QueueFailed(j).named = j.named
           /\ QueueRecovered(j).status = j.status /\ QueueRecovered(j).named = j.named
           /\ SettlementFailed(j).status = j.status /\ SettlementFailed(j).named = j.named
           /\ Hidden(j).status = j.status /\ Hidden(j).named = j.named
           /\ \A b \in BOOLEAN : /\ [j EXCEPT !.stale = b].status = j.status
                                 /\ [j EXCEPT !.stale = b].named = j.named
           /\ \A c : /\ [j EXCEPT !.cost = c].status = j.status
                     /\ [j EXCEPT !.cost = c].named = j.named
           /\ [j EXCEPT !.status = "completed"].status = "completed"
           /\ [j EXCEPT !.status = "completed"].named = j.named
BY DEF Jobs, NoJob, Moved, Submitted, SubmitFailed, QueueFailed, QueueRecovered,
       SettlementFailed, Hidden

\* What each movement does to the claim of the release.
LEMMA AccountEffects ==
    ASSUME NEW a \in Accounts
    PROVE  /\ "release" \in Released(a).claims
           /\ "release" \in Reserved(a).claims <=> "release" \in a.claims
           /\ \A c : "release" \in Captured(a, c).claims <=> "release" \in a.claims
BY DEF Accounts, Claims, Released, Reserved, Captured

-----------------------------------------------------------------------------
(* The invariant.  What a process says of the row is stable under what the   *)
(* others do to it: Steady, below.                                           *)

Late == {"settling", "completed"} \cup Given

\* The provider's name is stored by the last step of the submission only.
Before == {"new", "reserve", "items", "upload", "submit", "store", "release",
           "giveback", "unreleased", "mark"}

\* The row and how far the submission has got.
SubmitOK ==
    /\ submit \in Before => ~job.named
    /\ job.status \in {"none"} \cup Unsubmitted => ~job.named
    /\ ~job.named => job.status \in {"none"} \cup Unsubmitted \cup Given
    /\ submit = "new" => job.status = "none"
    /\ submit \in {"reserve", "items", "upload"} => job.status \in {"created"} \cup Given
    /\ submit \in {"submit", "store", "release"} => job.status \in Unsubmitted \cup Given
    /\ submit = "giveback" => job.status \in Given

\* The provider works for a submission that will still store or abort its name,
\* for a job that is to be followed, or for one that was cancelled too late.
ProviderOK ==
    /\ submit \in {"new", "reserve", "items", "upload", "submit"} => upstream = "none"
    /\ job.status \in {"indexing", "settling", "completed"} => upstream \notin Working
    /\ upstream \in Working =>
          \/ submit \in {"store", "abort"} \/ hits \cap Orphans # {}
          \/ job.named /\ job.status \in {"submitted", "running", "cancelled"}

\* A release is claimed for a job that is over or about to be given up.
BackOK ==
    Back => \/ job.status \in Late
            \/ ~job.named /\ submit \in {"unreleased", "mark", "hide", "retry", "done"}

\* What the user's call and the recovery know of the row.
OthersOK ==
    /\ user \in {"refund", "retry"} => job.status \in Given
    /\ recovery \in {"release", "retry"} => job.status \in Given

\* What a worker knows of the row and the provider.
WorkerOK(w) ==
    /\ work[w].at = "release" => job.status \in Given
    /\ work[w].at \in {"capture", "finish", "record", "judge", "giveup", "note", "abandon"} =>
          job.status \in Late
    /\ work[w].at \in {"get", "move"} => job.named
    /\ work[w].at = "move" =>
          /\ work[w].to \in {"running", "indexing", "settling"} \cup Given
          /\ work[w].to # "running" => upstream \notin Working

\* A worker that works on the job has its lock.
LockOK == \A w \in Workers : work[w].at \in Holding => lock = w \/ "lapse" \in hits

IInv == /\ TypeOK /\ SubmitOK /\ ProviderOK /\ BackOK /\ OthersOK
        /\ LockOK /\ \A w \in Workers : WorkerOK(w)

\* What any step leaves to the others.
Steady ==
    /\ job.status \in Given => job'.status \in Given
    /\ job.status \in Late => job'.status \in Late
    /\ job.status = "completed" => job'.status = "completed"
    /\ job.named => job'.named
    /\ hits \subseteq hits'
    /\ job.named /\ upstream \notin Working => upstream' \notin Working

\* A step of the submission, seen from the rest.
ByOthers == UNCHANGED <<lock, user, work, recovery, calls>>

Places == Leaks \cup Orphans \cup {"capture", "late", "lapse"}

\* A fault is counted and leaves what was hit in hits.
LEMMA Faults ==
    ASSUME TypeOK, PipelineAssumption
    PROVE  /\ \A harm \in SUBSET Places :
                  Fault(harm) => /\ faults' \in 0..MaxFaults
                                 /\ hits' \subseteq Places /\ hits' = hits \cup harm
           /\ NoFault => faults' \in 0..MaxFaults /\ hits' \subseteq Places /\ hits' = hits
<1>1. faults \in 0..MaxFaults /\ MaxFaults \in Nat /\ hits \subseteq Places
  BY DEF TypeOK, PipelineAssumption, Places
<1>2. faults < MaxFaults => faults + 1 \in 0..MaxFaults BY <1>1
<1> QED BY <1>1, <1>2 DEF Fault, NoFault

\* A row of the same status and name.
Same == job'.status = job.status /\ job'.named = job.named

\* A step of the submission keeps the invariant of the row and the provider.
LEMMA SubmissionStep ==
    ASSUME IInv, Submission
    PROVE  TypeOK' /\ Steady /\ SubmitOK' /\ ProviderOK' /\ BackOK' /\ ByOthers
<1> USE DEF Call, Errs, Attempt, Nothing, Write, Pay, Push, Ask, Go, store, ByOthers, Same
<1>0. TypeOK /\ SubmitOK /\ ProviderOK /\ BackOK BY DEF IInv
<1>1. CASE Create
  <2>1. TypeOK' /\ hits \subseteq hits'
    <3>1. job' \in Jobs /\ account' \in Accounts /\ queue' \in Queues
      BY <1>0, <1>1, JobTypes, AccountTypes, QueueTypes, OpenIs, BatchAssumption DEF Create, TypeOK
    <3>2. /\ faults' \in 0..MaxFaults /\ hits' \subseteq Places /\ hits \subseteq hits'
      BY <1>0, <1>1, Faults, PipelineAssumption DEF Create, Places, Leaks, Orphans
    <3>3. UNCHANGED <<lock, user, work, recovery, calls>>
      BY <1>1 DEF Create
    <3> QED BY <1>0, <1>1, <3>1, <3>2, <3>3 DEF Create, TypeOK, Places, Stopped, Working
  <2>2. /\ submit = "new" /\ upstream' = upstream /\ Back' = Back
        /\ \/ Same /\ submit' = "done"
           \/ job'.status = "created" /\ ~job'.named /\ submit' \in {"reserve", "done"}
    BY <1>0, <1>1, JobEffects DEF Create, TypeOK, Back
  <2>3. ByOthers BY <1>1 DEF Create
  <2>4. Steady /\ SubmitOK' /\ ProviderOK' /\ BackOK'
    BY <1>0, <2>1, <2>2 DEF Steady, SubmitOK, ProviderOK, BackOK, Before, Late, Given,
       Unsubmitted, Orphans, Working, Stopped
  <2> QED BY <2>1, <2>2, <2>3, <2>4
<1>2. CASE Reserve
  <2>1. TypeOK' /\ hits \subseteq hits'
    <3>1. job' \in Jobs /\ account' \in Accounts /\ queue' \in Queues
      BY <1>0, <1>2, JobTypes, AccountTypes, QueueTypes, OpenIs, BatchAssumption DEF Reserve, TypeOK
    <3>2. /\ faults' \in 0..MaxFaults /\ hits' \subseteq Places /\ hits \subseteq hits'
      BY <1>0, <1>2, Faults, PipelineAssumption DEF Reserve, Places, Leaks, Orphans
    <3>3. UNCHANGED <<lock, user, work, recovery, calls>>
      BY <1>2 DEF Reserve
    <3> QED BY <1>0, <1>2, <3>1, <3>2, <3>3 DEF Reserve, TypeOK, Places, Stopped, Working
  <2>2. /\ submit = "reserve" /\ submit' \in {"items", "mark"} /\ Same
        /\ upstream' = upstream /\ Back' = Back
    BY <1>0, <1>2, AccountEffects DEF Reserve, TypeOK, Back
  <2>3. ByOthers BY <1>2 DEF Reserve
  <2>4. Steady /\ SubmitOK' /\ ProviderOK' /\ BackOK'
    BY <1>0, <2>1, <2>2 DEF Steady, SubmitOK, ProviderOK, BackOK, Before, Late, Given,
       Unsubmitted, Orphans, Working, Stopped
  <2> QED BY <2>1, <2>2, <2>3, <2>4
<1>3. CASE CreateItems
  <2>1. TypeOK' /\ hits \subseteq hits'
    <3>1. job' \in Jobs /\ account' \in Accounts /\ queue' \in Queues
      BY <1>0, <1>3, JobTypes, AccountTypes, QueueTypes, OpenIs, BatchAssumption DEF CreateItems, TypeOK
    <3>2. /\ faults' \in 0..MaxFaults /\ hits' \subseteq Places /\ hits \subseteq hits'
      BY <1>0, <1>3, Faults, PipelineAssumption DEF CreateItems, Places, Leaks, Orphans
    <3>3. UNCHANGED <<lock, user, work, recovery, calls>>
      BY <1>3 DEF CreateItems
    <3> QED BY <1>0, <1>3, <3>1, <3>2, <3>3 DEF CreateItems, TypeOK, Places, Stopped, Working
  <2>2. /\ submit = "items" /\ submit' \in {"upload", "release"} /\ Same
        /\ upstream' = upstream /\ Back' = Back
    BY <1>0, <1>3, JobEffects DEF CreateItems, TypeOK, Back
  <2>3. ByOthers BY <1>3 DEF CreateItems
  <2>4. Steady /\ SubmitOK' /\ ProviderOK' /\ BackOK'
    BY <1>0, <2>1, <2>2 DEF Steady, SubmitOK, ProviderOK, BackOK, Before, Late, Given,
       Unsubmitted, Orphans, Working, Stopped
  <2> QED BY <2>1, <2>2, <2>3, <2>4
<1>4. CASE StartUpload
  <2>1. TypeOK' /\ hits \subseteq hits'
    <3>1. job' \in Jobs /\ account' \in Accounts /\ queue' \in Queues
      <4>1. Moved(job, "uploading") \in Jobs
        BY <1>0, JobTypes, OpenIs, BatchAssumption DEF TypeOK
      <4> QED BY <1>0, <1>4, <4>1 DEF StartUpload, TypeOK
    <3>2. /\ faults' \in 0..MaxFaults /\ hits' \subseteq Places /\ hits \subseteq hits'
      BY <1>0, <1>4, Faults, PipelineAssumption DEF StartUpload, Places, Leaks, Orphans
    <3>3. UNCHANGED <<lock, user, work, recovery, calls>>
      BY <1>4 DEF StartUpload
    <3> QED BY <1>0, <1>4, <3>1, <3>2, <3>3 DEF StartUpload, TypeOK, Places, Stopped, Working
  <2>2. /\ submit = "upload" /\ job'.named = job.named
        /\ upstream' = upstream /\ Back' = Back
        /\ \/ job'.status = job.status /\ submit' = "release"
           \/ job'.status = job.status /\ job.status # "created" /\ submit' = "giveback"
           \/ job.status = "created" /\ job'.status = "uploading" /\ submit' \in {"submit", "release"}
    BY <1>0, <1>4, JobEffects, Transitions DEF StartUpload, TypeOK, Back
  <2>3. ByOthers BY <1>4 DEF StartUpload
  <2>4. Steady /\ SubmitOK' /\ ProviderOK' /\ BackOK'
    BY <1>0, <2>1, <2>2 DEF Steady, SubmitOK, ProviderOK, BackOK, Before, Late, Given,
       Unsubmitted, Orphans, Working, Stopped
  <2> QED BY <2>1, <2>2, <2>3, <2>4
<1>5. CASE SubmitToProvider
  <2>1. TypeOK' /\ hits \subseteq hits'
    <3>1. job' \in Jobs /\ account' \in Accounts /\ queue' \in Queues
      BY <1>0, <1>5, JobTypes, AccountTypes, QueueTypes, OpenIs, BatchAssumption DEF SubmitToProvider, TypeOK
    <3>2. /\ faults' \in 0..MaxFaults /\ hits' \subseteq Places /\ hits \subseteq hits'
      BY <1>0, <1>5, Faults, PipelineAssumption DEF SubmitToProvider, Places, Leaks, Orphans
    <3>3. UNCHANGED <<lock, user, work, recovery, calls>>
      BY <1>5 DEF SubmitToProvider
    <3> QED BY <1>0, <1>5, <3>1, <3>2, <3>3 DEF SubmitToProvider, TypeOK, Places, Stopped, Working
  <2>2. /\ submit = "submit" /\ Same /\ Back' = Back
        /\ \/ upstream' = "queued" /\ submit' = "store"
           \/ upstream' = "queued" /\ submit' = "release" /\ "submit" \in hits'
           \/ upstream' = upstream /\ submit' = "release"
    BY <1>0, <1>5, Faults, PipelineAssumption DEF SubmitToProvider, TypeOK, Back, Places, Leaks, Orphans
  <2>3. ByOthers BY <1>5 DEF SubmitToProvider
  <2>4. Steady /\ SubmitOK' /\ ProviderOK' /\ BackOK'
    BY <1>0, <2>1, <2>2 DEF Steady, SubmitOK, ProviderOK, BackOK, Before, Late, Given,
       Unsubmitted, Orphans, Working, Stopped
  <2> QED BY <2>1, <2>2, <2>3, <2>4
<1>6. CASE StoreProviderJob
  <2>1. TypeOK' /\ hits \subseteq hits'
    <3>1. job' \in Jobs /\ account' \in Accounts /\ queue' \in Queues
      BY <1>0, <1>6, JobTypes, AccountTypes, QueueTypes, OpenIs, BatchAssumption DEF StoreProviderJob, TypeOK
    <3>2. /\ faults' \in 0..MaxFaults /\ hits' \subseteq Places /\ hits \subseteq hits'
      BY <1>0, <1>6, Faults, PipelineAssumption DEF StoreProviderJob, Places, Leaks, Orphans
    <3>3. UNCHANGED <<lock, user, work, recovery, calls>>
      BY <1>6 DEF StoreProviderJob
    <3> QED BY <1>0, <1>6, <3>1, <3>2, <3>3 DEF StoreProviderJob, TypeOK, Places, Stopped, Working
  <2>2. /\ submit = "store"
        /\ upstream' = upstream /\ Back' = Back
        /\ \/ /\ job.status \in Unsubmitted /\ job'.status = "submitted" /\ job'.named
              /\ submit' \in {"enqueue", "abort"}
           \/ Same /\ submit' = "abort"
    <3>1. submit = "store" /\ upstream' = upstream /\ account' = account
      BY <1>6 DEF StoreProviderJob
    <3>2. Back' = Back BY <3>1 DEF Back
    <3>3. CASE CanTransition(job, "submitted") /\ job' = Submitted(job)
               /\ submit' \in {"enqueue", "abort"}
      <4>1. Submitted(job).status = "submitted" /\ Submitted(job).named
        BY <1>0, JobEffects DEF TypeOK
      <4>2. job.status \in Unsubmitted BY <3>3, Transitions
      <4>3. job'.status = "submitted" BY <3>3, <4>1
      <4>4. job'.named BY <3>3, <4>1, Zenon
      <4>5. submit' \in {"enqueue", "abort"} BY <3>3
      <4> QED BY <3>1, <3>2, <4>2, <4>3, <4>4, <4>5, Zenon
    <3>4. CASE job' = job /\ submit' = "abort"
      <4>1. Same BY <3>4, Zenon
      <4>2. submit' = "abort" BY <3>4
      <4> QED BY <3>1, <3>2, <4>1, <4>2, Zenon
    <3>5. \/ CanTransition(job, "submitted") /\ job' = Submitted(job)
             /\ submit' \in {"enqueue", "abort"}
          \/ job' = job /\ submit' = "abort"
      BY <1>6 DEF StoreProviderJob
    <3> QED BY <3>3, <3>4, <3>5
  <2>3. ByOthers BY <1>6 DEF StoreProviderJob
  <2>4. Steady /\ SubmitOK' /\ ProviderOK' /\ BackOK'
    BY <1>0, <2>1, <2>2 DEF Steady, SubmitOK, ProviderOK, BackOK, Before, Late, Given,
       Unsubmitted, Orphans, Working, Stopped
  <2> QED BY <2>1, <2>2, <2>3, <2>4
<1>7. CASE AbortOrphan
  <2>1. TypeOK' /\ hits \subseteq hits'
    <3>1. job' \in Jobs /\ account' \in Accounts /\ queue' \in Queues
      BY <1>0, <1>7, JobTypes, AccountTypes, QueueTypes, OpenIs, BatchAssumption DEF AbortOrphan, TypeOK
    <3>2. /\ faults' \in 0..MaxFaults /\ hits' \subseteq Places /\ hits \subseteq hits'
      BY <1>0, <1>7, Faults, PipelineAssumption DEF AbortOrphan, Places, Leaks, Orphans
    <3>3. UNCHANGED <<lock, user, work, recovery, calls>>
      BY <1>7 DEF AbortOrphan
    <3> QED BY <1>0, <1>7, <3>1, <3>2, <3>3 DEF AbortOrphan, TypeOK, Places, Stopped, Working
  <2>2. /\ submit = "abort" /\ submit' = "done" /\ Same /\ Back' = Back
        /\ \/ upstream' = Stopped
           \/ upstream' = upstream /\ "abort" \in hits'
    BY <1>0, <1>7, Faults, PipelineAssumption DEF AbortOrphan, TypeOK, Back, Places, Leaks, Orphans
  <2>3. ByOthers BY <1>7 DEF AbortOrphan
  <2>4. Steady /\ SubmitOK' /\ ProviderOK' /\ BackOK'
    BY <1>0, <2>1, <2>2 DEF Steady, SubmitOK, ProviderOK, BackOK, Before, Late, Given,
       Unsubmitted, Orphans, Working, Stopped
  <2> QED BY <2>1, <2>2, <2>3, <2>4
<1>8. CASE EnqueueJob
  <2>1. TypeOK' /\ hits \subseteq hits'
    <3>1. job' \in Jobs /\ account' \in Accounts /\ queue' \in Queues
      BY <1>0, <1>8, JobTypes, AccountTypes, QueueTypes, OpenIs, BatchAssumption DEF EnqueueJob, TypeOK
    <3>2. /\ faults' \in 0..MaxFaults /\ hits' \subseteq Places /\ hits \subseteq hits'
      BY <1>0, <1>8, Faults, PipelineAssumption DEF EnqueueJob, Places, Leaks, Orphans
    <3>3. UNCHANGED <<lock, user, work, recovery, calls>>
      BY <1>8 DEF EnqueueJob
    <3> QED BY <1>0, <1>8, <3>1, <3>2, <3>3 DEF EnqueueJob, TypeOK, Places, Stopped, Working
  <2>2. /\ submit = "enqueue" /\ submit' \in {"done", "unqueued"} /\ Same
        /\ upstream' = upstream /\ Back' = Back
    BY <1>0, <1>8, JobEffects DEF EnqueueJob, TypeOK, Back
  <2>3. ByOthers BY <1>8 DEF EnqueueJob
  <2>4. Steady /\ SubmitOK' /\ ProviderOK' /\ BackOK'
    BY <1>0, <2>1, <2>2 DEF Steady, SubmitOK, ProviderOK, BackOK, Before, Late, Given,
       Unsubmitted, Orphans, Working, Stopped
  <2> QED BY <2>1, <2>2, <2>3, <2>4
<1>9. CASE RecordUnqueued
  <2>1. TypeOK' /\ hits \subseteq hits'
    <3>1. job' \in Jobs /\ account' \in Accounts /\ queue' \in Queues
      BY <1>0, <1>9, JobTypes, AccountTypes, QueueTypes, OpenIs, BatchAssumption DEF RecordUnqueued, TypeOK
    <3>2. /\ faults' \in 0..MaxFaults /\ hits' \subseteq Places /\ hits \subseteq hits'
      BY <1>0, <1>9, Faults, PipelineAssumption DEF RecordUnqueued, Places, Leaks, Orphans
    <3>3. UNCHANGED <<lock, user, work, recovery, calls>>
      BY <1>9 DEF RecordUnqueued
    <3> QED BY <1>0, <1>9, <3>1, <3>2, <3>3 DEF RecordUnqueued, TypeOK, Places, Stopped, Working
  <2>2. /\ submit = "unqueued" /\ submit' = "done" /\ Same
        /\ upstream' = upstream /\ Back' = Back
    BY <1>0, <1>9, JobEffects DEF RecordUnqueued, TypeOK, Back
  <2>3. ByOthers BY <1>9 DEF RecordUnqueued
  <2>4. Steady /\ SubmitOK' /\ ProviderOK' /\ BackOK'
    BY <1>0, <2>1, <2>2 DEF Steady, SubmitOK, ProviderOK, BackOK, Before, Late, Given,
       Unsubmitted, Orphans, Working, Stopped
  <2> QED BY <2>1, <2>2, <2>3, <2>4
<1>10. CASE ReleaseFailedSubmit
  <2>1. TypeOK' /\ hits \subseteq hits'
    <3>1. job' \in Jobs /\ account' \in Accounts /\ queue' \in Queues
      BY <1>0, <1>10, JobTypes, AccountTypes, QueueTypes, OpenIs, BatchAssumption DEF ReleaseFailedSubmit, TypeOK
    <3>2. /\ faults' \in 0..MaxFaults /\ hits' \subseteq Places /\ hits \subseteq hits'
      BY <1>0, <1>10, Faults, PipelineAssumption DEF ReleaseFailedSubmit, Places, Leaks, Orphans
    <3>3. UNCHANGED <<lock, user, work, recovery, calls>>
      BY <1>10 DEF ReleaseFailedSubmit
    <3> QED BY <1>0, <1>10, <3>1, <3>2, <3>3 DEF ReleaseFailedSubmit, TypeOK, Places, Stopped, Working
  <2>2. /\ upstream' = upstream /\ Same
        /\ \/ submit = "release" /\ submit' \in {"mark", "unreleased"}
           \/ submit = "giveback" /\ submit' \in {"done", "unreleased"}
    BY <1>0, <1>10, AccountEffects DEF ReleaseFailedSubmit, TypeOK, Back
  <2>3. ByOthers BY <1>10 DEF ReleaseFailedSubmit
  <2>4. Steady /\ SubmitOK' /\ ProviderOK' /\ BackOK'
    BY <1>0, <2>1, <2>2 DEF Steady, SubmitOK, ProviderOK, BackOK, Before, Late, Given,
       Unsubmitted, Orphans, Working, Stopped
  <2> QED BY <2>1, <2>2, <2>3, <2>4
<1>11. CASE RecordUnreleased
  <2>1. TypeOK' /\ hits \subseteq hits'
    <3>1. job' \in Jobs /\ account' \in Accounts /\ queue' \in Queues
      BY <1>0, <1>11, JobTypes, AccountTypes, QueueTypes, OpenIs, BatchAssumption DEF RecordUnreleased, TypeOK
    <3>2. /\ faults' \in 0..MaxFaults /\ hits' \subseteq Places /\ hits \subseteq hits'
      BY <1>0, <1>11, Faults, PipelineAssumption DEF RecordUnreleased, Places, Leaks, Orphans
    <3>3. UNCHANGED <<lock, user, work, recovery, calls>>
      BY <1>11 DEF RecordUnreleased
    <3> QED BY <1>0, <1>11, <3>1, <3>2, <3>3 DEF RecordUnreleased, TypeOK, Places, Stopped, Working
  <2>2. /\ submit = "unreleased" /\ submit' = "retry"
        /\ upstream' = upstream /\ Back' = Back
        /\ Same \/ (job'.status = "failed" /\ job'.named = job.named)
    BY <1>0, <1>11, JobEffects DEF RecordUnreleased, TypeOK, Back
  <2>3. ByOthers BY <1>11 DEF RecordUnreleased
  <2>4. Steady /\ SubmitOK' /\ ProviderOK' /\ BackOK'
    BY <1>0, <2>1, <2>2 DEF Steady, SubmitOK, ProviderOK, BackOK, Before, Late, Given,
       Unsubmitted, Orphans, Working, Stopped
  <2> QED BY <2>1, <2>2, <2>3, <2>4
<1>12. CASE RetryRelease
  <2>1. TypeOK' /\ hits \subseteq hits'
    <3>1. job' \in Jobs /\ account' \in Accounts /\ queue' \in Queues
      BY <1>0, <1>12, JobTypes, AccountTypes, QueueTypes, OpenIs, BatchAssumption DEF RetryRelease, TypeOK
    <3>2. /\ faults' \in 0..MaxFaults /\ hits' \subseteq Places /\ hits \subseteq hits'
      BY <1>0, <1>12, Faults, PipelineAssumption DEF RetryRelease, Places, Leaks, Orphans
    <3>3. UNCHANGED <<lock, user, work, recovery, calls>>
      BY <1>12 DEF RetryRelease
    <3> QED BY <1>0, <1>12, <3>1, <3>2, <3>3 DEF RetryRelease, TypeOK, Places, Stopped, Working
  <2>2. /\ submit = "retry" /\ submit' = "done" /\ Same
        /\ upstream' = upstream /\ Back' = Back
    BY <1>0, <1>12, JobEffects DEF RetryRelease, TypeOK, Back
  <2>3. ByOthers BY <1>12 DEF RetryRelease
  <2>4. Steady /\ SubmitOK' /\ ProviderOK' /\ BackOK'
    BY <1>0, <2>1, <2>2 DEF Steady, SubmitOK, ProviderOK, BackOK, Before, Late, Given,
       Unsubmitted, Orphans, Working, Stopped
  <2> QED BY <2>1, <2>2, <2>3, <2>4
<1>13. CASE RecordFailure
  <2>1. TypeOK' /\ hits \subseteq hits'
    <3>1. job' \in Jobs /\ account' \in Accounts /\ queue' \in Queues
      BY <1>0, <1>13, JobTypes, AccountTypes, QueueTypes, OpenIs, BatchAssumption DEF RecordFailure, TypeOK
    <3>2. /\ faults' \in 0..MaxFaults /\ hits' \subseteq Places /\ hits \subseteq hits'
      BY <1>0, <1>13, Faults, PipelineAssumption DEF RecordFailure, Places, Leaks, Orphans
    <3>3. UNCHANGED <<lock, user, work, recovery, calls>>
      BY <1>13 DEF RecordFailure
    <3> QED BY <1>0, <1>13, <3>1, <3>2, <3>3 DEF RecordFailure, TypeOK, Places, Stopped, Working
  <2>2. /\ submit = "mark" /\ submit' = "hide"
        /\ upstream' = upstream /\ Back' = Back
        /\ Same \/ (job'.status = "failed" /\ job'.named = job.named)
    BY <1>0, <1>13, JobEffects DEF RecordFailure, TypeOK, Back
  <2>3. ByOthers BY <1>13 DEF RecordFailure
  <2>4. Steady /\ SubmitOK' /\ ProviderOK' /\ BackOK'
    BY <1>0, <2>1, <2>2 DEF Steady, SubmitOK, ProviderOK, BackOK, Before, Late, Given,
       Unsubmitted, Orphans, Working, Stopped
  <2> QED BY <2>1, <2>2, <2>3, <2>4
<1>14. CASE Hide
  <2>1. TypeOK' /\ hits \subseteq hits'
    <3>1. job' \in Jobs /\ account' \in Accounts /\ queue' \in Queues
      BY <1>0, <1>14, JobTypes, AccountTypes, QueueTypes, OpenIs, BatchAssumption DEF Hide, TypeOK
    <3>2. /\ faults' \in 0..MaxFaults /\ hits' \subseteq Places /\ hits \subseteq hits'
      BY <1>0, <1>14, Faults, PipelineAssumption DEF Hide, Places, Leaks, Orphans
    <3>3. UNCHANGED <<lock, user, work, recovery, calls>>
      BY <1>14 DEF Hide
    <3> QED BY <1>0, <1>14, <3>1, <3>2, <3>3 DEF Hide, TypeOK, Places, Stopped, Working
  <2>2. /\ submit = "hide" /\ submit' = "done" /\ Same
        /\ upstream' = upstream /\ Back' = Back
    BY <1>0, <1>14, JobEffects DEF Hide, TypeOK, Back
  <2>3. ByOthers BY <1>14 DEF Hide
  <2>4. Steady /\ SubmitOK' /\ ProviderOK' /\ BackOK'
    BY <1>0, <2>1, <2>2 DEF Steady, SubmitOK, ProviderOK, BackOK, Before, Late, Given,
       Unsubmitted, Orphans, Working, Stopped
  <2> QED BY <2>1, <2>2, <2>3, <2>4
<1> QED BY <1>1, <1>2, <1>3, <1>4, <1>5, <1>6, <1>7, <1>8, <1>9, <1>10, <1>11, <1>12, <1>13, <1>14 DEF Submission
\* A step that leaves the submission where it is and does no more to the row and
\* the provider than what the others do.
Calm ==
    /\ submit' = submit /\ job'.named = job.named /\ hits \subseteq hits'
    /\ \/ job'.status = job.status
       \/ /\ job.status \in Unsubmitted \cup {"submitted", "running"}
          /\ job'.status = "cancelled"
       \/ job.status \in Unsubmitted /\ job'.status = "failed"
       \/ /\ job.named /\ job.status \in {"submitted", "running"}
          /\ job'.status = "running"
       \/ /\ job.named /\ upstream \notin Working /\ job.status \in Open
          /\ job'.status \in {"indexing", "settling"} \cup Given
          /\ job.status \in Late => job'.status \in Late
       \/ job.status = "settling" /\ job'.status = "completed"
    /\ upstream' = upstream \/ upstream \in Working
    /\ Back' => Back \/ job.status \in Late

\* A calm step keeps what the invariant says of the row and the provider.
LEMMA CalmKeeps ==
    ASSUME IInv, Calm
    PROVE  Steady /\ SubmitOK' /\ ProviderOK' /\ BackOK'
<1>0. SubmitOK /\ ProviderOK /\ BackOK BY DEF IInv
<1>1. job.status \in {"indexing", "settling", "completed"} => job.named
  BY <1>0 DEF SubmitOK, Unsubmitted, Given
<1>2. Steady
  BY <1>0, <1>1, OpenIs DEF Calm, Steady, Late, Given, Unsubmitted, Working
<1>3. SubmitOK'
  BY <1>0, <1>1, OpenIs DEF Calm, SubmitOK, Before, Given, Unsubmitted
<1>4. ProviderOK'
  BY <1>0, <1>1, OpenIs DEF Calm, ProviderOK, SubmitOK, Given, Unsubmitted, Working
<1>5. BackOK'
  BY <1>0, <1>1, <1>2 DEF Calm, BackOK, Steady
<1> QED BY <1>2, <1>3, <1>4, <1>5

\* A step of the user's other call is calm, and it returns the hold of a job that is
\* over.
LEMMA UserStep ==
    ASSUME IInv, CancelReads \/ SubmitAgain \/ UserCalls \/ LeaveUser
    PROVE  /\ TypeOK' /\ Calm /\ UNCHANGED <<lock, submit, work, recovery>>
           /\ user' \in {"refund", "retry"} => job'.status \in Given
<1> USE DEF Call, Errs, Attempt, Nothing, Write, Pay, Push, Ask, User, store
<1>0. TypeOK /\ SubmitOK /\ OthersOK BY DEF IInv
<1>1. CASE CancelReads
  <2>1. job' \in Jobs /\ account' \in Accounts /\ queue' \in Queues
    BY <1>0, <1>1 DEF CancelReads, TypeOK
  <2>2. /\ faults' \in 0..MaxFaults /\ hits' \subseteq Places /\ hits \subseteq hits'
    BY <1>0, <1>1, Faults, PipelineAssumption DEF CancelReads, Places, Leaks, Orphans
  <2>3. UNCHANGED <<lock, submit, work, recovery>>
    BY <1>1 DEF CancelReads
  <2>4. calls' \in 0..MaxCalls /\ user' \in {"idle", "stop", "kick", "cancel", "refund", "again", "unqueued", "retry"}
    BY <1>0, <1>1, PipelineAssumption DEF CancelReads, TypeOK
  <2>5. TypeOK'
    BY <1>0, <1>1, <2>1, <2>2, <2>3, <2>4 DEF CancelReads, TypeOK, Places, Stopped, Working
  <2>6. Same /\ upstream' = upstream /\ Back' = Back
    BY <1>0, <1>1 DEF CancelReads, TypeOK, Back, Same
  <2>7. Calm
    BY <1>0, <2>2, <2>3, <2>6 DEF Calm, Late, Stopped, Same
  <2>8. user' \in {"refund", "retry"} => job'.status \in Given
    BY <1>0, <1>1, <2>6 DEF CancelReads, OthersOK, Given, Same
  <2> QED BY <2>3, <2>5, <2>7, <2>8
<1>2. CASE StopProviderJob
  <2>1. job' \in Jobs /\ account' \in Accounts /\ queue' \in Queues
    BY <1>0, <1>2 DEF StopProviderJob, TypeOK
  <2>2. /\ faults' \in 0..MaxFaults /\ hits' \subseteq Places /\ hits \subseteq hits'
    BY <1>0, <1>2, Faults, PipelineAssumption DEF StopProviderJob, Places, Leaks, Orphans
  <2>3. UNCHANGED <<lock, submit, work, recovery>>
    BY <1>2 DEF StopProviderJob
  <2>4. calls' \in 0..MaxCalls /\ user' \in {"idle", "stop", "kick", "cancel", "refund", "again", "unqueued", "retry"}
    BY <1>0, <1>2, PipelineAssumption DEF StopProviderJob, TypeOK
  <2>5. TypeOK'
    BY <1>0, <1>2, <2>1, <2>2, <2>3, <2>4 DEF StopProviderJob, TypeOK, Places, Stopped, Working
  <2>6. Same /\ Back' = Back /\ (upstream' = upstream \/ upstream \in Working)
    BY <1>0, <1>2 DEF StopProviderJob, TypeOK, Back, Same, Stopped
  <2>7. Calm
    BY <1>0, <2>2, <2>3, <2>6 DEF Calm, Late, Stopped, Same
  <2>8. user' \in {"refund", "retry"} => job'.status \in Given
    BY <1>0, <1>2, <2>6 DEF StopProviderJob, OthersOK, Given, Same
  <2> QED BY <2>3, <2>5, <2>7, <2>8
<1>3. CASE EnqueueCancelled
  <2>1. job' \in Jobs /\ account' \in Accounts /\ queue' \in Queues
    BY <1>0, <1>3, QueueTypes DEF EnqueueCancelled, TypeOK
  <2>2. /\ faults' \in 0..MaxFaults /\ hits' \subseteq Places /\ hits \subseteq hits'
    BY <1>0, <1>3, Faults, PipelineAssumption DEF EnqueueCancelled, Places, Leaks, Orphans
  <2>3. UNCHANGED <<lock, submit, work, recovery>>
    BY <1>3 DEF EnqueueCancelled
  <2>4. calls' \in 0..MaxCalls /\ user' \in {"idle", "stop", "kick", "cancel", "refund", "again", "unqueued", "retry"}
    BY <1>0, <1>3, PipelineAssumption DEF EnqueueCancelled, TypeOK
  <2>5. TypeOK'
    BY <1>0, <1>3, <2>1, <2>2, <2>3, <2>4 DEF EnqueueCancelled, TypeOK, Places, Stopped, Working
  <2>6. Same /\ upstream' = upstream /\ Back' = Back
    BY <1>0, <1>3 DEF EnqueueCancelled, TypeOK, Back, Same
  <2>7. Calm
    BY <1>0, <2>2, <2>3, <2>6 DEF Calm, Late, Stopped, Same
  <2>8. user' \in {"refund", "retry"} => job'.status \in Given
    BY <1>0, <1>3, <2>6 DEF EnqueueCancelled, OthersOK, Given, Same
  <2> QED BY <2>3, <2>5, <2>7, <2>8
<1>4. CASE CancelUnsubmitted
  <2>1. job' \in Jobs /\ account' \in Accounts /\ queue' \in Queues
    <3>1. Moved(job, "cancelled") \in Jobs
      BY <1>0, JobTypes, BatchAssumption DEF TypeOK, Given
    <3> QED BY <1>0, <1>4, <3>1 DEF CancelUnsubmitted, TypeOK
  <2>2. /\ faults' \in 0..MaxFaults /\ hits' \subseteq Places /\ hits \subseteq hits'
    BY <1>0, <1>4, Faults, PipelineAssumption DEF CancelUnsubmitted, Places, Leaks, Orphans
  <2>3. UNCHANGED <<lock, submit, work, recovery>>
    BY <1>4 DEF CancelUnsubmitted
  <2>4. calls' \in 0..MaxCalls /\ user' \in {"idle", "stop", "kick", "cancel", "refund", "again", "unqueued", "retry"}
    BY <1>0, <1>4, PipelineAssumption DEF CancelUnsubmitted, TypeOK
  <2>5. TypeOK'
    BY <1>0, <1>4, <2>1, <2>2, <2>3, <2>4 DEF CancelUnsubmitted, TypeOK, Places, Stopped, Working
  <2>6. /\ upstream' = upstream /\ Back' = Back /\ job'.named = job.named
        /\ \/ job'.status = job.status /\ user' = "idle"
           \/ /\ job.status \in Unsubmitted \cup {"submitted", "running"}
              /\ job'.status = "cancelled"
    BY <1>0, <1>4, JobEffects, Transitions DEF CancelUnsubmitted, TypeOK, Back
  <2>7. Calm
    BY <1>0, <2>2, <2>3, <2>6 DEF Calm, Late, Stopped, Same
  <2>8. user' \in {"refund", "retry"} => job'.status \in Given
    BY <1>0, <1>4, <2>6 DEF CancelUnsubmitted, OthersOK, Given, Same
  <2> QED BY <2>3, <2>5, <2>7, <2>8
<1>5. CASE ReleaseCancelled
  <2>1. job' \in Jobs /\ account' \in Accounts /\ queue' \in Queues
    BY <1>0, <1>5, AccountTypes, BatchAssumption DEF ReleaseCancelled, TypeOK
  <2>2. /\ faults' \in 0..MaxFaults /\ hits' \subseteq Places /\ hits \subseteq hits'
    BY <1>0, <1>5, Faults, PipelineAssumption DEF ReleaseCancelled, Places, Leaks, Orphans
  <2>3. UNCHANGED <<lock, submit, work, recovery>>
    BY <1>5 DEF ReleaseCancelled
  <2>4. calls' \in 0..MaxCalls /\ user' \in {"idle", "stop", "kick", "cancel", "refund", "again", "unqueued", "retry"}
    BY <1>0, <1>5, PipelineAssumption DEF ReleaseCancelled, TypeOK
  <2>5. TypeOK'
    BY <1>0, <1>5, <2>1, <2>2, <2>3, <2>4 DEF ReleaseCancelled, TypeOK, Places, Stopped, Working
  <2>6. Same /\ upstream' = upstream /\ job.status \in Given
    BY <1>0, <1>5 DEF ReleaseCancelled, TypeOK, Back, Same, OthersOK
  <2>7. Calm
    BY <1>0, <2>2, <2>3, <2>6 DEF Calm, Late, Stopped, Same
  <2>8. user' \in {"refund", "retry"} => job'.status \in Given
    BY <1>0, <1>5, <2>6 DEF ReleaseCancelled, OthersOK, Given, Same
  <2> QED BY <2>3, <2>5, <2>7, <2>8
<1>6. CASE RetryCancelled
  <2>1. job' \in Jobs /\ account' \in Accounts /\ queue' \in Queues
    BY <1>0, <1>6, QueueTypes DEF RetryCancelled, TypeOK
  <2>2. /\ faults' \in 0..MaxFaults /\ hits' \subseteq Places /\ hits \subseteq hits'
    BY <1>0, <1>6, Faults, PipelineAssumption DEF RetryCancelled, Places, Leaks, Orphans
  <2>3. UNCHANGED <<lock, submit, work, recovery>>
    BY <1>6 DEF RetryCancelled
  <2>4. calls' \in 0..MaxCalls /\ user' \in {"idle", "stop", "kick", "cancel", "refund", "again", "unqueued", "retry"}
    BY <1>0, <1>6, PipelineAssumption DEF RetryCancelled, TypeOK
  <2>5. TypeOK'
    BY <1>0, <1>6, <2>1, <2>2, <2>3, <2>4 DEF RetryCancelled, TypeOK, Places, Stopped, Working
  <2>6. Same /\ upstream' = upstream /\ Back' = Back
    BY <1>0, <1>6 DEF RetryCancelled, TypeOK, Back, Same
  <2>7. Calm
    BY <1>0, <2>2, <2>3, <2>6 DEF Calm, Late, Stopped, Same
  <2>8. user' \in {"refund", "retry"} => job'.status \in Given
    BY <1>0, <1>6, <2>6 DEF RetryCancelled, OthersOK, Given, Same
  <2> QED BY <2>3, <2>5, <2>7, <2>8
<1>7. CASE SubmitAgain
  <2>1. job' \in Jobs /\ account' \in Accounts /\ queue' \in Queues
    BY <1>0, <1>7 DEF SubmitAgain, TypeOK
  <2>2. /\ faults' \in 0..MaxFaults /\ hits' \subseteq Places /\ hits \subseteq hits'
    BY <1>0, <1>7, Faults, PipelineAssumption DEF SubmitAgain, Places, Leaks, Orphans
  <2>3. UNCHANGED <<lock, submit, work, recovery>>
    BY <1>7 DEF SubmitAgain
  <2>4. calls' \in 0..MaxCalls /\ user' \in {"idle", "stop", "kick", "cancel", "refund", "again", "unqueued", "retry"}
    BY <1>0, <1>7, PipelineAssumption DEF SubmitAgain, TypeOK
  <2>5. TypeOK'
    BY <1>0, <1>7, <2>1, <2>2, <2>3, <2>4 DEF SubmitAgain, TypeOK, Places, Stopped, Working
  <2>6. Same /\ upstream' = upstream /\ Back' = Back
    BY <1>0, <1>7 DEF SubmitAgain, TypeOK, Back, Same
  <2>7. Calm
    BY <1>0, <2>2, <2>3, <2>6 DEF Calm, Late, Stopped, Same
  <2>8. user' \in {"refund", "retry"} => job'.status \in Given
    BY <1>0, <1>7, <2>6 DEF SubmitAgain, OthersOK, Given, Same
  <2> QED BY <2>3, <2>5, <2>7, <2>8
<1>8. CASE EnqueueAgain
  <2>1. job' \in Jobs /\ account' \in Accounts /\ queue' \in Queues
    BY <1>0, <1>8, QueueTypes DEF EnqueueAgain, TypeOK
  <2>2. /\ faults' \in 0..MaxFaults /\ hits' \subseteq Places /\ hits \subseteq hits'
    BY <1>0, <1>8, Faults, PipelineAssumption DEF EnqueueAgain, Places, Leaks, Orphans
  <2>3. UNCHANGED <<lock, submit, work, recovery>>
    BY <1>8 DEF EnqueueAgain
  <2>4. calls' \in 0..MaxCalls /\ user' \in {"idle", "stop", "kick", "cancel", "refund", "again", "unqueued", "retry"}
    BY <1>0, <1>8, PipelineAssumption DEF EnqueueAgain, TypeOK
  <2>5. TypeOK'
    BY <1>0, <1>8, <2>1, <2>2, <2>3, <2>4 DEF EnqueueAgain, TypeOK, Places, Stopped, Working
  <2>6. Same /\ upstream' = upstream /\ Back' = Back
    BY <1>0, <1>8 DEF EnqueueAgain, TypeOK, Back, Same
  <2>7. Calm
    BY <1>0, <2>2, <2>3, <2>6 DEF Calm, Late, Stopped, Same
  <2>8. user' \in {"refund", "retry"} => job'.status \in Given
    BY <1>0, <1>8, <2>6 DEF EnqueueAgain, OthersOK, Given, Same
  <2> QED BY <2>3, <2>5, <2>7, <2>8
<1>9. CASE RecordUnqueuedAgain
  <2>1. job' \in Jobs /\ account' \in Accounts /\ queue' \in Queues
    BY <1>0, <1>9, JobTypes, BatchAssumption DEF RecordUnqueuedAgain, TypeOK, Given
  <2>2. /\ faults' \in 0..MaxFaults /\ hits' \subseteq Places /\ hits \subseteq hits'
    BY <1>0, <1>9, Faults, PipelineAssumption DEF RecordUnqueuedAgain, Places, Leaks, Orphans
  <2>3. UNCHANGED <<lock, submit, work, recovery>>
    BY <1>9 DEF RecordUnqueuedAgain
  <2>4. calls' \in 0..MaxCalls /\ user' \in {"idle", "stop", "kick", "cancel", "refund", "again", "unqueued", "retry"}
    BY <1>0, <1>9, PipelineAssumption DEF RecordUnqueuedAgain, TypeOK
  <2>5. TypeOK'
    BY <1>0, <1>9, <2>1, <2>2, <2>3, <2>4 DEF RecordUnqueuedAgain, TypeOK, Places, Stopped, Working
  <2>6. Same /\ upstream' = upstream /\ Back' = Back
    BY <1>0, <1>9, JobEffects DEF RecordUnqueuedAgain, TypeOK, Back, Same
  <2>7. Calm
    BY <1>0, <2>2, <2>3, <2>6 DEF Calm, Late, Stopped, Same
  <2>8. user' \in {"refund", "retry"} => job'.status \in Given
    BY <1>0, <1>9, <2>6 DEF RecordUnqueuedAgain, OthersOK, Given, Same
  <2> QED BY <2>3, <2>5, <2>7, <2>8
<1>10. CASE LeaveUser
  <2>1. job' \in Jobs /\ account' \in Accounts /\ queue' \in Queues
    BY <1>0, <1>10 DEF LeaveUser, TypeOK
  <2>2. /\ faults' \in 0..MaxFaults /\ hits' \subseteq Places /\ hits \subseteq hits'
    BY <1>0, <1>10, Faults, PipelineAssumption DEF LeaveUser, Places, Leaks, Orphans
  <2>3. UNCHANGED <<lock, submit, work, recovery>>
    BY <1>10 DEF LeaveUser
  <2>4. calls' \in 0..MaxCalls /\ user' \in {"idle", "stop", "kick", "cancel", "refund", "again", "unqueued", "retry"}
    BY <1>0, <1>10, PipelineAssumption DEF LeaveUser, TypeOK
  <2>5. TypeOK'
    BY <1>0, <1>10, <2>1, <2>2, <2>3, <2>4 DEF LeaveUser, TypeOK, Places, Stopped, Working
  <2>6. Same /\ upstream' = upstream /\ Back' = Back
    BY <1>0, <1>10 DEF LeaveUser, TypeOK, Back, Same
  <2>7. Calm
    BY <1>0, <2>2, <2>3, <2>6 DEF Calm, Late, Stopped, Same
  <2>8. user' \in {"refund", "retry"} => job'.status \in Given
    BY <1>0, <1>10, <2>6 DEF LeaveUser, OthersOK, Given, Same
  <2> QED BY <2>3, <2>5, <2>7, <2>8
<1> QED BY <1>1, <1>2, <1>3, <1>4, <1>5, <1>6, <1>7, <1>8, <1>9, <1>10 DEF UserCalls

\* So is a step of the recovery loop.
LEMMA RecoveryStep ==
    ASSUME IInv, RecoveryLoop \/ LeaveRecovery
    PROVE  /\ TypeOK' /\ Calm /\ UNCHANGED <<lock, submit, work, user, calls>>
           /\ recovery' \in {"release", "retry"} => job'.status \in Given
<1> USE DEF Call, Errs, Attempt, Nothing, Write, Pay, Push, Ask, Recover, store
<1>0. TypeOK /\ SubmitOK /\ OthersOK BY DEF IInv
<1>1. CASE ListQueueFailures
  <2>1. job' \in Jobs /\ account' \in Accounts /\ queue' \in Queues
    BY <1>0, <1>1 DEF ListQueueFailures, TypeOK
  <2>2. /\ faults' \in 0..MaxFaults /\ hits' \subseteq Places /\ hits \subseteq hits'
    BY <1>0, <1>1, Faults, PipelineAssumption DEF ListQueueFailures, Places, Leaks, Orphans
  <2>3. UNCHANGED <<lock, submit, work, user, calls>>
    BY <1>1 DEF ListQueueFailures
  <2>4. recovery' \in {"idle", "enqueue", "clear", "fail", "release", "retry"}
    BY <1>0, <1>1, PipelineAssumption DEF ListQueueFailures, TypeOK
  <2>5. TypeOK'
    BY <1>0, <1>1, <2>1, <2>2, <2>3, <2>4 DEF ListQueueFailures, TypeOK, Places, Stopped, Working
  <2>6. Same /\ upstream' = upstream /\ Back' = Back
    BY <1>0, <1>1 DEF ListQueueFailures, TypeOK, Back, Same
  <2>7. Calm
    BY <1>0, <2>2, <2>3, <2>6 DEF Calm, Late, Stopped, Same
  <2>8. recovery' \in {"release", "retry"} => job'.status \in Given
    BY <1>0, <1>1, <2>6 DEF ListQueueFailures, OthersOK, Given, Same
  <2> QED BY <2>3, <2>5, <2>7, <2>8
<1>2. CASE EnqueueRecovered
  <2>1. job' \in Jobs /\ account' \in Accounts /\ queue' \in Queues
    BY <1>0, <1>2, QueueTypes DEF EnqueueRecovered, TypeOK
  <2>2. /\ faults' \in 0..MaxFaults /\ hits' \subseteq Places /\ hits \subseteq hits'
    BY <1>0, <1>2, Faults, PipelineAssumption DEF EnqueueRecovered, Places, Leaks, Orphans
  <2>3. UNCHANGED <<lock, submit, work, user, calls>>
    BY <1>2 DEF EnqueueRecovered
  <2>4. recovery' \in {"idle", "enqueue", "clear", "fail", "release", "retry"}
    BY <1>0, <1>2, PipelineAssumption DEF EnqueueRecovered, TypeOK
  <2>5. TypeOK'
    BY <1>0, <1>2, <2>1, <2>2, <2>3, <2>4 DEF EnqueueRecovered, TypeOK, Places, Stopped, Working
  <2>6. Same /\ upstream' = upstream /\ Back' = Back
    BY <1>0, <1>2 DEF EnqueueRecovered, TypeOK, Back, Same
  <2>7. Calm
    BY <1>0, <2>2, <2>3, <2>6 DEF Calm, Late, Stopped, Same
  <2>8. recovery' \in {"release", "retry"} => job'.status \in Given
    BY <1>0, <1>2, <2>6 DEF EnqueueRecovered, OthersOK, Given, Same
  <2> QED BY <2>3, <2>5, <2>7, <2>8
<1>3. CASE ClearQueueFailure
  <2>1. job' \in Jobs /\ account' \in Accounts /\ queue' \in Queues
    BY <1>0, <1>3, JobTypes, BatchAssumption DEF ClearQueueFailure, TypeOK, Given
  <2>2. /\ faults' \in 0..MaxFaults /\ hits' \subseteq Places /\ hits \subseteq hits'
    BY <1>0, <1>3, Faults, PipelineAssumption DEF ClearQueueFailure, Places, Leaks, Orphans
  <2>3. UNCHANGED <<lock, submit, work, user, calls>>
    BY <1>3 DEF ClearQueueFailure
  <2>4. recovery' \in {"idle", "enqueue", "clear", "fail", "release", "retry"}
    BY <1>0, <1>3, PipelineAssumption DEF ClearQueueFailure, TypeOK
  <2>5. TypeOK'
    BY <1>0, <1>3, <2>1, <2>2, <2>3, <2>4 DEF ClearQueueFailure, TypeOK, Places, Stopped, Working
  <2>6. Same /\ upstream' = upstream /\ Back' = Back
    BY <1>0, <1>3, JobEffects DEF ClearQueueFailure, TypeOK, Back, Same
  <2>7. Calm
    BY <1>0, <2>2, <2>3, <2>6 DEF Calm, Late, Stopped, Same
  <2>8. recovery' \in {"release", "retry"} => job'.status \in Given
    BY <1>0, <1>3, <2>6 DEF ClearQueueFailure, OthersOK, Given, Same
  <2> QED BY <2>3, <2>5, <2>7, <2>8
<1>4. CASE ListStale
  <2>1. job' \in Jobs /\ account' \in Accounts /\ queue' \in Queues
    BY <1>0, <1>4 DEF ListStale, TypeOK
  <2>2. /\ faults' \in 0..MaxFaults /\ hits' \subseteq Places /\ hits \subseteq hits'
    BY <1>0, <1>4, Faults, PipelineAssumption DEF ListStale, Places, Leaks, Orphans
  <2>3. UNCHANGED <<lock, submit, work, user, calls>>
    BY <1>4 DEF ListStale
  <2>4. recovery' \in {"idle", "enqueue", "clear", "fail", "release", "retry"}
    BY <1>0, <1>4, PipelineAssumption DEF ListStale, TypeOK
  <2>5. TypeOK'
    BY <1>0, <1>4, <2>1, <2>2, <2>3, <2>4 DEF ListStale, TypeOK, Places, Stopped, Working
  <2>6. Same /\ upstream' = upstream /\ Back' = Back
    BY <1>0, <1>4 DEF ListStale, TypeOK, Back, Same
  <2>7. Calm
    BY <1>0, <2>2, <2>3, <2>6 DEF Calm, Late, Stopped, Same
  <2>8. recovery' \in {"release", "retry"} => job'.status \in Given
    BY <1>0, <1>4, <2>6 DEF ListStale, OthersOK, Given, Same
  <2> QED BY <2>3, <2>5, <2>7, <2>8
<1>5. CASE FailStale
  <2>1. job' \in Jobs /\ account' \in Accounts /\ queue' \in Queues
    BY <1>0, <1>5, JobTypes, BatchAssumption DEF FailStale, TypeOK, Given
  <2>2. /\ faults' \in 0..MaxFaults /\ hits' \subseteq Places /\ hits \subseteq hits'
    BY <1>0, <1>5, Faults, PipelineAssumption DEF FailStale, Places, Leaks, Orphans
  <2>3. UNCHANGED <<lock, submit, work, user, calls>>
    BY <1>5 DEF FailStale
  <2>4. recovery' \in {"idle", "enqueue", "clear", "fail", "release", "retry"}
    BY <1>0, <1>5, PipelineAssumption DEF FailStale, TypeOK
  <2>5. TypeOK'
    BY <1>0, <1>5, <2>1, <2>2, <2>3, <2>4 DEF FailStale, TypeOK, Places, Stopped, Working
  <2>6. /\ upstream' = upstream /\ Back' = Back /\ job'.named = job.named
        /\ \/ job'.status = job.status /\ recovery' = "idle"
           \/ job.status \in Unsubmitted /\ job'.status = "failed"
    BY <1>0, <1>5, JobEffects DEF FailStale, TypeOK, Back, Abandoned
  <2>7. Calm
    BY <1>0, <2>2, <2>3, <2>6 DEF Calm, Late, Stopped, Same
  <2>8. recovery' \in {"release", "retry"} => job'.status \in Given
    BY <1>0, <1>5, <2>6 DEF FailStale, OthersOK, Given, Same
  <2> QED BY <2>3, <2>5, <2>7, <2>8
<1>6. CASE ReleaseStale
  <2>1. job' \in Jobs /\ account' \in Accounts /\ queue' \in Queues
    BY <1>0, <1>6, AccountTypes, BatchAssumption DEF ReleaseStale, TypeOK
  <2>2. /\ faults' \in 0..MaxFaults /\ hits' \subseteq Places /\ hits \subseteq hits'
    BY <1>0, <1>6, Faults, PipelineAssumption DEF ReleaseStale, Places, Leaks, Orphans
  <2>3. UNCHANGED <<lock, submit, work, user, calls>>
    BY <1>6 DEF ReleaseStale
  <2>4. recovery' \in {"idle", "enqueue", "clear", "fail", "release", "retry"}
    BY <1>0, <1>6, PipelineAssumption DEF ReleaseStale, TypeOK
  <2>5. TypeOK'
    BY <1>0, <1>6, <2>1, <2>2, <2>3, <2>4 DEF ReleaseStale, TypeOK, Places, Stopped, Working
  <2>6. Same /\ upstream' = upstream /\ job.status \in Given
    BY <1>0, <1>6 DEF ReleaseStale, TypeOK, Back, Same, OthersOK
  <2>7. Calm
    BY <1>0, <2>2, <2>3, <2>6 DEF Calm, Late, Stopped, Same
  <2>8. recovery' \in {"release", "retry"} => job'.status \in Given
    BY <1>0, <1>6, <2>6 DEF ReleaseStale, OthersOK, Given, Same
  <2> QED BY <2>3, <2>5, <2>7, <2>8
<1>7. CASE RetryStale
  <2>1. job' \in Jobs /\ account' \in Accounts /\ queue' \in Queues
    BY <1>0, <1>7, QueueTypes DEF RetryStale, TypeOK
  <2>2. /\ faults' \in 0..MaxFaults /\ hits' \subseteq Places /\ hits \subseteq hits'
    BY <1>0, <1>7, Faults, PipelineAssumption DEF RetryStale, Places, Leaks, Orphans
  <2>3. UNCHANGED <<lock, submit, work, user, calls>>
    BY <1>7 DEF RetryStale
  <2>4. recovery' \in {"idle", "enqueue", "clear", "fail", "release", "retry"}
    BY <1>0, <1>7, PipelineAssumption DEF RetryStale, TypeOK
  <2>5. TypeOK'
    BY <1>0, <1>7, <2>1, <2>2, <2>3, <2>4 DEF RetryStale, TypeOK, Places, Stopped, Working
  <2>6. Same /\ upstream' = upstream /\ Back' = Back
    BY <1>0, <1>7 DEF RetryStale, TypeOK, Back, Same
  <2>7. Calm
    BY <1>0, <2>2, <2>3, <2>6 DEF Calm, Late, Stopped, Same
  <2>8. recovery' \in {"release", "retry"} => job'.status \in Given
    BY <1>0, <1>7, <2>6 DEF RetryStale, OthersOK, Given, Same
  <2> QED BY <2>3, <2>5, <2>7, <2>8
<1>8. CASE LeaveRecovery
  <2>1. job' \in Jobs /\ account' \in Accounts /\ queue' \in Queues
    BY <1>0, <1>8 DEF LeaveRecovery, TypeOK
  <2>2. /\ faults' \in 0..MaxFaults /\ hits' \subseteq Places /\ hits \subseteq hits'
    BY <1>0, <1>8, Faults, PipelineAssumption DEF LeaveRecovery, Places, Leaks, Orphans
  <2>3. UNCHANGED <<lock, submit, work, user, calls>>
    BY <1>8 DEF LeaveRecovery
  <2>4. recovery' \in {"idle", "enqueue", "clear", "fail", "release", "retry"}
    BY <1>0, <1>8, PipelineAssumption DEF LeaveRecovery, TypeOK
  <2>5. TypeOK'
    BY <1>0, <1>8, <2>1, <2>2, <2>3, <2>4 DEF LeaveRecovery, TypeOK, Places, Stopped, Working
  <2>6. Same /\ upstream' = upstream /\ Back' = Back
    BY <1>0, <1>8 DEF LeaveRecovery, TypeOK, Back, Same
  <2>7. Calm
    BY <1>0, <2>2, <2>3, <2>6 DEF Calm, Late, Stopped, Same
  <2>8. recovery' \in {"release", "retry"} => job'.status \in Given
    BY <1>0, <1>8, <2>6 DEF LeaveRecovery, OthersOK, Given, Same
  <2> QED BY <2>3, <2>5, <2>7, <2>8
<1> QED BY <1>1, <1>2, <1>3, <1>4, <1>5, <1>6, <1>7, <1>8 DEF RecoveryLoop

\* A submission that ends leaves a provider's job behind only where the fault says so.
LEMMA LeaveSubmitStep ==
    ASSUME IInv, LeaveSubmit
    PROVE  TypeOK' /\ Steady /\ SubmitOK' /\ ProviderOK' /\ BackOK' /\ ByOthers
<1>0. TypeOK /\ SubmitOK /\ ProviderOK /\ BackOK BY DEF IInv
<1>1. /\ submit' = "done" /\ UNCHANGED <<job, account, queue, lock, upstream>>
      /\ UNCHANGED <<user, work, recovery, calls>>
  BY DEF LeaveSubmit, Nothing, store, Go
<1>2. /\ faults' \in 0..MaxFaults /\ hits' \subseteq Places /\ hits \subseteq hits'
      /\ submit \in {"store", "abort"} => "abort" \in hits'
  BY <1>0, Faults, PipelineAssumption DEF LeaveSubmit, Places, Leaks, Orphans
<1>3. TypeOK' BY <1>0, <1>1, <1>2 DEF TypeOK, Places
<1>4. Same /\ Back' = Back BY <1>1 DEF Same, Back
<1>5. submit # "new" BY DEF LeaveSubmit
<1>6. Steady /\ SubmitOK' /\ ProviderOK' /\ BackOK'
  BY <1>0, <1>1, <1>2, <1>4, <1>5 DEF Same, Steady, SubmitOK, ProviderOK, BackOK, Before, Late,
     Given, Unsubmitted, Orphans, Working
<1> QED BY <1>1, <1>3, <1>6 DEF ByOthers

\* Time, and the heartbeat of the submission, are calm; a lock that expires under a
\* worker that still works is a lapse.
LEMMA TimeStep ==
    ASSUME IInv, Touch \/ Time
    PROVE  /\ TypeOK' /\ Calm /\ LockOK'
           /\ UNCHANGED <<submit, user, work, recovery, calls>>
<1> USE DEF Write, Push, Ask, Still, procs
<1>0. TypeOK /\ LockOK BY DEF IInv
<1>1. /\ faults' \in 0..MaxFaults /\ hits' \subseteq Places /\ hits \subseteq hits'
  <2>1. CASE Touch
    BY <1>0, <2>1, Faults, PipelineAssumption DEF Touch
  <2>2. CASE AgeRow
    BY <1>0, <2>2, Faults, PipelineAssumption DEF AgeRow, Places
  <2>3. CASE AgeActive
    BY <1>0, <2>3, Faults, PipelineAssumption DEF AgeActive, Places
  <2>4. CASE LockExpires
    BY <1>0, <2>4, Faults, PipelineAssumption DEF LockExpires, Places
  <2>5. CASE MoveDueDelayed \/ RecoverStaleActive \/ Advance
    BY <1>0, <2>5, Faults, PipelineAssumption DEF MoveDueDelayed, RecoverStaleActive, Advance
  <2> QED BY <2>1, <2>2, <2>3, <2>4, <2>5 DEF Time
<1>2. UNCHANGED <<submit, user, work, recovery, calls>>
  BY DEF Touch, Time, AgeRow, AgeActive, LockExpires, MoveDueDelayed, RecoverStaleActive, Advance
<1>3. /\ account' = account /\ job' \in Jobs /\ queue' \in Queues /\ Same
      /\ lock' \in {lock, NoOne}
      /\ \/ upstream' = upstream
         \/ upstream \in Working /\ upstream' \in {"running", "succeeded", "failed"}
  <2>1. CASE Touch
    BY <1>0, <2>1, JobTypes, JobEffects, BatchAssumption DEF Touch, TypeOK, Same
  <2>2. CASE AgeRow
    BY <1>0, <2>2, JobTypes, JobEffects, BatchAssumption DEF AgeRow, TypeOK, Same
  <2>3. CASE AgeActive
    BY <1>0, <2>3, QueueTypes DEF AgeActive, TypeOK, Same
  <2>4. CASE LockExpires
    BY <1>0, <2>4 DEF LockExpires, TypeOK, Same
  <2>5. CASE MoveDueDelayed
    BY <1>0, <2>5, QueueTypes DEF MoveDueDelayed, TypeOK, Same
  <2>6. CASE RecoverStaleActive
    BY <1>0, <2>6, QueueTypes DEF RecoverStaleActive, TypeOK, Same
  <2>7. CASE Advance
    BY <1>0, <2>7 DEF Advance, TypeOK, Same, Working
  <2> QED BY <2>1, <2>2, <2>3, <2>4, <2>5, <2>6, <2>7 DEF Time
<1>4. TypeOK' BY <1>0, <1>1, <1>2, <1>3 DEF TypeOK, Places, Working
<1>5. Calm
  <2>1. Back' = Back BY <1>3 DEF Back
  <2> QED BY <1>1, <1>2, <1>3, <2>1 DEF Calm, Same
<1>6. LockOK'
  <2>1. CASE LockExpires
    <3>1. lock \in Workers /\ work' = work
      BY <1>0, <1>2, <2>1 DEF LockExpires, TypeOK
    <3>2. work[lock].at \in Holding => "lapse" \in hits'
      BY <1>0, <2>1, Faults, PipelineAssumption DEF LockExpires, Places
    <3> QED BY <1>0, <1>1, <3>1, <3>2 DEF LockOK
  <2>2. CASE Touch \/ AgeRow \/ AgeActive \/ MoveDueDelayed \/ RecoverStaleActive \/ Advance
    <3>1. lock' = lock
      BY <2>2 DEF Touch, AgeRow, AgeActive, MoveDueDelayed, RecoverStaleActive, Advance
    <3> QED BY <1>0, <1>1, <1>2, <3>1 DEF LockOK
  <2> QED BY <2>1, <2>2 DEF Time
<1> QED BY <1>2, <1>4, <1>5, <1>6

Spots == {"idle", "lock", "bounce"} \cup Holding
Works == [Workers -> [at : Spots, seen : Open, to : Open \cup Given]]

\* A step of one worker leaves the other processes where they are.
ByWorker(w) ==
    /\ UNCHANGED <<submit, user, recovery, calls>>
    /\ work' \in Works
    /\ \A v \in Workers \ {w} : work'[v] = work[v]

Gets(w, s) == Set(w, [NoWork EXCEPT !.at = "get", !.seen = s])

\* Where a worker goes.
LEMMA WorkMoves ==
    ASSUME TypeOK, NEW w \in Workers
    PROVE  /\ \A l \in Spots : To(w, l) => ByWorker(w) /\ work'[w].at = l
           /\ Rest(w) => ByWorker(w) /\ work'[w].at = "idle"
           /\ \A s \in Open \cup Given :
                 Move(w, s) => ByWorker(w) /\ work'[w].at = "move" /\ work'[w].to = s
           /\ \A s \in Open : Gets(w, s) => ByWorker(w) /\ work'[w].at = "get"
<1>1. work \in Works BY DEF TypeOK, Works, Spots
<1>2. NoWork \in [at : Spots, seen : Open, to : Open \cup Given]
  BY OpenIs DEF NoWork, Spots
<1>3. ASSUME NEW r \in [at : Spots, seen : Open, to : Open \cup Given], Set(w, r)
      PROVE  ByWorker(w) /\ work'[w] = r
  BY <1>1, <1>3 DEF Set, Works, ByWorker
<1>4. ASSUME NEW l \in Spots, To(w, l) PROVE ByWorker(w) /\ work'[w].at = l
  <2>1. [NoWork EXCEPT !.at = l] \in [at : Spots, seen : Open, to : Open \cup Given]
    BY <1>2
  <2>2. [NoWork EXCEPT !.at = l].at = l BY DEF NoWork
  <2> QED BY <1>3, <1>4, <2>1, <2>2 DEF To
<1>5. ASSUME Rest(w) PROVE ByWorker(w) /\ work'[w].at = "idle"
  BY <1>2, <1>3, <1>5 DEF Rest, NoWork
<1>6. ASSUME NEW s \in Open \cup Given, Move(w, s)
      PROVE  ByWorker(w) /\ work'[w].at = "move" /\ work'[w].to = s
  <2>1. [NoWork EXCEPT !.at = "move", !.to = s] \in [at : Spots, seen : Open, to : Open \cup Given]
    BY <1>2 DEF Spots, Holding
  <2>2. /\ [NoWork EXCEPT !.at = "move", !.to = s].at = "move"
        /\ [NoWork EXCEPT !.at = "move", !.to = s].to = s
    BY DEF NoWork
  <2> QED BY <1>3, <1>6, <2>1, <2>2 DEF Move
<1>7. ASSUME NEW s \in Open, Gets(w, s)
      PROVE  ByWorker(w) /\ work'[w].at = "get"
  <2>1. [NoWork EXCEPT !.at = "get", !.seen = s] \in [at : Spots, seen : Open, to : Open \cup Given]
    BY <1>2 DEF Spots, Holding
  <2>2. [NoWork EXCEPT !.at = "get", !.seen = s].at = "get"
    BY DEF NoWork
  <2> QED BY <1>3, <1>7, <2>1, <2>2 DEF Gets
<1> QED BY <1>4, <1>5, <1>6, <1>7

\* The lock, seen from the step of a worker: it is taken when it is free, and
\* released by the worker that stops working.
LockStep(w) ==
    \/ lock' = lock /\ (work'[w].at \in Holding => work[w].at \in Holding)
    \/ lock = NoOne /\ lock' = w
    \/ lock = w /\ lock' = NoOne /\ work'[w].at = "idle"

\* A step of a worker is calm and keeps what the worker knows.
LEMMA WorkStep ==
    ASSUME IInv, NEW w \in Workers, WorkerStep(w) \/ LeaveWork(w)
    PROVE  TypeOK' /\ Calm /\ ByWorker(w) /\ WorkerOK(w)' /\ LockStep(w)
<1> USE DEF Call, Errs, Attempt, Nothing, Write, Pay, Push, Ask, store, At, Same
<1>0. TypeOK /\ SubmitOK /\ ProviderOK /\ WorkerOK(w) BY DEF IInv
<1>a. job.status \in {"indexing", "settling"} => job.named /\ upstream \notin Working
  BY <1>0 DEF SubmitOK, ProviderOK, Unsubmitted, Given
<1>1. CASE Take(w)
  <2>1. job' \in Jobs /\ account' \in Accounts /\ queue' \in Queues /\ lock' = lock
    BY <1>0, <1>1, QueueTypes DEF Take, TypeOK
  <2>2. /\ faults' \in 0..MaxFaults /\ hits' \subseteq Places /\ hits \subseteq hits'
    BY <1>0, <1>1, Faults, PipelineAssumption DEF Take, Places
  <2>3. /\ upstream' = upstream /\ ByWorker(w)
        /\ work'[w].at \in {"lock", "idle"}
    BY <1>0, <1>1, WorkMoves DEF Take, Spots, Holding
  <2>4. Same /\ Back' = Back
    BY <1>0, <1>1 DEF Take, TypeOK, Back
  <2>5. TypeOK'
    BY <1>0, <2>1, <2>2, <2>3 DEF TypeOK, Places, ByWorker, Works, Spots
  <2>6. Calm
    BY <1>0, <1>a, <2>2, <2>3, <2>4 DEF Calm, ByWorker, Late, Given
  <2>7. WorkerOK(w)'
    BY <1>0, <1>a, <1>1, <2>3, <2>4 DEF Take, WorkerOK, Late, Given
  <2>8. LockStep(w)
    BY <1>1, <2>1, <2>3 DEF Take, LockStep, Holding
  <2> QED BY <2>3, <2>5, <2>6, <2>7, <2>8
<1>2. CASE Lock(w)
  <2>1. job' \in Jobs /\ account' \in Accounts /\ queue' \in Queues
        /\ lock' \in Workers \cup {NoOne}
    BY <1>0, <1>2 DEF Lock, TypeOK
  <2>2. /\ faults' \in 0..MaxFaults /\ hits' \subseteq Places /\ hits \subseteq hits'
    BY <1>0, <1>2, Faults, PipelineAssumption DEF Lock, Places
  <2>3. /\ upstream' = upstream /\ ByWorker(w)
        /\ work'[w].at \in {"read", "bounce"}
    BY <1>0, <1>2, WorkMoves DEF Lock, Spots, Holding
  <2>4. Same /\ Back' = Back
    BY <1>0, <1>2 DEF Lock, TypeOK, Back
  <2>5. TypeOK'
    BY <1>0, <2>1, <2>2, <2>3 DEF TypeOK, Places, ByWorker, Works, Spots
  <2>6. Calm
    BY <1>0, <1>a, <2>2, <2>3, <2>4 DEF Calm, ByWorker, Late, Given
  <2>7. WorkerOK(w)'
    BY <1>0, <1>a, <1>2, <2>3, <2>4 DEF Lock, WorkerOK, Late, Given
  <2>8. LockStep(w)
    <3>1. (lock = NoOne /\ lock' = w) \/ (lock' = lock /\ To(w, "bounce"))
      BY <1>2, Zenon DEF Lock
    <3>2. To(w, "bounce") => work'[w].at \notin Holding
      BY <1>0, WorkMoves DEF Spots, Holding
    <3> QED BY <3>1, <3>2 DEF LockStep
  <2> QED BY <2>3, <2>5, <2>6, <2>7, <2>8
<1>3. CASE Bounce(w)
  <2>1. job' \in Jobs /\ account' \in Accounts /\ queue' \in Queues /\ lock' = lock
    BY <1>0, <1>3, QueueTypes DEF Bounce, TypeOK
  <2>2. /\ faults' \in 0..MaxFaults /\ hits' \subseteq Places /\ hits \subseteq hits'
    BY <1>0, <1>3, Faults, PipelineAssumption DEF Bounce, Places
  <2>3. /\ upstream' = upstream /\ ByWorker(w)
        /\ work'[w].at \in {"idle"}
    BY <1>0, <1>3, WorkMoves DEF Bounce, Spots, Holding
  <2>4. Same /\ Back' = Back
    BY <1>0, <1>3 DEF Bounce, TypeOK, Back
  <2>5. TypeOK'
    BY <1>0, <2>1, <2>2, <2>3 DEF TypeOK, Places, ByWorker, Works, Spots
  <2>6. Calm
    BY <1>0, <1>a, <2>2, <2>3, <2>4 DEF Calm, ByWorker, Late, Given
  <2>7. WorkerOK(w)'
    BY <1>0, <1>a, <1>3, <2>3, <2>4 DEF Bounce, WorkerOK, Late, Given
  <2>8. LockStep(w)
    BY <1>3, <2>1, <2>3 DEF Bounce, LockStep, Holding
  <2> QED BY <2>3, <2>5, <2>6, <2>7, <2>8
<1>4. CASE Requeue(w)
  <2>1. job' \in Jobs /\ account' \in Accounts /\ queue' \in Queues /\ lock' = lock
    BY <1>0, <1>4, QueueTypes DEF Requeue, TypeOK
  <2>2. /\ faults' \in 0..MaxFaults /\ hits' \subseteq Places /\ hits \subseteq hits'
    BY <1>0, <1>4, Faults, PipelineAssumption DEF Requeue, Places
  <2>3. /\ upstream' = upstream /\ ByWorker(w)
        /\ work'[w].at \in {"unlock"}
    BY <1>0, <1>4, WorkMoves DEF Requeue, Spots, Holding
  <2>4. Same /\ Back' = Back
    BY <1>0, <1>4 DEF Requeue, TypeOK, Back
  <2>5. TypeOK'
    BY <1>0, <2>1, <2>2, <2>3 DEF TypeOK, Places, ByWorker, Works, Spots
  <2>6. Calm
    BY <1>0, <1>a, <2>2, <2>3, <2>4 DEF Calm, ByWorker, Late, Given
  <2>7. WorkerOK(w)'
    BY <1>0, <1>a, <1>4, <2>3, <2>4 DEF Requeue, WorkerOK, Late, Given
  <2>8. LockStep(w)
    BY <1>4, <2>1, <2>3 DEF Requeue, LockStep, Holding
  <2> QED BY <2>3, <2>5, <2>6, <2>7, <2>8
<1>5. CASE Ack(w)
  <2>1. job' \in Jobs /\ account' \in Accounts /\ queue' \in Queues /\ lock' = lock
    BY <1>0, <1>5, QueueTypes DEF Ack, TypeOK
  <2>2. /\ faults' \in 0..MaxFaults /\ hits' \subseteq Places /\ hits \subseteq hits'
    BY <1>0, <1>5, Faults, PipelineAssumption DEF Ack, Places
  <2>3. /\ upstream' = upstream /\ ByWorker(w)
        /\ work'[w].at \in {"unlock"}
    BY <1>0, <1>5, WorkMoves DEF Ack, Spots, Holding
  <2>4. Same /\ Back' = Back
    BY <1>0, <1>5 DEF Ack, TypeOK, Back
  <2>5. TypeOK'
    BY <1>0, <2>1, <2>2, <2>3 DEF TypeOK, Places, ByWorker, Works, Spots
  <2>6. Calm
    BY <1>0, <1>a, <2>2, <2>3, <2>4 DEF Calm, ByWorker, Late, Given
  <2>7. WorkerOK(w)'
    BY <1>0, <1>a, <1>5, <2>3, <2>4 DEF Ack, WorkerOK, Late, Given
  <2>8. LockStep(w)
    BY <1>5, <2>1, <2>3 DEF Ack, LockStep, Holding
  <2> QED BY <2>3, <2>5, <2>6, <2>7, <2>8
<1>6. CASE Unlock(w)
  <2>1. job' \in Jobs /\ account' \in Accounts /\ queue' \in Queues
        /\ lock' \in Workers \cup {NoOne}
    BY <1>0, <1>6 DEF Unlock, TypeOK
  <2>2. /\ faults' \in 0..MaxFaults /\ hits' \subseteq Places /\ hits \subseteq hits'
    BY <1>0, <1>6, Faults, PipelineAssumption DEF Unlock, Places
  <2>3. /\ upstream' = upstream /\ ByWorker(w)
        /\ work'[w].at \in {"idle"}
    BY <1>0, <1>6, WorkMoves DEF Unlock, Spots, Holding
  <2>4. Same /\ Back' = Back
    BY <1>0, <1>6 DEF Unlock, TypeOK, Back
  <2>5. TypeOK'
    BY <1>0, <2>1, <2>2, <2>3 DEF TypeOK, Places, ByWorker, Works, Spots
  <2>6. Calm
    BY <1>0, <1>a, <2>2, <2>3, <2>4 DEF Calm, ByWorker, Late, Given
  <2>7. WorkerOK(w)'
    BY <1>0, <1>a, <1>6, <2>3, <2>4 DEF Unlock, WorkerOK, Late, Given
  <2>8. LockStep(w)
    BY <1>0, <1>6, <2>3 DEF Unlock, LockStep, Holding
  <2> QED BY <2>3, <2>5, <2>6, <2>7, <2>8
<1>7. CASE Read(w)
  <2>1. job' \in Jobs /\ account' \in Accounts /\ queue' \in Queues /\ lock' = lock
    BY <1>0, <1>7 DEF Read, TypeOK
  <2>2. /\ faults' \in 0..MaxFaults /\ hits' \subseteq Places /\ hits \subseteq hits'
    BY <1>0, <1>7, Faults, PipelineAssumption DEF Read, Places
  <2>3. /\ upstream' = upstream /\ ByWorker(w)
        /\ work'[w].at \in {"settle", "process", "requeue"}
    BY <1>0, <1>7, WorkMoves DEF Read, Spots, Holding
  <2>4. Same /\ Back' = Back
    BY <1>0, <1>7 DEF Read, TypeOK, Back
  <2>5. TypeOK'
    BY <1>0, <2>1, <2>2, <2>3 DEF TypeOK, Places, ByWorker, Works, Spots
  <2>6. Calm
    BY <1>0, <1>a, <2>2, <2>3, <2>4 DEF Calm, ByWorker, Late, Given
  <2>7. WorkerOK(w)'
    BY <1>0, <1>a, <1>7, <2>3, <2>4 DEF Read, WorkerOK, Late, Given
  <2>8. LockStep(w)
    BY <1>7, <2>1, <2>3 DEF Read, LockStep, Holding
  <2> QED BY <2>3, <2>5, <2>6, <2>7, <2>8
<1>8. CASE Process(w)
  <2>1. job' \in Jobs /\ account' \in Accounts /\ queue' \in Queues /\ lock' = lock
    BY <1>0, <1>8 DEF Process, TypeOK
  <2>2. /\ faults' \in 0..MaxFaults /\ hits' \subseteq Places /\ hits \subseteq hits'
    BY <1>0, <1>8, Faults, PipelineAssumption DEF Process, Places
  <2>3. /\ upstream' = upstream /\ ByWorker(w)
        /\ work'[w].at \in {"release", "ack", "requeue", "index", "get"}
        /\ work'[w].at = "release" => job.status \in Given
        /\ work'[w].at = "get" => job.named
    <3>1. upstream' = upstream BY <1>8 DEF Process
    <3>2. \/ To(w, "requeue") \/ To(w, "ack")
          \/ To(w, "release") /\ job.status \in Given
          \/ To(w, "index")
          \/ job.named /\ job.status \in Open /\ Gets(w, job.status)
      BY <1>8, Zenon DEF Process, Gets
    <3>3. CASE To(w, "requeue") \/ To(w, "ack") \/ To(w, "index")
      BY <1>0, <3>1, <3>3, WorkMoves DEF Spots, Holding
    <3>4. CASE To(w, "release") /\ job.status \in Given
      BY <1>0, <3>1, <3>4, WorkMoves DEF Spots, Holding
    <3>5. CASE job.named /\ job.status \in Open /\ Gets(w, job.status)
      <4>1. ByWorker(w) /\ work'[w].at = "get" BY <1>0, <3>5, WorkMoves
      <4>2. job.named BY <3>5
      <4> QED BY <3>1, <4>1, <4>2
    <3> QED BY <3>2, <3>3, <3>4, <3>5
  <2>4. Same /\ Back' = Back
    BY <1>0, <1>8 DEF Process, TypeOK, Back
  <2>5. TypeOK'
    BY <1>0, <2>1, <2>2, <2>3 DEF TypeOK, Places, ByWorker, Works, Spots
  <2>6. Calm
    BY <1>0, <1>a, <2>2, <2>3, <2>4 DEF Calm, ByWorker, Late, Given
  <2>7. WorkerOK(w)'
    BY <1>0, <1>a, <1>8, <2>3, <2>4 DEF Process, WorkerOK, Late, Given
  <2>8. LockStep(w)
    BY <1>8, <2>1, <2>3 DEF Process, LockStep, Holding
  <2> QED BY <2>3, <2>5, <2>6, <2>7, <2>8
<1>9. CASE AskProvider(w)
  <2>1. job' \in Jobs /\ account' \in Accounts /\ queue' \in Queues /\ lock' = lock
    BY <1>0, <1>9 DEF AskProvider, TypeOK
  <2>2. /\ faults' \in 0..MaxFaults /\ hits' \subseteq Places /\ hits \subseteq hits'
    BY <1>0, <1>9, Faults, PipelineAssumption DEF AskProvider, Places
  <2>3. /\ upstream' = upstream /\ ByWorker(w)
        /\ work'[w].at \in {"requeue", "move"}
        /\ work'[w].at = "move" =>
              /\ job.named /\ work'[w].to \in {"running", "indexing"} \cup Given
              /\ work'[w].to # "running" => upstream \notin Working
    <3>1. upstream' = upstream BY <1>9 DEF AskProvider
    <3>2. job.named BY <1>0, <1>9, Zenon DEF AskProvider, WorkerOK
    <3>3. \/ To(w, "requeue") \/ Move(w, "running")
          \/ upstream = "succeeded" /\ Move(w, "indexing")
          \/ upstream \in Given /\ Move(w, upstream)
      BY <1>9, Zenon DEF AskProvider
    <3>4. CASE To(w, "requeue")
      BY <1>0, <3>1, <3>4, WorkMoves DEF Spots, Holding
    <3>5. CASE Move(w, "running")
      BY <1>0, <3>1, <3>2, <3>5, OpenIs, WorkMoves
    <3>6. CASE upstream = "succeeded" /\ Move(w, "indexing")
      BY <1>0, <3>1, <3>2, <3>6, OpenIs, WorkMoves DEF Working
    <3>7. CASE upstream \in Given /\ Move(w, upstream)
      BY <1>0, <3>1, <3>2, <3>7, WorkMoves DEF Working, Given
    <3> QED BY <3>3, <3>4, <3>5, <3>6, <3>7
  <2>4. Same /\ Back' = Back
    BY <1>0, <1>9 DEF AskProvider, TypeOK, Back
  <2>5. TypeOK'
    BY <1>0, <2>1, <2>2, <2>3 DEF TypeOK, Places, ByWorker, Works, Spots
  <2>6. Calm
    BY <1>0, <1>a, <2>2, <2>3, <2>4 DEF Calm, ByWorker, Late, Given
  <2>7. WorkerOK(w)'
    BY <1>0, <1>a, <1>9, <2>3, <2>4 DEF AskProvider, WorkerOK, Late, Given
  <2>8. LockStep(w)
    BY <1>9, <2>1, <2>3 DEF AskProvider, LockStep, Holding
  <2> QED BY <2>3, <2>5, <2>6, <2>7, <2>8
<1>10. CASE Transition(w)
  <2>1. job' \in Jobs /\ account' \in Accounts /\ queue' \in Queues /\ lock' = lock
    <3>1. work[w].to \in Open \cup Given BY <1>0 DEF TypeOK
    <3>2. Moved(job, work[w].to) \in Jobs
      BY <1>0, <3>1, JobTypes, BatchAssumption DEF TypeOK
    <3> QED BY <1>0, <1>10, <3>2 DEF Transition, TypeOK
  <2>2. /\ faults' \in 0..MaxFaults /\ hits' \subseteq Places /\ hits \subseteq hits'
    BY <1>0, <1>10, Faults, PipelineAssumption DEF Transition, Places
  <2>3. /\ upstream' = upstream /\ ByWorker(w)
        /\ work'[w].at \in {"requeue", "index", "release"}
        /\ work'[w].at = "release" => job'.status \in Given
    <3>0. work[w].to \in {"running", "indexing", "settling"} \cup Given
      BY <1>0, <1>10 DEF Transition, WorkerOK
    <3>1. upstream' = upstream BY <1>10 DEF Transition
    <3>2. \/ To(w, "requeue")
          \/ To(w, AfterMove(work[w].to)) /\ job' = Moved(job, work[w].to)
      BY <1>10, Zenon DEF Transition
    <3>3. CASE To(w, "requeue")
      BY <1>0, <3>1, <3>3, WorkMoves DEF Spots, Holding
    <3>4. CASE To(w, AfterMove(work[w].to)) /\ job' = Moved(job, work[w].to)
      <4>1. /\ AfterMove(work[w].to) \in {"requeue", "index", "release"}
            /\ AfterMove(work[w].to) = "release" => work[w].to \in Given
        BY <3>0 DEF AfterMove, Given
      <4>2. ByWorker(w) /\ work'[w].at = AfterMove(work[w].to)
        BY <1>0, <3>4, <4>1, WorkMoves DEF Spots, Holding
      <4>3. job'.status = work[w].to
        BY <1>0, <3>4, JobEffects DEF TypeOK
      <4> QED BY <3>1, <4>1, <4>2, <4>3
    <3> QED BY <3>2, <3>3, <3>4
  <2>4. Back' = Back /\ job'.named = job.named
        /\ \/ job'.status = job.status /\ work'[w].at = "requeue"
           \/ CanTransition(job, work[w].to) /\ job'.status = work[w].to
    <3>1. CASE job' = job /\ To(w, "requeue") /\ account' = account
      <4>1. work'[w].at = "requeue" BY <1>0, <3>1, WorkMoves DEF Spots, Holding
      <4> QED BY <3>1, <4>1, Zenon DEF Back
    <3>2. CASE CanTransition(job, work[w].to) /\ job' = Moved(job, work[w].to)
               /\ account' = account
      <4>0. /\ Moved(job, work[w].to).status = work[w].to
            /\ Moved(job, work[w].to).named = job.named
        BY <1>0, JobEffects DEF TypeOK
      <4>1. job'.status = work[w].to /\ job'.named = job.named
        BY <3>2, <4>0, Zenon
      <4> QED BY <3>2, <4>1, Zenon DEF Back
    <3> QED BY <1>10, <3>1, <3>2, Zenon DEF Transition
  <2>5. TypeOK'
    BY <1>0, <2>1, <2>2, <2>3 DEF TypeOK, Places, ByWorker, Works, Spots
  <2>6. Calm
    <3>1. /\ job.named /\ work[w].to \in {"running", "indexing", "settling"} \cup Given
          /\ work[w].to # "running" => upstream \notin Working
      BY <1>0, <1>10 DEF Transition, WorkerOK
    <3>2. CASE job'.status = job.status
      BY <2>2, <2>3, <2>4, <3>2 DEF Calm, ByWorker
    <3>3. CASE CanTransition(job, work[w].to) /\ job'.status = work[w].to
      <4>1. job.status \in Open BY <3>3 DEF CanTransition
      <4>2. /\ work[w].to = "running" => job.status \in {"submitted", "running"}
            /\ work[w].to = "indexing" => job.status \in {"submitted", "running"}
            /\ work[w].to = "settling" => job.status = "indexing"
        BY <3>3, Transitions
      <4>3. job.status \in Late => job'.status \in Late
        BY <3>1, <3>3, <4>1, <4>2, OpenIs DEF Late, Given
      <4> QED BY <2>2, <2>3, <2>4, <3>1, <3>3, <4>1, <4>2, <4>3 DEF Calm, ByWorker
    <3> QED BY <2>4, <3>2, <3>3
  <2>7. WorkerOK(w)'
    BY <1>0, <1>a, <1>10, <2>3, <2>4 DEF Transition, WorkerOK, Late, Given
  <2>8. LockStep(w)
    BY <1>10, <2>1, <2>3 DEF Transition, LockStep, Holding
  <2> QED BY <2>3, <2>5, <2>6, <2>7, <2>8
<1>11. CASE Index(w)
  <2>1. job' \in Jobs /\ account' \in Accounts /\ queue' \in Queues /\ lock' = lock
    <3>1. \A c \in Costs : [job EXCEPT !.cost = c] \in Jobs
      BY <1>0, JobTypes, BatchAssumption DEF TypeOK
    <3> QED BY <1>0, <1>11, <3>1 DEF Index, TypeOK
  <2>2. /\ faults' \in 0..MaxFaults /\ hits' \subseteq Places /\ hits \subseteq hits'
    BY <1>0, <1>11, Faults, PipelineAssumption DEF Index, Places
  <2>3. /\ upstream' = upstream /\ ByWorker(w)
        /\ work'[w].at \in {"move", "requeue"}
        /\ work'[w].at = "move" =>
              job.status = "indexing" /\ work'[w].to \in {"settling", "failed"}
    <3>1. upstream' = upstream BY <1>11 DEF Index
    <3>2. \/ To(w, "requeue")
          \/ job.status = "indexing" /\ (Move(w, "settling") \/ Move(w, "failed"))
      BY <1>11, Zenon DEF Index
    <3>3. CASE To(w, "requeue")
      BY <1>0, <3>1, <3>3, WorkMoves DEF Spots, Holding
    <3>4. CASE job.status = "indexing" /\ Move(w, "settling")
      BY <1>0, <3>1, <3>4, OpenIs, WorkMoves
    <3>5. CASE job.status = "indexing" /\ Move(w, "failed")
      BY <1>0, <3>1, <3>5, WorkMoves DEF Given
    <3> QED BY <3>2, <3>3, <3>4, <3>5
  <2>4. Same /\ Back' = Back
    <3>1. account' = account /\ (job' = job \/ \E c \in Costs : job' = [job EXCEPT !.cost = c])
      BY <1>11, Zenon DEF Index
    <3>2. \A c \in Costs : /\ [job EXCEPT !.cost = c].status = job.status
                            /\ [job EXCEPT !.cost = c].named = job.named
      BY <1>0, JobEffects DEF TypeOK
    <3>3. CASE job' = job BY <3>1, <3>3, Zenon DEF Back
    <3>4. CASE \E c \in Costs : job' = [job EXCEPT !.cost = c]
      <4>1. PICK c \in Costs : job' = [job EXCEPT !.cost = c] BY <3>4
      <4>2. /\ [job EXCEPT !.cost = c].status = job.status
            /\ [job EXCEPT !.cost = c].named = job.named
        BY <3>2
      <4> QED BY <3>1, <4>1, <4>2, Zenon DEF Back
    <3> QED BY <3>1, <3>3, <3>4
  <2>5. TypeOK'
    BY <1>0, <2>1, <2>2, <2>3 DEF TypeOK, Places, ByWorker, Works, Spots
  <2>6. Calm
    BY <1>0, <1>a, <2>2, <2>3, <2>4 DEF Calm, ByWorker, Late, Given
  <2>7. WorkerOK(w)'
    BY <1>0, <1>a, <1>11, <2>3, <2>4 DEF Index, WorkerOK, Late, Given
  <2>8. LockStep(w)
    BY <1>11, <2>1, <2>3 DEF Index, LockStep, Holding
  <2> QED BY <2>3, <2>5, <2>6, <2>7, <2>8
<1>12. CASE ReleaseTerminal(w)
  <2>1. job' \in Jobs /\ account' \in Accounts /\ queue' \in Queues /\ lock' = lock
    BY <1>0, <1>12, AccountTypes, BatchAssumption DEF ReleaseTerminal, TypeOK
  <2>2. /\ faults' \in 0..MaxFaults /\ hits' \subseteq Places /\ hits \subseteq hits'
    BY <1>0, <1>12, Faults, PipelineAssumption DEF ReleaseTerminal, Places
  <2>3. /\ upstream' = upstream /\ ByWorker(w)
        /\ work'[w].at \in {"requeue", "ack"}
    BY <1>0, <1>12, WorkMoves DEF ReleaseTerminal, Spots, Holding
  <2>4. Same /\ job.status \in Late
    BY <1>0, <1>12 DEF ReleaseTerminal, TypeOK, Back, WorkerOK, Late
  <2>5. TypeOK'
    BY <1>0, <2>1, <2>2, <2>3 DEF TypeOK, Places, ByWorker, Works, Spots
  <2>6. Calm
    BY <1>0, <1>a, <2>2, <2>3, <2>4 DEF Calm, ByWorker, Late, Given
  <2>7. WorkerOK(w)'
    BY <1>0, <1>a, <1>12, <2>3, <2>4 DEF ReleaseTerminal, WorkerOK, Late, Given
  <2>8. LockStep(w)
    BY <1>12, <2>1, <2>3 DEF ReleaseTerminal, LockStep, Holding
  <2> QED BY <2>3, <2>5, <2>6, <2>7, <2>8
<1>13. CASE Settle(w)
  <2>1. job' \in Jobs /\ account' \in Accounts /\ queue' \in Queues /\ lock' = lock
    BY <1>0, <1>13 DEF Settle, TypeOK
  <2>2. /\ faults' \in 0..MaxFaults /\ hits' \subseteq Places /\ hits \subseteq hits'
    BY <1>0, <1>13, Faults, PipelineAssumption DEF Settle, Places
  <2>3. /\ upstream' = upstream /\ ByWorker(w)
        /\ work'[w].at \in {"requeue", "ack", "giveup", "capture"}
        /\ work'[w].at \in {"giveup", "capture"} => job.status = "settling"
    <3>1. upstream' = upstream BY <1>13 DEF Settle
    <3>2. \/ To(w, "requeue") \/ To(w, "ack")
          \/ job.status = "settling" /\ (To(w, "giveup") \/ To(w, "capture"))
      BY <1>13, Zenon DEF Settle
    <3> QED BY <1>0, <3>1, <3>2, WorkMoves DEF Spots, Holding
  <2>4. Same /\ Back' = Back
    BY <1>0, <1>13 DEF Settle, TypeOK, Back
  <2>5. TypeOK'
    BY <1>0, <2>1, <2>2, <2>3 DEF TypeOK, Places, ByWorker, Works, Spots
  <2>6. Calm
    BY <1>0, <1>a, <2>2, <2>3, <2>4 DEF Calm, ByWorker, Late, Given
  <2>7. WorkerOK(w)'
    BY <1>0, <1>a, <1>13, <2>3, <2>4 DEF Settle, WorkerOK, Late, Given
  <2>8. LockStep(w)
    BY <1>13, <2>1, <2>3 DEF Settle, LockStep, Holding
  <2> QED BY <2>3, <2>5, <2>6, <2>7, <2>8
<1>14. CASE Capture(w)
  <2>1. job' \in Jobs /\ account' \in Accounts /\ queue' \in Queues /\ lock' = lock
    <3>1. job.cost \in Costs \cup {0} BY <1>0 DEF TypeOK, Jobs
    <3>2. ~CaptureFails(account) => Captured(account, job.cost) \in Accounts
      BY <1>0, <3>1, AccountTypes, BatchAssumption DEF TypeOK
    <3> QED BY <1>0, <1>14, <3>2 DEF Capture, TypeOK
  <2>2. /\ faults' \in 0..MaxFaults /\ hits' \subseteq Places /\ hits \subseteq hits'
    BY <1>0, <1>14, Faults, PipelineAssumption DEF Capture, Places
  <2>3. /\ upstream' = upstream /\ ByWorker(w)
        /\ work'[w].at \in {"record", "finish"}
    BY <1>0, <1>14, WorkMoves DEF Capture, Spots, Holding
  <2>4. Same /\ Back' = Back
    BY <1>0, <1>14, AccountEffects DEF Capture, TypeOK, Back
  <2>5. TypeOK'
    BY <1>0, <2>1, <2>2, <2>3 DEF TypeOK, Places, ByWorker, Works, Spots
  <2>6. Calm
    BY <1>0, <1>a, <2>2, <2>3, <2>4 DEF Calm, ByWorker, Late, Given
  <2>7. WorkerOK(w)'
    BY <1>0, <1>a, <1>14, <2>3, <2>4 DEF Capture, WorkerOK, Late, Given
  <2>8. LockStep(w)
    BY <1>14, <2>1, <2>3 DEF Capture, LockStep, Holding
  <2> QED BY <2>3, <2>5, <2>6, <2>7, <2>8
<1>15. CASE MarkSettled(w)
  <2>1. job' \in Jobs /\ account' \in Accounts /\ queue' \in Queues /\ lock' = lock
    BY <1>0, <1>15, JobTypes, BatchAssumption DEF MarkSettled, Completed, TypeOK, Given
  <2>2. /\ faults' \in 0..MaxFaults /\ hits' \subseteq Places /\ hits \subseteq hits'
    BY <1>0, <1>15, Faults, PipelineAssumption DEF MarkSettled, Completed, Places
  <2>3. /\ upstream' = upstream /\ ByWorker(w)
        /\ work'[w].at \in {"ack", "requeue"}
    BY <1>0, <1>15, WorkMoves DEF MarkSettled, Completed, Spots, Holding
  <2>4. Back' = Back /\ job'.named = job.named
        /\ \/ job'.status = job.status
           \/ job.status = "settling" /\ job'.status = "completed"
    <3>1. /\ account' = account
          /\ \/ job' = job
             \/ job.status = "settling" /\ job' = [job EXCEPT !.status = "completed"]
      BY <1>15, Zenon DEF MarkSettled, Completed
    <3>2. /\ [job EXCEPT !.status = "completed"].status = "completed"
          /\ [job EXCEPT !.status = "completed"].named = job.named
      BY <1>0, JobEffects DEF TypeOK
    <3> QED BY <3>1, <3>2, Zenon DEF Back
  <2>5. TypeOK'
    BY <1>0, <2>1, <2>2, <2>3 DEF TypeOK, Places, ByWorker, Works, Spots
  <2>6. Calm
    BY <1>0, <1>a, <2>2, <2>3, <2>4 DEF Calm, ByWorker, Late, Given
  <2>7. WorkerOK(w)'
    BY <1>0, <1>a, <1>15, <2>3, <2>4 DEF MarkSettled, Completed, WorkerOK, Late, Given
  <2>8. LockStep(w)
    BY <1>15, <2>1, <2>3 DEF MarkSettled, Completed, LockStep, Holding
  <2> QED BY <2>3, <2>5, <2>6, <2>7, <2>8
<1>16. CASE RecordSettlementFailure(w)
  <2>1. job' \in Jobs /\ account' \in Accounts /\ queue' \in Queues /\ lock' = lock
    BY <1>0, <1>16, JobTypes, BatchAssumption DEF RecordSettlementFailure, TypeOK, Given
  <2>2. /\ faults' \in 0..MaxFaults /\ hits' \subseteq Places /\ hits \subseteq hits'
    BY <1>0, <1>16, Faults, PipelineAssumption DEF RecordSettlementFailure, Places
  <2>3. /\ upstream' = upstream /\ ByWorker(w)
        /\ work'[w].at \in {"giveup", "judge"}
    BY <1>0, <1>16, WorkMoves DEF RecordSettlementFailure, Spots, Holding
  <2>4. Same /\ Back' = Back
    BY <1>0, <1>16, JobEffects DEF RecordSettlementFailure, TypeOK, Back
  <2>5. TypeOK'
    BY <1>0, <2>1, <2>2, <2>3 DEF TypeOK, Places, ByWorker, Works, Spots
  <2>6. Calm
    BY <1>0, <1>a, <2>2, <2>3, <2>4 DEF Calm, ByWorker, Late, Given
  <2>7. WorkerOK(w)'
    BY <1>0, <1>a, <1>16, <2>3, <2>4 DEF RecordSettlementFailure, WorkerOK, Late, Given
  <2>8. LockStep(w)
    BY <1>16, <2>1, <2>3 DEF RecordSettlementFailure, LockStep, Holding
  <2> QED BY <2>3, <2>5, <2>6, <2>7, <2>8
<1>17. CASE GiveUp(w)
  <2>1. job' \in Jobs /\ account' \in Accounts /\ queue' \in Queues /\ lock' = lock
    BY <1>0, <1>17, AccountTypes, BatchAssumption DEF GiveUp, TypeOK
  <2>2. /\ faults' \in 0..MaxFaults /\ hits' \subseteq Places /\ hits \subseteq hits'
    BY <1>0, <1>17, Faults, PipelineAssumption DEF GiveUp, Places
  <2>3. /\ upstream' = upstream /\ ByWorker(w)
        /\ work'[w].at \in {"note", "abandon"}
    BY <1>0, <1>17, WorkMoves DEF GiveUp, Spots, Holding
  <2>4. Same /\ job.status \in Late
    BY <1>0, <1>17 DEF GiveUp, TypeOK, Back, WorkerOK
  <2>5. TypeOK'
    BY <1>0, <2>1, <2>2, <2>3 DEF TypeOK, Places, ByWorker, Works, Spots
  <2>6. Calm
    BY <1>0, <1>a, <2>2, <2>3, <2>4 DEF Calm, ByWorker, Late, Given
  <2>7. WorkerOK(w)'
    BY <1>0, <1>a, <1>17, <2>3, <2>4 DEF GiveUp, WorkerOK, Late, Given
  <2>8. LockStep(w)
    BY <1>17, <2>1, <2>3 DEF GiveUp, LockStep, Holding
  <2> QED BY <2>3, <2>5, <2>6, <2>7, <2>8
<1>18. CASE NoteFailure(w)
  <2>1. job' \in Jobs /\ account' \in Accounts /\ queue' \in Queues /\ lock' = lock
    BY <1>0, <1>18, JobTypes, BatchAssumption DEF NoteFailure, TypeOK, Given
  <2>2. /\ faults' \in 0..MaxFaults /\ hits' \subseteq Places /\ hits \subseteq hits'
    BY <1>0, <1>18, Faults, PipelineAssumption DEF NoteFailure, Places
  <2>3. /\ upstream' = upstream /\ ByWorker(w)
        /\ work'[w].at \in {"judge"}
    BY <1>0, <1>18, WorkMoves DEF NoteFailure, Spots, Holding
  <2>4. Same /\ Back' = Back
    BY <1>0, <1>18, JobEffects DEF NoteFailure, TypeOK, Back
  <2>5. TypeOK'
    BY <1>0, <2>1, <2>2, <2>3 DEF TypeOK, Places, ByWorker, Works, Spots
  <2>6. Calm
    BY <1>0, <1>a, <2>2, <2>3, <2>4 DEF Calm, ByWorker, Late, Given
  <2>7. WorkerOK(w)'
    BY <1>0, <1>a, <1>18, <2>3, <2>4 DEF NoteFailure, WorkerOK, Late, Given
  <2>8. LockStep(w)
    BY <1>18, <2>1, <2>3 DEF NoteFailure, LockStep, Holding
  <2> QED BY <2>3, <2>5, <2>6, <2>7, <2>8
<1>19. CASE FailSettlement(w)
  <2>1. job' \in Jobs /\ account' \in Accounts /\ queue' \in Queues /\ lock' = lock
    <3>1. Moved(job, "failed") \in Jobs
      BY <1>0, JobTypes, BatchAssumption DEF TypeOK, Given
    <3> QED BY <1>0, <1>19, <3>1 DEF FailSettlement, TypeOK
  <2>2. /\ faults' \in 0..MaxFaults /\ hits' \subseteq Places /\ hits \subseteq hits'
    BY <1>0, <1>19, Faults, PipelineAssumption DEF FailSettlement, Places
  <2>3. /\ upstream' = upstream /\ ByWorker(w)
        /\ work'[w].at \in {"judge", "requeue"}
    BY <1>0, <1>19, WorkMoves DEF FailSettlement, Spots, Holding
  <2>4. Back' = Back /\ job'.named = job.named
        /\ \/ job'.status = job.status
           \/ job.status \in Open /\ job'.status = "failed"
    <3>1. /\ account' = account
          /\ \/ job' = job
             \/ CanTransition(job, "failed") /\ job' = Moved(job, "failed")
      BY <1>19, Zenon DEF FailSettlement
    <3>2. Moved(job, "failed").status = "failed" /\ Moved(job, "failed").named = job.named
      BY <1>0, JobEffects DEF TypeOK
    <3> QED BY <3>1, <3>2, Transitions, Zenon DEF Back
  <2>5. TypeOK'
    BY <1>0, <2>1, <2>2, <2>3 DEF TypeOK, Places, ByWorker, Works, Spots
  <2>6. Calm
    <3>1. job.status \in Late BY <1>0, <1>19 DEF FailSettlement, WorkerOK
    <3>2. job.status \in Open => job.status = "settling"
      BY <3>1, OpenIs DEF Late, Given
    <3> QED BY <1>a, <2>2, <2>3, <2>4, <3>1, <3>2 DEF Calm, ByWorker, Late, Given
  <2>7. WorkerOK(w)'
    BY <1>0, <1>a, <1>19, <2>3, <2>4 DEF FailSettlement, WorkerOK, Late, Given
  <2>8. LockStep(w)
    BY <1>19, <2>1, <2>3 DEF FailSettlement, LockStep, Holding
  <2> QED BY <2>3, <2>5, <2>6, <2>7, <2>8
<1>20. CASE Judge(w)
  <2>1. job' \in Jobs /\ account' \in Accounts /\ queue' \in Queues /\ lock' = lock
    BY <1>0, <1>20 DEF Judge, TypeOK
  <2>2. /\ faults' \in 0..MaxFaults /\ hits' \subseteq Places /\ hits \subseteq hits'
    BY <1>0, <1>20, Faults, PipelineAssumption DEF Judge, Places
  <2>3. /\ upstream' = upstream /\ ByWorker(w)
        /\ work'[w].at \in {"ack", "requeue"}
    BY <1>0, <1>20, WorkMoves DEF Judge, Spots, Holding
  <2>4. Same /\ Back' = Back
    BY <1>0, <1>20 DEF Judge, TypeOK, Back
  <2>5. TypeOK'
    BY <1>0, <2>1, <2>2, <2>3 DEF TypeOK, Places, ByWorker, Works, Spots
  <2>6. Calm
    BY <1>0, <1>a, <2>2, <2>3, <2>4 DEF Calm, ByWorker, Late, Given
  <2>7. WorkerOK(w)'
    BY <1>0, <1>a, <1>20, <2>3, <2>4 DEF Judge, WorkerOK, Late, Given
  <2>8. LockStep(w)
    BY <1>20, <2>1, <2>3 DEF Judge, LockStep, Holding
  <2> QED BY <2>3, <2>5, <2>6, <2>7, <2>8
<1>21. CASE LeaveWork(w)
  <2>1. job' \in Jobs /\ account' \in Accounts /\ queue' \in Queues /\ lock' = lock
    BY <1>0, <1>21 DEF LeaveWork, TypeOK
  <2>2. /\ faults' \in 0..MaxFaults /\ hits' \subseteq Places /\ hits \subseteq hits'
    BY <1>0, <1>21, Faults, PipelineAssumption DEF LeaveWork, Places
  <2>3. /\ upstream' = upstream /\ ByWorker(w)
        /\ work'[w].at \in {"idle"}
    BY <1>0, <1>21, WorkMoves DEF LeaveWork, Spots, Holding
  <2>4. Same /\ Back' = Back
    BY <1>0, <1>21 DEF LeaveWork, TypeOK, Back
  <2>5. TypeOK'
    BY <1>0, <2>1, <2>2, <2>3 DEF TypeOK, Places, ByWorker, Works, Spots
  <2>6. Calm
    BY <1>0, <1>a, <2>2, <2>3, <2>4 DEF Calm, ByWorker, Late, Given
  <2>7. WorkerOK(w)'
    BY <1>0, <1>a, <1>21, <2>3, <2>4 DEF LeaveWork, WorkerOK, Late, Given
  <2>8. LockStep(w)
    BY <1>21, <2>1, <2>3 DEF LeaveWork, LockStep, Holding
  <2> QED BY <2>3, <2>5, <2>6, <2>7, <2>8
<1> QED BY <1>1, <1>2, <1>3, <1>4, <1>5, <1>6, <1>7, <1>8, <1>9, <1>10, <1>11, <1>12, <1>13, <1>14, <1>15, <1>16, <1>17, <1>18, <1>19, <1>20, <1>21 DEF WorkerStep

-----------------------------------------------------------------------------
(* Every step keeps the invariant.  A process that does not move is not      *)
(* disturbed by a steady step.                                               *)

LEMMA Undisturbed ==
    ASSUME IInv, Steady
    PROVE  /\ user' = user => (user' \in {"refund", "retry"} => job'.status \in Given)
           /\ recovery' = recovery =>
                 (recovery' \in {"release", "retry"} => job'.status \in Given)
           /\ \A v \in Workers : work'[v] = work[v] => WorkerOK(v)'
           /\ lock' = lock /\ work' = work => LockOK'
<1>0. OthersOK /\ LockOK BY DEF IInv
<1>1. ASSUME NEW v \in Workers, work'[v] = work[v] PROVE WorkerOK(v)'
  <2>1. WorkerOK(v) BY DEF IInv
  <2> QED BY <1>1, <2>1 DEF WorkerOK, Steady
<1>2. user' = user => (user' \in {"refund", "retry"} => job'.status \in Given)
  BY <1>0 DEF OthersOK, Steady
<1>3. recovery' = recovery => (recovery' \in {"release", "retry"} => job'.status \in Given)
  BY <1>0 DEF OthersOK, Steady
<1>4. lock' = lock /\ work' = work => LockOK'
  BY <1>0 DEF LockOK, Steady
<1> QED BY <1>1, <1>2, <1>3, <1>4

LEMMA InvInit == Init => IInv
<1> SUFFICES ASSUME Init PROVE IInv OBVIOUS
<1>1. job \in Jobs /\ queue \in Queues
  <2>1. NoJob \in Jobs
    BY BatchAssumption DEF Jobs, NoJob, Open, Allowed
  <2>2. Empty \in Queues BY DEF Empty, Queues
  <2> QED BY <2>1, <2>2 DEF Init
<1>2. account \in Accounts
  <2>1. PICK b \in Balances, f \in Frozen :
            account = [claims |-> {}, balance |-> b, frozen |-> f, others |-> f]
    BY DEF Init
  <2>2. b \in Nat /\ f \in Nat BY BatchAssumption
  <2> QED BY <2>1, <2>2 DEF Accounts
<1>3. work \in Works
  BY OpenIs DEF Init, Works, Spots, NoWork
<1>4. TypeOK
  BY <1>1, <1>2, <1>3, PipelineAssumption DEF Init, TypeOK, Works, Spots
<1>5. SubmitOK /\ ProviderOK /\ OthersOK
  BY DEF Init, NoJob, SubmitOK, ProviderOK, OthersOK, Before, Unsubmitted, Given, Working
<1>6. BackOK
  BY DEF Init, BackOK, Back
<1>7. LockOK /\ \A w \in Workers : WorkerOK(w)
  BY DEF Init, LockOK, WorkerOK, NoWork, Holding
<1> QED BY <1>4, <1>5, <1>6, <1>7 DEF IInv

LEMMA StepKeeps ==
    ASSUME IInv, Next
    PROVE  IInv' /\ Steady
<1>1. CASE Submission \/ LeaveSubmit
  <2>1. TypeOK' /\ Steady /\ SubmitOK' /\ ProviderOK' /\ BackOK' /\ ByOthers
    BY <1>1, SubmissionStep, LeaveSubmitStep
  <2>2. OthersOK' /\ LockOK' /\ \A w \in Workers : WorkerOK(w)'
    BY <2>1, Undisturbed DEF ByOthers, OthersOK
  <2> QED BY <2>1, <2>2 DEF IInv
<1>2. CASE Touch \/ Time
  <2>1. /\ TypeOK' /\ Calm /\ LockOK' /\ UNCHANGED <<submit, user, work, recovery, calls>>
    BY <1>2, TimeStep
  <2>2. Steady /\ SubmitOK' /\ ProviderOK' /\ BackOK'
    BY <2>1, CalmKeeps
  <2>3. OthersOK' /\ \A w \in Workers : WorkerOK(w)'
    BY <2>1, <2>2, Undisturbed DEF OthersOK
  <2> QED BY <2>1, <2>2, <2>3 DEF IInv
<1>3. CASE CancelReads \/ SubmitAgain \/ UserCalls \/ LeaveUser
  <2>1. /\ TypeOK' /\ Calm /\ UNCHANGED <<lock, submit, work, recovery>>
        /\ user' \in {"refund", "retry"} => job'.status \in Given
    BY <1>3, UserStep
  <2>2. Steady /\ SubmitOK' /\ ProviderOK' /\ BackOK'
    BY <2>1, CalmKeeps
  <2>3. OthersOK' /\ LockOK' /\ \A w \in Workers : WorkerOK(w)'
    BY <2>1, <2>2, Undisturbed DEF OthersOK
  <2> QED BY <2>1, <2>2, <2>3 DEF IInv
<1>4. CASE RecoveryLoop \/ LeaveRecovery
  <2>1. /\ TypeOK' /\ Calm /\ UNCHANGED <<lock, submit, work, user, calls>>
        /\ recovery' \in {"release", "retry"} => job'.status \in Given
    BY <1>4, RecoveryStep
  <2>2. Steady /\ SubmitOK' /\ ProviderOK' /\ BackOK'
    BY <2>1, CalmKeeps
  <2>3. OthersOK' /\ LockOK' /\ \A w \in Workers : WorkerOK(w)'
    BY <2>1, <2>2, Undisturbed DEF OthersOK
  <2> QED BY <2>1, <2>2, <2>3 DEF IInv
<1>5. ASSUME NEW w \in Workers, WorkerStep(w) \/ LeaveWork(w)
      PROVE  IInv' /\ Steady
  <2>1. TypeOK' /\ Calm /\ ByWorker(w) /\ WorkerOK(w)' /\ LockStep(w)
    BY <1>5, WorkStep
  <2>2. Steady /\ SubmitOK' /\ ProviderOK' /\ BackOK'
    BY <2>1, CalmKeeps
  <2>3. OthersOK'
    BY <2>1, <2>2, Undisturbed DEF OthersOK, ByWorker
  <2>4. \A v \in Workers : WorkerOK(v)'
    <3>1. ASSUME NEW v \in Workers PROVE WorkerOK(v)'
      <4>1. CASE v = w BY <2>1, <4>1
      <4>2. CASE v # w
        <5>1. work'[v] = work[v] BY <2>1, <4>2 DEF ByWorker
        <5> QED BY <2>2, <5>1, Undisturbed
      <4> QED BY <4>1, <4>2
    <3> QED BY <3>1
  <2>5. LockOK'
    <3>1. ASSUME NEW v \in Workers, work'[v].at \in Holding
          PROVE  lock' = v \/ "lapse" \in hits'
      <4>1. work[v].at \in Holding => lock = v \/ "lapse" \in hits'
        BY <2>2 DEF IInv, LockOK, Steady
      <4>2. "idle" \notin Holding /\ v # NoOne
        BY PipelineAssumption DEF Holding
      <4>3. CASE v = w BY <2>1, <3>1, <4>1, <4>2, <4>3 DEF LockStep
      <4>4. CASE v # w
        <5>1. work'[v] = work[v] BY <2>1, <4>4 DEF ByWorker
        <5>2. lock = v \/ "lapse" \in hits' BY <3>1, <4>1, <5>1
        <5> QED BY <2>1, <4>2, <4>4, <5>2 DEF LockStep
      <4> QED BY <4>3, <4>4
    <3> QED BY <3>1 DEF LockOK
  <2> QED BY <2>1, <2>2, <2>3, <2>4, <2>5 DEF IInv
<1> QED BY <1>1, <1>2, <1>3, <1>4, <1>5 DEF Next, Leave

LEMMA StutterKeeps ==
    ASSUME IInv, UNCHANGED vars
    PROVE  IInv' /\ Steady
<1>1. UNCHANGED <<job, account, queue, lock, upstream, submit, user, work, recovery,
                  calls, faults, hits>>
  BY DEF vars, store, procs
<1>2. TypeOK' /\ SubmitOK' /\ ProviderOK' /\ OthersOK'
  BY <1>1 DEF IInv, TypeOK, SubmitOK, ProviderOK, OthersOK
<1>3. BackOK' BY <1>1 DEF IInv, BackOK, Back
<1>4. LockOK' BY <1>1 DEF IInv, LockOK
<1>5. ASSUME NEW w \in Workers PROVE WorkerOK(w)'
  BY <1>1 DEF IInv, WorkerOK
<1>6. Steady BY <1>1 DEF Steady
<1> QED BY <1>2, <1>3, <1>4, <1>5, <1>6 DEF IInv

LEMMA Invariance == Spec => []IInv
<1>1. Init => IInv BY InvInit
<1>2. IInv /\ [Next]_vars => IInv' BY StepKeeps, StutterKeeps
<1> QED BY <1>1, <1>2, PTL DEF Spec

-----------------------------------------------------------------------------
(* The results.                                                              *)

\* Every variable keeps its type: no balance or frozen amount becomes negative, no
\* ready list is popped when it is empty, the retry counter stops at its limit.
THEOREM TypeCorrect == Spec => []TypeOK
<1>1. IInv => TypeOK BY DEF IInv
<1> QED BY <1>1, Invariance, PTL

\* RunOnce processes a job in one worker at a time, for any number of workers,
\* however often the queue hands out the job, unless a lock lapses under its holder.
THEOREM WorkerAlone == Spec => []OneWorker
<1>1. IInv => OneWorker BY DEF IInv, LockOK, OneWorker
<1> QED BY <1>1, Invariance, PTL

\* A job that got its hold back has nothing running at the provider, except where the
\* submission is about to abort it, where a cancellation overtook the storing of the
\* provider's name, or where a fault hit the submission or its abort.
THEOREM RefundedStaysStopped == Spec => []RefundedIsStopped
<1>1. IInv => RefundedIsStopped
  <2> SUFFICES ASSUME IInv, Back, upstream \in Working, submit \notin {"store", "abort"},
                      hits \cap Orphans = {}
               PROVE  job.status = "cancelled" /\ job.named
    BY DEF RefundedIsStopped
  <2>1. job.named /\ job.status \in {"submitted", "running", "cancelled"}
    BY DEF IInv, ProviderOK
  <2> QED BY <2>1 DEF IInv, BackOK, Late, Given
<1> QED BY <1>1, Invariance, PTL

\* A completed job stays completed and a job that was given up is never completed,
\* although several statements write the status by id alone.
THEOREM EndStays == Spec => EndIsFinal
<1>1. IInv /\ [Next]_vars =>
          [/\ job.status = "completed" => job'.status = "completed"
           /\ job.status \in Given => job'.status \in Given]_vars
  BY StepKeeps, StutterKeeps DEF Steady
<1> QED BY <1>1, Invariance, PTL DEF Spec, EndIsFinal

=============================================================================
