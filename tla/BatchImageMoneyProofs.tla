----------------------- MODULE BatchImageMoneyProofs -----------------------
(***************************************************************************)
(* Proofs about the money of BatchImage: the frozen pool of the user and   *)
(* the agreement of the job's end with what was charged.                   *)
(***************************************************************************)
EXTENDS BatchImageProofs

Settled == {"settling", "completed"}

-----------------------------------------------------------------------------
(* What the statements do to the fields the money depends on.                *)

\* The retry counter and the error code.
LEMMA RowFields ==
    ASSUME NEW j \in Jobs
    PROVE  /\ \A s : /\ Moved(j, s).retries = j.retries
                     /\ s # "failed" => Moved(j, s).code = j.code
           /\ Submitted(j).retries = j.retries /\ Submitted(j).code = j.code
           /\ SubmitFailed(j).retries = j.retries
           /\ QueueFailed(j).retries = j.retries
           /\ QueueRecovered(j).retries = j.retries
           /\ QueueRecovered(j).code = j.code \/ j.code = "QUEUE_FAILED"
           /\ Hidden(j).retries = j.retries /\ Hidden(j).code = j.code
           /\ SettlementFailed(j).code = "SETTLEMENT"
           /\ SettlementFailed(j).retries =
                  IF j.retries < MaxRetries THEN j.retries + 1 ELSE j.retries
           /\ \A b \in BOOLEAN : /\ [j EXCEPT !.stale = b].retries = j.retries
                                 /\ [j EXCEPT !.stale = b].code = j.code
           /\ \A c : /\ [j EXCEPT !.cost = c].retries = j.retries
                     /\ [j EXCEPT !.cost = c].code = j.code
           /\ [j EXCEPT !.status = "completed"].retries = j.retries
           /\ [j EXCEPT !.status = "completed"].code = j.code
           /\ [NoJob EXCEPT !.status = "created"].retries = 0
BY DEF Jobs, NoJob, Moved, Submitted, SubmitFailed, QueueFailed, QueueRecovered,
       SettlementFailed, Hidden

\* The claims and the frozen balance.
LEMMA Movements ==
    ASSUME NEW a \in Accounts
    PROVE  /\ Reserved(a).claims = a.claims \cup {"hold"} /\ Reserved(a).others = a.others
           /\ Reserved(a).frozen = a.frozen + (IF "hold" \in a.claims THEN 0 ELSE Hold)
           /\ \A c : /\ Captured(a, c).claims = a.claims \cup {"capture"}
                     /\ Captured(a, c).others = a.others
                     /\ Captured(a, c).frozen =
                            a.frozen - (IF "capture" \in a.claims THEN 0 ELSE Hold)
           /\ Released(a).others = a.others
           /\ Released(a).claims =
                  a.claims \cup {"release"} \cup
                  (IF {"hold", "release"} \cap a.claims = {} THEN {"nothing"} ELSE {})
           /\ Released(a).frozen =
                  a.frozen - (IF "hold" \in a.claims /\ "release" \notin a.claims THEN Hold ELSE 0)
<1>0. /\ Hold \in Nat /\ a.claims \subseteq Claims
      /\ a.balance \in Nat /\ a.frozen \in Nat /\ a.others \in Nat
  BY BatchAssumption DEF Accounts
<1>1. /\ Reserved(a).claims = a.claims \cup {"hold"} /\ Reserved(a).others = a.others
      /\ Reserved(a).frozen = a.frozen + (IF "hold" \in a.claims THEN 0 ELSE Hold)
  BY <1>0 DEF Reserved, Accounts
<1>2. ASSUME NEW c
      PROVE  /\ Captured(a, c).claims = a.claims \cup {"capture"}
             /\ Captured(a, c).others = a.others
             /\ Captured(a, c).frozen =
                    a.frozen - (IF "capture" \in a.claims THEN 0 ELSE Hold)
  BY <1>0 DEF Captured, Accounts
<1>3. CASE "release" \in a.claims
  BY <1>0, <1>1, <1>2, <1>3 DEF Released, Accounts
<1>4. CASE "release" \notin a.claims /\ "hold" \notin a.claims
  BY <1>0, <1>1, <1>2, <1>4 DEF Released, Accounts
<1>5. CASE "release" \notin a.claims /\ "hold" \in a.claims
  BY <1>0, <1>1, <1>2, <1>5 DEF Released, Accounts
<1> QED BY <1>3, <1>4, <1>5

-----------------------------------------------------------------------------
(* What holds whatever lapses.                                               *)

HeldAt == {"items", "upload", "submit", "store"}

\* A row that is not there yet has not been retried.
NoneOK == job.status = "none" => job.retries = 0

\* The provider is asked only for what is paid for in advance.
NamedOK == /\ job.named => Held
           /\ submit \in HeldAt => Held

\* A release that found no hold says so.
ClaimsOK == (Back /\ ~Held => Early) /\ (Early => Back)

\* Retries that have run out are recognised, or a late "QUEUE_FAILED" hides them.
CodesOK ==
    /\ job.retries = MaxRetries =>
          job.code = "SETTLEMENT" \/ job.status \in Terminal \/ "late" \in hits
    /\ submit = "unqueued" \/ user = "unqueued" => "late" \in hits

Base == NoneOK /\ NamedOK /\ ClaimsOK /\ CodesOK

\* What any step may do to the row and the claims.
RowKept ==
    /\ hits \subseteq hits'
    /\ job.retries = MaxRetries => job'.retries = MaxRetries
    /\ job'.status = "none" => job.status = "none" /\ job'.retries = job.retries
    /\ job'.retries = MaxRetries =>
          \/ job'.code = "SETTLEMENT" \/ job'.status \in Terminal \/ "late" \in hits
          \/ job.retries = MaxRetries /\ (job'.code = job.code \/ job.code = "QUEUE_FAILED")
    /\ job'.named => job.named \/ submit = "store"
    /\ submit' \in HeldAt => submit \in HeldAt \/ "hold" \in account'.claims
    /\ submit' = "unqueued" => submit = "unqueued" \/ "late" \in hits'
    /\ user' = "unqueued" => user = "unqueued" \/ "late" \in hits'
    /\ \/ account' = account \/ account' = Reserved(account)
       \/ account' = Released(account) \/ \E c : account' = Captured(account, c)

LEMMA BaseKeeps ==
    ASSUME IInv, Base, RowKept, Steady
    PROVE  Base' /\ (Overdrawn => Overdrawn')
<1>0. account \in Accounts /\ NoneOK /\ NamedOK /\ ClaimsOK /\ CodesOK
  BY DEF IInv, TypeOK, Base
<1>1. NoneOK' BY <1>0 DEF NoneOK, RowKept
<1>2. Held => Held'
  <2>1. "hold" \in account.claims => "hold" \in account'.claims
    BY <1>0, Movements DEF RowKept
  <2> QED BY <2>1 DEF Held
<1>3. NamedOK'
  BY <1>0, <1>2 DEF NamedOK, RowKept, Held, HeldAt
<1>4. ClaimsOK'
  <2>1. CASE account' = account
    BY <1>0, <2>1 DEF ClaimsOK, Back, Held, Early
  <2>2. CASE account' = Reserved(account)
    BY <1>0, <2>2, Movements DEF ClaimsOK, Back, Held, Early
  <2>3. CASE account' = Released(account)
    BY <1>0, <2>3, Movements DEF ClaimsOK, Back, Held, Early
  <2>4. CASE \E c : account' = Captured(account, c)
    BY <1>0, <2>4, Movements DEF ClaimsOK, Back, Held, Early
  <2> QED BY <2>1, <2>2, <2>3, <2>4 DEF RowKept
<1>5. CodesOK'
  <2>1. job.status \in Terminal => job'.status \in Terminal
    BY DEF Steady, Terminal
  <2> QED BY <1>0, <2>1 DEF CodesOK, RowKept
<1>6. Overdrawn => Overdrawn'
  BY DEF Overdrawn, RowKept
<1> QED BY <1>1, <1>3, <1>4, <1>5, <1>6 DEF Base

-----------------------------------------------------------------------------
(* The money, as long as no lock lapses and the retries of a charged job do  *)
(* not run out.                                                              *)

FrozenOK ==
    account.frozen =
        account.others + (IF Held /\ (Early \/ ~(Paid \/ Back)) THEN Hold ELSE 0)

\* What is charged was held, is not released, and still to be completed or completed.
PaidOK ==
    Paid => /\ Held /\ ~Back /\ job.status \in Settled
            /\ job.status = "settling" => job.retries < MaxRetries

CompletedOK == job.status = "completed" => Paid

\* A job to be settled is released only when its retries have run out.
BackSettling == job.status = "settling" /\ Back => job.retries = MaxRetries

\* What the worker knows of the row and the claims.
SettleOK(w) ==
    /\ work[w].at \in {"get", "move", "index"} => job.status \notin Settled
    /\ work[w].at \in {"capture", "finish", "record", "giveup", "note", "abandon"} =>
          job.status = "settling"
    /\ work[w].at \in {"capture", "record"} => ~Back /\ job.retries < MaxRetries
    /\ work[w].at = "finish" => Paid
    /\ work[w].at = "record" => (Paid => "capture" \in hits)
    /\ work[w].at \in {"giveup", "note", "abandon"} => job.retries = MaxRetries

MoneyOK == /\ FrozenOK /\ PaidOK /\ CompletedOK /\ BackSettling
           /\ \A w \in Workers : SettleOK(w)

MInv == IInv /\ Base /\ (Overdrawn \/ MoneyOK)

\* A release of what was not charged takes out what the job had put in.
LEMMA ReleaseFrozen ==
    ASSUME IInv, Base, FrozenOK, ~Paid, account' = Released(account)
    PROVE  FrozenOK' /\ ~Paid'
<1>1. /\ account \in Accounts /\ Hold \in Nat
      /\ account.frozen \in Nat /\ account.others \in Nat
  BY BatchAssumption DEF IInv, TypeOK, Accounts
<1>2. ~Paid' BY <1>1, Movements DEF Paid
<1>3. (Held' <=> Held) /\ Back' /\ (Early' <=> (Early \/ (~Held /\ ~Back)))
  BY <1>1, Movements DEF Held, Back, Early
<1>4. /\ account'.others = account.others
      /\ account'.frozen = account.frozen - (IF Held /\ ~Back THEN Hold ELSE 0)
  BY <1>1, Movements DEF Held, Back
<1>5. (Back /\ ~Held => Early) /\ (Early => Back) BY DEF Base, ClaimsOK
<1>6. CASE Held /\ ~Back
  <2>1. ~Early /\ ~Early' /\ Held' BY <1>3, <1>5, <1>6
  <2>2. account.frozen = account.others + Hold BY <1>6 DEF FrozenOK
  <2>3. account'.frozen = account'.others BY <1>1, <1>4, <1>6, <2>2
  <2> QED BY <1>1, <1>2, <1>3, <1>4, <2>1, <2>3 DEF FrozenOK
<1>7. CASE ~(Held /\ ~Back)
  <2>1. account'.frozen = account.frozen BY <1>1, <1>4, <1>7
  <2>2. CASE ~Held
    <3>1. ~Held' BY <1>3, <2>2
    <3>2. account.frozen = account.others BY <1>1, <2>2 DEF FrozenOK
    <3> QED BY <1>1, <1>2, <1>4, <2>1, <3>1, <3>2 DEF FrozenOK
  <2>3. CASE Held /\ Early
    <3>1. Held' /\ Early' BY <1>3, <2>3
    <3>2. account.frozen = account.others + Hold BY <2>3 DEF FrozenOK
    <3> QED BY <1>2, <1>4, <2>1, <3>1, <3>2 DEF FrozenOK
  <2>4. CASE Held /\ ~Early
    <3>1. Back /\ Back' /\ ~Early' BY <1>3, <1>7, <2>4
    <3>2. account.frozen = account.others BY <1>1, <2>4, <3>1 DEF FrozenOK
    <3> QED BY <1>1, <1>2, <1>4, <2>1, <3>1, <3>2 DEF FrozenOK
  <2> QED BY <2>2, <2>3, <2>4
<1> QED BY <1>6, <1>7

-----------------------------------------------------------------------------
(* The steps beside the workers: they write the row of a job that is being   *)
(* settled only where its status is not, and release the hold of others.     *)

Aside ==
    /\ work' = work /\ job'.retries = job.retries
    /\ job'.status # job.status => job.status \notin Settled /\ job'.status \notin Settled
    /\ \/ account' = account \/ account' = Reserved(account)
       \/ job.status \notin Settled /\ account' = Released(account)

LEMMA AsideKeeps ==
    ASSUME IInv, Base, MoneyOK, Aside, hits \subseteq hits'
    PROVE  MoneyOK'
<1>0. /\ account \in Accounts /\ Hold \in Nat
      /\ account.frozen \in Nat /\ account.others \in Nat
  BY BatchAssumption DEF IInv, TypeOK, Accounts
<1>a. FrozenOK /\ PaidOK /\ CompletedOK /\ BackSettling BY DEF MoneyOK
<1>b. ClaimsOK BY DEF Base
<1>c. /\ job.status \in Settled \/ job'.status \in Settled => job'.status = job.status
      /\ job'.retries = job.retries /\ work' = work
  BY DEF Aside
<1>1. /\ FrozenOK' /\ (Paid' <=> Paid) /\ (Held => Held')
      /\ job.status \in Settled => (Back' <=> Back)
  <2>1. CASE account' = account
    BY <1>a, <2>1 DEF FrozenOK, Paid, Held, Back, Early
  <2>2. CASE account' = Reserved(account)
    <3>1. /\ Held' /\ (Paid' <=> Paid) /\ (Back' <=> Back) /\ (Early' <=> Early)
      BY <1>0, <2>2, Movements DEF Paid, Held, Back, Early
    <3>2. /\ account'.others = account.others
          /\ account'.frozen = account.frozen + (IF Held THEN 0 ELSE Hold)
      BY <1>0, <2>2, Movements DEF Held
    <3>3. CASE Held
      <4>1. account'.frozen = account.frozen BY <1>0, <3>2, <3>3
      <4> QED BY <1>a, <3>1, <3>2, <3>3, <4>1 DEF FrozenOK
    <3>4. CASE ~Held
      <4>1. ~Paid /\ (Back => Early) BY <1>a, <1>b, <3>4 DEF PaidOK, ClaimsOK
      <4>2. account.frozen = account.others BY <1>0, <1>a, <3>4 DEF FrozenOK
      <4>3. account'.frozen = account'.others + Hold BY <1>0, <3>2, <3>4, <4>2
      <4> QED BY <3>1, <4>1, <4>3 DEF FrozenOK
    <3> QED BY <3>3, <3>4
  <2>3. CASE job.status \notin Settled /\ account' = Released(account)
    <3>1. ~Paid BY <1>a, <2>3 DEF PaidOK
    <3>2. FrozenOK' /\ ~Paid' BY <1>a, <2>3, <3>1, ReleaseFrozen
    <3>3. Held => Held' BY <1>0, <2>3, Movements DEF Held
    <3> QED BY <2>3, <3>1, <3>2, <3>3
  <2> QED BY <2>1, <2>2, <2>3 DEF Aside
<1>2. PaidOK'
  BY <1>a, <1>c, <1>1 DEF PaidOK
<1>3. CompletedOK'
  BY <1>a, <1>c, <1>1 DEF CompletedOK, Settled
<1>4. BackSettling'
  BY <1>a, <1>c, <1>1 DEF BackSettling, Settled
<1>5. ASSUME NEW w \in Workers PROVE SettleOK(w)'
  <2>1. SettleOK(w) BY DEF MoneyOK
  <2>2. work'[w] = work[w] BY <1>c
  <2>3. /\ job.status \notin Settled => job'.status \notin Settled
        /\ job.status = "settling" => job'.status = "settling" /\ (Back' <=> Back)
    BY <1>c, <1>1 DEF Settled
  <2> QED BY <1>c, <1>1, <2>1, <2>2, <2>3 DEF SettleOK
<1> QED BY <1>1, <1>2, <1>3, <1>4, <1>5 DEF MoneyOK

\* The submission.
LEMMA AsideSubmission ==
    ASSUME IInv, Base, Submission \/ LeaveSubmit
    PROVE  Aside /\ RowKept
<1> USE DEF Call, Errs, Attempt, Nothing, Write, Pay, Push, Ask, store, Go, Fault, NoFault
<1>0. TypeOK /\ SubmitOK /\ OthersOK /\ NoneOK /\ CodesOK /\ job \in Jobs /\ account \in Accounts
  BY DEF IInv, TypeOK, Base
<1>1. CASE Create
  <2>1. hits \subseteq hits' /\ work' = work
    BY <1>1 DEF Create
  <2>2. \/ job' = job
        \/ /\ job.status = "none" /\ job'.status = "created" /\ ~job'.named
           /\ job.retries = 0 /\ job'.retries = 0 /\ MaxRetries # 0
    <3>1. job' = job \/ job' = [NoJob EXCEPT !.status = "created"]
      BY <1>1 DEF Create
    <3>2. /\ [NoJob EXCEPT !.status = "created"].status = "created"
          /\ ~[NoJob EXCEPT !.status = "created"].named
          /\ [NoJob EXCEPT !.status = "created"].retries = 0
      BY <1>0, RowFields, JobEffects
    <3>3. job.status = "none" /\ job.retries = 0 /\ MaxRetries # 0
      BY <1>0, <1>1, BatchAssumption DEF Create, SubmitOK, NoneOK
    <3> QED BY <3>1, <3>2, <3>3, Zenon
  <2>3. account' = account
    BY <1>0, <1>1 DEF Create, SubmitOK, OthersOK, Before, Settled, Unsubmitted, Given
  <2>4. submit' # "unqueued" /\ submit' \notin HeldAt /\ user' = user
    BY <1>1, Movements, <1>0 DEF Create, HeldAt
  <2> QED BY <1>0, <2>1, <2>2, <2>3, <2>4 DEF Aside, RowKept, Settled, Unsubmitted, Terminal
<1>2. CASE Reserve
  <2>1. hits \subseteq hits' /\ work' = work
    BY <1>2 DEF Reserve
  <2>2. job' = job
    BY <1>0, <1>2 DEF Reserve
  <2>3. account' = account \/ account' = Reserved(account)
    BY <1>0, <1>2 DEF Reserve, SubmitOK, OthersOK, Before, Settled, Unsubmitted, Given
  <2>4. /\ submit' # "unqueued" /\ user' = user
        /\ submit' \in HeldAt => "hold" \in account'.claims
    BY <1>2, Movements, <1>0 DEF Reserve, HeldAt
  <2> QED BY <1>0, <2>1, <2>2, <2>3, <2>4 DEF Aside, RowKept
<1>3. CASE CreateItems
  <2>1. hits \subseteq hits' /\ work' = work
    BY <1>3 DEF CreateItems
  <2>2. job' = job
    BY <1>0, <1>3 DEF CreateItems
  <2>3. account' = account
    BY <1>0, <1>3 DEF CreateItems, SubmitOK, OthersOK, Before, Settled, Unsubmitted, Given
  <2>4. submit' # "unqueued" /\ submit \in HeldAt /\ user' = user
    BY <1>3, Movements, <1>0 DEF CreateItems, HeldAt
  <2> QED BY <1>0, <2>1, <2>2, <2>3, <2>4 DEF Aside, RowKept
<1>4. CASE StartUpload
  <2>1. hits \subseteq hits' /\ work' = work
    BY <1>4 DEF StartUpload
  <2>2. /\ job'.retries = job.retries /\ job'.named = job.named /\ job'.code = job.code
        /\ job'.status = job.status \/ (job.status = "created" /\ job'.status = "uploading")
    BY <1>0, <1>4, RowFields, JobEffects, Transitions DEF StartUpload
  <2>3. account' = account
    BY <1>0, <1>4 DEF StartUpload, SubmitOK, OthersOK, Before, Settled, Unsubmitted, Given
  <2>4. submit' # "unqueued" /\ submit \in HeldAt /\ user' = user
    BY <1>4, Movements, <1>0 DEF StartUpload, HeldAt
  <2> QED BY <1>0, <2>1, <2>2, <2>3, <2>4 DEF Aside, RowKept, Settled, Unsubmitted, Terminal
<1>5. CASE SubmitToProvider
  <2>1. hits \subseteq hits' /\ work' = work
    BY <1>5 DEF SubmitToProvider
  <2>2. job' = job
    BY <1>0, <1>5 DEF SubmitToProvider
  <2>3. account' = account
    BY <1>0, <1>5 DEF SubmitToProvider, SubmitOK, OthersOK, Before, Settled, Unsubmitted,
       Given
  <2>4. submit' # "unqueued" /\ submit \in HeldAt /\ user' = user
    BY <1>5, Movements, <1>0 DEF SubmitToProvider, HeldAt
  <2> QED BY <1>0, <2>1, <2>2, <2>3, <2>4 DEF Aside, RowKept
<1>6. CASE StoreProviderJob
  <2>1. hits \subseteq hits' /\ work' = work
    BY <1>6 DEF StoreProviderJob
  <2>2. /\ job'.retries = job.retries /\ submit = "store" /\ job'.code = job.code
        /\ job'.status = job.status \/ (job.status \in Unsubmitted /\ job'.status = "submitted")
    BY <1>0, <1>6, RowFields, JobEffects, Transitions DEF StoreProviderJob
  <2>3. account' = account
    BY <1>0, <1>6 DEF StoreProviderJob, SubmitOK, OthersOK, Before, Settled, Unsubmitted,
       Given
  <2>4. submit' # "unqueued" /\ submit' \notin HeldAt /\ user' = user
    BY <1>6, Movements, <1>0 DEF StoreProviderJob, HeldAt
  <2> QED BY <1>0, <2>1, <2>2, <2>3, <2>4 DEF Aside, RowKept, Settled, Unsubmitted, Terminal
<1>7. CASE AbortOrphan
  <2>1. hits \subseteq hits' /\ work' = work
    BY <1>7 DEF AbortOrphan
  <2>2. job' = job
    BY <1>0, <1>7 DEF AbortOrphan
  <2>3. account' = account
    BY <1>0, <1>7 DEF AbortOrphan, SubmitOK, OthersOK, Before, Settled, Unsubmitted, Given
  <2>4. submit' # "unqueued" /\ submit' \notin HeldAt /\ user' = user
    BY <1>7, Movements, <1>0 DEF AbortOrphan, HeldAt
  <2> QED BY <1>0, <2>1, <2>2, <2>3, <2>4 DEF Aside, RowKept
<1>8. CASE EnqueueJob
  <2>1. hits \subseteq hits' /\ work' = work
    BY <1>8 DEF EnqueueJob
  <2>2. job' = job
    BY <1>0, <1>8 DEF EnqueueJob
  <2>3. account' = account
    BY <1>0, <1>8 DEF EnqueueJob, SubmitOK, OthersOK, Before, Settled, Unsubmitted, Given
  <2>4. /\ submit' \notin HeldAt /\ user' = user
        /\ submit' = "unqueued" => "late" \in hits'
    BY <1>8, Movements, <1>0 DEF EnqueueJob, HeldAt
  <2> QED BY <1>0, <2>1, <2>2, <2>3, <2>4 DEF Aside, RowKept
<1>9. CASE RecordUnqueued
  <2>1. hits \subseteq hits' /\ work' = work
    BY <1>9 DEF RecordUnqueued
  <2>2. /\ job'.retries = job.retries /\ job'.named = job.named
        /\ job'.status = job.status /\ submit = "unqueued"
    BY <1>0, <1>9, RowFields, JobEffects DEF RecordUnqueued
  <2>3. account' = account
    BY <1>0, <1>9 DEF RecordUnqueued, SubmitOK, OthersOK, Before, Settled, Unsubmitted,
       Given
  <2>4. submit' # "unqueued" /\ submit' \notin HeldAt /\ user' = user
    BY <1>9, Movements, <1>0 DEF RecordUnqueued, HeldAt
  <2> QED BY <1>0, <2>1, <2>2, <2>3, <2>4 DEF Aside, RowKept, CodesOK
<1>10. CASE ReleaseFailedSubmit
  <2>1. hits \subseteq hits' /\ work' = work
    BY <1>10 DEF ReleaseFailedSubmit
  <2>2. job' = job
    BY <1>0, <1>10 DEF ReleaseFailedSubmit
  <2>3. \/ account' = account
        \/ account' = Released(account) /\ job.status \notin Settled
    BY <1>0, <1>10 DEF ReleaseFailedSubmit, SubmitOK, OthersOK, Before, Settled,
       Unsubmitted, Given
  <2>4. submit' # "unqueued" /\ submit' \notin HeldAt /\ user' = user
    BY <1>10, Movements, <1>0 DEF ReleaseFailedSubmit, HeldAt
  <2> QED BY <1>0, <2>1, <2>2, <2>3, <2>4 DEF Aside, RowKept
<1>11. CASE RecordUnreleased
  <2>1. hits \subseteq hits' /\ work' = work
    BY <1>11 DEF RecordUnreleased
  <2>2. /\ job'.retries = job.retries /\ job'.named = job.named
        /\ \/ job' = job
           \/ /\ job'.status = "failed" /\ job'.status \in Terminal
              /\ job.status \notin Settled
    BY <1>0, <1>11, RowFields, JobEffects DEF RecordUnreleased, SubmitOK, Before, Settled,
       Terminal, Given, Unsubmitted
  <2>3. account' = account
    BY <1>0, <1>11 DEF RecordUnreleased, SubmitOK, OthersOK, Before, Settled, Unsubmitted,
       Given
  <2>4. submit' # "unqueued" /\ submit' \notin HeldAt /\ user' = user
    BY <1>11, Movements, <1>0 DEF RecordUnreleased, HeldAt
  <2> QED BY <1>0, <2>1, <2>2, <2>3, <2>4 DEF Aside, RowKept, Settled, Unsubmitted, Terminal
<1>12. CASE RetryRelease
  <2>1. hits \subseteq hits' /\ work' = work
    BY <1>12 DEF RetryRelease
  <2>2. job' = job
    BY <1>0, <1>12 DEF RetryRelease
  <2>3. account' = account
    BY <1>0, <1>12 DEF RetryRelease, SubmitOK, OthersOK, Before, Settled, Unsubmitted, Given
  <2>4. submit' # "unqueued" /\ submit' \notin HeldAt /\ user' = user
    BY <1>12, Movements, <1>0 DEF RetryRelease, HeldAt
  <2> QED BY <1>0, <2>1, <2>2, <2>3, <2>4 DEF Aside, RowKept
<1>13. CASE RecordFailure
  <2>1. hits \subseteq hits' /\ work' = work
    BY <1>13 DEF RecordFailure
  <2>2. /\ job'.retries = job.retries /\ job'.named = job.named
        /\ \/ job' = job
           \/ /\ job'.status = "failed" /\ job'.status \in Terminal
              /\ job.status \notin Settled
    BY <1>0, <1>13, RowFields, JobEffects DEF RecordFailure, SubmitOK, Before, Settled,
       Terminal, Given, Unsubmitted
  <2>3. account' = account
    BY <1>0, <1>13 DEF RecordFailure, SubmitOK, OthersOK, Before, Settled, Unsubmitted,
       Given
  <2>4. submit' # "unqueued" /\ submit' \notin HeldAt /\ user' = user
    BY <1>13, Movements, <1>0 DEF RecordFailure, HeldAt
  <2> QED BY <1>0, <2>1, <2>2, <2>3, <2>4 DEF Aside, RowKept, Settled, Unsubmitted, Terminal
<1>14. CASE Hide
  <2>1. hits \subseteq hits' /\ work' = work
    BY <1>14 DEF Hide
  <2>2. /\ job'.retries = job.retries /\ job'.named = job.named
        /\ job'.status = job.status /\ job'.code = job.code
    BY <1>0, <1>14, RowFields, JobEffects DEF Hide
  <2>3. account' = account
    BY <1>0, <1>14 DEF Hide, SubmitOK, OthersOK, Before, Settled, Unsubmitted, Given
  <2>4. submit' # "unqueued" /\ submit' \notin HeldAt /\ user' = user
    BY <1>14, Movements, <1>0 DEF Hide, HeldAt
  <2> QED BY <1>0, <2>1, <2>2, <2>3, <2>4 DEF Aside, RowKept
<1>15. CASE LeaveSubmit
  <2>1. hits \subseteq hits' /\ work' = work
    BY <1>15 DEF LeaveSubmit
  <2>2. job' = job
    BY <1>0, <1>15 DEF LeaveSubmit
  <2>3. account' = account
    BY <1>0, <1>15 DEF LeaveSubmit, SubmitOK, OthersOK, Before, Settled, Unsubmitted, Given
  <2>4. submit' # "unqueued" /\ submit' \notin HeldAt /\ user' = user
    BY <1>15, Movements, <1>0 DEF LeaveSubmit, HeldAt
  <2> QED BY <1>0, <2>1, <2>2, <2>3, <2>4 DEF Aside, RowKept
<1> QED BY <1>1, <1>2, <1>3, <1>4, <1>5, <1>6, <1>7, <1>8, <1>9, <1>10, <1>11, <1>12,
   <1>13, <1>14, <1>15 DEF Submission

\* The user's other call.
LEMMA AsideUser ==
    ASSUME IInv, Base, CancelReads \/ SubmitAgain \/ UserCalls \/ LeaveUser
    PROVE  Aside /\ RowKept
<1> USE DEF Call, Errs, Attempt, Nothing, Write, Pay, Push, Ask, store, User, Fault, NoFault
<1>0. TypeOK /\ SubmitOK /\ OthersOK /\ NoneOK /\ CodesOK /\ job \in Jobs /\ account \in Accounts
  BY DEF IInv, TypeOK, Base
<1>1. CASE CancelReads
  <2>1. hits \subseteq hits' /\ work' = work
    BY <1>1 DEF CancelReads
  <2>2. job' = job
    BY <1>0, <1>1 DEF CancelReads
  <2>3. account' = account
    BY <1>0, <1>1 DEF CancelReads, SubmitOK, OthersOK, Before, Settled, Unsubmitted, Given
  <2>4. submit' = submit /\ user' # "unqueued"
    BY <1>1, Movements, <1>0 DEF CancelReads, HeldAt
  <2> QED BY <1>0, <2>1, <2>2, <2>3, <2>4 DEF Aside, RowKept
<1>2. CASE StopProviderJob
  <2>1. hits \subseteq hits' /\ work' = work
    BY <1>2 DEF StopProviderJob
  <2>2. job' = job
    BY <1>0, <1>2 DEF StopProviderJob
  <2>3. account' = account
    BY <1>0, <1>2 DEF StopProviderJob, SubmitOK, OthersOK, Before, Settled, Unsubmitted,
       Given
  <2>4. submit' = submit /\ user' # "unqueued"
    BY <1>2, Movements, <1>0 DEF StopProviderJob, HeldAt
  <2> QED BY <1>0, <2>1, <2>2, <2>3, <2>4 DEF Aside, RowKept
<1>3. CASE EnqueueCancelled
  <2>1. hits \subseteq hits' /\ work' = work
    BY <1>3 DEF EnqueueCancelled
  <2>2. job' = job
    BY <1>0, <1>3 DEF EnqueueCancelled
  <2>3. account' = account
    BY <1>0, <1>3 DEF EnqueueCancelled, SubmitOK, OthersOK, Before, Settled, Unsubmitted,
       Given
  <2>4. submit' = submit /\ user' # "unqueued"
    BY <1>3, Movements, <1>0 DEF EnqueueCancelled, HeldAt
  <2> QED BY <1>0, <2>1, <2>2, <2>3, <2>4 DEF Aside, RowKept
<1>4. CASE CancelUnsubmitted
  <2>1. hits \subseteq hits' /\ work' = work
    BY <1>4 DEF CancelUnsubmitted
  <2>2. /\ job'.retries = job.retries /\ job'.named = job.named /\ job'.code = job.code
        /\ \/ job'.status = job.status
           \/ /\ job'.status = "cancelled"
              /\ job.status \in Unsubmitted \cup {"submitted", "running"}
    BY <1>0, <1>4, RowFields, JobEffects, Transitions DEF CancelUnsubmitted
  <2>3. account' = account
    BY <1>0, <1>4 DEF CancelUnsubmitted, SubmitOK, OthersOK, Before, Settled, Unsubmitted,
       Given
  <2>4. submit' = submit /\ user' # "unqueued"
    BY <1>4, Movements, <1>0 DEF CancelUnsubmitted, HeldAt
  <2> QED BY <1>0, <2>1, <2>2, <2>3, <2>4 DEF Aside, RowKept, Settled, Unsubmitted, Terminal
<1>5. CASE ReleaseCancelled
  <2>1. hits \subseteq hits' /\ work' = work
    BY <1>5 DEF ReleaseCancelled
  <2>2. job' = job
    BY <1>0, <1>5 DEF ReleaseCancelled
  <2>3. \/ account' = account
        \/ account' = Released(account) /\ job.status \notin Settled
    BY <1>0, <1>5 DEF ReleaseCancelled, SubmitOK, OthersOK, Before, Settled, Unsubmitted,
       Given
  <2>4. submit' = submit /\ user' # "unqueued"
    BY <1>5, Movements, <1>0 DEF ReleaseCancelled, HeldAt
  <2> QED BY <1>0, <2>1, <2>2, <2>3, <2>4 DEF Aside, RowKept
<1>6. CASE RetryCancelled
  <2>1. hits \subseteq hits' /\ work' = work
    BY <1>6 DEF RetryCancelled
  <2>2. job' = job
    BY <1>0, <1>6 DEF RetryCancelled
  <2>3. account' = account
    BY <1>0, <1>6 DEF RetryCancelled, SubmitOK, OthersOK, Before, Settled, Unsubmitted,
       Given
  <2>4. submit' = submit /\ user' # "unqueued"
    BY <1>6, Movements, <1>0 DEF RetryCancelled, HeldAt
  <2> QED BY <1>0, <2>1, <2>2, <2>3, <2>4 DEF Aside, RowKept
<1>7. CASE SubmitAgain
  <2>1. hits \subseteq hits' /\ work' = work
    BY <1>7 DEF SubmitAgain
  <2>2. job' = job
    BY <1>0, <1>7 DEF SubmitAgain
  <2>3. account' = account
    BY <1>0, <1>7 DEF SubmitAgain, SubmitOK, OthersOK, Before, Settled, Unsubmitted, Given
  <2>4. submit' = submit /\ user' # "unqueued"
    BY <1>7, Movements, <1>0 DEF SubmitAgain, HeldAt
  <2> QED BY <1>0, <2>1, <2>2, <2>3, <2>4 DEF Aside, RowKept
<1>8. CASE EnqueueAgain
  <2>1. hits \subseteq hits' /\ work' = work
    BY <1>8 DEF EnqueueAgain
  <2>2. job' = job
    BY <1>0, <1>8 DEF EnqueueAgain
  <2>3. account' = account
    BY <1>0, <1>8 DEF EnqueueAgain, SubmitOK, OthersOK, Before, Settled, Unsubmitted, Given
  <2>4. submit' = submit /\ (user' = "unqueued" => "late" \in hits')
    BY <1>8, Movements, <1>0 DEF EnqueueAgain, HeldAt
  <2> QED BY <1>0, <2>1, <2>2, <2>3, <2>4 DEF Aside, RowKept
<1>9. CASE RecordUnqueuedAgain
  <2>1. hits \subseteq hits' /\ work' = work
    BY <1>9 DEF RecordUnqueuedAgain
  <2>2. /\ job'.retries = job.retries /\ job'.named = job.named
        /\ job'.status = job.status /\ user = "unqueued"
    BY <1>0, <1>9, RowFields, JobEffects DEF RecordUnqueuedAgain
  <2>3. account' = account
    BY <1>0, <1>9 DEF RecordUnqueuedAgain, SubmitOK, OthersOK, Before, Settled,
       Unsubmitted, Given
  <2>4. submit' = submit /\ user' # "unqueued"
    BY <1>9, Movements, <1>0 DEF RecordUnqueuedAgain, HeldAt
  <2> QED BY <1>0, <2>1, <2>2, <2>3, <2>4 DEF Aside, RowKept, CodesOK
<1>10. CASE LeaveUser
  <2>1. hits \subseteq hits' /\ work' = work
    BY <1>10 DEF LeaveUser
  <2>2. job' = job
    BY <1>0, <1>10 DEF LeaveUser
  <2>3. account' = account
    BY <1>0, <1>10 DEF LeaveUser, SubmitOK, OthersOK, Before, Settled, Unsubmitted, Given
  <2>4. submit' = submit /\ user' # "unqueued"
    BY <1>10, Movements, <1>0 DEF LeaveUser, HeldAt
  <2> QED BY <1>0, <2>1, <2>2, <2>3, <2>4 DEF Aside, RowKept
<1> QED BY <1>1, <1>2, <1>3, <1>4, <1>5, <1>6, <1>7, <1>8, <1>9, <1>10 DEF UserCalls

\* The recovery loop.
LEMMA AsideRecovery ==
    ASSUME IInv, Base, RecoveryLoop \/ LeaveRecovery
    PROVE  Aside /\ RowKept
<1> USE DEF Call, Errs, Attempt, Nothing, Write, Pay, Push, Ask, store, Recover, Fault,
   NoFault
<1>0. TypeOK /\ SubmitOK /\ OthersOK /\ NoneOK /\ CodesOK /\ job \in Jobs /\ account \in Accounts
  BY DEF IInv, TypeOK, Base
<1>1. CASE ListQueueFailures
  <2>1. hits \subseteq hits' /\ work' = work
    BY <1>1 DEF ListQueueFailures
  <2>2. job' = job
    BY <1>0, <1>1 DEF ListQueueFailures
  <2>3. account' = account
    BY <1>0, <1>1 DEF ListQueueFailures, SubmitOK, OthersOK, Before, Settled, Unsubmitted,
       Given
  <2>4. submit' = submit /\ user' = user
    BY <1>1, Movements, <1>0 DEF ListQueueFailures, HeldAt
  <2> QED BY <1>0, <2>1, <2>2, <2>3, <2>4 DEF Aside, RowKept
<1>2. CASE EnqueueRecovered
  <2>1. hits \subseteq hits' /\ work' = work
    BY <1>2 DEF EnqueueRecovered
  <2>2. job' = job
    BY <1>0, <1>2 DEF EnqueueRecovered
  <2>3. account' = account
    BY <1>0, <1>2 DEF EnqueueRecovered, SubmitOK, OthersOK, Before, Settled, Unsubmitted,
       Given
  <2>4. submit' = submit /\ user' = user
    BY <1>2, Movements, <1>0 DEF EnqueueRecovered, HeldAt
  <2> QED BY <1>0, <2>1, <2>2, <2>3, <2>4 DEF Aside, RowKept
<1>3. CASE ClearQueueFailure
  <2>1. hits \subseteq hits' /\ work' = work
    BY <1>3 DEF ClearQueueFailure
  <2>2. /\ job'.retries = job.retries /\ job'.named = job.named
        /\ job'.status = job.status
        /\ job'.code = job.code \/ job.code = "QUEUE_FAILED"
    BY <1>0, <1>3, RowFields, JobEffects DEF ClearQueueFailure
  <2>3. account' = account
    BY <1>0, <1>3 DEF ClearQueueFailure, SubmitOK, OthersOK, Before, Settled, Unsubmitted,
       Given
  <2>4. submit' = submit /\ user' = user
    BY <1>3, Movements, <1>0 DEF ClearQueueFailure, HeldAt
  <2> QED BY <1>0, <2>1, <2>2, <2>3, <2>4 DEF Aside, RowKept
<1>4. CASE ListStale
  <2>1. hits \subseteq hits' /\ work' = work
    BY <1>4 DEF ListStale
  <2>2. job' = job
    BY <1>0, <1>4 DEF ListStale
  <2>3. account' = account
    BY <1>0, <1>4 DEF ListStale, SubmitOK, OthersOK, Before, Settled, Unsubmitted, Given
  <2>4. submit' = submit /\ user' = user
    BY <1>4, Movements, <1>0 DEF ListStale, HeldAt
  <2> QED BY <1>0, <2>1, <2>2, <2>3, <2>4 DEF Aside, RowKept
<1>5. CASE FailStale
  <2>1. hits \subseteq hits' /\ work' = work
    BY <1>5 DEF FailStale, Abandoned
  <2>2. /\ job'.retries = job.retries /\ job'.named = job.named
        /\ \/ job' = job
           \/ /\ job'.status = "failed" /\ job'.status \in Terminal
              /\ job.status \notin Settled
    BY <1>0, <1>5, RowFields, JobEffects DEF FailStale, Abandoned, Settled, Terminal,
       Given, Unsubmitted
  <2>3. account' = account
    BY <1>0, <1>5 DEF FailStale, Abandoned, SubmitOK, OthersOK, Before, Settled,
       Unsubmitted, Given
  <2>4. submit' = submit /\ user' = user
    BY <1>5, Movements, <1>0 DEF FailStale, Abandoned, HeldAt
  <2> QED BY <1>0, <2>1, <2>2, <2>3, <2>4 DEF Aside, RowKept, Settled, Unsubmitted, Terminal
<1>6. CASE ReleaseStale
  <2>1. hits \subseteq hits' /\ work' = work
    BY <1>6 DEF ReleaseStale
  <2>2. job' = job
    BY <1>0, <1>6 DEF ReleaseStale
  <2>3. \/ account' = account
        \/ account' = Released(account) /\ job.status \notin Settled
    BY <1>0, <1>6 DEF ReleaseStale, SubmitOK, OthersOK, Before, Settled, Unsubmitted, Given
  <2>4. submit' = submit /\ user' = user
    BY <1>6, Movements, <1>0 DEF ReleaseStale, HeldAt
  <2> QED BY <1>0, <2>1, <2>2, <2>3, <2>4 DEF Aside, RowKept
<1>7. CASE RetryStale
  <2>1. hits \subseteq hits' /\ work' = work
    BY <1>7 DEF RetryStale
  <2>2. job' = job
    BY <1>0, <1>7 DEF RetryStale
  <2>3. account' = account
    BY <1>0, <1>7 DEF RetryStale, SubmitOK, OthersOK, Before, Settled, Unsubmitted, Given
  <2>4. submit' = submit /\ user' = user
    BY <1>7, Movements, <1>0 DEF RetryStale, HeldAt
  <2> QED BY <1>0, <2>1, <2>2, <2>3, <2>4 DEF Aside, RowKept
<1>8. CASE LeaveRecovery
  <2>1. hits \subseteq hits' /\ work' = work
    BY <1>8 DEF LeaveRecovery
  <2>2. job' = job
    BY <1>0, <1>8 DEF LeaveRecovery
  <2>3. account' = account
    BY <1>0, <1>8 DEF LeaveRecovery, SubmitOK, OthersOK, Before, Settled, Unsubmitted, Given
  <2>4. submit' = submit /\ user' = user
    BY <1>8, Movements, <1>0 DEF LeaveRecovery, HeldAt
  <2> QED BY <1>0, <2>1, <2>2, <2>3, <2>4 DEF Aside, RowKept
<1> QED BY <1>1, <1>2, <1>3, <1>4, <1>5, <1>6, <1>7, <1>8 DEF RecoveryLoop

\* Time and the heartbeat.
LEMMA AsideTime ==
    ASSUME IInv, Base, Touch \/ Time
    PROVE  Aside /\ RowKept
<1> USE DEF Write, Push, Ask, Still, procs, Fault, NoFault
<1>0. TypeOK /\ SubmitOK /\ OthersOK /\ NoneOK /\ CodesOK /\ job \in Jobs /\ account \in Accounts
  BY DEF IInv, TypeOK, Base
<1>1. CASE Touch
  <2>1. hits \subseteq hits' /\ work' = work
    BY <1>1 DEF Touch
  <2>2. /\ job'.retries = job.retries /\ job'.named = job.named
        /\ job'.status = job.status /\ job'.code = job.code
    BY <1>0, <1>1, RowFields, JobEffects DEF Touch
  <2>3. account' = account
    BY <1>0, <1>1 DEF Touch, SubmitOK, OthersOK, Before, Settled, Unsubmitted, Given
  <2>4. submit' = submit /\ user' = user
    BY <1>1, Movements, <1>0 DEF Touch, HeldAt
  <2> QED BY <1>0, <2>1, <2>2, <2>3, <2>4 DEF Aside, RowKept
<1>2. CASE AgeRow
  <2>1. hits \subseteq hits' /\ work' = work
    BY <1>2 DEF AgeRow
  <2>2. /\ job'.retries = job.retries /\ job'.named = job.named
        /\ job'.status = job.status /\ job'.code = job.code
    BY <1>0, <1>2, RowFields, JobEffects DEF AgeRow
  <2>3. account' = account
    BY <1>0, <1>2 DEF AgeRow, SubmitOK, OthersOK, Before, Settled, Unsubmitted, Given
  <2>4. submit' = submit /\ user' = user
    BY <1>2, Movements, <1>0 DEF AgeRow, HeldAt
  <2> QED BY <1>0, <2>1, <2>2, <2>3, <2>4 DEF Aside, RowKept
<1>3. CASE AgeActive
  <2>1. hits \subseteq hits' /\ work' = work
    BY <1>3 DEF AgeActive
  <2>2. job' = job
    BY <1>0, <1>3 DEF AgeActive
  <2>3. account' = account
    BY <1>0, <1>3 DEF AgeActive, SubmitOK, OthersOK, Before, Settled, Unsubmitted, Given
  <2>4. submit' = submit /\ user' = user
    BY <1>3, Movements, <1>0 DEF AgeActive, HeldAt
  <2> QED BY <1>0, <2>1, <2>2, <2>3, <2>4 DEF Aside, RowKept
<1>4. CASE LockExpires
  <2>1. hits \subseteq hits' /\ work' = work
    BY <1>4 DEF LockExpires
  <2>2. job' = job
    BY <1>0, <1>4 DEF LockExpires
  <2>3. account' = account
    BY <1>0, <1>4 DEF LockExpires, SubmitOK, OthersOK, Before, Settled, Unsubmitted, Given
  <2>4. submit' = submit /\ user' = user
    BY <1>4, Movements, <1>0 DEF LockExpires, HeldAt
  <2> QED BY <1>0, <2>1, <2>2, <2>3, <2>4 DEF Aside, RowKept
<1>5. CASE MoveDueDelayed
  <2>1. hits \subseteq hits' /\ work' = work
    BY <1>5 DEF MoveDueDelayed
  <2>2. job' = job
    BY <1>0, <1>5 DEF MoveDueDelayed
  <2>3. account' = account
    BY <1>0, <1>5 DEF MoveDueDelayed, SubmitOK, OthersOK, Before, Settled, Unsubmitted,
       Given
  <2>4. submit' = submit /\ user' = user
    BY <1>5, Movements, <1>0 DEF MoveDueDelayed, HeldAt
  <2> QED BY <1>0, <2>1, <2>2, <2>3, <2>4 DEF Aside, RowKept
<1>6. CASE RecoverStaleActive
  <2>1. hits \subseteq hits' /\ work' = work
    BY <1>6 DEF RecoverStaleActive
  <2>2. job' = job
    BY <1>0, <1>6 DEF RecoverStaleActive
  <2>3. account' = account
    BY <1>0, <1>6 DEF RecoverStaleActive, SubmitOK, OthersOK, Before, Settled, Unsubmitted,
       Given
  <2>4. submit' = submit /\ user' = user
    BY <1>6, Movements, <1>0 DEF RecoverStaleActive, HeldAt
  <2> QED BY <1>0, <2>1, <2>2, <2>3, <2>4 DEF Aside, RowKept
<1>7. CASE Advance
  <2>1. hits \subseteq hits' /\ work' = work
    BY <1>7 DEF Advance
  <2>2. job' = job
    BY <1>0, <1>7 DEF Advance
  <2>3. account' = account
    BY <1>0, <1>7 DEF Advance, SubmitOK, OthersOK, Before, Settled, Unsubmitted, Given
  <2>4. submit' = submit /\ user' = user
    BY <1>7, Movements, <1>0 DEF Advance, HeldAt
  <2> QED BY <1>0, <2>1, <2>2, <2>3, <2>4 DEF Aside, RowKept
<1> QED BY <1>1, <1>2, <1>3, <1>4, <1>5, <1>6, <1>7 DEF Time

-----------------------------------------------------------------------------
(* The steps of a worker.                                                    *)

PlainSpots == {"idle", "lock", "bounce", "read", "settle", "judge", "process", "release",
               "ack", "requeue", "unlock"}

\* A worker that knows nothing of the money.
LEMMA Unknowing ==
    ASSUME NEW w \in Workers, work'[w].at \in PlainSpots
    PROVE  SettleOK(w)'
BY DEF SettleOK, PlainSpots

\* A step of a worker that touches neither the row nor the account.
Quiet(w) ==
    /\ UNCHANGED <<job, account>> /\ hits \subseteq hits' /\ ByWorker(w)

LEMMA QuietKeeps ==
    ASSUME NEW w \in Workers, Quiet(w)
    PROVE  RowKept /\ (MoneyOK /\ SettleOK(w)' => MoneyOK')
<1>0. /\ job' = job /\ account' = account /\ submit' = submit /\ user' = user
      /\ hits \subseteq hits'
  BY DEF Quiet, ByWorker
<1>1. RowKept BY <1>0 DEF RowKept
<1>2. ASSUME MoneyOK, SettleOK(w)' PROVE MoneyOK'
  <2>1. FrozenOK' /\ PaidOK' /\ CompletedOK' /\ BackSettling'
    BY <1>0, <1>2 DEF MoneyOK, FrozenOK, PaidOK, CompletedOK, BackSettling, Held, Paid,
       Back, Early
  <2>2. ASSUME NEW v \in Workers, v # w PROVE SettleOK(v)'
    <3>1. SettleOK(v) /\ work'[v] = work[v] BY <1>2, <2>2 DEF MoneyOK, Quiet, ByWorker
    <3> QED BY <1>0, <3>1 DEF SettleOK, Paid, Back
  <2> QED BY <1>2, <2>1, <2>2 DEF MoneyOK
<1> QED BY <1>1, <1>2

\* Where a quiet step leads, the worker knows what it has to.
LEMMA QuietSteps ==
    ASSUME IInv, Base, NEW w \in Workers,
           \/ Take(w) \/ Lock(w) \/ Bounce(w) \/ Requeue(w) \/ Ack(w) \/ Unlock(w)
           \/ Read(w) \/ Process(w) \/ AskProvider(w) \/ Settle(w) \/ Judge(w) \/ LeaveWork(w)
    PROVE  Quiet(w) /\ (MoneyOK /\ ~Overdrawn => SettleOK(w)')
<1> USE DEF Call, Attempt, Nothing, Push, store, At, Fault, NoFault
<1>0. TypeOK /\ CodesOK BY DEF IInv, Base
<1>1. CASE \/ Take(w) \/ Lock(w) \/ Bounce(w) \/ Requeue(w) \/ Ack(w) \/ Unlock(w)
           \/ Read(w) \/ Judge(w) \/ LeaveWork(w)
  <2>1. UNCHANGED <<job, account>> /\ hits \subseteq hits'
    BY <1>1 DEF Take, Lock, Bounce, Requeue, Ack, Unlock, Read, Judge, LeaveWork
  <2>2. Rest(w) \/ \E l \in PlainSpots : To(w, l)
    BY <1>1 DEF Take, Lock, Bounce, Requeue, Ack, Unlock, Read, Judge, LeaveWork, PlainSpots
  <2>3. ByWorker(w) /\ work'[w].at \in PlainSpots
    BY <1>0, <2>2, WorkMoves DEF PlainSpots, Spots, Holding
  <2> QED BY <2>1, <2>3, Unknowing DEF Quiet
<1>2. CASE Process(w)
  <2>1. UNCHANGED <<job, account>> /\ hits \subseteq hits'
    BY <1>2 DEF Process
  <2>2. \/ \E l \in PlainSpots : To(w, l)
        \/ job.status \in Open \ {"settling"} /\ (To(w, "index") \/ Gets(w, job.status))
    BY <1>2, OpenIs DEF Process, PlainSpots, Gets
  <2>3. /\ ByWorker(w)
        /\ \/ work'[w].at \in PlainSpots
           \/ job.status \in Open \ {"settling"} /\ work'[w].at \in {"index", "get"}
    BY <1>0, <2>2, WorkMoves DEF PlainSpots, Spots, Holding
  <2>4. SettleOK(w)'
    <3>1. CASE work'[w].at \in PlainSpots BY <3>1, Unknowing
    <3>2. CASE job.status \in Open \ {"settling"} /\ work'[w].at \in {"index", "get"}
      BY <2>1, <3>2, OpenIs DEF SettleOK, Settled
    <3> QED BY <2>3, <3>1, <3>2
  <2> QED BY <2>1, <2>3, <2>4 DEF Quiet
<1>3. CASE AskProvider(w)
  <2>1. UNCHANGED <<job, account>> /\ hits \subseteq hits' /\ work[w].at = "get"
    BY <1>3 DEF AskProvider
  <2>2. To(w, "requeue") \/ \E s \in Open \cup Given : Move(w, s)
    BY <1>3, OpenIs DEF AskProvider
  <2>3. ByWorker(w) /\ work'[w].at \in {"requeue", "move"}
    BY <1>0, <2>2, WorkMoves DEF Spots, Holding
  <2>4. MoneyOK => SettleOK(w)'
    BY <2>1, <2>3 DEF MoneyOK, SettleOK, Settled
  <2> QED BY <2>1, <2>3, <2>4 DEF Quiet
<1>4. CASE Settle(w)
  <2>1. UNCHANGED <<job, account>> /\ hits \subseteq hits'
    BY <1>4 DEF Settle
  <2>2. \/ To(w, "requeue") \/ To(w, "ack")
        \/ job.status = "settling" /\ Exhausted(job) /\ To(w, "giveup")
        \/ job.status = "settling" /\ ~Exhausted(job) /\ To(w, "capture")
    BY <1>4, Zenon DEF Settle
  <2>3. /\ ByWorker(w)
        /\ \/ work'[w].at \in PlainSpots
           \/ job.status = "settling" /\ Exhausted(job) /\ work'[w].at = "giveup"
           \/ job.status = "settling" /\ ~Exhausted(job) /\ work'[w].at = "capture"
    BY <1>0, <2>2, WorkMoves DEF PlainSpots, Spots, Holding
  <2>4. ASSUME MoneyOK, ~Overdrawn PROVE SettleOK(w)'
    <3>0. job.retries \in 0..MaxRetries /\ MaxRetries \in Nat
      BY <1>0, BatchAssumption DEF TypeOK, Jobs
    <3>1. CASE work'[w].at \in PlainSpots BY <3>1, Unknowing
    <3>2. CASE job.status = "settling" /\ Exhausted(job) /\ work'[w].at = "giveup"
      BY <2>1, <3>2 DEF SettleOK, Exhausted
    <3>3. CASE job.status = "settling" /\ ~Exhausted(job) /\ work'[w].at = "capture"
      <4>1. job.retries # MaxRetries
        BY <1>0, <2>4, <3>3 DEF CodesOK, Exhausted, Overdrawn, Terminal, Given
      <4>2. ~Back BY <2>4, <3>3, <4>1 DEF MoneyOK, BackSettling
      <4>3. ~Back' BY <2>1, <4>2 DEF Back
      <4> QED BY <2>1, <3>0, <3>3, <4>1, <4>3 DEF SettleOK
    <3> QED BY <2>3, <3>1, <3>2, <3>3
  <2> QED BY <2>1, <2>3, <2>4 DEF Quiet
<1> QED BY <1>1, <1>2, <1>3, <1>4

\* A worker that holds the lock is the only one that knows anything.
LEMMA BusyAlone ==
    ASSUME IInv, NEW w \in Workers, work[w].at \in Holding, "lapse" \notin hits, ByWorker(w)
    PROVE  \A v \in Workers \ {w} : SettleOK(v)'
<1>1. ASSUME NEW v \in Workers, v # w PROVE SettleOK(v)'
  <2>1. work[v].at \notin Holding BY <1>1 DEF IInv, LockOK
  <2>2. work'[v].at \notin Holding BY <1>1, <2>1 DEF ByWorker
  <2> QED BY <2>2 DEF SettleOK, Holding
<1> QED BY <1>1

\* The worker that holds the lock writes the row or moves the hold.
Busy(w) ==
    /\ RowKept /\ ByWorker(w) /\ work[w].at \in Holding
    /\ MoneyOK /\ ~Overdrawn' =>
          FrozenOK' /\ PaidOK' /\ CompletedOK' /\ BackSettling' /\ SettleOK(w)'

LEMMA BusyKeeps ==
    ASSUME IInv, NEW w \in Workers, Busy(w)
    PROVE  RowKept /\ (MoneyOK /\ ~Overdrawn' => MoneyOK')
<1>1. ASSUME MoneyOK, ~Overdrawn' PROVE MoneyOK'
  <2>1. "lapse" \notin hits BY <1>1 DEF Overdrawn, Busy, RowKept
  <2>2. \A v \in Workers \ {w} : SettleOK(v)' BY <2>1, BusyAlone DEF Busy
  <2>3. \A v \in Workers : SettleOK(v)' BY <1>1, <2>2 DEF Busy
  <2> QED BY <1>1, <2>3 DEF Busy, MoneyOK
<1> QED BY <1>1 DEF Busy

\* The claims and the pool of an account that is not touched.
LEMMA SameAccount ==
    ASSUME account' = account
    PROVE  /\ (Held' <=> Held) /\ (Paid' <=> Paid) /\ (Back' <=> Back)
           /\ FrozenOK => FrozenOK'
BY DEF Held, Paid, Back, Early, FrozenOK

\* A job moves on to be settled with a hold that nobody returned.
LEMMA BusyTransition ==
    ASSUME IInv, Base, NEW w \in Workers, Transition(w)
    PROVE  Busy(w)
<1> USE DEF Call, Nothing, Write, store, At, Fault, NoFault
<1>0. /\ TypeOK /\ SubmitOK /\ BackOK /\ WorkerOK(w) /\ job \in Jobs
      /\ work[w].at = "move" /\ hits \subseteq hits' /\ account' = account
  BY DEF IInv, TypeOK, Transition
<1>1. /\ job.named /\ work[w].to \in {"running", "indexing", "settling"} \cup Given
  BY <1>0 DEF WorkerOK
<1>2. \/ job' = job /\ To(w, "requeue")
      \/ /\ CanTransition(job, work[w].to) /\ job' = Moved(job, work[w].to)
         /\ To(w, "requeue") \/ To(w, AfterMove(work[w].to))
  BY <1>0, Zenon DEF Transition
<1>3. /\ AfterMove(work[w].to) \in {"requeue", "index", "release"}
      /\ AfterMove(work[w].to) = "index" => work[w].to = "indexing"
  BY <1>1 DEF AfterMove, Given
<1>4. /\ ByWorker(w)
      /\ \/ job' = job /\ work'[w].at = "requeue"
         \/ /\ CanTransition(job, work[w].to) /\ job' = Moved(job, work[w].to)
            /\ work'[w].at \in {"requeue", "index", "release"}
            /\ work'[w].at = "index" => work[w].to = "indexing"
  BY <1>0, <1>2, <1>3, WorkMoves DEF Spots, Holding
<1>5. /\ job'.retries = job.retries
      /\ \/ job'.status = job.status /\ job'.code = job.code /\ work'[w].at = "requeue"
         \/ /\ job'.status = work[w].to /\ job.status \in Open
            /\ job'.status = "settling" => job.status = "indexing"
            /\ job'.code = job.code \/ job'.status = "failed"
            /\ work'[w].at \in {"requeue", "index", "release"}
            /\ work'[w].at = "index" => job'.status = "indexing"
  BY <1>0, <1>4, RowFields, JobEffects, Transitions DEF CanTransition
<1>6. RowKept
  BY <1>0, <1>1, <1>4, <1>5 DEF RowKept, ByWorker, Terminal, Given
<1>7. ASSUME MoneyOK
      PROVE  FrozenOK' /\ PaidOK' /\ CompletedOK' /\ BackSettling' /\ SettleOK(w)'
  <2>1. job.status \notin Settled BY <1>0, <1>7 DEF MoneyOK, SettleOK
  <2>2. ~Paid /\ ~Paid' BY <1>0, <1>7, <2>1, SameAccount DEF MoneyOK, PaidOK
  <2>3. FrozenOK' BY <1>0, <1>7, SameAccount DEF MoneyOK
  <2>4. job'.status # "completed"
    BY <1>1, <1>5, <2>1 DEF Settled, Given
  <2>5. job'.status = "settling" => ~Back'
    <3>1. job.status = "indexing" => ~Back
      BY <1>0, <1>1 DEF BackOK, Late, Given
    <3> QED BY <1>0, <1>5, <2>1, <3>1, SameAccount DEF Settled
  <2>6. SettleOK(w)'
    BY <1>4, <1>5 DEF SettleOK, Settled
  <2> QED BY <2>2, <2>3, <2>4, <2>5, <2>6 DEF PaidOK, CompletedOK, BackSettling
<1> QED BY <1>0, <1>4, <1>6, <1>7 DEF Busy, Holding

LEMMA BusyIndex ==
    ASSUME IInv, Base, NEW w \in Workers, Index(w)
    PROVE  Busy(w)
<1> USE DEF Call, Nothing, Write, store, At, Fault, NoFault
<1>0. /\ TypeOK /\ job \in Jobs
      /\ work[w].at = "index" /\ hits \subseteq hits' /\ account' = account
  BY DEF IInv, TypeOK, Index
<1>1. /\ \/ To(w, "requeue") \/ Move(w, "settling") \/ Move(w, "failed")
      /\ job' = job \/ \E c \in Costs : job' = [job EXCEPT !.cost = c]
  BY Zenon DEF Index
<1>2. ByWorker(w) /\ work'[w].at \in {"requeue", "move"}
  BY <1>0, <1>1, OpenIs, WorkMoves DEF Spots, Holding, Given
<1>3. /\ job'.status = job.status /\ job'.retries = job.retries
      /\ job'.code = job.code /\ job'.named = job.named
  <2>1. CASE job' = job BY <2>1
  <2>2. CASE \E c \in Costs : job' = [job EXCEPT !.cost = c]
    BY <1>0, <2>2, RowFields, JobEffects
  <2> QED BY <1>1, <2>1, <2>2
<1>4. RowKept
  BY <1>0, <1>2, <1>3 DEF RowKept, ByWorker
<1>5. ASSUME MoneyOK
      PROVE  FrozenOK' /\ PaidOK' /\ CompletedOK' /\ BackSettling' /\ SettleOK(w)'
  <2>1. job.status \notin Settled /\ PaidOK /\ FrozenOK
    BY <1>0, <1>5 DEF MoneyOK, SettleOK
  <2>2. ~Paid /\ ~Paid' BY <1>0, <2>1, SameAccount DEF PaidOK
  <2>3. FrozenOK' BY <1>0, <2>1, SameAccount
  <2>4. SettleOK(w)'
    BY <1>2, <1>3, <2>1 DEF SettleOK
  <2> QED BY <1>3, <2>1, <2>2, <2>3, <2>4 DEF PaidOK, CompletedOK, BackSettling, Settled
<1> QED BY <1>0, <1>2, <1>4, <1>5 DEF Busy, Holding

\* A job that is over and not completed was not charged.
LEMMA BusyReleaseTerminal ==
    ASSUME IInv, Base, NEW w \in Workers, ReleaseTerminal(w)
    PROVE  Busy(w)
<1> USE DEF Call, Nothing, Pay, store, At, Fault, NoFault
<1>0. /\ TypeOK /\ job \in Jobs /\ job.status \in Given
      /\ work[w].at = "release" /\ hits \subseteq hits' /\ job' = job
      /\ account' = account \/ account' = Released(account)
  BY DEF IInv, TypeOK, WorkerOK, ReleaseTerminal
<1>1. To(w, "requeue") \/ To(w, "ack")
  BY Zenon DEF ReleaseTerminal
<1>2. ByWorker(w) /\ work'[w].at \in {"requeue", "ack"}
  BY <1>0, <1>1, WorkMoves DEF Spots, Holding
<1>3. RowKept
  BY <1>0, <1>2 DEF RowKept, ByWorker
<1>4. ASSUME MoneyOK
      PROVE  FrozenOK' /\ PaidOK' /\ CompletedOK' /\ BackSettling' /\ SettleOK(w)'
  <2>1. job.status \notin Settled /\ PaidOK /\ FrozenOK
    BY <1>0, <1>4 DEF MoneyOK, Settled, Given
  <2>2. ~Paid BY <2>1 DEF PaidOK
  <2>3. FrozenOK' /\ ~Paid'
    BY <1>0, <2>1, <2>2, ReleaseFrozen, SameAccount
  <2>4. SettleOK(w)' BY <1>2, Unknowing DEF PlainSpots
  <2> QED BY <1>0, <2>1, <2>3, <2>4 DEF PaidOK, CompletedOK, BackSettling, Settled
<1> QED BY <1>0, <1>2, <1>3, <1>4 DEF Busy, Holding

\* A capture that may have taken place is remembered by the fault that hid it.
LEMMA BusyCapture ==
    ASSUME IInv, Base, NEW w \in Workers, Capture(w)
    PROVE  Busy(w)
<1> USE DEF Errs, Nothing, Pay, store, At, Fault, NoFault
<1>0. /\ TypeOK /\ SubmitOK /\ WorkerOK(w) /\ job \in Jobs /\ job' = job
      /\ work[w].at = "capture" /\ hits \subseteq hits'
  BY DEF IInv, TypeOK, Capture
<1>a. /\ account \in Accounts /\ Hold \in Nat
      /\ account.frozen \in Nat /\ account.others \in Nat
  BY BatchAssumption DEF IInv, TypeOK, Accounts
<1>1. \/ CaptureFails(account) /\ account' = account /\ To(w, "record")
      \/ account' = Captured(account, job.cost) /\ To(w, "finish")
      \/ /\ account' = account \/ account' = Captured(account, job.cost)
         /\ To(w, "record") /\ ("capture" \in account'.claims => "capture" \in hits')
  BY DEF Capture
<1>2. /\ ByWorker(w)
      /\ \/ CaptureFails(account) /\ account' = account /\ work'[w].at = "record"
         \/ account' = Captured(account, job.cost) /\ work'[w].at = "finish"
         \/ /\ account' = account \/ account' = Captured(account, job.cost)
            /\ work'[w].at = "record" /\ ("capture" \in account'.claims => "capture" \in hits')
  BY <1>0, <1>1, WorkMoves DEF Spots, Holding
<1>3. RowKept
  BY <1>0, <1>2 DEF RowKept, ByWorker
<1>4. ASSUME MoneyOK
      PROVE  FrozenOK' /\ PaidOK' /\ CompletedOK' /\ BackSettling' /\ SettleOK(w)'
  <2>1. /\ job.status = "settling" /\ ~Back /\ job.retries < MaxRetries
        /\ FrozenOK /\ PaidOK
    BY <1>0, <1>4 DEF MoneyOK, SettleOK
  <2>2. Held /\ ~Early
    BY <1>0, <2>1 DEF SubmitOK, Base, NamedOK, ClaimsOK, Unsubmitted, Given
  <2>3. Held' /\ ~Back' /\ ~Early'
    BY <1>2, <1>a, <2>1, <2>2, Movements DEF Held, Back, Early
  <2>4. FrozenOK'
    <3>1. CASE account' = account BY <2>1, <3>1, SameAccount
    <3>2. CASE account' = Captured(account, job.cost)
      <4>1. /\ Paid' /\ account'.others = account.others
            /\ account'.frozen = account.frozen - (IF Paid THEN 0 ELSE Hold)
        BY <1>a, <3>2, Movements DEF Paid
      <4>2. account.frozen = account.others + (IF Paid THEN 0 ELSE Hold)
        BY <2>1, <2>2 DEF FrozenOK
      <4>3. account'.frozen = account'.others + 0
        <5>1. CASE Paid BY <1>a, <4>1, <4>2, <5>1
        <5>2. CASE ~Paid BY <1>a, <4>1, <4>2, <5>2
        <5> QED BY <5>1, <5>2
      <4> QED BY <2>3, <4>1, <4>3 DEF FrozenOK
    <3> QED BY <1>2, <3>1, <3>2
  <2>5. PaidOK' /\ CompletedOK' /\ BackSettling'
    BY <1>0, <2>1, <2>3 DEF PaidOK, CompletedOK, BackSettling, Settled
  <2>6. SettleOK(w)'
    <3>1. CASE work'[w].at = "finish"
      <4>1. Paid' BY <1>2, <1>a, <3>1, Movements DEF Paid
      <4> QED BY <1>0, <2>1, <3>1, <4>1 DEF SettleOK
    <3>2. CASE work'[w].at = "record"
      <4>1. Paid' => "capture" \in hits'
        BY <1>2, <3>2 DEF Paid, CaptureFails
      <4> QED BY <1>0, <2>1, <2>3, <3>2, <4>1 DEF SettleOK
    <3> QED BY <1>2, <3>1, <3>2
  <2> QED BY <2>4, <2>5, <2>6
<1> QED BY <1>0, <1>2, <1>3, <1>4 DEF Busy, Holding

\* Only a job that was charged is marked as completed.
LEMMA BusyMarkSettled ==
    ASSUME IInv, Base, NEW w \in Workers, MarkSettled(w)
    PROVE  Busy(w)
<1> USE DEF Call, Nothing, Write, store, At, Fault, NoFault, MarkSettled, Completed
<1>0. /\ TypeOK /\ job \in Jobs
      /\ work[w].at = "finish" /\ hits \subseteq hits' /\ account' = account
      /\ job' = job \/ job' = [job EXCEPT !.status = "completed"]
  BY DEF IInv, TypeOK
<1>1. To(w, "ack") \/ To(w, "requeue")
  BY Zenon
<1>2. ByWorker(w) /\ work'[w].at \in {"ack", "requeue"}
  BY <1>0, <1>1, WorkMoves DEF Spots, Holding
<1>3. /\ job'.status = job.status \/ job'.status = "completed"
      /\ job'.retries = job.retries /\ job'.code = job.code /\ job'.named = job.named
  <2>1. /\ [job EXCEPT !.status = "completed"].status = "completed"
        /\ [job EXCEPT !.status = "completed"].named = job.named
        /\ [job EXCEPT !.status = "completed"].retries = job.retries
        /\ [job EXCEPT !.status = "completed"].code = job.code
    BY <1>0, RowFields, JobEffects
  <2> QED BY <1>0, <2>1, Zenon
<1>4. RowKept
  BY <1>0, <1>2, <1>3 DEF RowKept, ByWorker, Terminal
<1>5. ASSUME MoneyOK
      PROVE  FrozenOK' /\ PaidOK' /\ CompletedOK' /\ BackSettling' /\ SettleOK(w)'
  <2>1. /\ job.status = "settling" /\ Paid /\ PaidOK /\ FrozenOK
    BY <1>0, <1>5 DEF MoneyOK, SettleOK
  <2>2. Held' /\ Paid' /\ ~Back' /\ FrozenOK'
    BY <1>0, <2>1, SameAccount DEF PaidOK
  <2>3. SettleOK(w)' BY <1>2, Unknowing DEF PlainSpots
  <2> QED BY <1>3, <2>1, <2>2, <2>3 DEF PaidOK, CompletedOK, BackSettling, Settled
<1> QED BY <1>0, <1>2, <1>4, <1>5 DEF Busy, Holding

\* The last retry of a job that was charged after all is where the account may be
\* overdrawn.
LEMMA BusyRecord ==
    ASSUME IInv, Base, NEW w \in Workers, RecordSettlementFailure(w)
    PROVE  Busy(w)
<1> USE DEF Call, Nothing, Write, store, At, Fault, NoFault, RecordSettlementFailure
<1>0. /\ TypeOK /\ WorkerOK(w) /\ job \in Jobs
      /\ work[w].at = "record" /\ hits \subseteq hits' /\ account' = account
      /\ job.retries \in 0..MaxRetries /\ MaxRetries \in Nat
  BY BatchAssumption DEF IInv, TypeOK, Jobs
<1>1. \/ job' = job /\ To(w, "judge")
      \/ job' = SettlementFailed(job) /\ To(w, "judge")
      \/ job' = SettlementFailed(job) /\ job'.retries = MaxRetries /\ To(w, "giveup")
  BY DEF RecordSettlementFailure
<1>2. /\ ByWorker(w) /\ work'[w].at \in {"judge", "giveup"}
      /\ work'[w].at = "giveup" => job'.retries = MaxRetries
  BY <1>0, <1>1, WorkMoves DEF Spots, Holding
<1>3. /\ job'.status = job.status /\ job'.named = job.named
      /\ \/ job'.retries = job.retries /\ job'.code = job.code
         \/ /\ job'.code = "SETTLEMENT"
            /\ job'.retries = IF job.retries < MaxRetries THEN job.retries + 1 ELSE job.retries
  BY <1>0, <1>1, RowFields, JobEffects
<1>4. RowKept
  <2>1. job.status # "none" BY <1>0 DEF WorkerOK, Late, Given
  <2>2. job.retries = MaxRetries => job'.retries = MaxRetries BY <1>0, <1>3
  <2> QED BY <1>0, <1>2, <1>3, <2>1, <2>2 DEF RowKept, ByWorker
<1>5. ASSUME MoneyOK, ~Overdrawn'
      PROVE  FrozenOK' /\ PaidOK' /\ CompletedOK' /\ BackSettling' /\ SettleOK(w)'
  <2>1. /\ job.status = "settling" /\ ~Back /\ job.retries < MaxRetries
        /\ Paid => "capture" \in hits
        /\ PaidOK /\ FrozenOK
    BY <1>0, <1>5 DEF MoneyOK, SettleOK
  <2>2. ~Back' /\ FrozenOK' /\ (Paid' <=> Paid) /\ (Held' <=> Held)
    BY <1>0, <2>1, SameAccount
  <2>3. Paid => job'.retries # MaxRetries
    BY <1>0, <1>5, <2>1 DEF Overdrawn
  <2>4. job'.retries \in Nat /\ job'.retries <= MaxRetries BY <1>0, <1>3
  <2>5. PaidOK'
    BY <1>0, <1>3, <2>1, <2>2, <2>3, <2>4 DEF PaidOK
  <2>6. SettleOK(w)'
    BY <1>2, <1>3, <2>1 DEF SettleOK
  <2> QED BY <1>3, <2>1, <2>2, <2>5, <2>6 DEF CompletedOK, BackSettling
<1> QED BY <1>0, <1>2, <1>4, <1>5 DEF Busy, Holding

\* A job is given up only when it was not charged.
LEMMA BusyGiveUp ==
    ASSUME IInv, Base, NEW w \in Workers, GiveUp(w)
    PROVE  Busy(w)
<1> USE DEF Call, Nothing, Pay, store, At, Fault, NoFault
<1>0. /\ TypeOK /\ job \in Jobs /\ job' = job
      /\ work[w].at = "giveup" /\ hits \subseteq hits'
      /\ account' = account \/ account' = Released(account)
  BY DEF IInv, TypeOK, GiveUp
<1>1. To(w, "note") \/ To(w, "abandon")
  BY Zenon DEF GiveUp
<1>2. ByWorker(w) /\ work'[w].at \in {"note", "abandon"}
  BY <1>0, <1>1, WorkMoves DEF Spots, Holding
<1>3. RowKept
  BY <1>0, <1>2 DEF RowKept, ByWorker
<1>4. ASSUME MoneyOK
      PROVE  FrozenOK' /\ PaidOK' /\ CompletedOK' /\ BackSettling' /\ SettleOK(w)'
  <2>1. job.status = "settling" /\ job.retries = MaxRetries /\ PaidOK /\ FrozenOK
    BY <1>0, <1>4 DEF MoneyOK, SettleOK
  <2>2. ~Paid
    <3>1. MaxRetries \in Nat BY BatchAssumption
    <3> QED BY <2>1, <3>1 DEF PaidOK
  <2>3. FrozenOK' /\ ~Paid'
    BY <1>0, <2>1, <2>2, ReleaseFrozen, SameAccount
  <2>4. SettleOK(w)' BY <1>0, <1>2, <2>1 DEF SettleOK
  <2> QED BY <1>0, <2>1, <2>3, <2>4 DEF PaidOK, CompletedOK, BackSettling
<1> QED BY <1>0, <1>2, <1>3, <1>4 DEF Busy, Holding

LEMMA BusyNote ==
    ASSUME IInv, Base, NEW w \in Workers, NoteFailure(w)
    PROVE  Busy(w)
<1> USE DEF Attempt, Nothing, Write, store, At, Fault, NoFault, NoteFailure
<1>0. /\ TypeOK /\ WorkerOK(w) /\ job \in Jobs
      /\ work[w].at = "note" /\ hits \subseteq hits' /\ account' = account
      /\ job.retries \in 0..MaxRetries /\ MaxRetries \in Nat
      /\ job' = job \/ job' = SettlementFailed(job)
  BY BatchAssumption DEF IInv, TypeOK, Jobs
<1>1. ByWorker(w) /\ work'[w].at = "judge"
  <2>1. To(w, "judge") BY Zenon
  <2> QED BY <1>0, <2>1, WorkMoves DEF Spots, Holding
<1>2. /\ job'.status = job.status /\ job'.named = job.named
      /\ \/ job'.retries = job.retries /\ job'.code = job.code
         \/ /\ job'.code = "SETTLEMENT"
            /\ job'.retries = IF job.retries < MaxRetries THEN job.retries + 1 ELSE job.retries
  BY <1>0, RowFields, JobEffects
<1>3. RowKept
  <2>1. job.status # "none" BY <1>0 DEF WorkerOK, Late, Given
  <2>2. job.retries = MaxRetries => job'.retries = MaxRetries BY <1>0, <1>2
  <2> QED BY <1>0, <1>1, <1>2, <2>1, <2>2 DEF RowKept, ByWorker
<1>4. ASSUME MoneyOK
      PROVE  FrozenOK' /\ PaidOK' /\ CompletedOK' /\ BackSettling' /\ SettleOK(w)'
  <2>1. job.status = "settling" /\ job.retries = MaxRetries /\ PaidOK /\ FrozenOK
    BY <1>0, <1>4 DEF MoneyOK, SettleOK
  <2>2. job'.retries = MaxRetries BY <1>0, <1>2, <2>1
  <2>3. ~Paid /\ ~Paid' BY <1>0, <2>1, SameAccount DEF PaidOK
  <2>4. FrozenOK' BY <1>0, <2>1, SameAccount
  <2>5. SettleOK(w)' BY <1>1, Unknowing DEF PlainSpots
  <2> QED BY <1>2, <2>1, <2>2, <2>3, <2>4, <2>5 DEF PaidOK, CompletedOK, BackSettling
<1> QED BY <1>0, <1>1, <1>3, <1>4 DEF Busy, Holding

LEMMA BusyFail ==
    ASSUME IInv, Base, NEW w \in Workers, FailSettlement(w)
    PROVE  Busy(w)
<1> USE DEF Call, Nothing, Write, store, At, Fault, NoFault
<1>0. /\ TypeOK /\ job \in Jobs
      /\ work[w].at = "abandon" /\ hits \subseteq hits' /\ account' = account
      /\ job' = job \/ job' = Moved(job, "failed")
  BY DEF IInv, TypeOK, FailSettlement
<1>1. To(w, "judge") \/ To(w, "requeue")
  BY Zenon DEF FailSettlement
<1>2. ByWorker(w) /\ work'[w].at \in {"judge", "requeue"}
  BY <1>0, <1>1, WorkMoves DEF Spots, Holding
<1>3. /\ job'.retries = job.retries /\ job'.named = job.named
      /\ (job'.status = job.status /\ job'.code = job.code) \/ job'.status = "failed"
  BY <1>0, RowFields, JobEffects
<1>4. RowKept
  BY <1>0, <1>2, <1>3 DEF RowKept, ByWorker, Terminal, Given
<1>5. ASSUME MoneyOK
      PROVE  FrozenOK' /\ PaidOK' /\ CompletedOK' /\ BackSettling' /\ SettleOK(w)'
  <2>1. job.status = "settling" /\ job.retries = MaxRetries /\ PaidOK /\ FrozenOK
    BY <1>0, <1>5 DEF MoneyOK, SettleOK
  <2>2. ~Paid /\ ~Paid'
    <3>1. MaxRetries \in Nat BY BatchAssumption
    <3> QED BY <1>0, <2>1, <3>1, SameAccount DEF PaidOK
  <2>3. FrozenOK' BY <1>0, <2>1, SameAccount
  <2>4. SettleOK(w)' BY <1>2, Unknowing DEF PlainSpots
  <2> QED BY <1>3, <2>1, <2>2, <2>3, <2>4 DEF PaidOK, CompletedOK, BackSettling
<1> QED BY <1>0, <1>2, <1>4, <1>5 DEF Busy, Holding

-----------------------------------------------------------------------------
(* Every step keeps the invariant.                                           *)

LEMMA MoneyInit == Init => MInv
<1> SUFFICES ASSUME Init PROVE MInv OBVIOUS
<1>1. IInv BY InvInit
<1>2. /\ job = NoJob /\ submit = "new" /\ user = "idle" /\ hits = {}
      /\ account.claims = {} /\ account.frozen = account.others
      /\ \A w \in Workers : work[w] = NoWork
  <2>1. PICK b \in Balances, f \in Frozen :
            account = [claims |-> {}, balance |-> b, frozen |-> f, others |-> f]
    BY DEF Init
  <2> QED BY <2>1 DEF Init
<1>3. ~Held /\ ~Back /\ ~Paid /\ ~Early BY <1>2 DEF Held, Back, Paid, Early
<1>4. Base
  BY <1>2, <1>3, BatchAssumption DEF Base, NoneOK, NamedOK, ClaimsOK, CodesOK, NoJob, HeldAt
<1>5. FrozenOK
  <2>1. account.frozen = account.others + 0
    BY <1>1, <1>2 DEF IInv, TypeOK, Accounts
  <2> QED BY <1>3, <2>1 DEF FrozenOK
<1>6. PaidOK /\ CompletedOK /\ BackSettling
  BY <1>2, <1>3 DEF PaidOK, CompletedOK, BackSettling, NoJob
<1>7. \A w \in Workers : SettleOK(w)
  BY <1>2 DEF SettleOK, NoWork
<1> QED BY <1>1, <1>4, <1>5, <1>6, <1>7 DEF MInv, MoneyOK

LEMMA MoneyStep ==
    ASSUME MInv, Next
    PROVE  MInv'
<1>0. IInv /\ Base BY DEF MInv
<1>1. IInv' /\ Steady BY <1>0, StepKeeps
<1>2. RowKept /\ (MoneyOK /\ ~Overdrawn /\ ~Overdrawn' => MoneyOK')
  <2>1. CASE \/ Submission \/ LeaveSubmit \/ CancelReads \/ SubmitAgain \/ UserCalls \/ LeaveUser
             \/ RecoveryLoop \/ LeaveRecovery \/ Touch \/ Time
    <3>1. Aside /\ RowKept
      BY <1>0, <2>1, AsideSubmission, AsideUser, AsideRecovery, AsideTime
    <3> QED BY <1>0, <3>1, AsideKeeps DEF RowKept
  <2>2. ASSUME NEW w \in Workers, WorkerStep(w) \/ LeaveWork(w)
        PROVE  RowKept /\ (MoneyOK /\ ~Overdrawn /\ ~Overdrawn' => MoneyOK')
    <3>1. CASE \/ Take(w) \/ Lock(w) \/ Bounce(w) \/ Requeue(w) \/ Ack(w) \/ Unlock(w)
               \/ Read(w) \/ Process(w) \/ AskProvider(w) \/ Settle(w) \/ Judge(w)
               \/ LeaveWork(w)
      <4>1. Quiet(w) /\ (MoneyOK /\ ~Overdrawn => SettleOK(w)')
        BY <1>0, <3>1, QuietSteps
      <4> QED BY <4>1, QuietKeeps
    <3>2. CASE \/ Transition(w) \/ Index(w) \/ ReleaseTerminal(w) \/ Capture(w)
               \/ MarkSettled(w) \/ RecordSettlementFailure(w) \/ GiveUp(w)
               \/ NoteFailure(w) \/ FailSettlement(w)
      <4>1. Busy(w)
        BY <1>0, <3>2, BusyTransition, BusyIndex, BusyReleaseTerminal, BusyCapture,
           BusyMarkSettled, BusyRecord, BusyGiveUp, BusyNote, BusyFail
      <4> QED BY <1>0, <4>1, BusyKeeps
    <3> QED BY <2>2, <3>1, <3>2 DEF WorkerStep
  <2> QED BY <2>1, <2>2 DEF Next, Leave
<1>3. Base' /\ (Overdrawn => Overdrawn') BY <1>0, <1>1, <1>2, BaseKeeps
<1>4. Overdrawn' \/ MoneyOK' BY <1>2, <1>3 DEF MInv
<1> QED BY <1>1, <1>3, <1>4 DEF MInv

LEMMA MoneyStutter ==
    ASSUME MInv, UNCHANGED vars
    PROVE  MInv'
<1>0. IInv /\ Base BY DEF MInv
<1>1. UNCHANGED <<job, account, work, submit, user, hits>> BY DEF vars, store, procs
<1>2. IInv' BY <1>0, StutterKeeps
<1>3. Base'
  BY <1>0, <1>1 DEF Base, NoneOK, NamedOK, ClaimsOK, CodesOK, Held, Back, Early
<1>4. Overdrawn => Overdrawn' BY <1>1 DEF Overdrawn
<1>5. MoneyOK => MoneyOK'
  BY <1>1 DEF MoneyOK, FrozenOK, PaidOK, CompletedOK, BackSettling, SettleOK,
     Held, Paid, Back, Early
<1> QED BY <1>2, <1>3, <1>4, <1>5 DEF MInv

LEMMA MoneyInvariance == Spec => []MInv
<1>1. Init => MInv BY MoneyInit
<1>2. MInv /\ [Next]_vars => MInv' BY MoneyStep, MoneyStutter
<1> QED BY <1>1, <1>2, PTL DEF Spec

-----------------------------------------------------------------------------
(* The results.                                                              *)

\* The pool of a user holds what the other jobs have frozen and this job's hold until
\* its first capture or release, for any number of workers, faults, repeated calls and
\* retries, any hold and any cost: no retry after a lost answer moves the hold twice.
THEOREM PoolIsKept == Spec => []OthersStayFrozen
<1>1. MInv => OthersStayFrozen BY DEF MInv, MoneyOK, FrozenOK, OthersStayFrozen
<1> QED BY <1>1, MoneyInvariance, PTL

\* A completed job was charged and not released, a failed or cancelled one was not
\* charged, although the status and the claims are written by separate calls.
THEOREM EndMatchesCharge == Spec => []CompletedIsCharged
<1>1. MInv => CompletedIsCharged
  BY DEF MInv, MoneyOK, PaidOK, CompletedOK, CompletedIsCharged, Settled, Given
<1> QED BY <1>1, MoneyInvariance, PTL

=============================================================================
