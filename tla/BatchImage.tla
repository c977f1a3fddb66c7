----------------------------- MODULE BatchImage -----------------------------
(***************************************************************************)
(* One batch image job from its submission to the end of its hold.  The    *)
(* request that submits it, a user who cancels it or submits it again, the *)
(* workers that follow the provider's job, index its output and settle,    *)
(* and the recovery loop act on the row, the user's balance and the queue; *)
(* every call to PostgreSQL, Redis or the provider is a step of its own.   *)
(* A call may fail, with or without having had its effect, a process may   *)
(* end anywhere, and a lock or a heartbeat may lapse.                      *)
(***************************************************************************)
EXTENDS BatchImageStore, FiniteSets

CONSTANTS
    Workers, NoOne,
    MaxCalls,     \* cancellations and repeated submissions
    MaxFaults

ASSUME PipelineAssumption ==
    NoOne \notin Workers /\ MaxCalls \in Nat /\ MaxFaults \in Nat

VARIABLES
    job, account, queue,
    lock,       \* the job's lock in Redis
    upstream,   \* the provider's job
    submit,     \* where the submitting request is
    user,       \* where the user's other call is
    work,       \* the workers
    recovery,   \* where the recovery loop is
    calls,      \* further calls of the user
    faults,     \* faults so far
    hits        \* the places they hit that a guarantee does not survive

store == <<job, account, queue, lock, upstream>>
procs == <<submit, user, work, recovery, calls>>
vars  == <<store, procs, faults, hits>>

Working == {"queued", "running"}

\* The pipeline processor and RunOnce: a worker holds the lock from "read" on.
Holding == {"read", "settle", "capture", "finish", "record", "judge", "giveup",
            "note", "abandon", "process", "get", "move", "index", "release",
            "ack", "requeue", "unlock"}

\* The places where a fault leaves a hold or a provider's job to nobody.
Leaks   == {"reserve", "store", "enqueue", "unqueued", "cancel", "refund", "fail",
            "restore", "retry"}
Orphans == {"submit", "abort"}

TypeOK ==
    /\ job \in Jobs /\ account \in Accounts /\ queue \in Queues
    /\ lock \in Workers \cup {NoOne}
    /\ upstream \in Working \cup {"none", "succeeded", "failed", "cancelled"}
    /\ submit \in {"new", "reserve", "items", "upload", "submit", "store", "abort",
                   "enqueue", "unqueued", "release", "giveback", "unreleased",
                   "retry", "mark", "hide", "done"}
    /\ user \in {"idle", "stop", "kick", "cancel", "refund", "again", "unqueued", "retry"}
    /\ work \in [Workers -> [at : {"idle", "lock", "bounce"} \cup Holding,
                             seen : Open, to : Open \cup Given]]
    /\ recovery \in {"idle", "enqueue", "clear", "fail", "release", "retry"}
    /\ calls \in 0..MaxCalls /\ faults \in 0..MaxFaults
    /\ hits \subseteq Leaks \cup Orphans \cup {"capture", "late", "lapse"}

NoWork == [at |-> "idle", seen |-> "created", to |-> "created"]

Init ==
    /\ job = NoJob /\ queue = Empty /\ lock = NoOne /\ upstream = "none"
    /\ account \in {[claims |-> {}, balance |-> b, frozen |-> f, others |-> f] :
                        b \in Balances, f \in Frozen}
    /\ submit = "new" /\ user = "idle" /\ recovery = "idle"
    /\ work = [w \in Workers |-> NoWork]
    /\ calls = 0 /\ faults = 0 /\ hits = {}

-----------------------------------------------------------------------------
(* Calls.  harm names the guarantee a fault takes away, if it takes one.     *)

NoFault == UNCHANGED <<faults, hits>>
Fault(harm) ==
    /\ faults < MaxFaults
    /\ faults' = faults + 1 /\ hits' = hits \cup harm

Nothing  == UNCHANGED store
Write(j) == job' = j      /\ UNCHANGED <<account, queue, lock, upstream>>
Pay(a)   == account' = a  /\ UNCHANGED <<job, queue, lock, upstream>>
Push(q)  == queue' = q    /\ UNCHANGED <<job, account, lock, upstream>>
Ask(u)   == upstream' = u /\ UNCHANGED <<job, account, queue, lock>>

\* A call succeeds, or fails before or after its effect; lost names the harm of
\* an effect whose answer is lost.
Call(Effect, Then, Else, lost) ==
    \/ Effect /\ Then /\ NoFault
    \/ Nothing /\ Else /\ Fault({})
    \/ Effect /\ Else /\ Fault(lost)

\* A call that harms a guarantee in either way of failing.
Errs(Effect, Else, harm) == (Nothing \/ Effect) /\ Else /\ Fault(harm)

\* A call whose error is ignored; missed names the harm of its failing.
Attempt(Effect, Then, missed) ==
    \/ Effect /\ Then /\ NoFault
    \/ Nothing /\ Then /\ Fault(missed)

\* provider.Cancel
Stopped == IF upstream \in Working THEN "cancelled" ELSE upstream

-----------------------------------------------------------------------------
(* BatchImagePublicService.Submit *)

Go(l) == submit' = l /\ UNCHANGED <<user, work, recovery, calls>>

Create ==
    /\ submit = "new"
    /\ Call(Write([NoJob EXCEPT !.status = "created"]), Go("reserve"), Go("done"), {})

Reserve ==
    /\ submit = "reserve"
    /\ \/ ReserveFails(account) /\ Nothing /\ Go("mark") /\ NoFault
       \/ /\ ~ReserveFails(account)
          /\ Call(Pay(Reserved(account)), Go("items"), Go("mark"), {"reserve"})

CreateItems ==
    submit = "items" /\ Call(Nothing, Go("upload"), Go("release"), {})

\* A job cancelled or failed meanwhile gives the hold back and keeps its status.
StartUpload ==
    /\ submit = "upload"
    /\ \/ /\ CanTransition(job, "uploading")
          /\ Call(Write(Moved(job, "uploading")), Go("submit"), Go("release"), {})
       \/ ~CanTransition(job, "uploading") /\ Nothing /\ Go("giveback") /\ NoFault

\* The provider may refuse, or accept without the answer arriving.
SubmitToProvider ==
    /\ submit = "submit"
    /\ \/ Call(Ask("queued"), Go("store"), Go("release"), {"submit"})
       \/ Nothing /\ Go("release") /\ NoFault

\* The heartbeat while the provider takes its time.
Touch ==
    /\ submit = "submit" /\ job.stale /\ job.status \in Unsubmitted
    /\ Write([job EXCEPT !.stale = FALSE]) /\ NoFault /\ UNCHANGED procs

StoreProviderJob ==
    /\ submit = "store"
    /\ \/ /\ CanTransition(job, "submitted")
          /\ Call(Write(Submitted(job)), Go("enqueue"), Go("abort"), {"store"})
       \/ ~CanTransition(job, "submitted") /\ Nothing /\ Go("abort") /\ NoFault

\* abortOrphanProviderJob
AbortOrphan ==
    submit = "abort" /\ Attempt(Ask(Stopped), Go("done"), {"abort"})

EnqueueJob ==
    /\ submit = "enqueue"
    /\ \/ Push(Enqueued(queue)) /\ Go("done") /\ NoFault
       \/ Errs(Push(Enqueued(queue)), Go("unqueued"), {"late"})

RecordUnqueued ==
    submit = "unqueued" /\ Attempt(Write(QueueFailed(job)), Go("done"), {"unqueued"})

\* releaseFailedSubmitHold
ReleaseFailedSubmit ==
    /\ submit \in {"release", "giveback"}
    /\ \/ ReleaseFails(account) /\ Nothing /\ Go("unreleased") /\ NoFault
       \/ /\ ~ReleaseFails(account)
          /\ Call(Pay(Released(account)),
                  Go(IF submit = "release" THEN "mark" ELSE "done"), Go("unreleased"), {})

RecordUnreleased ==
    submit = "unreleased" /\ Attempt(Write(SubmitFailed(job)), Go("retry"), {})

RetryRelease ==
    submit = "retry" /\ Attempt(Push(Enqueued(queue)), Go("done"), {"retry"})

RecordFailure ==
    submit = "mark" /\ Attempt(Write(SubmitFailed(job)), Go("hide"), {})

Hide ==
    submit = "hide" /\ Attempt(Write(Hidden(job)), Go("done"), {})

\* The process ends or the client goes away: the context of every later call is
\* cancelled.
LeaveSubmit ==
    /\ submit \notin {"new", "done"}
    /\ Nothing /\ Go("done")
    /\ Fault(IF submit \in {"store", "abort"} THEN {"abort"}
             ELSE {submit} \cap {"enqueue", "unqueued", "retry"})

Submission ==
    \/ Create \/ Reserve \/ CreateItems \/ StartUpload \/ SubmitToProvider
    \/ StoreProviderJob \/ AbortOrphan \/ EnqueueJob \/ RecordUnqueued
    \/ ReleaseFailedSubmit \/ RecordUnreleased \/ RetryRelease \/ RecordFailure \/ Hide

-----------------------------------------------------------------------------
(* BatchImagePublicService.Cancel, and Submit with a known idempotency key   *)

User(l) == user' = l /\ UNCHANGED <<submit, work, recovery, calls>>

\* Cancel decides on the row it reads here.
CancelReads ==
    /\ user = "idle" /\ calls < MaxCalls /\ calls' = calls + 1
    /\ job.status # "none" /\ ~job.hidden
    /\ user' = IF job.status \in Given THEN "refund"
               ELSE IF job.status \in {"settling", "completed"} THEN "idle"
               ELSE IF job.named THEN "stop" ELSE "cancel"
    /\ Nothing /\ NoFault /\ UNCHANGED <<submit, work, recovery>>

\* The provider refuses to cancel what has ended.
StopProviderJob ==
    /\ user = "stop"
    /\ \/ Call(Ask(Stopped), User("kick"), User("idle"), {})
       \/ upstream \notin Working /\ Nothing /\ User("idle") /\ NoFault

EnqueueCancelled ==
    user = "kick" /\ Attempt(Push(Enqueued(queue)), User("idle"), {})

CancelUnsubmitted ==
    /\ user = "cancel"
    /\ \/ /\ CanTransition(job, "cancelled")
          /\ Call(Write(Moved(job, "cancelled")), User("refund"), User("idle"), {"cancel"})
       \/ ~CanTransition(job, "cancelled") /\ Nothing /\ User("idle") /\ NoFault

ReleaseCancelled ==
    /\ user = "refund"
    /\ \/ ReleaseFails(account) /\ Nothing /\ User("retry") /\ NoFault
       \/ /\ ~ReleaseFails(account)
          /\ Call(Pay(Released(account)), User("idle"), User("retry"), {})

RetryCancelled ==
    user = "retry" /\ Attempt(Push(Enqueued(queue)), User("idle"), {"retry"})

SubmitAgain ==
    /\ user = "idle" /\ calls < MaxCalls /\ calls' = calls + 1
    /\ job.status = "submitted" /\ user' = "again"
    /\ Nothing /\ NoFault /\ UNCHANGED <<submit, work, recovery>>

EnqueueAgain ==
    /\ user = "again"
    /\ \/ Push(Enqueued(queue)) /\ User("idle") /\ NoFault
       \/ Errs(Push(Enqueued(queue)), User("unqueued"), {"late"})

RecordUnqueuedAgain ==
    user = "unqueued" /\ Attempt(Write(QueueFailed(job)), User("idle"), {})

LeaveUser ==
    user # "idle" /\ Nothing /\ User("idle") /\ Fault({user} \cap {"refund", "retry"})

UserCalls ==
    \/ StopProviderJob \/ EnqueueCancelled \/ CancelUnsubmitted \/ ReleaseCancelled
    \/ RetryCancelled \/ EnqueueAgain \/ RecordUnqueuedAgain

-----------------------------------------------------------------------------
(* BatchImageBillingRecoveryService *)

Recover(l) == recovery' = l /\ UNCHANGED <<submit, user, work, calls>>

ListQueueFailures ==
    recovery = "idle" /\ AwaitsQueue(job) /\ Nothing /\ Recover("enqueue") /\ NoFault

EnqueueRecovered ==
    recovery = "enqueue"
    /\ Call(Push(Enqueued(queue)), Recover("clear"), Recover("idle"), {})

ClearQueueFailure ==
    recovery = "clear"
    /\ Attempt(Write(QueueRecovered(job)), Recover("idle"), {})

ListStale ==
    recovery = "idle" /\ Abandoned(job) /\ Nothing /\ Recover("fail") /\ NoFault

\* Variant for testing: the row is failed as it was listed, not as it is now.
FailStaleListed ==
    /\ recovery = "fail"
    /\ Call(Write(SubmitFailed(job)), Recover("release"), Recover("idle"), {"fail"})

FailStale ==
    /\ recovery = "fail"
    /\ \/ /\ Abandoned(job)
          /\ Call(Write(SubmitFailed(job)), Recover("release"), Recover("idle"), {"fail"})
       \/ ~Abandoned(job) /\ Nothing /\ Recover("idle") /\ NoFault

ReleaseStale ==
    /\ recovery = "release"
    /\ \/ ReleaseFails(account) /\ Nothing /\ Recover("retry") /\ NoFault
       \/ /\ ~ReleaseFails(account)
          /\ Call(Pay(Released(account)), Recover("idle"), Recover("retry"), {})

RetryStale ==
    recovery = "retry" /\ Attempt(Push(Enqueued(queue)), Recover("idle"), {"retry"})

LeaveRecovery ==
    /\ recovery # "idle" /\ Nothing /\ Recover("idle")
    /\ Fault(IF recovery \in {"release", "retry"} THEN {"restore"} ELSE {})

RecoveryLoop ==
    \/ ListQueueFailures \/ EnqueueRecovered \/ ClearQueueFailure
    \/ ListStale \/ FailStale \/ ReleaseStale \/ RetryStale

-----------------------------------------------------------------------------
(* BatchImageWorker.RunOnce *)

At(w, l)  == work[w].at = l
Set(w, r) == work' = [work EXCEPT ![w] = r] /\ UNCHANGED <<submit, user, recovery, calls>>
To(w, l)  == Set(w, [NoWork EXCEPT !.at = l])
Rest(w)   == Set(w, NoWork)
Move(w, s) == Set(w, [NoWork EXCEPT !.at = "move", !.to = s])

Take(w) ==
    /\ At(w, "idle") /\ queue.ready > 0
    /\ Call(Push(Taken(queue)), To(w, "lock"), Rest(w), {})

\* Variant for testing: the answer of SET NX is not looked at.
LockRegardless(w) ==
    /\ At(w, "lock") /\ To(w, "read") /\ NoFault
    /\ lock' = (IF lock = NoOne THEN w ELSE lock)
    /\ UNCHANGED <<job, account, queue, upstream>>

\* SET NX: a worker that is not told that it has the lock does not release it.
Lock(w) ==
    /\ At(w, "lock")
    /\ \/ /\ lock = NoOne
          /\ Call(lock' = w /\ UNCHANGED <<job, account, queue, upstream>>,
                  To(w, "read"), To(w, "bounce"), {})
       \/ lock # NoOne /\ Nothing /\ To(w, "bounce") /\ NoFault

Bounce(w) ==
    At(w, "bounce") /\ Attempt(Push(Requeued(queue)), Rest(w), {})

Requeue(w) ==
    At(w, "requeue") /\ Attempt(Push(Requeued(queue)), To(w, "unlock"), {})

Ack(w) ==
    At(w, "ack") /\ Attempt(Push(Acked(queue)), To(w, "unlock"), {})

Unlock(w) ==
    /\ At(w, "unlock")
    /\ Attempt(lock' = (IF lock = w THEN NoOne ELSE lock)
                   /\ UNCHANGED <<job, account, queue, upstream>>,
               Rest(w), {})

\* BatchImagePipelineProcessor chooses by a first read of the row.
Read(w) ==
    /\ At(w, "read") /\ Nothing
    /\ \/ To(w, IF job.status = "settling" THEN "settle" ELSE "process") /\ NoFault
       \/ To(w, "requeue") /\ Fault({})

-----------------------------------------------------------------------------
(* BatchImageProviderProcessor.Process *)

Process(w) ==
    /\ At(w, "process") /\ Nothing
    /\ \/ To(w, "requeue") /\ Fault({})
       \/ /\ NoFault
          /\ \/ job.status \in Given /\ To(w, "release")
             \/ job.status \in {"settling", "completed"} /\ To(w, "ack")
             \/ /\ job.status \in Open \ {"settling"}
                /\ \/ ~job.named /\ To(w, "requeue")
                   \/ job.named /\ job.status = "indexing" /\ To(w, "index")
                   \/ /\ job.named /\ job.status # "indexing"
                      /\ Set(w, [NoWork EXCEPT !.at = "get", !.seen = job.status])

AskProvider(w) ==
    /\ At(w, "get") /\ Nothing
    /\ \/ To(w, "requeue") /\ Fault({})
       \/ /\ NoFault
          /\ \/ upstream = "queued" /\ To(w, "requeue")
             \/ upstream = "running" /\ work[w].seen = "running" /\ To(w, "requeue")
             \/ upstream = "running" /\ work[w].seen # "running" /\ Move(w, "running")
             \/ upstream = "succeeded" /\ Move(w, "indexing")
             \/ upstream \in Given /\ Move(w, upstream)

AfterMove(s) ==
    CASE s \in {"running", "settling"} -> "requeue"
      [] s = "indexing"                -> "index"
      [] s \in Given                   -> "release"

Transition(w) ==
    LET s == work[w].to IN
    /\ At(w, "move")
    /\ \/ /\ CanTransition(job, s)
          /\ Call(Write(Moved(job, s)), To(w, AfterMove(s)), To(w, "requeue"), {})
       \/ ~CanTransition(job, s) /\ Nothing /\ To(w, "requeue") /\ NoFault

\* Output that cannot be parsed fails the job, and so does a database that fails;
\* output that cannot be opened is tried again.
Index(w) ==
    /\ At(w, "index")
    /\ \/ /\ job.status = "indexing"
          /\ \/ \E c \in Costs :
                    Call(Write([job EXCEPT !.cost = c]), Move(w, "settling"),
                         Move(w, "failed"), {})
             \/ Nothing /\ Move(w, "failed") /\ NoFault
       \/ job.status # "indexing" /\ Nothing /\ To(w, "requeue") /\ NoFault
       \/ Nothing /\ To(w, "requeue") /\ Fault({})

ReleaseTerminal(w) ==
    /\ At(w, "release")
    /\ \/ ReleaseFails(account) /\ Nothing /\ To(w, "requeue") /\ NoFault
       \/ /\ ~ReleaseFails(account)
          /\ Call(Pay(Released(account)), To(w, "ack"), To(w, "requeue"), {})

-----------------------------------------------------------------------------
(* BatchImageSettlementService.Settle *)

Settle(w) ==
    /\ At(w, "settle") /\ Nothing
    /\ \/ To(w, "requeue") /\ Fault({})
       \/ /\ NoFault
          /\ \/ job.status = "completed" /\ To(w, "ack")
             \/ job.status \notin {"settling", "completed"} /\ To(w, "requeue")
             \/ job.status = "settling" /\ Exhausted(job) /\ To(w, "giveup")
             \/ job.status = "settling" /\ ~Exhausted(job) /\ To(w, "capture")

Capture(w) ==
    LET Effect == Pay(Captured(account, job.cost)) IN
    /\ At(w, "capture")
    /\ \/ CaptureFails(account) /\ Nothing /\ To(w, "record") /\ NoFault
       \/ /\ ~CaptureFails(account)
          /\ \/ Effect /\ To(w, "finish") /\ NoFault
             \/ Errs(Effect, To(w, "record"),
                     IF "capture" \in account'.claims THEN {"capture"} ELSE {})

Completed(w, otherwise) ==
    /\ At(w, "finish")
    /\ \/ /\ job.status = "settling"
          /\ Call(Write([job EXCEPT !.status = "completed"]), To(w, "ack"),
                  To(w, otherwise), {})
       \/ job.status # "settling" /\ Nothing /\ To(w, otherwise) /\ NoFault

\* Variants for testing: a job that cannot be marked counts as one that could not
\* be charged, or is forgotten.
MarkSettledCounted(w)   == Completed(w, "record")
MarkSettledForgotten(w) == Completed(w, "ack")

MarkSettled(w) == Completed(w, "requeue")

\* recordSettlementFailure
RecordSettlementFailure(w) ==
    /\ At(w, "record")
    /\ Call(Write(SettlementFailed(job)),
            To(w, IF SettlementFailed(job).retries = MaxRetries THEN "giveup" ELSE "judge"),
            To(w, "judge"), {})

\* failExhaustedSettlement
GiveUp(w) ==
    /\ At(w, "giveup")
    /\ \/ ReleaseFails(account) /\ Nothing /\ To(w, "note") /\ NoFault
       \/ /\ ~ReleaseFails(account)
          /\ Call(Pay(Released(account)), To(w, "abandon"), To(w, "note"), {})

NoteFailure(w) ==
    /\ At(w, "note")
    /\ Attempt(Write(SettlementFailed(job)), To(w, "judge"), {})

FailSettlement(w) ==
    /\ At(w, "abandon")
    /\ \/ /\ CanTransition(job, "failed")
          /\ Call(Write(Moved(job, "failed")), To(w, "judge"), To(w, "requeue"), {})
       \/ ~CanTransition(job, "failed") /\ Nothing /\ To(w, "requeue") /\ NoFault

\* After a billing failure the pipeline looks whether the job is over.
Judge(w) ==
    /\ At(w, "judge") /\ Nothing
    /\ \/ To(w, IF job.status \in Terminal THEN "ack" ELSE "requeue") /\ NoFault
       \/ To(w, "requeue") /\ Fault({})

LeaveWork(w) == ~At(w, "idle") /\ Nothing /\ Rest(w) /\ Fault({})

WorkerStep(w) ==
    \/ Take(w) \/ Lock(w) \/ Bounce(w) \/ Requeue(w) \/ Ack(w) \/ Unlock(w)
    \/ Read(w) \/ Process(w) \/ AskProvider(w) \/ Transition(w) \/ Index(w)
    \/ ReleaseTerminal(w) \/ Settle(w) \/ Capture(w) \/ MarkSettled(w)
    \/ RecordSettlementFailure(w) \/ GiveUp(w) \/ NoteFailure(w)
    \/ FailSettlement(w) \/ Judge(w)

-----------------------------------------------------------------------------
(* Time.  Heartbeats keep the row, the active entry and the lock young while *)
(* their process works; they may lapse.                                      *)

Still(harm, P) == (P /\ NoFault) \/ (~P /\ Fault(harm))

AgeRow ==
    /\ job.status \in Unsubmitted /\ ~job.stale
    /\ Write([job EXCEPT !.stale = TRUE]) /\ UNCHANGED procs
    /\ Still({}, submit = "done")

AgeActive ==
    /\ queue.active = "live"
    /\ Push([queue EXCEPT !.active = "stale"]) /\ UNCHANGED procs
    /\ Still({}, \A w \in Workers : At(w, "idle"))

LockExpires ==
    /\ lock # NoOne /\ lock' = NoOne
    /\ UNCHANGED <<job, account, queue, upstream, procs>>
    /\ Still({"lapse"}, work[lock].at \notin Holding)

MoveDueDelayed ==
    queue.delayed /\ Push(MovedDue(queue)) /\ NoFault /\ UNCHANGED procs

RecoverStaleActive ==
    queue.active = "stale" /\ Push(Recovered(queue)) /\ NoFault /\ UNCHANGED procs

\* The provider works on the job.
Advance ==
    /\ upstream \in Working
    /\ \/ upstream = "queued" /\ Ask("running")
       \/ Ask("succeeded") \/ Ask("failed")
    /\ NoFault /\ UNCHANGED procs

Time == AgeRow \/ AgeActive \/ LockExpires \/ MoveDueDelayed \/ RecoverStaleActive \/ Advance

Leave == LeaveSubmit \/ LeaveUser \/ LeaveRecovery \/ \E w \in Workers : LeaveWork(w)

Next ==
    \/ Submission \/ Touch \/ CancelReads \/ SubmitAgain \/ UserCalls \/ RecoveryLoop
    \/ \E w \in Workers : WorkerStep(w)
    \/ Time \/ Leave

Spec == Init /\ [][Next]_vars

\* A request and the loops go on, time passes, and the provider ends its jobs.
Fairness ==
    /\ WF_vars(Submission) /\ WF_vars(UserCalls) /\ WF_vars(RecoveryLoop)
    /\ \A w \in Workers : WF_vars(WorkerStep(w))
    /\ WF_vars(AgeRow /\ NoFault) /\ WF_vars(AgeActive /\ NoFault)
    /\ WF_vars(LockExpires /\ NoFault) /\ WF_vars(MoveDueDelayed)
    /\ WF_vars(RecoverStaleActive) /\ WF_vars(Advance)

FairSpec == Spec /\ Fairness

-----------------------------------------------------------------------------
(* Safety *)

Held == "hold" \in account.claims
Paid == "capture" \in account.claims
Back == "release" \in account.claims

\* The job was given up, and its release claimed, before the hold was taken.
Early == "nothing" \in account.claims

\* The retries ran out although a capture had taken place that was reported as
\* failed, or a late "QUEUE_FAILED" may have hidden that they had run out; or a
\* lock lapsed and two workers settled.
Overdrawn == \/ hits \cap {"capture", "late"} # {} /\ job.retries = MaxRetries
             \/ "lapse" \in hits

\* The frozen balance is a pool: a job adds its own hold once, takes out no more
\* than that, and leaves alone what other jobs of the user have frozen, however
\* often captures and releases are repeated after lost answers.
OthersStayFrozen ==
    \/ account.frozen = account.others + (IF Held /\ (Early \/ ~(Paid \/ Back)) THEN Hold ELSE 0)
    \/ Overdrawn

\* What was delivered is paid for and what failed is not: completed goes with a
\* captured hold that nobody released, failed and cancelled never with a captured
\* one, although billing and status are written by separate calls in either order.
CompletedIsCharged ==
    \/ /\ job.status = "completed" => Held /\ Paid /\ ~Back
       /\ job.status \in Given => ~Paid
    \/ Overdrawn

\* RunOnce processes a job in one worker at a time, although Requeue, the recovery
\* of stale active entries and repeated Enqueues can put it in the ready list while
\* it is being processed.
OneWorker ==
    \/ \A v, w \in Workers : work[v].at \in Holding /\ work[w].at \in Holding => v = w
    \/ "lapse" \in hits

\* A job that got its hold back has nothing running at the provider: "the
\* provider's job would cost while the user has the money back".  The comments
\* count on the submitting request to abort what it finds refunded; a cancellation
\* that read the row before the provider's name was stored is not caught.
RefundedIsStopped ==
    Back /\ upstream \in Working =>
        \/ submit \in {"store", "abort"}
        \/ job.status = "cancelled" /\ job.named
        \/ hits \cap Orphans # {}

\* Whatever write comes late, with or without a look at the status, a completed
\* job stays completed and a job that was given up is never completed.
EndIsFinal ==
    [][/\ job.status = "completed" => job'.status = "completed"
       /\ job.status \in Given => job'.status \in Given]_vars

-----------------------------------------------------------------------------
(* Liveness, under FairSpec *)

\* Every hold is captured or released in the end, wherever the request dies and
\* whatever call fails: by the request, a worker's retries or the recovery loop.
\* The places of Leaks, and a lock that lapses, are where nobody is left to do it.
HoldIsClosed ==
    Held ~> account.frozen <= account.others \/ Early \/ hits \cap (Leaks \cup {"lapse"}) # {}

\* A job that was charged ends completed: the retries of MarkSettled go on until
\* it is, and neither the retry limit nor a cancellation gets in between.
CapturedIsCompleted == Paid ~> job.status = "completed" \/ Overdrawn

-----------------------------------------------------------------------------
(* What documentation and comments say that the code does not do *)

\* "Failed submit releases hold" (docs/BATCH_IMAGE_MVP.md): under FairSpec without
\* faults, a job that failed or was cancelled gives its hold back.
HoldIsReturned ==
    Held /\ job.status \in Given ~> account.frozen = account.others
=============================================================================
