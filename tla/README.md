# sub2api in TLA+

sub2api is an AI API gateway: it accepts requests in several vendor protocols, charges a user's
balance or subscription for them, schedules them over a pool of upstream accounts, and sells
balance and subscriptions through payment providers. The backend is Go over PostgreSQL and
Redis, in several instances; the frontend is Vue.

This directory models the parts of the backend where interleavings, retries, crashes and leases
decide whether money or exclusive work is right: **payment orders**, **refunds**, the
**idempotency coordinator**, the **system operation lock**, the **live wallet** with its settlement
and its outbox, the **OAuth token refresh** and the **batch image** pipeline. Each is a TLA+ module
checked by TLC, with machine-checked proofs for every value of its constants.

## 1. Inventory

Paths are relative to `backend/internal/`. "Modelled" means that every operation that changes the state of
the component is an action; "partly" names in section 6 what is left out.

| Component | State it keeps | Operations | What is hard | Correct means |
|---|---|---|---|---|
| **Payment orders** `service/payment_order*.go`, `payment_fulfillment.go` — modelled | `payment_orders` row (status, trade number, `paid_at`, `updated_at`), redeem code, audit rows, grant, affiliate accrual | create, cancel, expire, verify, webhook, fulfil, admin retry | no lock: only conditional UPDATEs; the lease is a timestamp; swallowed read errors; repeated callbacks | delivered exactly once, only if paid, never closed after payment, every payment settles |
| **Refunds** `service/payment_refund.go` — modelled | the same row, `refund_amount`, audit rows, balance or subscription | request, refund, provider call, rollback, query and finalise | a long non-transactional sequence with an external call in it; verdicts written by id alone; audits that steer later attempts | one owner at a time; never takes twice nor keeps what it must give back; REFUNDED only when money went back |
| **Idempotency** `service/idempotency.go`, `repository/idempotency_repo.go` — modelled | `idempotency_records` row of a key | execute, replay, refuse, reclaim, cleanup | clocks read once per request; executions longer than their lock; expiry; marks that fail | one execution at a time, once until expiry, true replays, no key blocked for ever |
| **System operation lock** `service/system_operation_lock_service.go` — modelled | the record of a fixed key, a renewal goroutine per holder | acquire, renew, release | leases, failed renewals, crash, reclaimed rows | one operation at a time; a dead one's lock is freed |
| **Live wallet** `service/balance_preauthorization_*.go`, `repository/billing_cache_preauthorization.go`, `usage_balance_settlement_repo.go` — modelled | wallet, watermark and attempts in Redis; settlement rows and balance in PostgreSQL | preauthorise, top up, transfer, finalise, refund, recover, flush | two stores, no common transaction; attempts that expire; Redis may be lost | wallet = balance − holds − charges not yet flushed; each request pays once, one amount in both stores |
| **Wallet adjustments** `service/live_balance_adjustment_*.go` and its repositories — modelled | outbox chain per user, claim leases | trigger, claim, apply at watermark, initialise from a snapshot, acknowledge, retry | at-least-once delivery, wallets rebuilt from snapshots | every change counts once, in order, and is delivered |
| **OAuth refresh** `service/oauth_refresh_api.go`, `token_refresh_service.go` — partly | credentials document, distributed lock, process mutex, cooldown, status | refresh by loop or request, quarantine, reauthorise, edit | an expiring lock released by key; refresh tokens that may be used once; minutes between read and write | the rotated token is kept; no account is blocked but for a refused token or a denial; what is due is refreshed or blocked |
| **Batch images** `service/batch_image_*.go`, `repository/batch_image_*.go` — partly | job row, hold in the user's balance with claims, Redis queue, lock, provider's job | submit, cancel, process, index, settle, recover | billing, status and queue are written by separate calls; lost answers; leases | a hold is taken once and captured or released once, in agreement with the status |
| User message queue `repository/user_msg_queue_cache.go` | lock key, lock index, last completion | acquire, release, reconcile | index writes outside the lock's script | one request at a time; no lock stays for ever |
| Scheduler snapshot `service/scheduler_snapshot_service.go` | outbox, watermark, buckets | poll, rebuild | ids assigned before commit | every committed change reaches the snapshot |
| Order limits `service/payment_order.go` | orders of one user | count, insert | count-then-insert without a lock | at most the configured number pending |
| Concurrency slots `repository/concurrency_cache.go` | expiring members in sorted sets | acquire, release, refresh, clean | leases on connections | never more than the limit |

Not modelled and not planned: usage logs, session and RPM limits, leader locks, account scheduling, the OpenAI
WebSocket pool, protocol conversion, pricing arithmetic, login, moderation, monitoring, tickets, plugins,
administration handlers, frontend, generated code. `PROJECT.json` lists each with its reason; in short they are
sequential, approximate by design, data conversion without shared state, or generated.

**How the components interact.** The HTTP handlers wrap administrator operations in the idempotency
coordinator; an update or rollback of the server also acquires the system operation lock,
a record in the same table. Webhooks, the expiry sweep and
user requests all call `PaymentService`, which writes the order row with conditional UPDATEs and hands
delivery to `RedeemService` (balance) or `SubscriptionService`; the unique index of
`payment_audit_logs (order_id, action)` serves as a ledger of steps done once. Refunds start from a
COMPLETED order and work on the same row, so the final state of one module is the initial state of the next.
Every change of `users.balance`, from redemption, refund, administrator or batch image hold, fires a trigger that
appends it to the outbox of wallet adjustments; the outbox workers apply it to the wallet in Redis. Requests hold
and are charged against that wallet, and the flush moves what was charged back into `users.balance` with the
trigger told to keep still. Forwarding a request to an upstream account may refresh that account's OAuth token,
which the background loop of every instance also does. A batch image job freezes its estimate in the user's row and settles
from a worker that a Redis queue feeds.

The hazards of all these parts, with their lines, are in `PROJECT.json` under `hazards`.

## 2. Modules

| Module | What it is |
|---|---|
| `PaymentOrder` | one order from its insertion to delivery, with every goroutine that touches it |
| `PaymentPromise` | what fulfilment promises, without database, leases or workers: an abstract specification |
| `PaymentRefund` | the refunds of one completed order |
| `IdempotencyRecord` | one row of `idempotency_records` and the repository's statements, with relative time |
| `Idempotency` | `IdempotencyCoordinator.Execute` over that row, and the cleanup |
| `SystemOperationLock` | acquire, renewal loop and release over the same row |
| `WalletStore` | a user's wallet, watermark and attempts in Redis: one operator per Lua script |
| `SettlementRow` | the settlement rows and the balance in PostgreSQL: one operator per statement |
| `BalanceOutbox` | changes of the balance, their outbox, its workers and the flush |
| `LiveWallet` | the above composed with the requests that hold and are charged, the recovery, and losses of Redis |
| `PrepaidAccount` | what the live wallet promises, without Redis, rows or workers: an abstract specification |
| `OAuthRefresh` | one account's credentials, both locks, the refresh loops, the requests and the administrator |
| `BatchImageStore` | the row of a job, its hold with the claims, its place in the queue: one operator per statement or script |
| `BatchImage` | one job with its submission, cancellation, workers, settlement, recovery loops and the provider |
| `*Proofs` | theorems about the module of that name |
| `MC*` | model values and small sets for TLC |

Common conventions. A **worker** is a goroutine; its program counter (`pc[w]`, `work[w].at`, `submit`, ...) names its
next database statement, provider call or script, so that one action is one atomic step of a store and the code
between two of them is part of the first. A conditional UPDATE is a disjunct with its `WHERE` as guard and another for
"zero rows affected". `Fault` spends one of `MaxFaults` and stands for a crash, a call that
fails, one that took effect but whose answer is lost, or a worker that stalls past a lease. Amounts are small
numbers of units; texts, signatures and currencies are left out. Operators under a comment "Variant for testing"
are faulty versions of the operator after them, kept to show that a property notices the fault.

### PaymentOrder

| Model | Code |
|---|---|
| `status`, `tradeNo`, `paidAt`, `kind`, `due` | columns of `payment_orders`; `due` says that `expires_at` has passed |
| `age`, `fresh` | `updated_at`, which the code compares both with the clock (grace window, lease timeout) and for equality (lease version). `age` counts ticks since the last write and saturates; `fresh` holds the workers whose remembered version is the current one |
| `code`, `credits` | the redeem code of the order and how often its value was credited |
| `assigned`, `grants` | the `SUBSCRIPTION_ASSIGNED` audit row and the assignments made |
| `rebate`, `accrued` | the `AFFILIATE_REBATE_*` audit row and the accruals made |
| `upstream`, `acked` | what the provider knows, and whether it has had a 2xx |
| `blind` | whether a notification was answered with a 2xx although its handler dropped the error of its own last statement (`confirmPayment`'s or `alreadyProcessed`'s read, or the `PAYMENT_AFTER_EXPIRY` audit); a history variable nothing reads |
| `Creation` | `invokeProvider` and `CreateOrder`'s error path |
| `Closure` | `cancelCore` with `checkPaid`, for user, administrator and sweep |
| `Notification` | `HandlePaymentNotification`, `confirmPayment`, `toPaid`, `alreadyProcessed` |
| `Lease`, `Delivery`, `Verdict` | `executeFulfillment`, `acquirePaymentFulfillmentLease`, `doBalance`, `doSub`, the rebate, `markCompleted`, `markFailed` |

The webhook answers with what the job returned (`Answer`), and an unsuccessful answer leaves the
provider free to repeat. Any number of jobs may follow one another; the bound is only on how many
run at once.

### PaymentRefund

`taken` is a ledger that the code does not have: the net deduction by refunds of this order. `audits` is the set
of audit actions already inserted; the index makes each insertable once, so an insertion inside a transaction
that repeats one rolls everything back. `gateway` is the provider's refund per amount (the
providers' request ids depend on order and amount). `Spend` is usage drawing on the balance, or days
passing, between any two steps. `PartialFailures` says whether a statement that
reported an error may have taken effect and whether errors that are only logged occur; it is FALSE in the runs. Type correctness, `OwnerIsAlone`, `RefundedIsReturned` and `RefundedIsFinal` are proved
for both values, and `PaymentRefund_safety.cfg` with TRUE and those four properties also passes (7.2 million
states); `TakenOnce`, `OpenHoldsNothing` and `PendingIsRecorded` need FALSE.

### IdempotencyRecord, Idempotency, SystemOperationLock

Every caller reads its clock once and then compares and writes times with that reading. Times are
therefore relative: `record.lock` and `record.expires` are time left, `late[w]` how long ago `w` read its
clock. `knows[w]` says that the row a worker remembers by id is the one that is there (rows are deleted by
the cleanup and inserted anew). `window` and `outlived` are history variables: the time
in which an effect must not be repeated, and whether a record has expired.
`SystemOperationLock` adds a renewal loop per holder: `loop` is on, stopping or off, `due` the time since its
last tick. `buildSystemOperationID` takes an operation's id from the time or, if the request has an `Idempotency-Key`, from
operation, administrator, path and key. `Start` gives every operation an id of its own (`Unused`): what is modelled is different
requests that compete. An operation that is executed again under its key has the id of its predecessor, could renew the
record it reclaims, and is not modelled.

### WalletStore, SettlementRow, BalanceOutbox, LiveWallet

| Model | Code |
|---|---|
| `present`, `wallet`, `watermark` | the Redis hash of the user's live balance, and the id of the last outbox event it includes |
| `attempt[r]` | the hold of one request: state, reserved and actual amount |
| `row[r]` | `billing_balance_settlements`: status, amount, who decided (`by`: with a usage record or without) |
| `balance`, `events`, `out` | `users.balance`, the outbox chain of the user with claim and delivery, and what each outbox worker is about to do |
| `pc`, `seen`, `cost` | the next call of a request, the snapshot it read, and what it used once that is known |
| `rec` | for each recovery goroutine and row the next call, with the copy of the row it listed |
| `PrepareRow` … `UndoHold` | `Preauthorize` and its compensation |
| `TopUpHold`, `Transfer`, `ApplyUsage` … `FinishSettlement`, `Cancel` … `FinishRefund` | the guard of a request: top-up, transfer to the usage recorder, finalise, refund |
| `List`, `Recover…` | the recovery worker: PREPARED rows whose hold exists or not, AUTHORIZED, FINALIZING and REFUNDING rows |
| `Flush` | settling what was charged into `users.balance`, with the trigger switched off for it |
| `ChangeBalance`, `Claim` … `DropEvent`, `Lapse` | any other change of the balance with its trigger; the outbox workers and their leases |
| `Lose`, `DropAttempt`, `ExpireRow`, `Abandon` | Redis loses the user's keys, an attempt's marker expires, a row passes its expiry, the request's process dies |

Details left out: the marker per event beside the watermark, the check of the `initial` value, holds of zero, the legacy
adjustment without a watermark, the clean-up of settled rows and delivered events, rows that were marked TERMINAL. Request
ids are unique and each has one handler. Wallet and watermark are lost together, with all attempts. `Flush` takes one
row per step. Usage that no hold guards is a change of the balance like any other. `StaleSnapshots` says whether a snapshot may be used after
the wallet it would replace was lost a second time; it is FALSE in the runs (see the observations).

### OAuthRefresh

A credentials document is told by the grant it belongs to (a reauthorisation starts a new one), the turn of its refresh
token and a revision of its other fields. `turn`, `revoked` and `denied` are the vendor's side: an exchange consumes the current turn
of a grant and answers with the next; a token that was used before is refused (the code knows by the words of the error that
the token is gone). A vendor may also refuse a token that is good (`Deny`: `access_denied`, an explicit denial of entitlement or
subscription); the code takes those words for final as well and puts the account into error
(`token_refresh_service.go:986-1016`, `1406-1439`). Only what is about the client or its scope, and the 403 a Grok client labels
without evidence, leaves the account alone (`970-983`, "skip"). `row` is the account in the database,
`mutex` and `lease` the local lock and the lock in Redis, which any holder's release deletes. `work[w]` is a refresh loop
or a request: `Inside` names the calls of `RefreshIfNeeded`, `After` what its caller does with the result (clear an error,
quarantine, cool down). `grok` chooses between the two kinds of accounts the code distinguishes: a Grok account is
written, and put into error, only while its document is the one read before the exchange; the others always.
`MayExpire` says when the lease of an attempt can run out: an attempt takes at most 55 s and its clean-up 2 + 2 s, the
lease 60 s, so only a stall (a fault) or a request of a vendor without a deadline outlives it. `history` names the mishaps that a
guarantee does not survive, and each property says which ones it leaves out. A write in flight at a crash has happened or has
not. The module is about vendors that rotate refresh tokens. Google's do not, so Gemini and Antigravity accounts are outside it, with
the `missing_project_id` that blocks one and the cooldown that an Antigravity request sets after an error
(`antigravity_token_provider.go:105-110`, `193`).

### BatchImageStore, BatchImage

| Model | Code |
|---|---|
| `job` | the row of `batch_image_jobs`: status, whether the provider's name is stored, error code, retries, cost, age |
| `account` | balance and frozen balance of the user, with the rows of `usage_billing_dedup` that make each movement of the hold happen once; `others` is what other jobs have frozen; the claim `"nothing"` marks a release that found no hold |
| `queue`, `lock` | inflight key, ready list, delayed and active sets of Redis; the job's lock |
| `upstream` | the provider's job |
| `submit`, `user` | `Submit` with `releaseFailedSubmitHold` and `abortOrphanProviderJob`; `Cancel`, and `Submit` with a known idempotency key |
| `work[w]` | `RunOnce`, `BatchImagePipelineProcessor`, `BatchImageProviderProcessor`, `BatchImageSettlementService` |
| `recovery` | the two loops of `BatchImageBillingRecoveryService` |
| `AgeRow`, `AgeActive`, `LockExpires`, `MoveDueDelayed`, `RecoverStaleActive`, `Advance` | time: cutoffs, heartbeats, leases, delays, the provider |

`Call` is a call that succeeds, fails before its effect, or has its effect and loses the answer; `Attempt` one whose error is
only logged. `hits` names the places where a fault leaves a hold or a provider's job to nobody; a property that excepts some says so,
and each exception was seen to be necessary. Heartbeats keep row, active entry and lock
young while their process works, so these age without a fault only after it is gone. Left out: the items' data and the
manifest (counts do not change while a job settles), output download and clean-up, the deletion of a job by its user, the
inflight key's expiry after seven days, a loss of the Redis queue, costs above the hold (the multipliers rule them out). The end of an
instance is modelled as the end of one process at a time, a client that goes away as the end of its request.

## 3. Runs

| Run | What it asks | Result |
|---|---|---|
| `order` | two goroutines, both order types, a fault: delivery is single, paid for and final; the order implements `PaymentPromise`; a 2xx means settled, recorded as late, or an error the handler itself dropped; every payment is settled in that sense and every overdue order leaves PENDING | holds |
| `refund_safety` | two administrators, a fault, usage in between: single owner, money conserved, REFUNDED is true, the first refund is never left to nobody | holds |
| `refund_stuck` | does every refund end? | violated |
| `idem` | two requests, two payloads, a fault, slow executions: single execution, true replay, once until expiry, and no key blocked for ever | holds |
| `idem_repeat` | do concurrent requests execute once per window? | violated |
| `lock` | three operations, a fault: the operation that inserted the lock keeps it; abandoned locks are freed | holds |
| `lock_shared` | is there never more than one operation? | violated |
| `wallet` | two requests, the recovery, a fault, a loss of Redis: wallet and balance agree, both stores keep one amount, each request pays once; the wallet implements `PrepaidAccount` | holds |
| `wallet_outbox` | one request, two balance changes, two outbox workers, a fault: the same, and every change is included once, in order, and delivered; every row is settled | holds |
| `oauth` | two refresh loops and a request in two instances, the administrator, a fault, Grok and other accounts: the rotated token is kept, nobody is blocked but for a refused token or a denial, what is due is dealt with | holds |
| `batch` | a job, two workers, recovery, one call of the user, two faults: the hold moves once, agrees with the status, is closed; refunded jobs do not run on | holds |
| `batch_leak` | does a failed or cancelled job give its hold back? | violated |

Properties, in the words of the code:

- `DeliveredOnce`, `PaidIsNeverClosed`: no lock protects delivery; these say that the redeem code's compare-and-set,
  the unique audit rows and the conditional UPDATEs are together enough. `KeepsPromise` is the refinement: with
  `received`, `delivered`, `decided`, `settled` mapped to the order's state, every step is a step of `PaymentPromise` or a
  stutter; so nothing is delivered unpaid, completed undelivered or taken back.
- `AckMeansSettled`, `PaidSettles`, `OverdueLeavesPending`: no payment is lost between provider and order. The first two
  except `blind`, the handlers that drop their own error (see the observations); they say that this is the only way: a
  crash, a lost lease, a failed statement of the fulfilment or of a closing job never earns a 2xx, nor ends the repetition.
- `OwnerIsAlone`: only the UPDATE to REFUNDING is guarded; everything its winner writes later is by id.
- `TakenOnce`, `OpenHoldsNothing`, `PendingIsRecorded`: what refunds hold of the user's is bounded by the
  order, is nothing when the order is open again, and is what the audit of a pending refund says.
- `RefundedIsReturned`, `FirstRefundIsOwned`: REFUNDED tells the truth; without faults a REFUNDING order has a
  worker that will move it on, until a first refund was left pending.
- `OneExecution`, `ReplayIsTrue`, `OnceBeforeExpiry`, `ProcessingEnds`: what an idempotency key promises.
- `CreatorKeepsLock`, `AbandonedLockIsFreed`: what the lease promises.
- `Conserved`: wallet = balance − holds − charges and changes one of the stores has not heard of, at every moment.
- `SameAmountInBothStores`, `NothingHeldAtTheEnd`, `ServedIsCharged`: the request and the recovery may both settle an expired row.
  `KeepsAccount` is the refinement of `PrepaidAccount`: one verdict per request, one charge per verdict.
- `InOrder`, `AcknowledgedIsIncluded`, `EventsAreDelivered`, `SettlementEnds`: the outbox delivers at least once, the wallet counts once.
- `TokenIsKept`, `OneRefreshAtATime`, `QuarantineIsDeserved`, `ReauthorizationStays`, `DueIsDealtWith`: what the two locks, the
  reread and the conditional writes are for. `QuarantineIsDeserved` lets an account be in error if its token is refused or its grant
  was denied; what it excludes is an account that somebody else refreshed or reauthorised meanwhile and that is blocked for the old document.
- `OthersStayFrozen`, `CompletedIsCharged`, `OneWorker`, `RefundedIsStopped`, `HoldIsClosed`, `CapturedIsCompleted`: the frozen
  balance is one pool for all jobs of a user, and billing, status, queue and provider are four places written one after the other.


### What the violated runs show

| Run | Disagreement |
|---|---|
| `refund_stuck` | `markRefundPending` inserts an audit action that is unique per order; the second pending refund of an order rolls back and leaves it REFUNDING for ever |
| `idem_repeat` | `TryReclaim` compares id, status and lock but not the expiry that made the reader reclaim, so a reader of an expired record takes over the one just renewed and finished |
| `lock_shared` | `TryReclaim` keeps the old fingerprint and `ExtendProcessingLock` asks for the new one, so an operation that reclaimed the lock is never renewed |
| `batch_leak` | a cancellation between the creation of a job and its reservation claims the release while there is nothing to release; the reservation then succeeds, and every later release is answered as done: the money stays frozen |

None of the four needs a fault.

### Observations without a run

The models show these too; they need faults, or are exceptions that a property names.

Orders and refunds:
- `confirmPayment` and `alreadyProcessed` return nil when the order cannot be read, and `alreadyProcessed` also when the
  `PAYMENT_AFTER_EXPIRY` audit could not be inserted (`payment_fulfillment.go:205-210`; `writeAuditLog`, `payment_stats.go:180-186`,
  only logs the error). The provider gets its 2xx and stops repeating: a late payment is then recorded nowhere, any
  other waits for a verification or a closing job that asks the provider. The comment at `payment_webhook_handler.go:102-104`
  warns of exactly that loss. These returns are `ReturnBlindly`, a fault each, and `blind` remembers them.
- The lease version is read back in a second statement (`payment_fulfillment.go:299`); a worker that stalls in between adopts its
  successor's version and may fail the order under it, against the comment at line 856. The delivery stays single and the order is retried.
- A `REFUND_ROLLBACK_FAILED` audit of a smaller attempt makes a larger one skip its whole deduction (`payment_refund.go:309`).
- A payment that arrives after the grace window leaves at most an audit row; an order whose creation failed cannot be retried;
  if a rollback and the audit of its failure both fail, a retry deducts a second time (`PartialFailures = TRUE`).

Live wallet:
- If marking a row AUTHORIZED commits but reports failure, and the compensation's first statement fails too, the row
  is AUTHORIZED while its hold was given back, and the recovery never finishes it (two faults).
- With `StaleSnapshots = TRUE` a worker that read its snapshot before the wallet was lost a second time rebuilds it without
  what was charged in between; `Conserved` then fails.
- AUTHORIZED and FINALIZING rows whose attempt is lost stay open by design: the code prefers that to guessing.

OAuth:
- For accounts that are not Grok's the error status is written unconditionally after both locks were released
  (`oauth_refresh_api.go:281-283` says why the lock is needed), so an account reauthorised meanwhile may be blocked.
- An edit that overlaps a refresh writes the consumed token back; for Grok the rotated one is dropped. A manual refresh takes no lock.
- A reauthorisation whose `ClearAccountError` fails leaves a valid token under status error.
- If Redis fails, two instances go on without the lock and exchange the same token.
- A denied grant is put into error with a refresh token that is still valid, and stays so until an administrator acts, even if
  another worker obtains and stores a successor: the write of a Grok document compares credentials, not the status.
- A Grok request takes the label `grok_oauth_entitlement_denied`, which its client gives to every 403 of the token endpoint, and a
  missing proxy for permanent (`grok_credential_failure.go:263-266`); the refresh loop deliberately does not (`token_refresh_service.go:970-975`).

Batch images (one fault each unless said otherwise):
- A cancellation that read the row before the provider's name was stored cancels a job that is then submitted: the
  hold is returned and the provider works on. No fault.
- A hold stays frozen if a commit's answer is lost when reserving, storing the provider's name, failing or cancelling; if the process ends
  between storing the name and enqueueing, or between a transition and its release; or if the retry of a release cannot be enqueued.
- The provider accepts and its answer is lost, or the abort fails: a provider's job that nobody follows.
- A capture that commits without an answer at the last retry is released as well, out of what other jobs have frozen. The
  same happens with a capture whose worker dies if later ones fail until the retries have run out (three faults), and a `QUEUE_FAILED` note that
  arrives late over an exhausted settlement lets it be captured after its release. `hits` names these as `capture` and `late`.
- An error of the database while indexing fails the job for good; output that can never be opened is retried for ever.
- When the lock lapses, a second worker may take a settling job out of the queue or settle it a second time.

### Bounds

| Bound | Value | Why it is enough |
|---|---|---|
| workers of orders, refunds, keys, batch jobs | 2 | every race is between one that checks and one that acts; jobs follow each other without bound, so a third party can be played by a worker that finished. `lock` was also run with three workers and four ids |
| `MaxFaults` | 1; 2 in `batch`; 0 where a violation needs none | one crash or lost answer at any point, and recovery from it. Safety was also run with 2 for orders (1.7 million states) and OAuth (7.1 million), and with 3 for batch images (one retry, 1.8 million) |
| `GraceTicks`, `LeaseTicks` | 1 | the code only asks whether a window has passed; equal windows let both orders happen |
| `Amount`, `Wallets`, `Overdraft` | 2, 3, 1 (`refund_stuck`: 2, 2, 0) | a partial and a full refund; a balance that is enough, exactly enough and (after `Spend`) too small, or already negative |
| idempotency `Ttl`, `Timeout`, `Backoff`, `MaxLate`, `MaxStall` | 3, 2, 1, 2, 1 | an execution (`MaxLate`) may outlast its lock (`Timeout`) but not its record (`Ttl`): the code's 24 h against minutes; the statements before it (`MaxStall`) take less than the timeout |
| lock `Ttl`, `Timeout`, `RenewInterval` | 8, 6, 2 | the code's renewal interval is a third of the lease: one renewal may be lost |
| wallet `Hold`, `TopUpTarget`, `Costs`, `Balances` | 2, 3, {0, 4}, {3} | a use that is free or above every hold; a balance for one hold but not for two, so that the requests compete |
| `wallet`: requests, events, losses | 2, 0, 1 | two requests share a wallet and a rebuild; one request with events and one loss was run too (3.0 million states) |
| `wallet_outbox`: requests, events, outbox workers | 1, 2, 2 | two changes can be confused in their order, two workers in their claims; no loss, because rows that a loss leaves open would refute `SettlementEnds` by design |
| OAuth grants, turns, revision, attempts, requests, operations | 2, 2, 1, 2, 1, 1 | one rotation and one reauthorisation; three turns, two operations or two requests were run for safety (2 to 9 million states) |
| batch `Hold`, `Costs`, `Balances`, `Frozen`, `MaxRetries`, `MaxCalls` | 2, {1}, {1, 3}, {0, 2}, 2, 1 | a balance below and above the hold; other jobs with and without something frozen, which a second release could take; a retry that is not the last; `MaxCalls` 2 was run too (1.3 million states) |

CHECK_DEADLOCK is off where the system may rest: a cancelled or refunded order, a settled wallet, an account that needs
nothing, a finished job. The idempotency and lock runs check deadlock. Only `refund_safety` uses symmetry: it has no
liveness property, and no action or property tells workers apart.

### Fairness

- Orders: a job that started goes on (goroutines are scheduled, statements return or fail); time passes; the expiry sweep runs every
  minute (`payment_order_expiry_service.go`), so it is strongly fair among other jobs; a provider repeats
  a notification until it has a 2xx, also strongly fair. Users, administrators and payers owe nothing.
- Refunds (`refund_stuck`): only the steps of a request that was accepted are fair. Starting one, or querying a pending one, is up to people.
- Idempotency: requests go on, the cleanup ticker runs, time passes. No further request need come.
- Lock: everything goes on except the operation itself, which may run for ever.
- Wallet: requests, flush, recovery and outbox workers go on and rows expire (tickers, `WF`); the listing of the recovery is strongly fair,
  since other transitions take a row in and out of its condition; the lease of a worker that is gone runs out. Changes of the balance owe nothing.
- OAuth: attempts go on, the loops run (a ticker per instance), leases and cooldowns end. Only `MaxRefreshes` requests
  come to refresh, so it is assumed that requests do not hold the lease at every cycle of the loops.
- Batch images: requests that started, the loops and every worker go on; cutoffs, heartbeats of dead processes, locks of dead holders
  and delays run out; the provider ends its jobs. Faults and further calls of the user owe nothing.


## 4. Proofs

`tlapm` checks every leaf. Constants are arbitrary, subject to the named assumptions of the modules.

**PaymentOrderProofs.** From `Spec`: `TypeCorrect`, `DeliveryIsOnce`, `CompletionIsDelivery`,
`DeliveryIsPaid`, `PaidStaysOpen`, `CompletionIsFinal`, `FulfilmentKeepsPromise`, `AckIsSettled`.
The safety properties are not inductive: that a delivery is single depends on which statement each worker has
reached. `IInv` adds `Ledger` (a credit exists exactly if the code is used, a grant exactly if its audit row
is there, an accrual exactly if the claim says APPLIED), `Unpaid` (an unpaid order has no payment state), and
`WorkersOK`, what every `pc` implies (a worker beyond `toPaid` works for a paid order, one at the
rebate or at `markCompleted` for a delivered one). There is one lemma per action; the refinement follows from a
lemma per group of actions that relates the step to `PaymentPromise`.

**PaymentRefundProofs.** From `Spec`: `TypeCorrect`, `SingleHolder`, `RefundMeansReturned`, `RefundStays`,
`FirstRefundOwned`. The last is inductive given `IInv`: a step that leaves a holder's `pc` without another fault either hands the order to the
next holder's `pc` or writes a status other than REFUNDING; only the unique audit row could refuse that, and the premise excludes it.
With `~PartialFailures`: `NeverTakesTwice`, `ReopenedWhole`, `PendingAuditIsTrue`. `IInv` contains `OwnerIsAlone`
together with what the holder's plan says; `MoneyInv` adds `Accounted`, which equates `taken` with the
deduction recorded in the only place that can know it at each moment (the holder's plan, or the audit of a pending refund), and
`Skipped` for orders where a rollback has failed.

**IdempotencyProofs.** Under `TimingOK`, that is `MaxStall < Timeout` and `MaxLate < Ttl` (statements before an
execution take less than the processing timeout, an execution less than the record's TTL): `TypeCorrect`, `OneAtATime`, `KeyKeepsPayload`,
`AnswersAreTrue`, `OnceUntilExpiry`. `IInv` needs `OwnsRow` (an executing request knows the row, which is
processing, and its expiry is still ahead) and `Outpaced` (any request still on its way to a reclaim is
refused by the row an executing one owns). `EffectInv` carries the effect: while its window is open,
the row is there, is not failed, and nobody holds a reading that would let it reclaim. Without `TimingOK` the
statements are false: the cleanup may delete the row of an execution that outlasts it.

**SystemOperationLockProofs.** Under `RoomForFaults`, `(MaxFaults + 1) * RenewInterval + MaxLate < Timeout` (the code's
lease of three intervals has room for one failing renewal): `TypeCorrect`, `RenewalGoesOn`, `LockIsKept`. The
invariant is a ledger of the lease: what is left of it, plus the time since the last tick, is at least the whole lease less
one interval per fault (`Safe`). It needs that ids of running operations differ and that the id of the row is the one of
its inserter only (`OpsOK`), so that an operation that reclaimed the row is not taken for its creator.

**LiveWalletProofs.** From `Spec`, for any requests, recoveries, outbox workers and costs: `TypeCorrect`, `SameAmount`,
`NothingStaysHeld`, `UseIsCharged`, `VerdictStays`, `AccountKept` (the refinement of `PrepaidAccount`), `ChangesInOrder`;
with `~StaleSnapshots` also `AcknowledgedChangesAreIncluded`. `IInv` is `TypeOK`, `EventsOK` (the outbox is a chain) and, for every
request, `LocalOK`: what the status of the row says of the attempt (`AttemptOK`), what the call a request or a recovery is about to make
says of both (`RequestOK`; `RecoveryOK`, which relates the copy of the row a recovery listed to the row as it is now), and what is
known of the cost (`CostOK`). A step changes the part of one request only, so a lemma per action shows `LocalOK` of its
request and a frame lemma the others. `AcknowledgedIsIncluded` needs `AckOK` in addition: whatever worker is about to
rebuild the wallet read its snapshot no earlier than the acknowledgements that the wallet then lacks.

`WalletConserved` states `Conserved` for any finite set of requests (without `IsFiniteSet(Requests)` a sum over them means nothing),
with `~StaleSnapshots`. As induction over sets is out of the prover's reach, sums are reasoned about with tables: `SumExists`
takes a smallest subset without a table (`FS_StrictSubsetOrderingWellFounded`), from which one element can be taken out, and `SumWithout` shows in the
same way that any element may be taken out first. From these follow `SumSame`, `SumChange` (one term changes) and, for the changes to be
told, `UntoldFirst` and `UntoldMore`. The sums of the model, `MapThenSumSet`, are such tables by definition. The invariant is `IInv /\ SumsOK`:
while the wallet is present, the equation, a watermark within the chain, and that a request about to complete a settlement (`Settling`) has a
finalized attempt in the wallet; while it is absent, no attempts, and every snapshot from which a request or worker may still
create it is `Exact` (nothing is due, and the balance is that of the snapshot plus the later changes). TLC checked this
invariant on both wallet configurations before it was proved. One lemma per kind of step says what it moves: `OrderlyStatement` and
`OrderlyScript` compare what becomes due with what the wallet loses, `SumsOfFlush` moves a charge from what is due into the balance.

**BatchImageProofs.** From `Spec`, for any workers, faults, calls, retries and amounts: `TypeCorrect` (which includes that no
balance becomes negative), `WorkerAlone`, `RefundedStaysStopped`, `EndStays`. The argument is rely and guarantee. Each process keeps its
own knowledge of the row: `SubmitOK` for how far the submission has got, `OthersOK` for the user's call and the recovery, `WorkerOK(w)`
for a worker; `ProviderOK` says for whom the provider works, `BackOK` when a release may have been claimed. Every step
of a process is shown to be `Steady`: jobs that are over, or late in their life, stay so, a name stays stored, a provider's job that ended
stays ended; and what a process knows is stable under steady steps (`Undisturbed`). All but the submission do even less (`Calm`),
which one lemma turns into the invariant of the row. `LockOK` (who works has the lock, unless one lapsed) is inductive by itself.

**BatchImageMoneyProofs.** `PoolIsKept` and `EndMatchesCharge`, on top of the invariant above. What holds whatever lapses is `Base`: a
name is stored only for a held job, a release that found no hold says so, and retries that have run out are recognised by their code or
hidden by a late "QUEUE_FAILED" (`CodesOK`). As long as the state is not `Overdrawn`, which is shown to be stable, `MoneyOK` holds too:
the pool (`FrozenOK`), who may be charged (`PaidOK`, `CompletedOK`), when a job to be settled may have been released
(`BackSettling`), and what the worker knows between reading the row, capturing and writing (`SettleOK`). Steps beside the workers
(`Aside`) reserve, or release what is not being settled; a worker that writes (`Busy`) is alone by `LockOK`, so nobody else's
knowledge can go stale.

**OAuthRefreshProofs.** From `Spec`, for any instances, workers, grants, turns and operations: `TypeCorrect`, `RefreshesAreApart`,
`TokenStaysKept`, `QuarantineStaysDeserved`, `ReauthorizationHolds`. `Documents` is the type invariant with what it needs (every document
around was given by the vendor, a token of the last turn never comes due, so none is exchanged). `LeaseHeld` ties each worker past the lock to the
lease. The other invariants only care about documents, so they are proved on eight kinds of coarser steps (`Quiet`, `Reads`, `Rotates`, `Refuses`,
`Stores`, ...), to which one lemma takes every action but the administrator's (`FromAfar`). `Carried` says why no successor is lost even
without any lock: a successor that is not stored is with one worker, which found the stored document, and nobody else has a token of
that turn. Quarantine needs two arguments, as the code has two: for Grok, `RefusedForGood` (a document that is marked anywhere, in the
account, in an administrator's copy or with a worker about to block, is invalid and not the one somebody is replacing, unless its grant was
denied, which nothing takes back); for the others,
`StuckForGood` (as a refusal is met while nobody else is past the lock, what is stored has lost its successor for ever or its grant was denied, so that
blocking without a comparison is right until an administrator reauthorises).

**Only model-checked:** all liveness (`SettlementEnds` and the other properties under fairness are out of the prover's reach) and the
violated statements. Every safety property that a run checks is also a theorem. The type invariants of modules with proofs are theorems rather than checked by a run, except for batch images, where it carries the balance.

## 5. Plan

1. `SchedulerOutbox`: transactions that commit out of the order of their ids, the watermark, cleanup and full rebuilds.
2. `UserMsgQueue`: lock scripts, index, reconciliation; no lock without TTL stays out of the index for ever.
3. `PaymentSystem`: one order and its refund composed from `PaymentOrder` and `PaymentRefund` (`INSTANCE`), with order
   limits; concurrency slots.

A new component replaces the least telling of the present runs and properties rather than adding to their number: twelve runs
and forty properties are what can be looked after.

## 6. Not modelled

Of the components that are modelled in part:

- OAuth refresh: the access-token cache and its invalidation (`oauth_refresh_api.go`, `*_token_provider.go`), paging and concurrency limits of the loop, the circuit
  breaker, privacy settings, a vendor's period of grace for a used token. They decide which
  accounts come up and when, not what a refresh may do to a document. Vendors whose refresh token does not rotate (Google's), and
  accounts that lack a token: a document of the model carries both, so the errors for a missing one
  (`openai_token_provider.go:160-167`, `grok_credential_failure.go:253-254`) do not arise.
- Batch images: items and manifest, downloads, clean-up of input and output objects, a user's deletion of a record, the
  provider's file references, the expiry of the inflight key after seven days, a loss of the Redis queue (nothing in the code rebuilds it
  but the recovery of jobs whose enqueueing failed).
- Live wallet, as listed in section 2.

Whole components:

- User message queue, scheduler snapshot, order limits, concurrency slots: planned, see section 5; the last three keep their promises only
  approximately by the design of the code, and their hazards are listed.
- Usage recording, session limits, RPM and quota counters: counters whose loss or double count is accepted.
- Leader locks: each protects a job whose steps are idempotent or are modelled with two instances running.
- Account scheduling, sticky sessions, failover, the OpenAI WebSocket pool, protocol conversion: sequential decisions per request
  and conversion of data; their state is heuristic.
- Pricing arithmetic: decimal computations without shared state.
- Redeem and promo codes outside payments, affiliates, subscriptions, login, administration, moderation, monitoring, plugins, frontend: single
  transactions, or outside the core of this system.
- `ent/`: generated code, half of the repository's lines.
