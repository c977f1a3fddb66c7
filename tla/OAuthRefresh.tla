---------------------------- MODULE OAuthRefresh ----------------------------
(***************************************************************************)
(* The refresh token of one upstream account.  The vendor rotates it: an   *)
(* exchange consumes the token and answers with its successor, which has   *)
(* to reach the account's row.  The refresh loop of every instance and the *)
(* requests that find the access token about to expire go through          *)
(* OAuthRefreshAPI, under a mutex of the process and a lease in Redis that *)
(* has no owner; an administrator reauthorizes, refreshes by hand or edits *)
(* the account without either.                                             *)
(*                                                                         *)
(* A credential document is told by the grant it belongs to, the turn of   *)
(* its refresh token in that grant and the revision of its other fields.   *)
(* The vendors in scope are those whose refresh tokens rotate (not Google).*)
(* grok says how the account is written: Grok accounts only while the      *)
(* document is the one read before the exchange, all others always.        *)
(***************************************************************************)
EXTENDS Integers, FiniteSets

CONSTANTS
    Background,   \* the refresh loops, one per instance
    Requests,     \* request handlers that refresh before they forward
    Instances,
    InstanceOf,   \* the instance a worker runs in
    None,
    MaxGrants, MaxTurns, MaxRevision,   \* bounds on documents
    MaxAttempts,                        \* maxRetries
    MaxRefreshes,                       \* requests that come to refresh
    MaxAdmin,                           \* operations of the administrator
    MaxFaults

Workers == Background \cup Requests

ASSUME RefreshAssumption ==
    /\ InstanceOf \in [Workers -> Instances]
    /\ None \notin Workers
    /\ MaxGrants \in Nat \ {0} /\ MaxTurns \in Nat \ {0} /\ MaxRevision \in Nat
    /\ MaxAttempts \in Nat \ {0}
    /\ MaxRefreshes \in Nat /\ MaxAdmin \in Nat /\ MaxFaults \in Nat

VARIABLES
    grok,             \* is it a Grok account
    turn, revoked,    \* the vendor: current turn of every grant, 0 if not given
    denied,           \* grants refused for something else than their token
    row,              \* the account in the database
    fresh,            \* tokens whose access token is not about to expire
    mutex,            \* per instance: who holds the local lock
    lease,            \* who set the lock in Redis; its value is 1
    work,             \* the workers
    admin,            \* the administrator's operation
    authorized,       \* the grant of the last reauthorization written
    left,             \* requests, operations and faults still to come
    history           \* mishaps so far that a guarantee may not survive

vendor == <<turn, revoked, denied, fresh>>
locks  == <<mutex, lease>>
vars   == <<grok, vendor, row, locks, work, admin, authorized, left, history>>

Grants == 1..MaxGrants
Docs   == [grant : Grants, turn : 1..MaxTurns, rev : 0..MaxRevision]
Tokens == [grant : Grants, turn : 1..MaxTurns]
Rows   == [doc : Docs, status : {"active", "error"}, cooldown : BOOLEAN]

Token(d)    == [grant |-> d.grant, turn |-> d.turn]
FirstOf(g)  == [grant |-> g, turn |-> 1, rev |-> 0]
NextOf(d)   == [d EXCEPT !.turn = @ + 1]
Valid(d)    == d.grant \notin revoked /\ turn[d.grant] = d.turn
NeedsRefresh(d) == Token(d) \notin fresh

\* Where RefreshIfNeeded is, what it is about to return, what its caller does.
Inside  == {"lock", "reread", "exchange", "persist", "recheck"}
Results == {"ok", "skip", "dead", "retry"}
After   == {"clear", "quarantine", "cool"}
Work == [at : {"idle", "queued"} \cup Inside \cup Results \cup After,
         account : Docs,          \* the document its caller goes by
         used : Rows,             \* the account read before the exchange
         next : Docs,             \* what the vendor answered
         holds : BOOLEAN,         \* it will release the lock in Redis
         attempt : 1..MaxAttempts]
NoRow  == [doc |-> FirstOf(1), status |-> "active", cooldown |-> FALSE]
NoWork == [at |-> "idle", account |-> FirstOf(1), used |-> NoRow,
           next |-> FirstOf(1), holds |-> FALSE, attempt |-> 1]

NoAdmin == [at |-> "idle", op |-> "edit", copy |-> NoRow, doc |-> FirstOf(1)]

Mishaps == {"redis", "lapse", "crash", "timeout", "write",
            "edit", "manual", "reauth", "clear"}

TypeOK ==
    /\ grok \in BOOLEAN
    /\ turn \in [Grants -> 0..MaxTurns] /\ revoked \subseteq Grants
    /\ denied \subseteq Grants
    /\ row \in Rows /\ fresh \subseteq Tokens
    /\ mutex \in [Instances -> Workers \cup {None}]
    /\ lease \in Workers \cup {None}
    /\ work \in [Workers -> Work]
    /\ admin \in [at : {"idle", "exchange", "read", "write", "clear"},
                  op : {"edit", "manual", "reauth"}, copy : Rows, doc : Docs]
    /\ authorized \in Grants
    /\ left \in [refreshes : 0..MaxRefreshes, admin : 0..MaxAdmin,
                 faults : 0..MaxFaults]
    /\ history \subseteq Mishaps

Init ==
    /\ grok \in BOOLEAN
    /\ turn = [g \in Grants |-> IF g = 1 THEN 1 ELSE 0]
    /\ revoked = {} /\ denied = {}
    /\ row = NoRow /\ fresh = {Token(FirstOf(1))}
    /\ mutex = [i \in Instances |-> None] /\ lease = None
    /\ work = [w \in Workers |-> NoWork] /\ admin = NoAdmin /\ authorized = 1
    /\ left = [refreshes |-> MaxRefreshes, admin |-> MaxAdmin, faults |-> MaxFaults]
    /\ history = {}

-----------------------------------------------------------------------------
At(w, l) == work[w].at = l

NoFault  == UNCHANGED <<left, history>>
Fault    == left.faults > 0 /\ left' = [left EXCEPT !.faults = @ - 1]
Harm(ks) == Fault /\ history' = history \cup ks
JustFault == Harm({})

Goto(w, l) == work' = [work EXCEPT ![w].at = l]
Done(w)    == work' = [work EXCEPT ![w] = NoWork]

\* RefreshIfNeeded is about to return the document its caller goes by from now on.
Return(w, l, d) == work' = [work EXCEPT ![w].at = l, ![w].account = d]

\* The refresh loop lists active accounts that are due and not cooling down; a
\* request comes with an account whose access token is about to expire.
Pick(w) ==
    /\ At(w, "idle")
    /\ row.status = "active" /\ ~row.cooldown /\ NeedsRefresh(row.doc)
    /\ work' = [work EXCEPT ![w] = [NoWork EXCEPT !.at = "queued", !.account = row.doc]]
    /\ \/ w \in Background /\ UNCHANGED left
       \/ /\ w \in Requests /\ left.refreshes > 0
          /\ left' = [left EXCEPT !.refreshes = @ - 1]
    /\ UNCHANGED <<grok, authorized, vendor, row, locks, admin, history>>

Lock(w) ==
    /\ At(w, "queued") /\ mutex[InstanceOf[w]] = None
    /\ mutex' = [mutex EXCEPT ![InstanceOf[w]] = w]
    /\ Goto(w, "lock")
    /\ NoFault /\ UNCHANGED <<grok, authorized, vendor, row, lease, admin>>

\* SET NX.  After an error the refresh goes on without the lock, which may be set
\* all the same.
Acquire(w) ==
    /\ At(w, "lock")
    /\ \/ /\ lease = None /\ lease' = w /\ NoFault
          /\ work' = [work EXCEPT ![w].at = "reread", ![w].holds = TRUE]
       \/ lease # None /\ Goto(w, "skip") /\ NoFault /\ UNCHANGED lease
       \/ /\ Harm({"redis"}) /\ Goto(w, "reread")
          /\ lease' \in {lease} \cup IF lease = None THEN {w} ELSE {}
    /\ UNCHANGED <<grok, authorized, vendor, row, mutex, admin>>

\* A request for a Grok account also asks that it is not cooling down.
Wanted(w) ==
    /\ row.status = "active" /\ NeedsRefresh(row.doc)
    /\ ~(grok /\ w \in Requests /\ row.cooldown)

Reread(w) ==
    /\ At(w, "reread")
    /\ \/ /\ Wanted(w) /\ NoFault
          /\ work' = [work EXCEPT ![w].at = "exchange", ![w].used = row]
       \/ ~Wanted(w) /\ Return(w, "skip", row.doc) /\ NoFault
       \/ JustFault /\ Goto(w, "skip")
    /\ UNCHANGED <<grok, authorized, vendor, row, locks, admin>>

-----------------------------------------------------------------------------
\* The vendor takes a valid refresh token once.
Rotate(d) ==
    /\ Valid(d)
    /\ turn' = [turn EXCEPT ![d.grant] = @ + 1]
    /\ fresh' = fresh \cup {Token(NextOf(d))}
    /\ UNCHANGED <<revoked, denied>>

\* The vendor refuses a token that is good: access denied, no entitlement, no
\* subscription; or a request for a Grok account finds no proxy to go through.
Deny(d) == denied' = denied \cup {d.grant} /\ UNCHANGED <<turn, revoked, fresh>>

\* A refusal is rechecked if it says invalid_grant; other words for it are final,
\* be they about the token or about what it gives access to.
Exchange(w) ==
    LET d == work[w].used.doc IN
    /\ At(w, "exchange")
    /\ \/ /\ Rotate(d) /\ NoFault
          /\ work' = [work EXCEPT ![w].at = "persist", ![w].next = NextOf(d)]
       \/ /\ ~Valid(d) /\ NoFault /\ UNCHANGED vendor
          /\ Goto(w, "recheck") \/ Return(w, "dead", d)
       \/ /\ JustFault /\ UNCHANGED vendor
          /\ \/ Return(w, "retry", d)    \* the vendor was not reached
             \/ Return(w, "skip", d)     \* its client or scope is refused
       \/ JustFault /\ Deny(d) /\ Return(w, "dead", d)
    /\ UNCHANGED <<grok, authorized, row, locks, admin>>

\* tryRecoverFromRefreshRace: has another worker stored a successor meanwhile?
Recheck(w) ==
    LET d == work[w].used.doc IN
    /\ At(w, "recheck")
    /\ \/ Token(row.doc) # Token(d) /\ Return(w, "skip", row.doc) /\ NoFault
       \/ Token(row.doc) = Token(d) /\ Return(w, "dead", d) /\ NoFault
       \/ JustFault /\ Return(w, "dead", d)      \* the account cannot be read
    /\ UNCHANGED <<grok, authorized, vendor, row, locks, admin>>

\* Variants for testing: the document the caller came with is compared; none is.
MayStoreStale(w) == grok => row.doc = work[w].account
MayStoreAlways(w) == TRUE

\* The condition UpdateGrokOAuthCredentialsIfUnchanged adds to the write.
MayStore(w) == grok => row.doc = work[w].used.doc

Store(w) == row' = [row EXCEPT !.doc = work[w].next]

\* A write under condition answers with the account as it is now.
Found(w) ==
    IF grok THEN [work[w].used EXCEPT !.cooldown = row.cooldown] ELSE work[w].used

Persist(w) ==
    /\ At(w, "persist")
    /\ \/ /\ MayStore(w) /\ Store(w)
          /\ work' = [work EXCEPT ![w].at = "ok", ![w].account = work[w].next,
                                  ![w].used = Found(w)]
       \/ ~MayStore(w) /\ Return(w, "skip", row.doc) /\ UNCHANGED row
    /\ NoFault /\ UNCHANGED <<grok, authorized, vendor, locks, admin>>

\* The write fails, or it succeeds and its answer is lost.
PersistFails(w) ==
    /\ At(w, "persist")
    /\ \/ Harm({"write"}) /\ UNCHANGED row
       \/ MayStore(w) /\ Store(w) /\ JustFault
    /\ Goto(w, IF grok THEN "skip" ELSE "retry")
    /\ UNCHANGED <<grok, authorized, vendor, locks, admin>>

\* The context of the attempt ends; what the vendor answered is dropped.
TimeOut(w) ==
    /\ work[w].at \in {"queued", "dead"} \cup Inside
    /\ Harm(IF At(w, "persist") THEN {"timeout"} ELSE {})
    /\ Goto(w, "retry")
    /\ UNCHANGED <<grok, authorized, vendor, row, locks, admin>>

-----------------------------------------------------------------------------
\* The deferred calls of RefreshIfNeeded: whoever set the lock in Redis, it is
\* deleted; if that fails it stays until it expires.
Unlock(w) ==
    /\ mutex' = [i \in Instances |-> IF mutex[i] = w THEN None ELSE mutex[i]]
    /\ \/ lease' = (IF work[w].holds THEN None ELSE lease) /\ UNCHANGED left
       \/ work[w].holds /\ Fault /\ UNCHANGED lease
    /\ UNCHANGED history

\* What becomes of a result: the refresh loop retries; it and the requests for Grok
\* accounts block the account, and the refresh loop lifts a cooldown it finds.
\* Requests of the other vendors in scope leave the account as it is.
Sequel(w) ==
    LET acts == w \in Background \/ grok IN
    CASE At(w, "ok") /\ w \in Background /\ work[w].used.cooldown -> "clear"
      [] At(w, "dead") /\ acts -> "quarantine"
      [] At(w, "retry") /\ w \in Background /\ work[w].attempt < MaxAttempts -> "queued"
      [] At(w, "retry") /\ (w \in Background => work[w].attempt = MaxAttempts) /\ acts -> "cool"
      [] OTHER -> "idle"

Release(w) ==
    /\ work[w].at \in Results
    /\ Unlock(w)
    /\ LET l == Sequel(w) IN
       work' = [work EXCEPT ![w] =
                  IF l = "idle" THEN NoWork
                  ELSE [NoWork EXCEPT !.at = l, !.account = work[w].account,
                          !.attempt = work[w].attempt + (IF l = "queued" THEN 1 ELSE 0)]]
    /\ UNCHANGED <<grok, authorized, vendor, row, admin>>

\* postRefreshActions ends the cooldown found on the account, or fails to.
Clear(w) ==
    /\ At(w, "clear") /\ Done(w)
    /\ row' \in {row, [row EXCEPT !.cooldown = FALSE]}
    /\ NoFault /\ UNCHANGED <<grok, authorized, vendor, locks, admin>>

\* Variant for testing: the account is blocked whatever it holds by now.
MayBlockAlways(w) == TRUE

\* A Grok account is blocked only while it is active with the document the failed
\* attempt used, by a request only outside a cooldown; all others always are.
MayBlock(w) ==
    grok => /\ row.status = "active" /\ row.doc = work[w].account
            /\ w \in Requests => ~row.cooldown

\* The block may fail, or the cycle end before it.
Quarantine(w) ==
    /\ At(w, "quarantine") /\ Done(w)
    /\ \/ /\ row' = (IF MayBlock(w) THEN [row EXCEPT !.status = "error"] ELSE row)
          /\ NoFault
       \/ JustFault /\ UNCHANGED row
    /\ UNCHANGED <<grok, authorized, vendor, locks, admin>>

\* The cooldown is best effort; it ends by itself.
Cool(w) ==
    /\ At(w, "cool") /\ Done(w)
    /\ row' \in {row} \cup IF MayBlock(w) THEN {[row EXCEPT !.cooldown = TRUE]} ELSE {}
    /\ NoFault /\ UNCHANGED <<grok, authorized, vendor, locks, admin>>

-----------------------------------------------------------------------------
\* The process of an instance dies.
Crash(i) ==
    LET gone == {w \in Workers : InstanceOf[w] = i} IN
    /\ Harm(IF \E w \in gone : At(w, "persist") THEN {"crash"} ELSE {})
    /\ work' = [w \in Workers |-> IF w \in gone THEN NoWork ELSE work[w]]
    /\ mutex' = [mutex EXCEPT ![i] = None]
    /\ UNCHANGED <<grok, authorized, vendor, row, lease, admin>>

\* An attempt of the refresh loop and a request for a Grok account end before
\* their lease does; other requests take as long as their client waits.
Bounded(w) == w \in Background \/ grok

Working(w) == work[w].holds

\* Variants for testing: attempts are not cut to the lease; SET NX without a TTL.
MayExpireUnclamped == lease # None
MayExpireNever == FALSE

MayExpire == lease # None /\ (Working(lease) => ~Bounded(lease))

LeaseExpires ==
    /\ MayExpire
    /\ lease' = None
    /\ history' = history \cup IF Working(lease) /\ ~Bounded(lease) THEN {"lapse"} ELSE {}
    /\ UNCHANGED <<grok, authorized, vendor, row, mutex, work, admin, left>>

CooldownEnds ==
    /\ row.cooldown /\ row' = [row EXCEPT !.cooldown = FALSE]
    /\ NoFault /\ UNCHANGED <<grok, authorized, vendor, locks, work, admin>>

\* The access token of the stored document comes into the refresh window.
ExpireToken ==
    /\ ~NeedsRefresh(row.doc) /\ row.doc.turn < MaxTurns
    /\ fresh' = fresh \ {Token(row.doc)}
    /\ NoFault /\ UNCHANGED <<grok, authorized, turn, revoked, denied, row, locks, work, admin>>

\* The vendor ends a grant on its own.
Revoke ==
    /\ JustFault /\ row.doc.grant \notin revoked
    /\ revoked' = revoked \cup {row.doc.grant}
    /\ UNCHANGED <<grok, authorized, turn, denied, fresh, row, locks, work, admin>>

-----------------------------------------------------------------------------
\* The administrator does one thing at a time.  UpdateAccount reads the whole row
\* and writes it back with what the operation changes.
AdminAt(l) == admin.at = l

Begin(a) == AdminAt("idle") /\ left.admin > 0 /\ admin' = a /\ left' = [left EXCEPT !.admin = @ - 1]

Edit ==
    /\ Begin([NoAdmin EXCEPT !.at = "read"])
    /\ UNCHANGED <<grok, authorized, vendor, row, locks, work, history>>

\* A new grant from the vendor's consent page.
Reauthorize ==
    \E g \in Grants :
        /\ turn[g] = 0 /\ \A h \in Grants : h < g => turn[h] > 0
        /\ Begin([NoAdmin EXCEPT !.at = "read", !.op = "reauth", !.doc = FirstOf(g)])
        /\ turn' = [turn EXCEPT ![g] = 1] /\ fresh' = fresh \cup {Token(FirstOf(g))}
        /\ UNCHANGED <<grok, authorized, revoked, denied, row, locks,
                       work, history>>

\* refreshSingleAccount takes neither lock.
ManualRefresh ==
    /\ Begin([NoAdmin EXCEPT !.at = "exchange", !.op = "manual", !.copy = row])
    /\ UNCHANGED <<grok, authorized, vendor, row, locks, work, history>>

ManualExchange ==
    LET d == admin.copy.doc IN
    /\ AdminAt("exchange")
    /\ \/ /\ d.turn < MaxTurns /\ Rotate(d)
          /\ admin' = [admin EXCEPT !.at = "read", !.doc = NextOf(d)]
          /\ history' = history \cup {"manual"}
       \/ /\ d.turn = MaxTurns \/ ~Valid(d)
          /\ admin' = NoAdmin /\ UNCHANGED <<vendor, history>>
    /\ UNCHANGED <<grok, authorized, row, locks, work, left>>

AdminRead ==
    /\ AdminAt("read") /\ admin' = [admin EXCEPT !.at = "write", !.copy = row]
    /\ NoFault /\ UNCHANGED <<grok, authorized, vendor, row, locks, work>>

\* An edit keeps the secrets it read; it may change other fields of the document.
Written ==
    IF admin.op = "edit"
    THEN {[admin.copy.doc EXCEPT !.rev = r] : r \in {admin.copy.doc.rev} \cup
             {k \in 0..MaxRevision : k = admin.copy.doc.rev + 1}}
    ELSE {admin.doc}

AdminWrite ==
    /\ AdminAt("write")
    /\ \E d \in Written :
          row' = [row EXCEPT !.doc = d, !.status = admin.copy.status]
    /\ admin' = IF admin.op = "reauth" THEN [admin EXCEPT !.at = "clear"] ELSE NoAdmin
    /\ authorized' = (IF admin.op = "reauth" THEN admin.doc.grant ELSE authorized)
    /\ history' = history \cup {admin.op}
    /\ UNCHANGED <<grok, vendor, locks, work, left>>

\* ClearAccountError
AdminClear ==
    /\ AdminAt("clear") /\ admin' = NoAdmin
    /\ row' = [row EXCEPT !.status = "active", !.cooldown = FALSE]
    /\ NoFault /\ UNCHANGED <<grok, authorized, vendor, locks, work>>

AdminFails ==
    /\ admin.at \in {"read", "write", "clear"} /\ admin' = NoAdmin
    /\ Harm(IF AdminAt("clear") THEN {"clear"} ELSE {})
    /\ UNCHANGED <<grok, authorized, vendor, row, locks, work>>

-----------------------------------------------------------------------------
Step(w) ==
    \/ Lock(w) \/ Acquire(w) \/ Reread(w) \/ Exchange(w) \/ Recheck(w)
    \/ Persist(w) \/ Release(w) \/ Clear(w) \/ Quarantine(w) \/ Cool(w)

Time == LeaseExpires \/ CooldownEnds \/ ExpireToken

Admin ==
    \/ Edit \/ Reauthorize \/ ManualRefresh \/ ManualExchange
    \/ AdminRead \/ AdminWrite \/ AdminClear \/ AdminFails

Next ==
    \/ \E w \in Workers : Pick(w) \/ Step(w) \/ PersistFails(w) \/ TimeOut(w)
    \/ \E i \in Instances : Crash(i)
    \/ Time \/ Revoke \/ Admin

Spec == Init /\ [][Next]_vars

\* Attempts go on, the refresh loops come round, leases and cooldowns end.
Fairness ==
    /\ \A w \in Workers : WF_vars(Step(w))
    /\ \A w \in Background : WF_vars(Pick(w))
    /\ WF_vars(LeaseExpires) /\ WF_vars(CooldownEnds)

FairSpec == Spec /\ Fairness

-----------------------------------------------------------------------------
Spared(kinds) == history \cap kinds = {}

\* The token the vendor rotated to is never lost between workers: if the stored one
\* is refused, its grant was ended or a worker still carries the successor, whatever
\* locks expired or were not taken.  What loses it is a crash, a deadline or a failed
\* write between exchange and storage, and an administrator writing at the same time.
TokenIsKept ==
    \/ Valid(row.doc) \/ row.doc.grant \in revoked
    \/ \E w \in Workers : At(w, "persist") /\ Valid(work[w].next)
    \/ ~Spared({"crash", "timeout", "write", "edit", "manual"})

\* While Redis answers and no attempt outlives its lease, one worker at a time is
\* between the account it read and what it stores.
OneRefreshAtATime ==
    \/ ~Spared({"redis", "lapse"})
    \/ \A v, w \in Workers :
          (work[v].at \in Inside \ {"lock"} /\ work[w].at \in Inside \ {"lock"}) => v = w

\* An account is only put in error, and stays so, while its refresh token is refused,
\* or after an exchange with its grant was denied although the token was good.
\* Grok accounts keep that promise when the administrator reauthorizes while a
\* refusal or a denial is on its way to the row; the others do not.
QuarantineIsDeserved ==
    \/ row.status = "active" \/ ~Valid(row.doc) \/ AdminAt("clear")
    \/ row.doc.grant \in denied
    \/ ~Spared({"redis", "manual", "clear"})
    \/ ~grok /\ ~Spared({"lapse", "reauth"})

\* What an administrator authorized is not replaced by what a worker obtained with
\* the grant before it.
ReauthorizationStays == grok => row.doc.grant = authorized

\* An account that needs a refresh is refreshed or blocked.
DueIsDealtWith ==
    (row.status = "active" /\ NeedsRefresh(row.doc))
        ~> (row.status = "error" \/ ~NeedsRefresh(row.doc))
=============================================================================
