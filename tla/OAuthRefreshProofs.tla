-------------------------- MODULE OAuthRefreshProofs --------------------------
(***************************************************************************)
(* Proofs about OAuthRefresh, for any number of instances, workers,        *)
(* attempts, faults and operations of the administrator, and any number of *)
(* grants and turns of their tokens.  Documents gives the types and says   *)
(* where documents come from; on it rest five invariants that do not need  *)
(* each other, except that the last two use the lease.  All but the lease  *)
(* are proved on coarser steps that forget locks and returns.              *)
(***************************************************************************)
EXTENDS OAuthRefresh, TLAPS

Spots == {"idle", "queued"} \cup Inside \cup Results \cup After

Given(d) == d.turn <= turn[d.grant]

\* What a worker carries was given by the vendor; it exchanges a token it found due.
WorkerOK(w) ==
    /\ Given(work[w].account) /\ Given(work[w].used.doc) /\ Given(work[w].next)
    /\ At(w, "exchange") => Token(work[w].used.doc) \notin fresh
    /\ At(w, "persist") => work[w].next = NextOf(work[w].used.doc)
    /\ At(w, "quarantine") => w \in Background \/ grok

AdminOK ==
    /\ Given(admin.copy.doc) /\ Given(admin.doc)
    /\ AdminAt("exchange") => admin.op = "manual"
    /\ AdminAt("clear") => admin.op = "reauth"

\* A token of the last turn never comes due.
LastIsFresh ==
    \A g \in Grants : turn[g] = MaxTurns => [grant |-> g, turn |-> MaxTurns] \in fresh

\* The types, and where documents come from.
Documents ==
    /\ TypeOK /\ Given(FirstOf(1)) /\ Given(row.doc) /\ AdminOK /\ LastIsFresh
    /\ \A w \in Workers : WorkerOK(w)

\* While the lease is spared, whoever is past the lock holds it.
LeaseHeld ==
    /\ grok => "lapse" \notin history
    /\ Spared({"redis", "lapse"}) =>
          \A w \in Workers :
             /\ work[w].at \in Inside \ {"lock"} => work[w].holds
             /\ work[w].holds => lease = w

\* What an operation of the administrator has in hand belongs to the grant in force.
GrantInForce ==
    grok => /\ row.doc.grant = authorized
            /\ admin.at \in {"exchange", "write"} => admin.copy.doc.grant = authorized
            /\ (admin.at \in {"read", "write"} /\ admin.op = "manual") =>
                   admin.doc.grant = authorized

\* The successor of a token is with one worker only, which found the stored document,
\* and nobody else has the successor or looks for it.
CarrierOK(w) ==
    /\ turn[work[w].next.grant] = work[w].next.turn
    /\ row.doc.grant = work[w].next.grant => row.doc = work[w].used.doc
CarrierIsAlone(w, v) ==
    /\ (v # w /\ At(v, "persist")) => work[v].next.grant # work[w].next.grant
    /\ work[v].used.doc.grant = work[w].next.grant =>
           work[v].used.doc.turn < work[w].next.turn
StoredOrCarried ==
    \/ turn[row.doc.grant] = row.doc.turn
    \/ \E w \in Workers : At(w, "persist") /\ work[w].next.grant = row.doc.grant
Unedited == row.doc.rev = 0 /\ \A w \in Workers : work[w].used.doc.rev = 0
NewGrantIsNew ==
    (admin.at \in {"read", "write"} /\ admin.op = "reauth") =>
        /\ admin.doc = FirstOf(admin.doc.grant) /\ turn[admin.doc.grant] = 1
        /\ row.doc.grant # admin.doc.grant /\ admin.doc.grant # 1
        /\ \A w \in Workers : work[w].used.doc.grant # admin.doc.grant

Carried ==
    Spared({"crash", "timeout", "write", "edit", "manual"}) =>
        /\ Unedited /\ StoredOrCarried /\ NewGrantIsNew
        /\ \A w \in Workers : At(w, "persist") =>
              CarrierOK(w) /\ \A v \in Workers : CarrierIsAlone(w, v)

\* Where a document is marked as refused: the account, the copy an administrator will
\* write back, a worker that is about to block the account.  Grants denied for
\* another reason than their token are left out.
Condemned(v) == work[v].at \in {"dead", "quarantine"}
Blocked == row.status = "error" /\ ~AdminAt("clear")
CopyBlocked == AdminAt("write") /\ admin.copy.status = "error"
RefusedDoc(d) ==
    /\ d.grant \notin denied
    /\ \/ Blocked /\ d = row.doc
       \/ CopyBlocked /\ d = admin.copy.doc
       \/ \E v \in Workers : Condemned(v) /\ d = work[v].account

\* Grok: what is marked is refused, and is not what a worker is about to replace.
RefusedForGood ==
    (grok /\ Spared({"redis", "manual", "clear"})) =>
        /\ \A d \in Docs : RefusedDoc(d) =>
              /\ ~Valid(d)
              /\ \A w \in Workers : At(w, "persist") => Token(d) # Token(work[w].used.doc)
        /\ \A v \in Workers : At(v, "recheck") => ~Valid(work[v].used.doc)

\* The successor of what is stored is lost, or the grant has ended or was denied
\* for another reason.
Stuck ==
    \/ 1 \in revoked \cup denied
    \/ /\ row.doc.turn < turn[1]
       /\ AdminAt("write") => admin.copy.doc.turn < turn[1]
       /\ \A w \in Workers :
             /\ At(w, "exchange") => work[w].used.doc.turn < turn[1]
             /\ ~At(w, "persist")

OneGrant ==
    /\ row.doc.grant = 1 /\ \A w \in Workers : work[w].used.doc.grant = 1
    /\ AdminAt("write") => admin.copy.doc.grant = 1
Ordered ==
    /\ AdminAt("write") => admin.copy.doc.turn <= row.doc.turn
    /\ \A w \in Workers : work[w].at \in {"exchange", "persist"} =>
          row.doc.turn <= work[w].used.doc.turn
RefusedSomewhere ==
    \/ row.status = "error" \/ CopyBlocked
    \/ \E w \in Workers : work[w].at \in {"recheck", "dead", "quarantine"}

\* All others: a refusal says that nobody can refresh any more.
StuckForGood ==
    (~grok /\ Spared({"redis", "manual", "clear", "lapse", "reauth"})) =>
        OneGrant /\ Ordered /\ (RefusedSomewhere => Stuck)

-----------------------------------------------------------------------------
(* What the steps of a worker leave in its record.                           *)

\* The others stay where they are.
Only(w) == work' \in [Workers -> Work] /\ \A v \in Workers \ {w} : work'[v] = work[v]

\* Of the fields that say what a worker carries, these stay.
SameUsed(w) == work'[w].used = work[w].used
SameNext(w) == work'[w].next = work[w].next
SameAccount(w) == work'[w].account = work[w].account
SameHolds(w) == work'[w].holds = work[w].holds

LEMMA NoWorkFits == TypeOK => NoRow \in Rows /\ FirstOf(1) \in Docs /\ NoWork \in Work
BY RefreshAssumption DEF NoRow, FirstOf, NoWork, Work, Docs, Rows, Grants

\* A worker that gets another record is the only one that does.
LEMMA RecordLeaves ==
    ASSUME TypeOK, NEW w \in Workers, NEW r \in Work, work' = [work EXCEPT ![w] = r]
    PROVE  Only(w) /\ work'[w] = r
BY DEF Only, TypeOK

LEMMA DoneLeaves ==
    ASSUME TypeOK, NEW w \in Workers, Done(w)
    PROVE  Only(w) /\ work'[w] = NoWork
BY NoWorkFits DEF Done, Only, TypeOK

LEMMA GotoLeaves ==
    ASSUME TypeOK, NEW w \in Workers, NEW l \in Spots, Goto(w, l)
    PROVE  /\ Only(w) /\ work'[w].at = l
           /\ SameUsed(w) /\ SameNext(w) /\ SameAccount(w) /\ SameHolds(w)
BY DEF Goto, Only, TypeOK, Work, Spots, SameUsed, SameNext, SameAccount, SameHolds

LEMMA ReturnLeaves ==
    ASSUME TypeOK, NEW w \in Workers, NEW l \in Spots, NEW d \in Docs, Return(w, l, d)
    PROVE  /\ Only(w) /\ work'[w].at = l /\ work'[w].account = d
           /\ SameUsed(w) /\ SameNext(w) /\ SameHolds(w)
<1> DEFINE r == [work[w] EXCEPT !.at = l, !.account = d]
<1>1. work[w] \in Work
  BY DEF TypeOK
<1>2. r \in Work
  BY <1>1 DEF Work, Spots, Inside, Results
<1>3. /\ r.at = l /\ r.account = d
      /\ r.used = work[w].used /\ r.next = work[w].next /\ r.holds = work[w].holds
  BY <1>1 DEF Work
<1>4. work' = [work EXCEPT ![w] = r]
  BY <1>1 DEF TypeOK, Work, Return
<1> HIDE DEF r
<1> QED BY <1>2, <1>3, <1>4, RecordLeaves
   DEF SameUsed, SameNext, SameHolds

LEMMA AcquireLeaves ==
    ASSUME TypeOK, NEW w \in Workers,
           work' = [work EXCEPT ![w].at = "reread", ![w].holds = TRUE]
    PROVE  /\ Only(w) /\ work'[w].at = "reread" /\ work'[w].holds
           /\ SameUsed(w) /\ SameNext(w) /\ SameAccount(w)
<1> DEFINE r == [work[w] EXCEPT !.at = "reread", !.holds = TRUE]
<1>1. work[w] \in Work
  BY DEF TypeOK
<1>2. r \in Work
  BY <1>1 DEF Work, Spots, Inside, Results
<1>3. /\ r.at = "reread" /\ r.holds = TRUE
      /\ r.used = work[w].used /\ r.next = work[w].next /\ r.account = work[w].account
  BY <1>1 DEF Work
<1>4. work' = [work EXCEPT ![w] = r]
  BY <1>1 DEF TypeOK, Work
<1> HIDE DEF r
<1> QED BY <1>2, <1>3, <1>4, RecordLeaves
   DEF SameUsed, SameNext, SameAccount

LEMMA RereadLeaves ==
    ASSUME TypeOK, NEW w \in Workers,
           work' = [work EXCEPT ![w].at = "exchange", ![w].used = row]
    PROVE  /\ Only(w) /\ work'[w].at = "exchange" /\ work'[w].used = row
           /\ SameNext(w) /\ SameAccount(w) /\ SameHolds(w)
<1> DEFINE r == [work[w] EXCEPT !.at = "exchange", !.used = row]
<1>0. row \in Rows
  BY DEF TypeOK
<1>1. work[w] \in Work
  BY DEF TypeOK
<1>2. r \in Work
  BY <1>1, <1>0 DEF Work, Spots, Inside, Results
<1>3. /\ r.at = "exchange" /\ r.used = row
      /\ r.next = work[w].next /\ r.account = work[w].account /\ r.holds = work[w].holds
  BY <1>1 DEF Work
<1>4. work' = [work EXCEPT ![w] = r]
  BY <1>1 DEF TypeOK, Work
<1> HIDE DEF r
<1> QED BY <1>2, <1>3, <1>4, RecordLeaves
   DEF SameNext, SameAccount, SameHolds

LEMMA ExchangeLeaves ==
    ASSUME TypeOK, NEW w \in Workers, NEW d \in Docs,
           work' = [work EXCEPT ![w].at = "persist", ![w].next = d]
    PROVE  /\ Only(w) /\ work'[w].at = "persist" /\ work'[w].next = d
           /\ SameUsed(w) /\ SameAccount(w) /\ SameHolds(w)
<1> DEFINE r == [work[w] EXCEPT !.at = "persist", !.next = d]
<1>1. work[w] \in Work
  BY DEF TypeOK
<1>2. r \in Work
  BY <1>1 DEF Work, Spots, Inside, Results
<1>3. /\ r.at = "persist" /\ r.next = d
      /\ r.used = work[w].used /\ r.account = work[w].account /\ r.holds = work[w].holds
  BY <1>1 DEF Work
<1>4. work' = [work EXCEPT ![w] = r]
  BY <1>1 DEF TypeOK, Work
<1> HIDE DEF r
<1> QED BY <1>2, <1>3, <1>4, RecordLeaves
   DEF SameUsed, SameAccount, SameHolds

LEMMA PersistLeaves ==
    ASSUME TypeOK, NEW w \in Workers,
           work' = [work EXCEPT ![w].at = "ok", ![w].account = work[w].next,
                                ![w].used = Found(w)]
    PROVE  /\ Only(w) /\ work'[w].at = "ok" /\ work'[w].account = work[w].next
           /\ work'[w].used.doc = work[w].used.doc /\ SameNext(w) /\ SameHolds(w)
<1>1. Found(w) \in Rows /\ Found(w).doc = work[w].used.doc
  BY DEF Found, TypeOK, Work, Rows
<1>2. work[w].next \in Docs
  BY DEF TypeOK, Work
<1> DEFINE r == [work[w] EXCEPT !.at = "ok", !.account = work[w].next, !.used = Found(w)]
<1>3. work[w] \in Work
  BY DEF TypeOK
<1>4. r \in Work
  BY <1>3, <1>1, <1>2 DEF Work, Spots, Inside, Results
<1>5. /\ r.at = "ok" /\ r.account = work[w].next /\ r.used = Found(w)
      /\ r.next = work[w].next /\ r.holds = work[w].holds
  BY <1>3 DEF Work
<1>6. work' = [work EXCEPT ![w] = r]
  BY <1>3 DEF TypeOK, Work
<1> HIDE DEF r
<1> QED BY <1>4, <1>5, <1>6, RecordLeaves, <1>1
   DEF SameNext, SameHolds

LEMMA PickLeaves ==
    ASSUME TypeOK, NEW w \in Workers,
           work' = [work EXCEPT ![w] = [NoWork EXCEPT !.at = "queued", !.account = row.doc]]
    PROVE  /\ Only(w) /\ work'[w].at = "queued" /\ work'[w].account = row.doc
           /\ work'[w].used = NoRow /\ work'[w].next = FirstOf(1) /\ ~work'[w].holds
<1>1. row.doc \in Docs
  BY DEF TypeOK, Rows
<1> QED BY <1>1, NoWorkFits DEF Only, TypeOK, NoWork, Work

LEMMA SequelIn == ASSUME NEW w PROVE Sequel(w) \in {"clear", "quarantine", "queued", "cool", "idle"}
BY DEF Sequel

LEMMA ReleaseLeaves ==
    ASSUME TypeOK, NEW w \in Workers, Release(w)
    PROVE  /\ Only(w) /\ work'[w].at = Sequel(w)
           /\ work'[w].used = NoRow /\ work'[w].next = FirstOf(1) /\ ~work'[w].holds
           /\ Sequel(w) = "idle" => work'[w].account = FirstOf(1)
           /\ Sequel(w) # "idle" => SameAccount(w)
<1>1. CASE Sequel(w) = "idle"
  <2>1. work' = [work EXCEPT ![w] = NoWork]
    BY <1>1 DEF Release
  <2> QED BY <1>1, <2>1, NoWorkFits DEF Only, TypeOK, NoWork
<1>2. CASE Sequel(w) # "idle"
  <2> DEFINE a == work[w].attempt + (IF Sequel(w) = "queued" THEN 1 ELSE 0)
             r == [NoWork EXCEPT !.at = Sequel(w), !.account = work[w].account, !.attempt = a]
  <2>1. work' = [work EXCEPT ![w] = r]
    BY <1>2 DEF Release
  <2>2. work[w].attempt \in 1..MaxAttempts /\ work[w].account \in Docs
    BY DEF TypeOK, Work
  <2>3. Sequel(w) = "queued" => w \in Background /\ work[w].attempt < MaxAttempts
    BY DEF Sequel
  <2>4. a \in 1..MaxAttempts
    BY <2>2, <2>3, RefreshAssumption
  <2>5. /\ r.at = Sequel(w) /\ r.account = work[w].account /\ r.used = NoRow
        /\ r.next = FirstOf(1) /\ ~r.holds /\ r \in Work
    BY <2>2, <2>4, SequelIn, NoWorkFits DEF NoWork, Work, After
  <2> QED BY <1>2, <2>1, <2>5 DEF Only, TypeOK, SameAccount
<1> QED BY <1>1, <1>2

-----------------------------------------------------------------------------
(* Documents                                                                 *)

LEMMA DocFacts ==
    ASSUME NEW d \in Docs
    PROVE  /\ d.grant \in Grants /\ d.turn \in 1..MaxTurns /\ d.rev \in 0..MaxRevision
           /\ Token(d) = [grant |-> d.grant, turn |-> d.turn] /\ Token(d) \in Tokens
           /\ d.turn < MaxTurns => NextOf(d) \in Docs /\ Token(NextOf(d)) \in Tokens
           /\ NextOf(d).grant = d.grant /\ NextOf(d).turn = d.turn + 1 /\ NextOf(d).rev = d.rev
BY RefreshAssumption DEF Docs, Token, Tokens, NextOf

LEMMA FirstFacts ==
    ASSUME NEW g \in Grants
    PROVE  /\ FirstOf(g) \in Docs /\ FirstOf(g).grant = g /\ FirstOf(g).turn = 1
           /\ FirstOf(g).rev = 0 /\ Token(FirstOf(g)) \in Tokens
BY RefreshAssumption DEF FirstOf, Docs, Token, Tokens

LEMMA OneIsGrant == 1 \in Grants
BY RefreshAssumption DEF Grants

\* The vendor only gives later tokens, and what it denied stays denied.
VendorMoves ==
    /\ turn' \in [Grants -> 0..MaxTurns]
    /\ denied \subseteq denied' /\ denied' \subseteq Grants
    /\ \A g \in Grants : turn[g] <= turn'[g]
    /\ \A t \in fresh' \ fresh : t \in Tokens /\ turn[t.grant] < t.turn

LEMMA VendorStays ==
    ASSUME TypeOK, turn' = turn, fresh' \subseteq fresh, denied' = denied PROVE VendorMoves
BY DEF TypeOK, VendorMoves

LEMMA GivenStays ==
    ASSUME TypeOK, VendorMoves, NEW d \in Docs, Given(d)
    PROVE  d.turn <= turn'[d.grant]
BY DocFacts DEF TypeOK, VendorMoves, Given

LEMMA WorkFields ==
    ASSUME TypeOK, NEW w \in Workers
    PROVE  /\ work[w].account \in Docs /\ work[w].used \in Rows /\ work[w].used.doc \in Docs
           /\ work[w].next \in Docs /\ work[w].at \in Spots
BY DEF TypeOK, Work, Rows, Spots

LEMMA RowFields ==
    TypeOK => row.doc \in Docs /\ admin.copy.doc \in Docs /\ admin.doc \in Docs
BY DEF TypeOK, Rows

LEMMA OthersStay ==
    ASSUME Documents, VendorMoves, grok' = grok, NEW v \in Workers, work'[v] = work[v]
    PROVE  WorkerOK(v)'
<1> TypeOK /\ WorkerOK(v)
  BY DEF Documents
<1>1. Given(work[v].account)' /\ Given(work[v].used.doc)' /\ Given(work[v].next)'
  BY WorkFields, GivenStays DEF WorkerOK, Given
<1>2. At(v, "exchange")' => Token(work[v].used.doc) \notin fresh'
  <2>1. work[v].used.doc \in Docs /\ work[v].used.doc.turn <= turn[work[v].used.doc.grant]
    BY WorkFields DEF WorkerOK, Given
  <2>2. Token(work[v].used.doc).turn = work[v].used.doc.turn
        /\ Token(work[v].used.doc).grant = work[v].used.doc.grant
    BY DEF Token
  <2>3. work[v].used.doc.turn \in Int /\ turn[work[v].used.doc.grant] \in Int
    BY <2>1, DocFacts DEF TypeOK
  <2> QED BY <2>1, <2>2, <2>3 DEF WorkerOK, At, VendorMoves
<1> QED BY <1>1, <1>2 DEF WorkerOK, At, Token

\* The first document, an account and an operation that stay as they are.
LEMMA FirstStays == ASSUME Documents, VendorMoves PROVE Given(FirstOf(1))'
<1>1. FirstOf(1)' = FirstOf(1)
  BY DEF FirstOf
<1> QED BY <1>1, FirstFacts, OneIsGrant, GivenStays DEF Documents, Given

LEMMA RowStays == ASSUME Documents, VendorMoves, row'.doc = row.doc PROVE Given(row.doc)'
<1>1. TypeOK /\ row.doc \in Docs /\ Given(row.doc)
  BY RowFields DEF Documents
<1>2. row.doc.turn <= turn'[row.doc.grant]
  BY <1>1, GivenStays
<1> QED BY <1>2 DEF Given

LEMMA AdminStays == ASSUME Documents, VendorMoves, UNCHANGED <<admin>> PROVE AdminOK'
<1>1. TypeOK /\ admin.copy.doc \in Docs /\ admin.doc \in Docs /\ AdminOK
  BY RowFields DEF Documents
<1>2. /\ admin.copy.doc.turn <= turn'[admin.copy.doc.grant]
      /\ admin.doc.turn <= turn'[admin.doc.grant]
  BY <1>1, GivenStays DEF AdminOK
<1> QED BY <1>1, <1>2 DEF AdminOK, AdminAt, Given

LEMMA AdminLeaves == ASSUME Documents, VendorMoves, admin' = NoAdmin PROVE AdminOK'
<1>1. Given(FirstOf(1))' /\ NoRow.doc = FirstOf(1) /\ FirstOf(1)' = FirstOf(1)
  BY FirstStays DEF NoRow, FirstOf
<1> QED BY <1>1 DEF AdminOK, NoAdmin, AdminAt, Given

BooksOK ==
    /\ left \in [refreshes : 0..MaxRefreshes, admin : 0..MaxAdmin, faults : 0..MaxFaults]
    /\ history \subseteq Mishaps
LocksOK ==
    /\ mutex \in [Instances -> Workers \cup {None}] /\ lease \in Workers \cup {None}
AdminTypes ==
    admin \in [at : {"idle", "exchange", "read", "write", "clear"},
               op : {"edit", "manual", "reauth"}, copy : Rows, doc : Docs]

LEMMA SpendsFault ==
    ASSUME TypeOK, Fault
    PROVE  left' \in [refreshes : 0..MaxRefreshes, admin : 0..MaxAdmin, faults : 0..MaxFaults]
BY RefreshAssumption DEF Fault, TypeOK

LEMMA BooksKept ==
    ASSUME TypeOK
    PROVE  /\ NoFault => BooksOK'
           /\ JustFault => BooksOK'
           /\ \A ks \in SUBSET Mishaps : Harm(ks) => BooksOK'
<1>1. NoFault => BooksOK'
  BY DEF NoFault, TypeOK, BooksOK
<1>2. ASSUME NEW ks \in SUBSET Mishaps, Harm(ks) PROVE BooksOK'
  BY <1>2, SpendsFault DEF Harm, TypeOK, BooksOK
<1>3. JustFault => BooksOK'
  BY <1>2 DEF JustFault
<1> QED BY <1>1, <1>2, <1>3

LEMMA LocksKept == ASSUME TypeOK, UNCHANGED locks PROVE LocksOK'
BY DEF TypeOK, LocksOK, locks

\* A step of a worker: what has to be shown of it.
LEMMA WorkerStep ==
    ASSUME Documents, NEW w \in Workers, Only(w), WorkerOK(w)', VendorMoves,
           UNCHANGED <<grok, authorized, revoked, admin>>, row' \in Rows, Given(row.doc)',
           fresh' \subseteq Tokens, LastIsFresh', LocksOK', BooksOK'
    PROVE  Documents'
<1>1. TypeOK'
  <2>1. TypeOK /\ AdminTypes'
    BY DEF Documents, TypeOK, AdminTypes
  <2>2. /\ grok' \in BOOLEAN /\ turn' \in [Grants -> 0..MaxTurns] /\ revoked' \subseteq Grants
        /\ denied' \subseteq Grants /\ work' \in [Workers -> Work] /\ authorized' \in Grants
    BY <2>1 DEF TypeOK, VendorMoves, Only
  <2> QED BY <2>1, <2>2 DEF TypeOK, LocksOK, BooksOK, AdminTypes
<1>2. AdminOK' /\ Given(FirstOf(1))'
  BY AdminStays, FirstStays
<1>3. \A v \in Workers : WorkerOK(v)'
  BY OthersStay DEF Only
<1> QED BY <1>1, <1>2, <1>3 DEF Documents

\* Most steps leave the vendor and the document of the account alone.
LEMMA PlainStep ==
    ASSUME Documents, NEW w \in Workers, Only(w), WorkerOK(w)',
           UNCHANGED <<grok, authorized, vendor, admin>>, row' \in Rows, row'.doc = row.doc,
           LocksOK', BooksOK'
    PROVE  Documents'
<1>1. TypeOK /\ UNCHANGED <<turn, fresh, revoked, denied>>
  BY DEF Documents, vendor
<1>2. VendorMoves /\ Given(row.doc)' /\ fresh' \subseteq Tokens /\ LastIsFresh'
  BY <1>1, VendorStays, RowStays DEF TypeOK, LastIsFresh, Documents
<1> QED BY <1>1, <1>2, WorkerStep

\* A worker that does not come to exchange, persist or quarantine with new documents.
LEMMA WorkerRests ==
    ASSUME Documents, NEW w \in Workers, VendorMoves, Given(work[w].account)',
           work'[w].used.doc \in {work[w].used.doc, FirstOf(1)},
           work'[w].next \in {work[w].next, FirstOf(1)},
           work'[w].at \notin {"exchange", "persist", "quarantine"}
    PROVE  WorkerOK(w)'
<1> TypeOK /\ WorkerOK(w) /\ FirstOf(1)' = FirstOf(1)
  BY DEF Documents, FirstOf
<1>1. Given(work[w].used.doc)'
  <2>1. work[w].used.doc.turn <= turn'[work[w].used.doc.grant]
    BY WorkFields, GivenStays DEF WorkerOK
  <2> QED BY <2>1, FirstStays DEF Given
<1>2. Given(work[w].next)'
  <2>1. work[w].next.turn <= turn'[work[w].next.grant]
    BY WorkFields, GivenStays DEF WorkerOK
  <2> QED BY <2>1, FirstStays DEF Given
<1> QED BY <1>1, <1>2 DEF WorkerOK, At

LEMMA AccountKept ==
    ASSUME Documents, NEW w \in Workers, VendorMoves,
           work'[w].account \in {work[w].account, work[w].used.doc, work[w].next, row.doc, FirstOf(1)}
    PROVE  Given(work[w].account)'
<1> TypeOK /\ WorkerOK(w) /\ FirstOf(1)' = FirstOf(1) /\ Given(row.doc)
  BY DEF Documents, FirstOf
<1>1. \A d \in {work[w].account, work[w].used.doc, work[w].next, row.doc} :
         d.turn <= turn'[d.grant]
  BY WorkFields, RowFields, GivenStays DEF WorkerOK
<1>2. FirstOf(1).turn <= turn'[FirstOf(1).grant]
  BY FirstStays DEF Given
<1> QED BY <1>1, <1>2 DEF Given

LEMMA VendorUnchanged == ASSUME Documents, UNCHANGED vendor PROVE VendorMoves
BY VendorStays DEF Documents, vendor

LEMMA SameRow == ASSUME Documents, UNCHANGED row PROVE row' \in Rows /\ row'.doc = row.doc
BY DEF Documents, TypeOK

LEMMA PickDocuments == ASSUME Documents, NEW w \in Workers, Pick(w) PROVE Documents'
<1> TypeOK
  BY DEF Documents
<1>1. VendorMoves
  BY VendorUnchanged DEF Pick
<1>2. /\ Only(w) /\ work'[w].at = "queued" /\ work'[w].account = row.doc
      /\ work'[w].used = NoRow /\ work'[w].next = FirstOf(1)
  BY PickLeaves DEF Pick
<1>3. WorkerOK(w)'
  BY <1>1, <1>2, WorkerRests, AccountKept DEF NoRow
<1>4. LocksOK' /\ BooksOK'
  BY LocksKept, RefreshAssumption DEF Pick, BooksOK, TypeOK
<1> QED BY <1>2, <1>3, <1>4, PlainStep, SameRow DEF Pick

LEMMA LockDocuments == ASSUME Documents, NEW w \in Workers, Lock(w) PROVE Documents'
<1> TypeOK
  BY DEF Documents
<1>1. VendorMoves
  BY VendorUnchanged DEF Lock
<1>2. Only(w) /\ work'[w].at = "lock" /\ SameUsed(w) /\ SameNext(w) /\ SameAccount(w)
  BY GotoLeaves DEF Lock, Spots, Inside
<1>3. WorkerOK(w)'
  BY <1>1, <1>2, WorkerRests, AccountKept DEF SameUsed, SameNext, SameAccount
<1>4. LocksOK' /\ BooksOK'
  BY BooksKept DEF Lock, LocksOK, TypeOK
<1> QED BY <1>2, <1>3, <1>4, PlainStep, SameRow DEF Lock

LEMMA AcquireDocuments == ASSUME Documents, NEW w \in Workers, Acquire(w) PROVE Documents'
<1> TypeOK
  BY DEF Documents
<1>1. VendorMoves
  BY VendorUnchanged DEF Acquire
<1>2. /\ Only(w) /\ work'[w].at \in {"reread", "skip"}
      /\ SameUsed(w) /\ SameNext(w) /\ SameAccount(w)
  BY GotoLeaves, AcquireLeaves DEF Acquire, Spots, Inside, Results
<1>3. WorkerOK(w)'
  BY <1>1, <1>2, WorkerRests, AccountKept DEF SameUsed, SameNext, SameAccount
<1>4. LocksOK' /\ BooksOK'
  <2>1. BooksOK'
    BY BooksKept DEF Acquire, Mishaps
  <2> QED BY <2>1 DEF Acquire, LocksOK, TypeOK
<1> QED BY <1>2, <1>3, <1>4, PlainStep, SameRow DEF Acquire

LEMMA RereadDocuments == ASSUME Documents, NEW w \in Workers, Reread(w) PROVE Documents'
<1> TypeOK
  BY DEF Documents
<1>1. VendorMoves /\ row.doc \in Docs
  BY VendorUnchanged, RowFields DEF Reread
<1>2. Only(w) /\ WorkerOK(w)'
  <2>1. CASE Wanted(w) /\ work' = [work EXCEPT ![w].at = "exchange", ![w].used = row]
    <3>1. /\ Only(w) /\ work'[w].at = "exchange" /\ work'[w].used = row
          /\ SameNext(w) /\ SameAccount(w)
      BY <2>1, RereadLeaves
    <3>2. Given(work[w].account)'
      BY <1>1, <3>1, AccountKept DEF SameAccount
    <3>3. Given(work[w].used.doc)'
      BY <1>1, <3>1, RowStays, SameRow DEF Reread, Given
    <3>4. Given(work[w].next)'
      BY <1>1, <3>1, WorkFields, GivenStays DEF SameNext, Documents, WorkerOK, Given
    <3>5. Token(work[w].used.doc)' \notin fresh'
      BY <2>1, <3>1 DEF Reread, Wanted, NeedsRefresh, vendor, Token
    <3> QED BY <3>1, <3>2, <3>3, <3>4, <3>5 DEF WorkerOK, At
  <2>2. CASE Return(w, "skip", row.doc)
    <3>1. /\ Only(w) /\ work'[w].at = "skip" /\ work'[w].account = row.doc
          /\ SameUsed(w) /\ SameNext(w)
      BY <1>1, <2>2, ReturnLeaves DEF Spots, Results
    <3> QED BY <1>1, <3>1, WorkerRests, AccountKept DEF SameUsed, SameNext
  <2>3. CASE Goto(w, "skip")
    <3>1. Only(w) /\ work'[w].at = "skip" /\ SameUsed(w) /\ SameNext(w) /\ SameAccount(w)
      BY <2>3, GotoLeaves DEF Spots, Results
    <3> QED BY <1>1, <3>1, WorkerRests, AccountKept DEF SameUsed, SameNext, SameAccount
  <2> QED BY <2>1, <2>2, <2>3 DEF Reread
<1>3. LocksOK' /\ BooksOK'
  BY LocksKept, BooksKept DEF Reread
<1> QED BY <1>2, <1>3, PlainStep, SameRow DEF Reread

LEMMA RotateFacts ==
    ASSUME Documents, NEW d \in Docs, Rotate(d), d.turn < MaxTurns
    PROVE  /\ VendorMoves /\ fresh' \subseteq Tokens /\ LastIsFresh' /\ NextOf(d) \in Docs
           /\ Given(NextOf(d))' /\ turn'[d.grant] = d.turn + 1
           /\ \A g \in Grants \ {d.grant} : turn'[g] = turn[g]
<1> TypeOK
  BY DEF Documents
<1>1. /\ d.grant \in Grants /\ d.turn \in 1..MaxTurns /\ NextOf(d) \in Docs
      /\ NextOf(d).grant = d.grant /\ NextOf(d).turn = d.turn + 1
      /\ Token(NextOf(d)) \in Tokens
      /\ Token(NextOf(d)) = [grant |-> d.grant, turn |-> d.turn + 1]
  BY DocFacts DEF Token
<1>2. turn[d.grant] = d.turn
  BY DEF Rotate, Valid
<1>3. turn'[d.grant] = d.turn + 1 /\ \A g \in Grants \ {d.grant} : turn'[g] = turn[g]
  BY <1>1, <1>2 DEF Rotate, TypeOK
<1>4. turn' \in [Grants -> 0..MaxTurns]
  BY <1>1, <1>2, RefreshAssumption DEF Rotate, TypeOK
<1>5. \A g \in Grants : turn[g] <= turn'[g]
  BY <1>1, <1>2, <1>3 DEF TypeOK
<1>6. VendorMoves
  BY <1>1, <1>2, <1>4, <1>5 DEF VendorMoves, Rotate, TypeOK
<1>7. LastIsFresh'
  BY <1>1, <1>3 DEF LastIsFresh, Documents, Rotate
<1>8. Given(NextOf(d))'
  BY <1>1, <1>3, RefreshAssumption DEF Given, NextOf
<1> QED BY <1>1, <1>3, <1>6, <1>7, <1>8 DEF Rotate, TypeOK

\* A refresh that the vendor grants is of a token that was not its last.
LEMMA ExchangedIsNotLast ==
    ASSUME Documents, NEW w \in Workers, At(w, "exchange"), Valid(work[w].used.doc)
    PROVE  work[w].used.doc.turn < MaxTurns
<1> DEFINE d == work[w].used.doc
<1>1. /\ d \in Docs /\ d.grant \in Grants /\ d.turn \in 1..MaxTurns
      /\ Token(d) = [grant |-> d.grant, turn |-> d.turn]
  BY WorkFields, DocFacts DEF Documents
<1>2. Token(d) \notin fresh /\ turn[d.grant] = d.turn
  BY DEF Documents, WorkerOK, Valid
<1>3. d.turn # MaxTurns
  BY <1>1, <1>2 DEF Documents, LastIsFresh
<1> QED BY <1>1, <1>3, RefreshAssumption

LEMMA ExchangeRotates ==
    ASSUME Documents, NEW w \in Workers, At(w, "exchange"), Rotate(work[w].used.doc),
           work' = [work EXCEPT ![w].at = "persist", ![w].next = NextOf(work[w].used.doc)]
    PROVE  /\ VendorMoves /\ fresh' \subseteq Tokens /\ LastIsFresh' /\ Only(w) /\ WorkerOK(w)'
           /\ work'[w].at = "persist" /\ work'[w].next = NextOf(work[w].used.doc)
           /\ SameUsed(w) /\ SameAccount(w) /\ SameHolds(w)
           /\ turn'[work[w].used.doc.grant] = work[w].used.doc.turn + 1
           /\ \A g \in Grants \ {work[w].used.doc.grant} : turn'[g] = turn[g]
<1> TypeOK
  BY DEF Documents
<1>1. PICK d \in Docs : d = work[w].used.doc /\ d.turn < MaxTurns /\ Rotate(d)
  BY WorkFields, ExchangedIsNotLast DEF Rotate
<1>2. /\ VendorMoves /\ fresh' \subseteq Tokens /\ LastIsFresh' /\ NextOf(d) \in Docs
      /\ Given(NextOf(d))' /\ turn'[d.grant] = d.turn + 1
      /\ \A g \in Grants \ {d.grant} : turn'[g] = turn[g]
  BY <1>1, RotateFacts
<1>3. /\ Only(w) /\ work'[w].at = "persist" /\ work'[w].next = NextOf(d)
      /\ SameUsed(w) /\ SameAccount(w) /\ SameHolds(w)
  BY <1>1, <1>2, ExchangeLeaves
<1>4. Given(work[w].account)'
  BY <1>2, <1>3, AccountKept DEF SameAccount
<1>5. Given(work[w].used.doc)'
  BY <1>1, <1>2, <1>3, GivenStays DEF SameUsed, Documents, WorkerOK, Given
<1>6. Given(work[w].next)' /\ (work[w].next = NextOf(work[w].used.doc))'
  BY <1>1, <1>2, <1>3 DEF SameUsed, Given, NextOf
<1>7. WorkerOK(w)'
  BY <1>3, <1>4, <1>5, <1>6 DEF WorkerOK, At
<1> QED BY <1>1, <1>2, <1>3, <1>7

LEMMA ExchangeDocuments == ASSUME Documents, NEW w \in Workers, Exchange(w) PROVE Documents'
<1> DEFINE d == work[w].used.doc
<1> TypeOK
  BY DEF Documents
<1>1. d \in Docs /\ LocksOK' /\ BooksOK' /\ row' \in Rows /\ row'.doc = row.doc
  BY WorkFields, LocksKept, BooksKept, SameRow DEF Exchange
<1>2. CASE Rotate(d) /\ work' = [work EXCEPT ![w].at = "persist", ![w].next = NextOf(d)]
  <2>1. /\ VendorMoves /\ fresh' \subseteq Tokens /\ LastIsFresh' /\ Only(w) /\ WorkerOK(w)'
    BY <1>2, ExchangeRotates DEF Exchange
  <2>2. Given(row.doc)' /\ revoked' = revoked
    BY <1>1, <1>2, <2>1, RowStays DEF Rotate
  <2> QED BY <1>1, <2>1, <2>2, WorkerStep DEF Exchange
<1>3. CASE UNCHANGED vendor /\ Goto(w, "recheck")
  <2>1. VendorMoves
    BY <1>3, VendorUnchanged
  <2>2. Only(w) /\ work'[w].at = "recheck" /\ SameUsed(w) /\ SameNext(w) /\ SameAccount(w)
    BY <1>3, GotoLeaves DEF Spots, Inside
  <2>3. WorkerOK(w)'
    BY <2>1, <2>2, WorkerRests, AccountKept DEF SameUsed, SameNext, SameAccount
  <2> QED BY <1>1, <1>3, <2>2, <2>3, PlainStep DEF Exchange
<1>4. CASE UNCHANGED vendor /\ \E l \in {"dead", "retry", "skip"} : Return(w, l, d)
  <2>1. VendorMoves
    BY <1>4, VendorUnchanged
  <2>2. PICK l \in {"dead", "retry", "skip"} : Return(w, l, d)
    BY <1>4
  <2>3. Only(w) /\ work'[w].at = l /\ SameUsed(w) /\ SameNext(w) /\ work'[w].account = d
    BY <1>1, <2>2, ReturnLeaves DEF Spots, Results
  <2>4. WorkerOK(w)'
    BY <2>1, <2>3, WorkerRests, AccountKept DEF SameUsed, SameNext
  <2> QED BY <1>1, <1>4, <2>3, <2>4, PlainStep DEF Exchange
<1>5. CASE Deny(d) /\ Return(w, "dead", d)
  <2>1. /\ VendorMoves /\ fresh' \subseteq Tokens /\ LastIsFresh' /\ revoked' = revoked
        /\ Given(row.doc)'
    <3>1. VendorMoves
      BY <1>1, <1>5, DocFacts DEF Deny, VendorMoves, TypeOK
    <3> QED BY <1>1, <1>5, <3>1, RowStays DEF Deny, TypeOK, Documents, LastIsFresh
  <2>2. Only(w) /\ work'[w].at = "dead" /\ SameUsed(w) /\ SameNext(w) /\ work'[w].account = d
    BY <1>1, <1>5, ReturnLeaves DEF Spots, Results
  <2>3. WorkerOK(w)'
    BY <2>1, <2>2, WorkerRests, AccountKept DEF SameUsed, SameNext
  <2> QED BY <1>1, <2>1, <2>2, <2>3, WorkerStep DEF Exchange
<1> QED BY <1>2, <1>3, <1>4, <1>5 DEF Exchange

LEMMA RecheckDocuments == ASSUME Documents, NEW w \in Workers, Recheck(w) PROVE Documents'
<1> DEFINE d == work[w].used.doc
<1> TypeOK
  BY DEF Documents
<1>1. /\ d \in Docs /\ row.doc \in Docs /\ VendorMoves
      /\ LocksOK' /\ BooksOK' /\ row' \in Rows /\ row'.doc = row.doc
  BY WorkFields, RowFields, VendorUnchanged, LocksKept, BooksKept, SameRow DEF Recheck
<1>2. PICK l \in {"skip", "dead"}, a \in {d, row.doc} : Return(w, l, a)
  BY DEF Recheck
<1>3. Only(w) /\ work'[w].at = l /\ SameUsed(w) /\ SameNext(w) /\ work'[w].account = a
  BY <1>1, <1>2, ReturnLeaves DEF Spots, Results
<1>4. WorkerOK(w)'
  BY <1>1, <1>3, WorkerRests, AccountKept DEF SameUsed, SameNext
<1> QED BY <1>1, <1>3, <1>4, PlainStep DEF Recheck

\* What a worker stores was given to it.
LEMMA StoreFacts ==
    ASSUME Documents, NEW w \in Workers, Store(w), UNCHANGED vendor
    PROVE  /\ VendorMoves /\ row' \in Rows /\ row'.doc = work[w].next
           /\ row'.status = row.status /\ Given(row.doc)'
           /\ fresh' \subseteq Tokens /\ LastIsFresh' /\ revoked' = revoked
<1> TypeOK /\ work[w].next \in Docs
  BY WorkFields DEF Documents
<1>1. row' \in Rows /\ row'.doc = work[w].next /\ row'.status = row.status
  BY DEF Store, TypeOK, Rows
<1>2. Given(row.doc)' /\ VendorMoves
  BY <1>1, VendorUnchanged, GivenStays DEF Documents, WorkerOK, Given
<1> QED BY <1>1, <1>2 DEF vendor, TypeOK, Documents, LastIsFresh

LEMMA PersistDocuments == ASSUME Documents, NEW w \in Workers, Persist(w) PROVE Documents'
<1> TypeOK
  BY DEF Documents
<1>1. /\ row.doc \in Docs /\ VendorMoves /\ LocksOK' /\ BooksOK'
  BY RowFields, VendorUnchanged, LocksKept, BooksKept DEF Persist
<1>2. CASE Store(w) /\ work' = [work EXCEPT ![w].at = "ok", ![w].account = work[w].next,
                                             ![w].used = Found(w)]
  <2>1. /\ Only(w) /\ work'[w].at = "ok" /\ work'[w].account = work[w].next
        /\ work'[w].used.doc = work[w].used.doc /\ SameNext(w)
    BY <1>2, PersistLeaves
  <2>2. WorkerOK(w)'
    BY <1>1, <2>1, WorkerRests, AccountKept DEF SameNext
  <2>3. /\ row' \in Rows /\ Given(row.doc)' /\ fresh' \subseteq Tokens /\ LastIsFresh'
        /\ revoked' = revoked
    BY <1>2, StoreFacts DEF Persist
  <2> QED BY <1>1, <2>1, <2>2, <2>3, WorkerStep DEF Persist
<1>3. CASE Return(w, "skip", row.doc) /\ UNCHANGED row
  <2>1. /\ Only(w) /\ work'[w].at = "skip" /\ work'[w].account = row.doc
        /\ SameUsed(w) /\ SameNext(w)
    BY <1>1, <1>3, ReturnLeaves DEF Spots, Results
  <2>2. WorkerOK(w)'
    BY <1>1, <2>1, WorkerRests, AccountKept DEF SameUsed, SameNext
  <2> QED BY <1>1, <1>3, <2>1, <2>2, PlainStep, SameRow DEF Persist
<1> QED BY <1>2, <1>3 DEF Persist

LEMMA PersistFailsDocuments ==
    ASSUME Documents, NEW w \in Workers, PersistFails(w) PROVE Documents'
<1> TypeOK
  BY DEF Documents
<1>1. VendorMoves /\ LocksOK' /\ BooksOK'
  BY VendorUnchanged, LocksKept, BooksKept DEF PersistFails, Mishaps
<1>2. /\ Only(w) /\ work'[w].at \in {"skip", "retry"}
      /\ SameUsed(w) /\ SameNext(w) /\ SameAccount(w)
  BY GotoLeaves DEF PersistFails, Spots, Results
<1>3. WorkerOK(w)'
  BY <1>1, <1>2, WorkerRests, AccountKept DEF SameUsed, SameNext, SameAccount
<1>4. CASE Store(w)
  <2>1. /\ row' \in Rows /\ Given(row.doc)' /\ fresh' \subseteq Tokens /\ LastIsFresh'
        /\ revoked' = revoked
    BY <1>4, StoreFacts DEF PersistFails
  <2> QED BY <1>1, <1>2, <1>3, <2>1, WorkerStep DEF PersistFails
<1>5. CASE UNCHANGED row
  BY <1>1, <1>2, <1>3, <1>5, PlainStep, SameRow DEF PersistFails
<1> QED BY <1>4, <1>5 DEF PersistFails

LEMMA TimeOutDocuments == ASSUME Documents, NEW w \in Workers, TimeOut(w) PROVE Documents'
<1> TypeOK
  BY DEF Documents
<1>1. VendorMoves /\ LocksOK' /\ BooksOK'
  BY VendorUnchanged, LocksKept, BooksKept DEF TimeOut, Mishaps
<1>2. Only(w) /\ work'[w].at = "retry" /\ SameUsed(w) /\ SameNext(w) /\ SameAccount(w)
  BY GotoLeaves DEF TimeOut, Spots, Results
<1>3. WorkerOK(w)'
  BY <1>1, <1>2, WorkerRests, AccountKept DEF SameUsed, SameNext, SameAccount
<1> QED BY <1>1, <1>2, <1>3, PlainStep, SameRow DEF TimeOut

LEMMA ReleaseDocuments == ASSUME Documents, NEW w \in Workers, Release(w) PROVE Documents'
<1> TypeOK
  BY DEF Documents
<1>1. VendorMoves /\ row' \in Rows /\ row'.doc = row.doc
  BY VendorUnchanged, SameRow DEF Release
<1>2. /\ Only(w) /\ work'[w].at = Sequel(w)
      /\ work'[w].used = NoRow /\ work'[w].next = FirstOf(1) /\ NoRow.doc = FirstOf(1)
      /\ work'[w].account \in {work[w].account, FirstOf(1)}
  BY ReleaseLeaves DEF SameAccount, NoRow
<1>3. WorkerOK(w)'
  <2>1. CASE Sequel(w) = "quarantine"
    <3>1. w \in Background \/ grok'
      BY <2>1 DEF Sequel, Release
    <3>2. Given(work[w].account)'
      BY <1>1, <1>2, AccountKept
    <3>3. Given(FirstOf(1))' /\ FirstOf(1)' = FirstOf(1)
      BY <1>1, FirstStays DEF FirstOf
    <3> QED BY <1>2, <2>1, <3>1, <3>2, <3>3 DEF WorkerOK, At, Given
  <2>2. CASE Sequel(w) # "quarantine"
    <3>1. Sequel(w) \notin {"exchange", "persist", "quarantine"}
      BY <2>2, SequelIn
    <3>2. work'[w].used.doc = FirstOf(1)
      BY <1>2
    <3> QED BY <1>1, <1>2, <3>1, <3>2, WorkerRests, AccountKept
  <2> QED BY <2>1, <2>2
<1>4. LocksOK' /\ BooksOK'
  <2>1. LocksOK'
    BY DEF Release, Unlock, TypeOK, LocksOK
  <2>2. BooksOK'
    BY SpendsFault DEF Release, Unlock, TypeOK, BooksOK
  <2> QED BY <2>1, <2>2
<1> QED BY <1>1, <1>2, <1>3, <1>4, PlainStep DEF Release

\* What a worker does with its result changes the status of the account at most.
LEMMA SequelDocuments ==
    ASSUME Documents, NEW w \in Workers, Done(w), row' \in Rows, row'.doc = row.doc,
           UNCHANGED <<grok, authorized, vendor, locks, admin>>, BooksOK'
    PROVE  Documents'
<1> TypeOK
  BY DEF Documents
<1>1. VendorMoves /\ LocksOK'
  BY VendorUnchanged, LocksKept
<1>2. /\ Only(w) /\ work'[w].at = "idle" /\ work'[w].used.doc = FirstOf(1)
      /\ work'[w].next = FirstOf(1) /\ work'[w].account = FirstOf(1)
  BY DoneLeaves DEF NoWork, NoRow
<1>3. WorkerOK(w)'
  BY <1>1, <1>2, WorkerRests, AccountKept
<1> QED BY <1>1, <1>2, <1>3, PlainStep

LEMMA StatusFacts ==
    ASSUME TypeOK
    PROVE  \A r \in {row, [row EXCEPT !.cooldown = FALSE], [row EXCEPT !.cooldown = TRUE],
                     [row EXCEPT !.status = "error"],
                     [row EXCEPT !.status = "active", !.cooldown = FALSE]} :
               r \in Rows /\ r.doc = row.doc
BY DEF TypeOK, Rows

LEMMA ClearDocuments == ASSUME Documents, NEW w \in Workers, Clear(w) PROVE Documents'
<1>1. TypeOK
  BY DEF Documents
<1>2. row' \in Rows /\ row'.doc = row.doc
  BY <1>1, StatusFacts DEF Clear
<1> QED BY <1>1, <1>2, SequelDocuments, BooksKept DEF Clear

LEMMA QuarantineDocuments == ASSUME Documents, NEW w \in Workers, Quarantine(w) PROVE Documents'
<1>1. TypeOK
  BY DEF Documents
<1>2. row' \in Rows /\ row'.doc = row.doc
  BY <1>1, StatusFacts DEF Quarantine
<1> QED BY <1>1, <1>2, SequelDocuments, BooksKept DEF Quarantine

LEMMA CoolDocuments == ASSUME Documents, NEW w \in Workers, Cool(w) PROVE Documents'
<1>1. TypeOK
  BY DEF Documents
<1>2. row' \in Rows /\ row'.doc = row.doc
  BY <1>1, StatusFacts DEF Cool
<1> QED BY <1>1, <1>2, SequelDocuments, BooksKept DEF Cool

\* A step that leaves the workers alone.
LEMMA IdleStep ==
    ASSUME Documents, VendorMoves, UNCHANGED <<grok, work>>, row' \in Rows, Given(row.doc)',
           authorized' \in Grants, AdminTypes', AdminOK', LocksOK', BooksOK',
           revoked' \subseteq Grants, fresh' \subseteq Tokens, LastIsFresh'
    PROVE  Documents'
<1>1. TypeOK'
  BY DEF Documents, TypeOK, LocksOK, BooksOK, AdminTypes, VendorMoves
<1>2. Given(FirstOf(1))' /\ \A w \in Workers : WorkerOK(w)'
  BY FirstStays, OthersStay
<1> QED BY <1>1, <1>2 DEF Documents

LEMMA CrashDocuments == ASSUME Documents, NEW i \in Instances, Crash(i) PROVE Documents'
<1> TypeOK
  BY DEF Documents
<1>1. VendorMoves /\ BooksOK' /\ LastIsFresh'
  BY VendorUnchanged, BooksKept DEF Crash, Mishaps, vendor, Documents, LastIsFresh
<1>2. Given(row.doc)' /\ Given(FirstOf(1))' /\ AdminOK'
  BY <1>1, RowStays, FirstStays, AdminStays DEF Crash
<1>3. LocksOK'
  BY DEF Crash, TypeOK, LocksOK
<1>4. /\ work' \in [Workers -> Work]
      /\ \A w \in Workers : work'[w] = NoWork \/ work'[w] = work[w]
  BY NoWorkFits DEF Crash, TypeOK
<1>5. \A w \in Workers : WorkerOK(w)'
  <2> TAKE w \in Workers
  <2>1. CASE work'[w] = NoWork
    <3>1. /\ work'[w].at = "idle" /\ work'[w].used.doc = FirstOf(1)
          /\ work'[w].next = FirstOf(1) /\ work'[w].account = FirstOf(1)
      BY <2>1 DEF NoWork, NoRow
    <3> QED BY <1>1, <3>1, WorkerRests, AccountKept
  <2>2. CASE work'[w] = work[w]
    BY <1>1, <2>2, OthersStay DEF Crash
  <2> QED BY <1>4, <2>1, <2>2
<1>6. TypeOK'
  BY <1>1, <1>3, <1>4 DEF Crash, TypeOK, LocksOK, BooksOK, vendor
<1> QED BY <1>1, <1>2, <1>5, <1>6 DEF Documents

LEMMA TimeDocuments == ASSUME Documents, Time \/ Revoke PROVE Documents'
<1> TypeOK
  BY DEF Documents
<1>1. /\ fresh' \subseteq fresh /\ turn' = turn /\ denied' = denied
      /\ UNCHANGED <<grok, work, admin, authorized>>
  BY DEF Time, Revoke, LeaseExpires, CooldownEnds, ExpireToken, vendor
<1>2. VendorMoves
  BY <1>1, VendorStays
<1>3. row' \in Rows /\ row'.doc = row.doc
  BY StatusFacts DEF Time, Revoke, LeaseExpires, CooldownEnds, ExpireToken
<1>4. Given(row.doc)' /\ AdminOK' /\ AdminTypes' /\ authorized' \in Grants /\ fresh' \subseteq Tokens
  BY <1>1, <1>2, <1>3, RowStays, AdminStays DEF TypeOK, AdminTypes
<1>5. revoked' \subseteq Grants
  BY RowFields, DocFacts DEF Time, Revoke, LeaseExpires, CooldownEnds, ExpireToken, vendor, TypeOK
<1>6. LastIsFresh'
  <2>1. CASE ExpireToken
    <3>1. Token(row.doc).turn # MaxTurns
      BY <2>1, RowFields, DocFacts, RefreshAssumption DEF ExpireToken, Token
    <3> QED BY <1>1, <2>1, <3>1 DEF ExpireToken, Documents, LastIsFresh
  <2>2. CASE ~ExpireToken
    BY <2>2 DEF Time, Revoke, LeaseExpires, CooldownEnds, vendor, Documents, LastIsFresh
  <2> QED BY <2>1, <2>2
<1>7. LocksOK' /\ BooksOK'
  <2>1. LocksOK'
    BY DEF Time, Revoke, LeaseExpires, CooldownEnds, ExpireToken, locks, TypeOK, LocksOK
  <2>2. BooksOK'
    BY BooksKept
       DEF Time, Revoke, LeaseExpires, CooldownEnds, ExpireToken, TypeOK, BooksOK, Mishaps
  <2> QED BY <2>1, <2>2
<1> QED BY <1>1, <1>2, <1>3, <1>4, <1>5, <1>6, <1>7, IdleStep

LEMMA BeginFacts ==
    ASSUME TypeOK, NEW a, Begin(a), UNCHANGED history PROVE BooksOK' /\ admin' = a
BY RefreshAssumption DEF Begin, TypeOK, BooksOK

\* An operation of the administrator that moves on without a new document.
LEMMA AdminStep ==
    ASSUME Documents, UNCHANGED <<grok, authorized, vendor, locks, work>>,
           row' \in Rows, row'.doc = row.doc, AdminTypes', AdminOK', BooksOK'
    PROVE  Documents'
<1> TypeOK
  BY DEF Documents
<1>1. VendorMoves /\ LocksOK'
  BY VendorUnchanged, LocksKept
<1>2. Given(row.doc)' /\ authorized' \in Grants
  BY <1>1, RowStays DEF TypeOK
<1>3. revoked' \subseteq Grants /\ fresh' \subseteq Tokens /\ LastIsFresh'
  BY DEF vendor, TypeOK, Documents, LastIsFresh
<1> QED BY <1>1, <1>2, <1>3, IdleStep

LEMMA NoAdminFits ==
    ASSUME Documents
    PROVE  /\ NoAdmin \in [at : {"idle", "exchange", "read", "write", "clear"},
                           op : {"edit", "manual", "reauth"}, copy : Rows, doc : Docs]
           /\ NoAdmin.doc = FirstOf(1) /\ NoAdmin.copy = NoRow /\ NoRow.doc = FirstOf(1)
           /\ FirstOf(1) \in Docs /\ NoRow \in Rows
BY NoWorkFits DEF Documents, NoAdmin, NoRow

LEMMA EditDocuments == ASSUME Documents, Edit PROVE Documents'
<1> TypeOK
  BY DEF Documents
<1>1. BooksOK' /\ admin' = [NoAdmin EXCEPT !.at = "read"]
  BY BeginFacts DEF Edit
<1>2. AdminTypes' /\ AdminOK'
  <2>1. AdminTypes'
    BY <1>1, NoAdminFits DEF AdminTypes, NoAdmin
  <2>2. /\ admin'.at = "read" /\ admin'.doc = FirstOf(1) /\ admin'.copy.doc = FirstOf(1)
    BY <1>1, NoAdminFits DEF NoAdmin
  <2>3. Given(FirstOf(1))' /\ FirstOf(1)' = FirstOf(1)
    BY VendorUnchanged, FirstStays DEF Edit, FirstOf
  <2> QED BY <2>1, <2>2, <2>3 DEF AdminOK, AdminAt, Given
<1> QED BY <1>1, <1>2, AdminStep, SameRow DEF Edit

LEMMA ManualRefreshDocuments == ASSUME Documents, ManualRefresh PROVE Documents'
<1> TypeOK
  BY DEF Documents
<1>1. BooksOK' /\ admin' = [NoAdmin EXCEPT !.at = "exchange", !.op = "manual", !.copy = row]
  BY BeginFacts DEF ManualRefresh
<1>2. AdminTypes' /\ AdminOK'
  <2>1. AdminTypes'
    BY <1>1, NoAdminFits DEF AdminTypes, NoAdmin, TypeOK
  <2>2. /\ admin'.at = "exchange" /\ admin'.op = "manual"
        /\ admin'.doc = FirstOf(1) /\ admin'.copy.doc = row.doc
    BY <1>1, NoAdminFits DEF NoAdmin
  <2>3. /\ Given(FirstOf(1))' /\ FirstOf(1)' = FirstOf(1)
        /\ Given(row.doc)' /\ row' = row
    BY VendorUnchanged, FirstStays, RowStays, SameRow DEF ManualRefresh, FirstOf
  <2> QED BY <2>1, <2>2, <2>3 DEF AdminOK, AdminAt, Given
<1> QED BY <1>1, <1>2, AdminStep, SameRow DEF ManualRefresh

LEMMA ReauthorizeGives ==
    ASSUME Documents, NEW g \in Grants, turn[g] = 0,
           turn' = [turn EXCEPT ![g] = 1], fresh' = fresh \cup {Token(FirstOf(g))},
           denied' = denied
    PROVE  /\ VendorMoves /\ fresh' \subseteq Tokens /\ LastIsFresh' /\ Given(FirstOf(g))'
           /\ turn'[g] = 1 /\ \A h \in Grants \ {g} : turn'[h] = turn[h]
<1> TypeOK
  BY DEF Documents
<1>1. /\ FirstOf(g) \in Docs /\ FirstOf(g).grant = g /\ FirstOf(g).turn = 1
      /\ Token(FirstOf(g)) \in Tokens /\ Token(FirstOf(g)) = [grant |-> g, turn |-> 1]
  BY FirstFacts DEF Token
<1>2. /\ turn' \in [Grants -> 0..MaxTurns] /\ turn'[g] = 1
      /\ \A h \in Grants \ {g} : turn'[h] = turn[h]
  BY RefreshAssumption DEF TypeOK
<1>3. VendorMoves
  BY <1>1, <1>2 DEF VendorMoves, TypeOK
<1>4. LastIsFresh'
  BY <1>1, <1>2 DEF Documents, LastIsFresh
<1> QED BY <1>1, <1>2, <1>3, <1>4 DEF TypeOK, Given, FirstOf

LEMMA ReauthorizeDocuments == ASSUME Documents, Reauthorize PROVE Documents'
<1> TypeOK
  BY DEF Documents
<1>1. PICK g \in Grants :
         /\ turn[g] = 0
         /\ Begin([NoAdmin EXCEPT !.at = "read", !.op = "reauth", !.doc = FirstOf(g)])
         /\ turn' = [turn EXCEPT ![g] = 1] /\ fresh' = fresh \cup {Token(FirstOf(g))}
         /\ UNCHANGED <<grok, authorized, revoked, denied, row, locks, work, history>>
  BY DEF Reauthorize
<1>2. VendorMoves /\ fresh' \subseteq Tokens /\ LastIsFresh' /\ Given(FirstOf(g))'
  BY <1>1, ReauthorizeGives
<1>3. BooksOK' /\ admin' = [NoAdmin EXCEPT !.at = "read", !.op = "reauth", !.doc = FirstOf(g)]
  BY <1>1, BeginFacts
<1>4. AdminTypes'
  BY <1>3, NoAdminFits, FirstFacts DEF AdminTypes, NoAdmin
<1>5. AdminOK'
  <2>1. /\ admin'.at = "read" /\ admin'.op = "reauth"
        /\ admin'.doc = FirstOf(g) /\ admin'.copy.doc = FirstOf(1)
    BY <1>3, NoAdminFits DEF NoAdmin
  <2>2. Given(FirstOf(1))' /\ FirstOf(1)' = FirstOf(1) /\ FirstOf(g)' = FirstOf(g)
    BY <1>2, FirstStays DEF FirstOf
  <2> QED BY <1>2, <2>1, <2>2 DEF AdminOK, AdminAt, Given
<1>6. row' \in Rows /\ Given(row.doc)' /\ LocksOK'
  BY <1>1, <1>2, RowStays, SameRow, LocksKept
<1> QED BY <1>1, <1>2, <1>3, <1>4, <1>5, <1>6, IdleStep DEF TypeOK

LEMMA ManualExchangeRotates ==
    ASSUME Documents, NEW d \in Docs, d = admin.copy.doc, AdminAt("exchange"),
           d.turn < MaxTurns, Rotate(d),
           admin' = [admin EXCEPT !.at = "read", !.doc = NextOf(d)]
    PROVE  /\ VendorMoves /\ fresh' \subseteq Tokens /\ LastIsFresh' /\ AdminTypes' /\ AdminOK'
           /\ admin'.at = "read" /\ admin'.op = "manual"
           /\ admin'.copy = admin.copy /\ admin'.doc = NextOf(d)
           /\ turn'[d.grant] = d.turn + 1
           /\ \A g \in Grants \ {d.grant} : turn'[g] = turn[g]
<1> TypeOK
  BY DEF Documents
<1>1. /\ VendorMoves /\ fresh' \subseteq Tokens /\ LastIsFresh' /\ NextOf(d) \in Docs
      /\ Given(NextOf(d))' /\ turn'[d.grant] = d.turn + 1
      /\ \A g \in Grants \ {d.grant} : turn'[g] = turn[g]
  BY RotateFacts
<1>2. /\ admin'.at = "read" /\ admin'.op = "manual" /\ admin'.copy = admin.copy
      /\ admin'.doc = NextOf(d) /\ AdminTypes'
  BY <1>1 DEF TypeOK, AdminTypes, Documents, AdminOK, AdminAt
<1>3. d.turn <= turn'[d.grant]
  BY <1>1, GivenStays DEF Documents, AdminOK, Given
<1> QED BY <1>1, <1>2, <1>3 DEF AdminOK, AdminAt, Given, NextOf

LEMMA ManualExchangeDocuments == ASSUME Documents, ManualExchange PROVE Documents'
<1> TypeOK
  BY DEF Documents
<1>1. PICK d \in Docs : d = admin.copy.doc
  BY RowFields
<1>2. LocksOK' /\ BooksOK' /\ row' \in Rows /\ row'.doc = row.doc /\ authorized' \in Grants
  BY LocksKept, SameRow DEF ManualExchange, TypeOK, BooksOK, Mishaps
<1>3. CASE /\ d.turn < MaxTurns /\ Rotate(d)
           /\ admin' = [admin EXCEPT !.at = "read", !.doc = NextOf(d)]
  <2>1. /\ VendorMoves /\ fresh' \subseteq Tokens /\ LastIsFresh' /\ AdminTypes' /\ AdminOK'
    BY <1>1, <1>3, ManualExchangeRotates DEF ManualExchange
  <2>2. revoked' \subseteq Grants /\ Given(row.doc)'
    BY <1>2, <1>3, <2>1, RowStays DEF Rotate, TypeOK
  <2> QED BY <1>2, <2>1, <2>2, IdleStep DEF ManualExchange
<1>4. CASE admin' = NoAdmin /\ UNCHANGED vendor
  <2>1. AdminTypes' /\ AdminOK'
    BY <1>4, NoAdminFits, VendorUnchanged, AdminLeaves DEF AdminTypes
  <2> QED BY <1>2, <1>4, <2>1, AdminStep DEF ManualExchange
<1> QED BY <1>1, <1>3, <1>4 DEF ManualExchange

LEMMA AdminReadFacts ==
    ASSUME Documents, AdminRead
    PROVE  /\ admin'.at = "write" /\ admin'.op = admin.op
           /\ admin'.copy = row /\ admin'.doc = admin.doc /\ AdminTypes'
BY DEF AdminRead, Documents, TypeOK, AdminTypes

LEMMA AdminReadDocuments == ASSUME Documents, AdminRead PROVE Documents'
<1> TypeOK
  BY DEF Documents
<1>1. /\ admin'.at = "write" /\ admin'.copy = row /\ admin'.doc = admin.doc /\ AdminTypes'
  BY AdminReadFacts
<1>2. VendorMoves /\ UNCHANGED row
  BY VendorUnchanged DEF AdminRead
<1>3. Given(row.doc)' /\ admin.doc.turn <= turn'[admin.doc.grant]
  BY <1>2, RowStays, SameRow, RowFields, GivenStays DEF Documents, AdminOK
<1>4. AdminOK'
  BY <1>1, <1>2, <1>3 DEF AdminOK, AdminAt, Given
<1> QED BY <1>1, <1>4, AdminStep, BooksKept, SameRow DEF AdminRead

LEMMA WrittenFacts ==
    ASSUME TypeOK, NEW d \in Written
    PROVE  /\ d \in Docs
           /\ admin.op # "edit" => d = admin.doc
           /\ admin.op = "edit" => /\ d.grant = admin.copy.doc.grant
                                   /\ d.turn = admin.copy.doc.turn
<1>1. CASE admin.op = "edit"
  <2>1. PICK r \in 0..MaxRevision : d = [admin.copy.doc EXCEPT !.rev = r]
    BY <1>1, RowFields DEF Written, Docs
  <2> QED BY <1>1, <2>1, RowFields DEF Docs
<1>2. CASE admin.op # "edit"
  BY <1>2, RowFields DEF Written
<1> QED BY <1>1, <1>2

LEMMA AdminWriteFacts ==
    ASSUME TypeOK, AdminWrite
    PROVE  /\ row' \in Rows /\ row'.doc \in Written /\ row'.status = admin.copy.status
           /\ admin'.doc = IF admin.op = "reauth" THEN admin.doc ELSE FirstOf(1)
           /\ admin'.copy = IF admin.op = "reauth" THEN admin.copy ELSE NoRow
           /\ admin'.at = IF admin.op = "reauth" THEN "clear" ELSE "idle"
           /\ admin'.op = IF admin.op = "reauth" THEN "reauth" ELSE "edit"
<1>1. PICK d \in Written : row' = [row EXCEPT !.doc = d, !.status = admin.copy.status]
  BY DEF AdminWrite
<1>2. d \in Docs
  BY WrittenFacts
<1>3. row' \in Rows /\ row'.doc = d /\ row'.status = admin.copy.status
  BY <1>1, <1>2 DEF TypeOK, Rows
<1> QED BY <1>3 DEF AdminWrite, TypeOK, NoAdmin

LEMMA AdminWriteDocuments == ASSUME Documents, AdminWrite PROVE Documents'
<1> TypeOK
  BY DEF Documents
<1>1. PICK d \in Written : row'.doc = d
  BY AdminWriteFacts
<1>2. VendorMoves /\ LocksOK' /\ row' \in Rows
  BY VendorUnchanged, LocksKept, AdminWriteFacts DEF AdminWrite
<1>3. Given(row.doc)'
  <2>1. CASE admin.op = "edit"
    <3>1. admin.copy.doc.turn <= turn'[admin.copy.doc.grant]
      BY <1>2, RowFields, GivenStays DEF Documents, AdminOK
    <3> QED BY <1>1, <2>1, <3>1, WrittenFacts DEF Given
  <2>2. CASE admin.op # "edit"
    <3>1. admin.doc.turn <= turn'[admin.doc.grant]
      BY <1>2, RowFields, GivenStays DEF Documents, AdminOK
    <3> QED BY <1>1, <2>2, <3>1, WrittenFacts DEF Given
  <2> QED BY <2>1, <2>2
<1>4. AdminOK' /\ AdminTypes'
  <2>1. CASE admin.op = "reauth"
    <3>1. admin' = [admin EXCEPT !.at = "clear"]
      BY <2>1 DEF AdminWrite
    <3>2. /\ admin'.at = "clear" /\ admin'.op = "reauth" /\ admin'.copy = admin.copy
          /\ admin'.doc = admin.doc /\ AdminTypes'
      BY <2>1, <3>1 DEF TypeOK, AdminTypes
    <3>3. /\ admin.copy.doc.turn <= turn'[admin.copy.doc.grant]
          /\ admin.doc.turn <= turn'[admin.doc.grant]
      BY <1>2, RowFields, GivenStays DEF Documents, AdminOK
    <3> QED BY <3>2, <3>3 DEF AdminOK, AdminAt, Given
  <2>2. CASE admin.op # "reauth"
    BY <1>2, <2>2, NoAdminFits, AdminLeaves DEF AdminWrite, AdminTypes
  <2> QED BY <2>1, <2>2
<1>5. BooksOK' /\ authorized' \in Grants
  <2>1. admin.op \in Mishaps /\ admin.doc.grant \in Grants
    BY RowFields, DocFacts DEF TypeOK, Mishaps
  <2> QED BY <2>1 DEF AdminWrite, TypeOK, BooksOK
<1>6. revoked' \subseteq Grants /\ fresh' \subseteq Tokens /\ LastIsFresh'
  BY DEF AdminWrite, vendor, TypeOK, Documents, LastIsFresh
<1> QED BY <1>2, <1>3, <1>4, <1>5, <1>6, IdleStep DEF AdminWrite

LEMMA AdminEndsDocuments == ASSUME Documents, AdminClear \/ AdminFails PROVE Documents'
<1> TypeOK
  BY DEF Documents
<1>1. admin' = NoAdmin /\ UNCHANGED <<grok, authorized, vendor, locks, work>>
  BY DEF AdminClear, AdminFails
<1>2. AdminTypes' /\ AdminOK'
  BY <1>1, NoAdminFits, VendorUnchanged, AdminLeaves DEF AdminTypes
<1>3. row' \in Rows /\ row'.doc = row.doc
  BY StatusFacts DEF AdminClear, AdminFails
<1>4. BooksOK'
  BY BooksKept DEF AdminClear, AdminFails, Mishaps
<1> QED BY <1>1, <1>2, <1>3, <1>4, AdminStep

-----------------------------------------------------------------------------
LEMMA InitDocuments == Init => Documents
<1> SUFFICES ASSUME Init PROVE Documents
  OBVIOUS
<1>1. /\ FirstOf(1) \in Docs /\ FirstOf(1).grant = 1 /\ FirstOf(1).turn = 1
      /\ Token(FirstOf(1)) \in Tokens /\ Token(FirstOf(1)) = [grant |-> 1, turn |-> 1]
  BY FirstFacts, OneIsGrant DEF Token
<1>2. NoRow \in Rows /\ NoRow.doc = FirstOf(1)
  BY <1>1 DEF NoRow, Rows
<1>3. NoWork \in Work
  BY <1>1, <1>2, RefreshAssumption DEF NoWork, Work
<1>4. turn \in [Grants -> 0..MaxTurns] /\ turn[1] = 1 /\ \A g \in Grants : g # 1 => turn[g] = 0
  BY OneIsGrant, RefreshAssumption DEF Init
<1>5. /\ admin.at = "idle" /\ admin.doc = FirstOf(1) /\ admin.copy = NoRow
      /\ admin \in [at : {"idle", "exchange", "read", "write", "clear"},
                    op : {"edit", "manual", "reauth"}, copy : Rows, doc : Docs]
  BY <1>1, <1>2 DEF Init, NoAdmin
<1>6. TypeOK
  BY <1>1, <1>2, <1>3, <1>4, <1>5, OneIsGrant, RefreshAssumption DEF Init, TypeOK
<1>7. LastIsFresh
  BY <1>1, <1>4, RefreshAssumption DEF LastIsFresh, Init
<1>8. Given(FirstOf(1)) /\ Given(row.doc) /\ AdminOK
  BY <1>1, <1>2, <1>4, <1>5 DEF Given, AdminOK, AdminAt, Init
<1>9. \A w \in Workers : WorkerOK(w)
  BY <1>1, <1>2, <1>4 DEF Given, WorkerOK, At, Init, NoWork
<1> QED BY <1>6, <1>7, <1>8, <1>9 DEF Documents

LEMMA NextDocuments == Documents /\ [Next]_vars => Documents'
<1> SUFFICES ASSUME Documents, [Next]_vars PROVE Documents'
  OBVIOUS
<1>1. ASSUME NEW w \in Workers, Pick(w) \/ Step(w) \/ PersistFails(w) \/ TimeOut(w)
      PROVE  Documents'
  BY <1>1, PickDocuments, LockDocuments, AcquireDocuments, RereadDocuments, ExchangeDocuments,
     RecheckDocuments, PersistDocuments, ReleaseDocuments, ClearDocuments, QuarantineDocuments,
     CoolDocuments, PersistFailsDocuments, TimeOutDocuments DEF Step
<1>2. ASSUME NEW i \in Instances, Crash(i) PROVE Documents'
  BY <1>2, CrashDocuments
<1>3. CASE Time \/ Revoke
  BY <1>3, TimeDocuments
<1>4. CASE Admin
  BY <1>4, EditDocuments, ReauthorizeDocuments, ManualRefreshDocuments, ManualExchangeDocuments,
     AdminReadDocuments, AdminWriteDocuments, AdminEndsDocuments DEF Admin
<1>5. CASE UNCHANGED vars
  BY <1>5 DEF vars, vendor, locks, Documents, TypeOK, WorkerOK, AdminOK, LastIsFresh,
     Given, At, AdminAt, FirstOf, Token, NextOf
<1> QED BY <1>1, <1>2, <1>3, <1>4, <1>5 DEF Next

\* The types hold, every document around was given by the vendor, and no worker is
\* about to exchange a token that it did not find due.
THEOREM DocumentsHold == Spec => []Documents
BY InitDocuments, NextDocuments, PTL DEF Spec

\* Every variable keeps its type: no turn, attempt or fault counter leaves its bounds.
THEOREM TypeCorrect == Spec => []TypeOK
<1>1. Documents => TypeOK
  BY DEF Documents
<1> QED BY <1>1, DocumentsHold, PTL

-----------------------------------------------------------------------------
(* The lease                                                                 *)

Past(l) == l \in Inside \ {"lock"}

\* What happened stays on record; only an expiry puts down a lapse.
HistoryGrows == history \subseteq history' /\ ("lapse" \in history' => "lapse" \in history)

LEMMA HarmGrows ==
    /\ NoFault => HistoryGrows
    /\ JustFault => HistoryGrows
    /\ \A ks : (Harm(ks) /\ "lapse" \notin ks) => HistoryGrows /\ ks \subseteq history'
BY DEF NoFault, JustFault, Harm, HistoryGrows

\* A worker keeps what it holds, or a step leaves it without the lock and not past it.
LEMMA LeaseStays ==
    ASSUME LeaseHeld, HistoryGrows, UNCHANGED <<grok, lease>>,
           \A v \in Workers : \/ /\ work'[v].holds = work[v].holds
                                 /\ Past(work'[v].at) => Past(work[v].at)
                              \/ ~work'[v].holds /\ ~Past(work'[v].at)
    PROVE  LeaseHeld'
BY DEF LeaseHeld, HistoryGrows, Spared, Past

LEMMA StepLease ==
    ASSUME Documents, LeaseHeld, NEW w \in Workers,
           Pick(w) \/ Step(w) \/ PersistFails(w) \/ TimeOut(w)
    PROVE  LeaseHeld'
<1> TypeOK
  BY DEF Documents
<1>0. work[w].used.doc \in Docs /\ row.doc \in Docs /\ work[w].next \in Docs
  BY WorkFields, RowFields
<1>1. CASE Pick(w)
  <2>1. Only(w) /\ ~work'[w].holds /\ work'[w].at = "queued"
    BY <1>1, PickLeaves DEF Pick
  <2>2. HistoryGrows /\ UNCHANGED <<grok, lease>>
    BY <1>1 DEF Pick, HistoryGrows, locks
  <2> QED BY <2>1, <2>2, LeaseStays DEF Only, Past, Inside
<1>2. CASE Lock(w)
  <2>1. Only(w) /\ SameHolds(w) /\ work'[w].at = "lock"
    BY <1>2, GotoLeaves DEF Lock, Spots, Inside
  <2>2. HistoryGrows /\ UNCHANGED <<grok, lease>>
    BY <1>2, HarmGrows DEF Lock
  <2> QED BY <2>1, <2>2, LeaseStays DEF Only, SameHolds, Past
<1>3. CASE Acquire(w)
  <2>1. CASE /\ lease = None /\ lease' = w
             /\ work' = [work EXCEPT ![w].at = "reread", ![w].holds = TRUE]
             /\ NoFault
    <3>1. Only(w) /\ work'[w].holds /\ HistoryGrows
      BY <2>1, AcquireLeaves, HarmGrows
    <3>2. None \notin Workers
      BY RefreshAssumption
    <3> QED BY <1>3, <2>1, <3>1, <3>2 DEF LeaseHeld, HistoryGrows, Spared, Only, Acquire
  <2>2. CASE Goto(w, "skip") /\ NoFault /\ UNCHANGED lease
    <3>1. Only(w) /\ SameHolds(w) /\ work'[w].at = "skip" /\ HistoryGrows
      BY <2>2, GotoLeaves, HarmGrows DEF Spots, Results
    <3> QED BY <1>3, <2>2, <3>1, LeaseStays DEF Acquire, Only, SameHolds, Past, Inside
  <2>3. CASE Harm({"redis"})
    <3>1. HistoryGrows /\ "redis" \in history'
      BY <2>3, HarmGrows
    <3> QED BY <1>3, <3>1 DEF LeaseHeld, HistoryGrows, Spared, Acquire
  <2> QED BY <1>3, <2>1, <2>2, <2>3 DEF Acquire
<1>4. CASE Reread(w) \/ Exchange(w) \/ Recheck(w) \/ Persist(w)
  <2>1. HistoryGrows /\ UNCHANGED <<grok, lease>>
    BY <1>4, HarmGrows DEF Reread, Exchange, Recheck, Persist, locks
  <2>2. Past(work[w].at)
    BY <1>4 DEF Reread, Exchange, Recheck, Persist, At, Past, Inside
  <2>3. Only(w) /\ SameHolds(w)
    <3>1. CASE Reread(w)
      BY <1>0, <3>1, RereadLeaves, ReturnLeaves, GotoLeaves DEF Reread, Spots, Results
    <3>2. CASE Exchange(w)
      BY <1>0, <3>2, ExchangeRotates, ReturnLeaves, GotoLeaves DEF Exchange, Spots, Results, Inside
    <3>3. CASE Recheck(w)
      BY <1>0, <3>3, ReturnLeaves DEF Recheck, Spots, Results
    <3>4. CASE Persist(w)
      BY <1>0, <3>4, PersistLeaves, ReturnLeaves DEF Persist, Spots, Results
    <3> QED BY <1>4, <3>1, <3>2, <3>3, <3>4
  <2> QED BY <2>1, <2>2, <2>3, LeaseStays DEF Only, SameHolds
<1>5. CASE PersistFails(w) \/ TimeOut(w)
  <2>1. HistoryGrows /\ UNCHANGED <<grok, lease>>
    BY <1>5, HarmGrows DEF PersistFails, TimeOut, locks
  <2>2. Only(w) /\ SameHolds(w) /\ work'[w].at \in {"skip", "retry"}
    BY <1>5, GotoLeaves DEF PersistFails, TimeOut, Spots, Results
  <2> QED BY <2>1, <2>2, LeaseStays DEF Only, SameHolds, Past, Inside
<1>6. CASE Release(w)
  <2>1. Only(w) /\ ~work'[w].holds /\ work'[w].at = Sequel(w)
    BY <1>6, ReleaseLeaves
  <2>2. ~Past(work'[w].at)
    BY <2>1, SequelIn DEF Past, Inside
  <2>3. HistoryGrows /\ grok' = grok
    BY <1>6 DEF Release, Unlock, HistoryGrows
  <2>4. CASE lease' = lease
    BY <2>1, <2>2, <2>3, <2>4, LeaseStays DEF Only
  <2>5. CASE lease' = None /\ work[w].holds
    BY <2>1, <2>2, <2>3, <2>5 DEF LeaseHeld, HistoryGrows, Spared, Only, Past
  <2> QED BY <1>6, <2>4, <2>5 DEF Release, Unlock
<1>7. CASE Clear(w) \/ Quarantine(w) \/ Cool(w)
  <2>1. Only(w) /\ ~work'[w].holds /\ work'[w].at = "idle"
    BY <1>7, DoneLeaves DEF Clear, Quarantine, Cool, NoWork
  <2>2. HistoryGrows /\ UNCHANGED <<grok, lease>>
    BY <1>7, HarmGrows DEF Clear, Quarantine, Cool, locks
  <2> QED BY <2>1, <2>2, LeaseStays DEF Only, Past, Inside
<1> QED BY <1>1, <1>2, <1>3, <1>4, <1>5, <1>6, <1>7 DEF Step

LEMMA CrashLease == ASSUME LeaseHeld, NEW i \in Instances, Crash(i) PROVE LeaseHeld'
<1>1. HistoryGrows /\ UNCHANGED <<grok, lease>>
  BY HarmGrows DEF Crash
<1>2. \A w \in Workers : work'[w] = NoWork \/ work'[w] = work[w]
  BY DEF Crash
<1>3. ~NoWork.holds /\ ~Past(NoWork.at)
  BY DEF NoWork, Past, Inside
<1> QED BY <1>1, <1>2, <1>3, LeaseStays

LEMMA ExpiryLease == ASSUME Documents, LeaseHeld, LeaseExpires PROVE LeaseHeld'
<1>1. lease \in Workers /\ UNCHANGED <<grok, work>> /\ history \subseteq history'
  BY DEF LeaseExpires, MayExpire, Documents, TypeOK
<1>2. CASE Working(lease)
  BY <1>1, <1>2 DEF LeaseExpires, MayExpire, LeaseHeld, Spared, Bounded
<1>3. CASE ~Working(lease)
  <2>1. history' = history
    BY <1>3 DEF LeaseExpires
  <2>2. Spared({"redis", "lapse"}) =>
           \A w \in Workers : ~work[w].holds /\ ~Past(work[w].at)
    BY <1>3 DEF LeaseHeld, Working, Past
  <2> QED BY <1>1, <2>1, <2>2 DEF LeaseHeld, Spared, Past
<1> QED BY <1>2, <1>3

LEMMA NextLease == Documents /\ LeaseHeld /\ [Next]_vars => LeaseHeld'
<1> SUFFICES ASSUME Documents, LeaseHeld, [Next]_vars PROVE LeaseHeld'
  OBVIOUS
<1>1. CASE UNCHANGED vars
  BY <1>1 DEF vars, locks, LeaseHeld, Spared
<1>2. CASE CooldownEnds \/ ExpireToken \/ Revoke \/ Admin
  <2>1. UNCHANGED <<grok, lease, work>>
    BY <1>2 DEF CooldownEnds, ExpireToken, Revoke, Admin, Edit, Reauthorize, ManualRefresh,
       ManualExchange, AdminRead, AdminWrite, AdminClear, AdminFails, locks
  <2>2. HistoryGrows
    BY <1>2, HarmGrows
       DEF CooldownEnds, ExpireToken, Revoke, Admin, Edit, Reauthorize, ManualRefresh,
       ManualExchange, AdminRead, AdminWrite, AdminClear, AdminFails, HistoryGrows,
       Documents, TypeOK
  <2> QED BY <2>1, <2>2, LeaseStays
<1> QED BY <1>1, <1>2, StepLease, CrashLease, ExpiryLease DEF Next, Time

\* A worker past the lock has it, while Redis answers and no lease lapses under it.
THEOREM LeaseIsHeld == Spec => []LeaseHeld
<1>1. Init => LeaseHeld
  BY DEF Init, LeaseHeld, NoWork, Inside
<1> QED BY <1>1, NextLease, DocumentsHold, PTL DEF Spec

\* The lease keeps refreshes apart: one worker at a time between reread and storage.
THEOREM RefreshesAreApart == Spec => []OneRefreshAtATime
<1>1. LeaseHeld => OneRefreshAtATime
  BY DEF LeaseHeld, OneRefreshAtATime
<1> QED BY <1>1, LeaseIsHeld, PTL

-----------------------------------------------------------------------------
(* Steps seen from afar: what they do to the documents that matter.          *)

Hot == {"exchange", "persist", "recheck", "dead", "quarantine"}

Steady == /\ UNCHANGED <<grok, turn, revoked, authorized, admin>>
          /\ denied \subseteq denied' /\ history \subseteq history'
SameRowDoc == row'.doc = row.doc /\ row'.status = row.status

\* A worker leaves for a place where its documents do not matter.
Rests(v) ==
    work'[v].at \notin Hot /\ work'[v].used.doc \in {work[v].used.doc, FirstOf(1)}

\* A worker drops what it was to store after a mishap, or as the account has changed.
MayDrop(v) ==
    \/ history' \cap {"crash", "timeout", "write"} # {}
    \/ grok /\ row.doc # work[v].used.doc

Quiet ==
    /\ Steady /\ SameRowDoc
    /\ \A v \in Workers :
          work'[v] = work[v] \/ (Rests(v) /\ (At(v, "persist") => MayDrop(v)))

Reads(w) ==
    /\ Steady /\ SameRowDoc /\ Only(w) /\ At(w, "reread") /\ row.status = "active"
    /\ work'[w].at = "exchange" /\ work'[w].used = row

Rotates(w) ==
    /\ UNCHANGED <<grok, revoked, denied, authorized, admin>> /\ history \subseteq history'
    /\ SameRowDoc /\ Only(w) /\ At(w, "exchange") /\ Valid(work[w].used.doc)
    /\ turn'[work[w].used.doc.grant] = work[w].used.doc.turn + 1
    /\ \A g \in Grants \ {work[w].used.doc.grant} : turn'[g] = turn[g]
    /\ work'[w].at = "persist" /\ SameUsed(w)
    /\ work'[w].next.grant = work[w].used.doc.grant
    /\ work'[w].next.turn = work[w].used.doc.turn + 1

\* The vendor says no, to the token or to its grant, and the recheck finds nothing
\* better.
Refuses(w) ==
    /\ Steady /\ SameRowDoc /\ Only(w) /\ SameUsed(w)
    /\ \/ At(w, "exchange") /\ ~Valid(work[w].used.doc)
       \/ At(w, "recheck") /\ work'[w].at = "dead"
       \/ /\ At(w, "exchange") /\ work[w].used.doc.grant \in denied'
          /\ work'[w].at = "dead"
    /\ \/ work'[w].at = "recheck"
       \/ work'[w].at = "dead" /\ work'[w].account = work[w].used.doc

Stores(w) ==
    /\ Steady /\ Only(w) /\ At(w, "persist") /\ MayStore(w)
    /\ row'.doc = work[w].next /\ row'.status = row.status
    /\ work'[w].at \notin Hot /\ work'[w].used.doc = work[w].used.doc

Condemns(w) ==
    /\ Steady /\ SameRowDoc /\ Only(w) /\ At(w, "dead") /\ work'[w].at = "quarantine"
    /\ SameAccount(w) /\ work'[w].used.doc = FirstOf(1)

Blocks(w) ==
    /\ Steady /\ Only(w) /\ At(w, "quarantine") /\ MayBlock(w)
    /\ row'.doc = row.doc /\ row'.status = "error"
    /\ work'[w].at = "idle" /\ work'[w].used.doc = FirstOf(1)

Revokes ==
    /\ UNCHANGED <<grok, turn, denied, authorized, admin, work>> /\ history \subseteq history'
    /\ SameRowDoc /\ revoked \subseteq revoked'

Acts(w) ==
    Reads(w) \/ Rotates(w) \/ Refuses(w) \/ Stores(w) \/ Condemns(w) \/ Blocks(w)

LEMMA HarmAdds ==
    /\ NoFault => history \subseteq history'
    /\ JustFault => history \subseteq history'
    /\ \A ks : Harm(ks) => history \subseteq history' /\ ks \subseteq history'
BY DEF NoFault, JustFault, Harm

\* One worker that rests, with the account as it is.
LEMMA QuietStep ==
    ASSUME NEW w \in Workers, Steady, SameRowDoc, Only(w), Rests(w),
           At(w, "persist") => MayDrop(w)
    PROVE  Quiet
BY DEF Quiet, Only

LEMMA StepActs ==
    ASSUME Documents, NEW w \in Workers, Pick(w) \/ Step(w) \/ PersistFails(w) \/ TimeOut(w)
    PROVE  Quiet \/ Acts(w)
<1> TypeOK
  BY DEF Documents
<1>0. work[w].used.doc \in Docs /\ row.doc \in Docs /\ work[w].next \in Docs
      /\ NoRow.doc = FirstOf(1)
  BY WorkFields, RowFields DEF NoRow
<1>1. CASE Pick(w)
  <2>1. Only(w) /\ work'[w].at = "queued" /\ work'[w].used.doc = FirstOf(1)
    BY <1>0, <1>1, PickLeaves DEF Pick
  <2>2. Steady /\ SameRowDoc /\ ~At(w, "persist")
    BY <1>1 DEF Pick, Steady, SameRowDoc, vendor, At
  <2> QED BY <2>1, <2>2, QuietStep DEF Rests, Hot
<1>2. CASE Lock(w)
  <2>1. Only(w) /\ work'[w].at = "lock" /\ SameUsed(w)
    BY <1>2, GotoLeaves DEF Lock, Spots, Inside
  <2>2. Steady /\ SameRowDoc /\ ~At(w, "persist")
    BY <1>2, HarmAdds DEF Lock, Steady, SameRowDoc, vendor, At
  <2> QED BY <2>1, <2>2, QuietStep DEF Rests, Hot, SameUsed
<1>3. CASE Acquire(w)
  <2>1. Only(w) /\ work'[w].at \in {"reread", "skip"} /\ SameUsed(w)
    BY <1>3, GotoLeaves, AcquireLeaves DEF Acquire, Spots, Inside, Results
  <2>2. Steady /\ SameRowDoc /\ ~At(w, "persist")
    BY <1>3, HarmAdds DEF Acquire, Steady, SameRowDoc, vendor, At
  <2> QED BY <2>1, <2>2, QuietStep DEF Rests, Hot, SameUsed
<1>4. CASE Reread(w)
  <2>1. Steady /\ SameRowDoc /\ At(w, "reread")
    BY <1>4, HarmAdds DEF Reread, Steady, SameRowDoc, vendor
  <2>2. CASE Wanted(w) /\ work' = [work EXCEPT ![w].at = "exchange", ![w].used = row]
    BY <2>1, <2>2, RereadLeaves DEF Wanted, Acts, Reads
  <2>3. CASE Return(w, "skip", row.doc) \/ Goto(w, "skip")
    <3>1. Only(w) /\ work'[w].at = "skip" /\ SameUsed(w)
      BY <1>0, <2>3, ReturnLeaves, GotoLeaves DEF Spots, Results
    <3> QED BY <2>1, <3>1, QuietStep DEF Rests, Hot, SameUsed, At
  <2> QED BY <1>4, <2>2, <2>3 DEF Reread
<1>5. CASE Exchange(w)
  <2>1. /\ UNCHANGED <<grok, authorized, admin>> /\ history \subseteq history'
        /\ SameRowDoc /\ At(w, "exchange")
    BY <1>5, HarmAdds DEF Exchange, SameRowDoc
  <2>2. CASE /\ Rotate(work[w].used.doc)
             /\ work' = [work EXCEPT ![w].at = "persist", ![w].next = NextOf(work[w].used.doc)]
    <3>1. /\ Only(w) /\ work'[w].at = "persist" /\ SameUsed(w)
          /\ work'[w].next = NextOf(work[w].used.doc)
          /\ turn'[work[w].used.doc.grant] = work[w].used.doc.turn + 1
          /\ \A g \in Grants \ {work[w].used.doc.grant} : turn'[g] = turn[g]
      BY <2>1, <2>2, ExchangeRotates
    <3>2. /\ work'[w].next.grant = work[w].used.doc.grant
          /\ work'[w].next.turn = work[w].used.doc.turn + 1
      BY <1>0, <3>1, DocFacts
    <3> QED BY <2>1, <2>2, <3>1, <3>2 DEF Acts, Rotates, Rotate
  <2>3. CASE ~Valid(work[w].used.doc) /\ UNCHANGED vendor
             /\ (Goto(w, "recheck") \/ Return(w, "dead", work[w].used.doc))
    <3>1. /\ Only(w) /\ SameUsed(w)
          /\ \/ work'[w].at = "recheck"
             \/ work'[w].at = "dead" /\ work'[w].account = work[w].used.doc
      BY <1>0, <2>3, ReturnLeaves, GotoLeaves DEF Spots, Results, Inside
    <3> QED BY <2>1, <2>3, <3>1 DEF Acts, Refuses, Steady, vendor
  <2>4. CASE /\ UNCHANGED vendor
             /\ \/ Return(w, "retry", work[w].used.doc)
                \/ Return(w, "skip", work[w].used.doc)
    <3>1. Only(w) /\ work'[w].at \in {"retry", "skip"} /\ SameUsed(w)
      BY <1>0, <2>4, ReturnLeaves DEF Spots, Results
    <3> QED BY <2>1, <2>4, <3>1, QuietStep DEF Rests, Hot, SameUsed, At, Steady, vendor
  <2>5. CASE Deny(work[w].used.doc) /\ Return(w, "dead", work[w].used.doc)
    <3>1. /\ Only(w) /\ SameUsed(w) /\ work'[w].at = "dead"
          /\ work'[w].account = work[w].used.doc
      BY <1>0, <2>5, ReturnLeaves DEF Spots, Results
    <3> QED BY <2>1, <2>5, <3>1 DEF Acts, Refuses, Steady, Deny
  <2> QED BY <1>5, <2>2, <2>3, <2>4, <2>5 DEF Exchange
<1>6. CASE Recheck(w)
  <2>1. Steady /\ SameRowDoc /\ At(w, "recheck")
    BY <1>6, HarmAdds DEF Recheck, Steady, SameRowDoc, vendor
  <2>2. CASE Return(w, "skip", row.doc)
    <3>1. Only(w) /\ work'[w].at = "skip" /\ SameUsed(w)
      BY <1>0, <2>2, ReturnLeaves DEF Spots, Results
    <3> QED BY <2>1, <3>1, QuietStep DEF Rests, Hot, SameUsed, At
  <2>3. CASE Return(w, "dead", work[w].used.doc)
    <3>1. /\ Only(w) /\ work'[w].at = "dead" /\ SameUsed(w)
          /\ work'[w].account = work[w].used.doc
      BY <1>0, <2>3, ReturnLeaves DEF Spots, Results
    <3> QED BY <2>1, <3>1 DEF Acts, Refuses
  <2> QED BY <1>6, <2>2, <2>3 DEF Recheck
<1>7. CASE Persist(w)
  <2>1. Steady /\ At(w, "persist")
    BY <1>7, HarmAdds DEF Persist, Steady, vendor
  <2>2. CASE /\ MayStore(w) /\ Store(w)
             /\ work' = [work EXCEPT ![w].at = "ok", ![w].account = work[w].next,
                                     ![w].used = Found(w)]
    <3>1. Only(w) /\ work'[w].at = "ok" /\ work'[w].used.doc = work[w].used.doc
      BY <2>2, PersistLeaves
    <3>2. row'.doc = work[w].next /\ row'.status = row.status
      BY <1>7, <2>2, StoreFacts DEF Persist
    <3> QED BY <2>1, <2>2, <3>1, <3>2 DEF Acts, Stores, Hot
  <2>3. CASE ~MayStore(w) /\ Return(w, "skip", row.doc) /\ UNCHANGED row
    <3>1. Only(w) /\ work'[w].at = "skip" /\ SameUsed(w)
      BY <1>0, <2>3, ReturnLeaves DEF Spots, Results
    <3> QED BY <2>1, <2>3, <3>1, QuietStep
            DEF Rests, Hot, SameUsed, MayDrop, MayStore, SameRowDoc
  <2> QED BY <1>7, <2>2, <2>3 DEF Persist
<1>8. CASE PersistFails(w)
  <2>1. Steady /\ At(w, "persist")
    BY <1>8, HarmAdds DEF PersistFails, Steady, vendor
  <2>2. Only(w) /\ work'[w].at \in {"skip", "retry"} /\ SameUsed(w)
    BY <1>8, GotoLeaves DEF PersistFails, Spots, Results
  <2>3. CASE Harm({"write"}) /\ UNCHANGED row
    BY <2>1, <2>2, <2>3, HarmAdds, QuietStep DEF Rests, Hot, SameUsed, MayDrop, SameRowDoc
  <2>4. CASE MayStore(w) /\ Store(w)
    <3>1. row'.doc = work[w].next /\ row'.status = row.status
      BY <1>8, <2>4, StoreFacts DEF PersistFails
    <3> QED BY <2>1, <2>2, <2>4, <3>1 DEF Acts, Stores, Hot, SameUsed
  <2> QED BY <1>8, <2>3, <2>4 DEF PersistFails
<1>9. CASE TimeOut(w)
  <2>1. Steady /\ SameRowDoc
    BY <1>9, HarmAdds DEF TimeOut, Steady, SameRowDoc, vendor
  <2>2. Only(w) /\ work'[w].at = "retry" /\ SameUsed(w)
    BY <1>9, GotoLeaves DEF TimeOut, Spots, Results
  <2>3. At(w, "persist") => MayDrop(w)
    BY <1>9, HarmAdds DEF TimeOut, MayDrop
  <2> QED BY <2>1, <2>2, <2>3, QuietStep DEF Rests, Hot, SameUsed
<1>10. CASE Release(w)
  <2>1. Steady /\ SameRowDoc /\ ~At(w, "persist")
    BY <1>10 DEF Release, Unlock, Steady, SameRowDoc, vendor, At, Results
  <2>2. Only(w) /\ work'[w].at = Sequel(w) /\ work'[w].used.doc = FirstOf(1)
        /\ (Sequel(w) # "idle" => SameAccount(w))
    BY <1>0, <1>10, ReleaseLeaves
  <2>3. CASE Sequel(w) = "quarantine"
    <3>1. At(w, "dead")
      BY <2>3 DEF Sequel
    <3> QED BY <2>1, <2>2, <2>3, <3>1 DEF Acts, Condemns
  <2>4. CASE Sequel(w) # "quarantine"
    <3>1. Sequel(w) \notin Hot
      BY <2>4, SequelIn DEF Hot
    <3> QED BY <2>1, <2>2, <3>1, QuietStep DEF Rests
  <2> QED BY <2>3, <2>4
<1>11. CASE Clear(w) \/ Quarantine(w) \/ Cool(w)
  <2>1. Steady /\ ~At(w, "persist") /\ row'.doc = row.doc
    BY <1>11, HarmAdds, StatusFacts DEF Clear, Quarantine, Cool, Steady, vendor, At
  <2>2. Only(w) /\ work'[w].at = "idle" /\ work'[w].used.doc = FirstOf(1)
    BY <1>0, <1>11, DoneLeaves DEF Clear, Quarantine, Cool, NoWork
  <2>3. CASE row'.status = row.status
    BY <2>1, <2>2, <2>3, QuietStep DEF Rests, Hot, SameRowDoc
  <2>4. CASE row'.status # row.status
    <3>1. [row EXCEPT !.cooldown = FALSE].status = row.status
          /\ [row EXCEPT !.cooldown = TRUE].status = row.status
          /\ [row EXCEPT !.status = "error"].status = "error"
      BY DEF TypeOK, Rows
    <3>2. Quarantine(w) /\ MayBlock(w) /\ row'.status = "error"
      BY <1>11, <2>4, <3>1 DEF Clear, Quarantine, Cool
    <3> QED BY <2>1, <2>2, <3>2 DEF Acts, Blocks, Quarantine
  <2> QED BY <2>3, <2>4
<1> QED BY <1>1, <1>2, <1>3, <1>4, <1>5, <1>6, <1>7, <1>8, <1>9, <1>10, <1>11 DEF Step

LEMMA CrashIsQuiet == ASSUME Documents, NEW i \in Instances, Crash(i) PROVE Quiet
<1>1. Steady /\ SameRowDoc
  BY HarmAdds DEF Crash, Steady, SameRowDoc, vendor
<1>2. NoWork.at \notin Hot /\ NoWork.used.doc = FirstOf(1)
  BY DEF NoWork, NoRow, Hot
<1>3. ASSUME NEW v \in Workers, work'[v] # work[v]
      PROVE  Rests(v) /\ (At(v, "persist") => MayDrop(v))
  <2>1. InstanceOf[v] = i /\ work'[v] = NoWork
    BY <1>3 DEF Crash
  <2>2. At(v, "persist") => "crash" \in history'
    BY <2>1, HarmAdds DEF Crash
  <2> QED BY <1>2, <2>1, <2>2 DEF Rests, MayDrop
<1> QED BY <1>1, <1>3 DEF Quiet

LEMMA TimeIsQuiet == ASSUME Documents, Time \/ UNCHANGED vars PROVE Quiet
<1>1. UNCHANGED <<grok, turn, revoked, denied, authorized, admin, work>>
  BY DEF Time, LeaseExpires, CooldownEnds, ExpireToken, vars, vendor
<1>2. history \subseteq history'
  BY HarmAdds DEF Time, LeaseExpires, CooldownEnds, ExpireToken, vars
<1>3. SameRowDoc
  BY DEF Time, LeaseExpires, CooldownEnds, ExpireToken, vars, SameRowDoc, Documents, TypeOK, Rows
<1> QED BY <1>1, <1>2, <1>3 DEF Quiet, Steady

LEMMA RevokeRevokes == Revoke => Revokes
BY HarmAdds DEF Revoke, Revokes, SameRowDoc

\* An invariant of the steps seen from afar is one of all steps.
LEMMA FromAfar ==
    ASSUME Documents, [Next]_vars
    PROVE  \/ Quiet \/ Revokes \/ Admin
           \/ \E w \in Workers : Acts(w)
BY StepActs, CrashIsQuiet, TimeIsQuiet, RevokeRevokes DEF Next

-----------------------------------------------------------------------------
(* The grant in force                                                        *)

\* What a worker is about to store belongs to the grant of the token it exchanged.
LEMMA NextFacts ==
    ASSUME Documents, NEW w \in Workers, At(w, "persist")
    PROVE  /\ work[w].next.grant = work[w].used.doc.grant
           /\ work[w].next.turn = work[w].used.doc.turn + 1
           /\ work[w].next.rev = work[w].used.doc.rev
BY WorkFields, DocFacts DEF Documents, WorkerOK

LEMMA ActsGrant ==
    ASSUME Documents, GrantInForce, NEW w \in Workers, Acts(w)
    PROVE  GrantInForce'
<1>1. UNCHANGED <<grok, authorized, admin>>
  BY DEF Acts, Reads, Rotates, Refuses, Stores, Condemns, Blocks, Steady
<1>2. grok => row'.doc.grant = row.doc.grant
  <2>1. CASE Stores(w)
    BY <2>1, NextFacts DEF Stores, MayStore
  <2>2. CASE ~Stores(w)
    BY <2>2 DEF Acts, Reads, Rotates, Refuses, Condemns, Blocks, SameRowDoc
  <2> QED BY <2>1, <2>2
<1> QED BY <1>1, <1>2 DEF GrantInForce

LEMMA AdminGrant ==
    ASSUME Documents, GrantInForce, Admin
    PROVE  GrantInForce'
<1> TypeOK
  BY DEF Documents
<1>1. CASE Edit
  BY <1>1 DEF Edit, Begin, NoAdmin, GrantInForce
<1>2. CASE Reauthorize
  BY <1>2 DEF Reauthorize, Begin, NoAdmin, GrantInForce
<1>3. CASE ManualRefresh
  BY <1>3 DEF ManualRefresh, Begin, NoAdmin, GrantInForce
<1>4. CASE ManualExchange
  <2>1. PICK d \in Docs : d = admin.copy.doc
    BY RowFields
  <2>2. CASE d.turn < MaxTurns /\ Rotate(d)
             /\ admin' = [admin EXCEPT !.at = "read", !.doc = NextOf(d)]
    <3>1. /\ admin'.at = "read" /\ admin'.op = "manual" /\ admin'.doc = NextOf(d)
      BY <1>4, <2>1, <2>2, ManualExchangeRotates DEF ManualExchange
    <3>2. NextOf(d).grant = admin.copy.doc.grant
      BY <2>1, DocFacts
    <3> QED BY <1>4, <3>1, <3>2 DEF ManualExchange, GrantInForce, AdminAt
  <2>3. CASE admin' = NoAdmin
    BY <1>4, <2>3 DEF ManualExchange, NoAdmin, GrantInForce
  <2> QED BY <1>4, <2>1, <2>2, <2>3 DEF ManualExchange
<1>5. CASE AdminRead
  BY <1>5, AdminReadFacts DEF AdminRead, AdminAt, GrantInForce
<1>6. CASE AdminWrite
  <2>1. PICK d \in Written : row'.doc = d
    BY <1>6, AdminWriteFacts
  <2>2. /\ admin'.at \in {"clear", "idle"} /\ UNCHANGED grok /\ AdminAt("write")
        /\ authorized' = (IF admin.op = "reauth" THEN admin.doc.grant ELSE authorized)
    BY <1>6, AdminWriteFacts DEF AdminWrite
  <2>3. admin.op \in {"edit", "manual", "reauth"}
    BY DEF TypeOK
  <2>4. grok => row'.doc.grant = authorized'
    BY <2>1, <2>2, <2>3, WrittenFacts DEF GrantInForce, AdminAt
  <2> QED BY <2>2, <2>4 DEF GrantInForce
<1>7. CASE AdminClear \/ AdminFails
  <2>1. row'.doc = row.doc
    BY <1>7, StatusFacts DEF AdminClear, AdminFails
  <2>2. admin'.at = "idle" /\ UNCHANGED <<grok, authorized>>
    BY <1>7 DEF AdminClear, AdminFails, NoAdmin
  <2> QED BY <2>1, <2>2 DEF GrantInForce
<1> QED BY <1>1, <1>2, <1>3, <1>4, <1>5, <1>6, <1>7 DEF Admin

LEMMA NextGrant == Documents /\ GrantInForce /\ [Next]_vars => GrantInForce'
<1> SUFFICES ASSUME Documents, GrantInForce, [Next]_vars PROVE GrantInForce'
  OBVIOUS
<1>1. CASE Quiet \/ Revokes
  BY <1>1 DEF Quiet, Steady, Revokes, SameRowDoc, GrantInForce
<1> QED BY <1>1, FromAfar, ActsGrant, AdminGrant

\* What an operation of the administrator has read, or obtained, is of the grant in force.
THEOREM GrantStaysInForce == Spec => []GrantInForce
<1>1. Init => GrantInForce
  BY OneIsGrant, FirstFacts DEF Init, GrantInForce, NoRow, NoAdmin
<1> QED BY <1>1, NextGrant, DocumentsHold, PTL DEF Spec

\* A Grok account keeps the grant of the last reauthorization, whatever workers store.
THEOREM ReauthorizationHolds == Spec => []ReauthorizationStays
<1>1. GrantInForce => ReauthorizationStays
  BY DEF GrantInForce, ReauthorizationStays
<1> QED BY <1>1, GrantStaysInForce, PTL

-----------------------------------------------------------------------------
(* The successor of a token                                                  *)

Careful == Spared({"crash", "timeout", "write", "edit", "manual"})

LEMMA CarriedParts ==
    ASSUME Documents, Carried, Careful
    PROVE  /\ Unedited /\ StoredOrCarried /\ NewGrantIsNew
           /\ \A w \in Workers : At(w, "persist") =>
                 CarrierOK(w) /\ \A v \in Workers : CarrierIsAlone(w, v)
BY DEF Carried, Careful

LEMMA CarefulBefore == ASSUME history \subseteq history', Careful' PROVE Careful
BY DEF Careful, Spared

\* Numbers and grants of the documents around.
LEMMA Bounds ==
    ASSUME Documents, NEW w \in Workers
    PROVE  /\ work[w].used.doc.grant \in Grants /\ work[w].next.grant \in Grants
           /\ work[w].used.doc.turn \in Int /\ work[w].next.turn \in Int
           /\ work[w].used.doc.turn >= 1
           /\ turn[work[w].used.doc.grant] \in Int
           /\ work[w].used.doc.turn <= turn[work[w].used.doc.grant]
           /\ work[w].next.turn <= turn[work[w].next.grant]
<1>1. work[w].used.doc \in Docs /\ work[w].next \in Docs /\ WorkerOK(w) /\ TypeOK
  BY WorkFields DEF Documents
<1> QED BY <1>1, DocFacts DEF WorkerOK, Given, TypeOK

LEMMA RowBounds ==
    ASSUME Documents
    PROVE  /\ row.doc.grant \in Grants /\ row.doc.turn \in Int /\ row.doc.turn >= 1
           /\ turn[row.doc.grant] \in Int /\ row.doc.turn <= turn[row.doc.grant]
<1>1. row.doc \in Docs /\ TypeOK /\ Given(row.doc)
  BY RowFields DEF Documents
<1> QED BY <1>1, DocFacts DEF Given, TypeOK

\* Two documents that nobody edited are told apart by grant and turn.
LEMMA SameDoc ==
    ASSUME NEW c \in Docs, NEW d \in Docs,
           c.grant = d.grant, c.turn = d.turn, c.rev = d.rev
    PROVE  c = d
BY DEF Docs

LEMMA QuietCarried == ASSUME Documents, Carried, Quiet, Careful' PROVE Carried'
<1>1. Careful
  BY CarefulBefore DEF Quiet, Steady
<1>2. /\ Unedited /\ StoredOrCarried /\ NewGrantIsNew
      /\ \A w \in Workers : At(w, "persist") =>
            CarrierOK(w) /\ \A v \in Workers : CarrierIsAlone(w, v)
  BY <1>1, CarriedParts
<1>3. UNCHANGED <<turn, admin>> /\ row'.doc = row.doc
  BY DEF Quiet, Steady, SameRowDoc
<1>4. \A v \in Workers : \/ work'[v] = work[v]
                         \/ /\ ~At(v, "persist")'
                            /\ work'[v].used.doc \in {work[v].used.doc, FirstOf(1)}
                            /\ At(v, "persist") => row.doc # work[v].used.doc
  BY DEF Quiet, Rests, Hot, At, MayDrop, Careful, Spared
<1>5. FirstOf(1).grant = 1 /\ FirstOf(1).turn = 1 /\ FirstOf(1).rev = 0
  BY FirstFacts, OneIsGrant
<1>6. Unedited'
  BY <1>2, <1>3, <1>4, <1>5 DEF Unedited
<1>7. StoredOrCarried'
  BY <1>2, <1>3, <1>4 DEF StoredOrCarried, CarrierOK, At
<1>8. NewGrantIsNew'
  <2> SUFFICES ASSUME admin.at \in {"read", "write"}, admin.op = "reauth" PROVE NewGrantIsNew'
    BY <1>3 DEF NewGrantIsNew
  <2>1. \A w \in Workers : work'[w].used.doc.grant # admin.doc.grant
    BY <1>2, <1>4, <1>5 DEF NewGrantIsNew
  <2> QED BY <1>2, <1>3, <2>1 DEF NewGrantIsNew, FirstOf
<1>9. ASSUME NEW w \in Workers, At(w, "persist")'
      PROVE  CarrierOK(w)' /\ \A v \in Workers : CarrierIsAlone(w, v)'
  <2>1. work'[w] = work[w] /\ At(w, "persist")
    BY <1>4, <1>9 DEF At
  <2>2. work[w].next.turn >= 2 /\ work[w].next.turn \in Int
    BY <2>1, NextFacts, Bounds
  <2>3. CarrierOK(w)'
    BY <1>2, <1>3, <2>1 DEF CarrierOK
  <2>4. ASSUME NEW v \in Workers PROVE CarrierIsAlone(w, v)'
    BY <1>2, <1>4, <1>5, <2>1, <2>2 DEF CarrierIsAlone, At
  <2> QED BY <2>3, <2>4
<1> QED BY <1>6, <1>7, <1>8, <1>9 DEF Carried

LEMMA ReadsCarried ==
    ASSUME Documents, Carried, NEW u \in Workers, Reads(u), Careful' PROVE Carried'
<1>1. Careful
  BY CarefulBefore DEF Reads, Steady
<1>2. /\ Unedited /\ StoredOrCarried /\ NewGrantIsNew
      /\ \A w \in Workers : At(w, "persist") =>
            CarrierOK(w) /\ \A v \in Workers : CarrierIsAlone(w, v)
  BY <1>1, CarriedParts
<1>3. /\ UNCHANGED <<turn, admin>> /\ row'.doc = row.doc /\ Only(u)
      /\ work'[u].used.doc = row.doc /\ ~At(u, "persist") /\ ~At(u, "persist")'
  BY DEF Reads, Steady, SameRowDoc, At
<1>4. Unedited'
  BY <1>2, <1>3 DEF Unedited, Only
<1>5. StoredOrCarried'
  BY <1>2, <1>3 DEF StoredOrCarried, At, Only
<1>6. NewGrantIsNew'
  BY <1>2, <1>3 DEF NewGrantIsNew, FirstOf, Only
<1>7. ASSUME NEW w \in Workers, At(w, "persist")'
      PROVE  CarrierOK(w)' /\ \A v \in Workers : CarrierIsAlone(w, v)'
  <2>1. work'[w] = work[w] /\ At(w, "persist") /\ w # u
    BY <1>3, <1>7 DEF At, Only
  <2>2. /\ work[w].next.turn = work[w].used.doc.turn + 1
        /\ work[w].used.doc.turn \in Int
    BY <2>1, NextFacts, Bounds
  <2>3. CarrierOK(w)'
    BY <1>2, <1>3, <2>1 DEF CarrierOK
  <2>4. ASSUME NEW v \in Workers PROVE CarrierIsAlone(w, v)'
    <3>1. CASE v = u
      BY <1>2, <1>3, <2>1, <2>2, <3>1 DEF CarrierIsAlone, CarrierOK, At
    <3>2. CASE v # u
      BY <1>2, <1>3, <2>1, <3>2 DEF CarrierIsAlone, At, Only
    <3> QED BY <3>1, <3>2
  <2> QED BY <2>3, <2>4
<1> QED BY <1>4, <1>5, <1>6, <1>7 DEF Carried

\* A token that is valid and about to be exchanged is the stored one, and nobody has
\* its successor.
LEMMA ValidIsStored ==
    ASSUME Documents, Carried, Careful, NEW u \in Workers, Valid(work[u].used.doc)
    PROVE  /\ row.doc.grant = work[u].used.doc.grant => row.doc = work[u].used.doc
           /\ \A w \in Workers : At(w, "persist") =>
                 work[w].next.grant # work[u].used.doc.grant
<1>1. /\ Unedited /\ StoredOrCarried
      /\ \A w \in Workers : At(w, "persist") =>
            CarrierOK(w) /\ \A v \in Workers : CarrierIsAlone(w, v)
  BY CarriedParts
<1>2. turn[work[u].used.doc.grant] = work[u].used.doc.turn
  BY DEF Valid
<1>3. ASSUME NEW w \in Workers, At(w, "persist")
      PROVE  work[w].next.grant # work[u].used.doc.grant
  <2>1. /\ turn[work[w].next.grant] = work[w].next.turn
        /\ work[u].used.doc.grant = work[w].next.grant =>
              work[u].used.doc.turn < work[w].next.turn
    BY <1>1, <1>3 DEF CarrierOK, CarrierIsAlone
  <2>2. work[u].used.doc.turn \in Int
    BY Bounds
  <2> QED BY <1>2, <2>1, <2>2
<1>4. row.doc \in Docs /\ work[u].used.doc \in Docs
  BY WorkFields, RowFields DEF Documents
<1>5. row.doc.grant = work[u].used.doc.grant => row.doc = work[u].used.doc
  BY <1>1, <1>2, <1>3, <1>4, SameDoc DEF Unedited, StoredOrCarried
<1> QED BY <1>3, <1>5

LEMMA RotatesCarried ==
    ASSUME Documents, Carried, NEW u \in Workers, Rotates(u), Careful' PROVE Carried'
<1> DEFINE g == work[u].used.doc.grant
<1>1. Careful
  BY CarefulBefore DEF Rotates
<1>2. /\ Unedited /\ StoredOrCarried /\ NewGrantIsNew
      /\ \A w \in Workers : At(w, "persist") =>
            CarrierOK(w) /\ \A v \in Workers : CarrierIsAlone(w, v)
  BY <1>1, CarriedParts
<1>3. /\ UNCHANGED admin /\ row'.doc = row.doc /\ Only(u) /\ work'[u].used = work[u].used
      /\ ~At(u, "persist") /\ work'[u].at = "persist"
      /\ work'[u].next.grant = g /\ work'[u].next.turn = work[u].used.doc.turn + 1
      /\ turn'[g] = work[u].used.doc.turn + 1 /\ \A h \in Grants \ {g} : turn'[h] = turn[h]
      /\ turn[g] = work[u].used.doc.turn
  BY DEF Rotates, SameRowDoc, At, SameUsed, Valid
<1>4. /\ row.doc.grant = g => row.doc = work[u].used.doc
      /\ \A w \in Workers : At(w, "persist") => work[w].next.grant # g
  BY <1>1, ValidIsStored DEF Rotates
<1>5. Unedited'
  BY <1>2, <1>3 DEF Unedited, Only
<1>6. StoredOrCarried'
  <2>1. CASE row.doc.grant = g
    BY <1>3, <2>1 DEF StoredOrCarried, At
  <2>2. CASE row.doc.grant # g
    BY <1>2, <1>3, <2>2, RowBounds DEF StoredOrCarried, At, Only
  <2> QED BY <2>1, <2>2
<1>7. NewGrantIsNew'
  <2>1. (admin.at \in {"read", "write"} /\ admin.op = "reauth") =>
           admin.doc.grant # g /\ admin.doc.grant \in Grants
    BY <1>2, RowFields, DocFacts DEF NewGrantIsNew, Documents
  <2> QED BY <1>2, <1>3, <2>1 DEF NewGrantIsNew, FirstOf, Only
<1>8. ASSUME NEW w \in Workers, At(w, "persist")'
      PROVE  CarrierOK(w)' /\ \A v \in Workers : CarrierIsAlone(w, v)'
  <2>1. CASE w = u
    <3>1. CarrierOK(w)'
      BY <1>3, <1>4, <2>1 DEF CarrierOK
    <3>2. ASSUME NEW v \in Workers PROVE CarrierIsAlone(w, v)'
      <4>1. work[v].used.doc.turn \in Int /\ work'[w].next.grant = g
            /\ work'[w].next.turn = work[u].used.doc.turn + 1
        BY <1>3, <2>1, Bounds
      <4>2. CASE v = u
        <5>1. work'[v].used.doc.turn < work'[w].next.turn
          BY <1>3, <4>1, <4>2
        <5> QED BY <2>1, <4>2, <5>1 DEF CarrierIsAlone
      <4>3. CASE v # u
        <5>1. work'[v] = work[v]
          BY <1>3, <4>3 DEF Only
        <5>2. At(v, "persist")' => work[v].next.grant # g
          BY <1>4, <5>1 DEF At
        <5>3. work[v].used.doc.grant = g => work[v].used.doc.turn < work[u].used.doc.turn + 1
          <6>1. work[v].used.doc.turn <= turn[work[v].used.doc.grant]
            BY Bounds
          <6>2. turn[g] = work[u].used.doc.turn /\ turn[g] \in Int
            BY <1>3, Bounds
          <6> QED BY <4>1, <6>1, <6>2
        <5> QED BY <4>1, <5>1, <5>2, <5>3 DEF CarrierIsAlone
      <4> QED BY <4>2, <4>3
    <3> QED BY <3>1, <3>2
  <2>2. CASE w # u
    <3>1. work'[w] = work[w] /\ At(w, "persist")
      BY <1>3, <1>8, <2>2 DEF At, Only
    <3>2. CarrierOK(w)'
      <4>1. work[w].next.grant # g /\ CarrierOK(w)
        BY <1>2, <1>4, <3>1
      <4> QED BY <1>3, <3>1, <4>1, Bounds DEF CarrierOK
    <3>3. ASSUME NEW v \in Workers PROVE CarrierIsAlone(w, v)'
      <4>1. CASE v = u
        <5>1. /\ work'[v].next.grant = g /\ work[w].next.grant # g
              /\ work'[v].used = work[v].used /\ CarrierIsAlone(w, v)
          BY <1>2, <1>3, <1>4, <3>1, <4>1
        <5> QED BY <3>1, <5>1 DEF CarrierIsAlone
      <4>2. CASE v # u
        BY <1>2, <1>3, <3>1, <4>2 DEF CarrierIsAlone, At, Only
      <4> QED BY <4>1, <4>2
    <3> QED BY <3>2, <3>3
  <2> QED BY <2>1, <2>2
<1> QED BY <1>5, <1>6, <1>7, <1>8 DEF Carried

LEMMA StoresCarried ==
    ASSUME Documents, Carried, NEW u \in Workers, Stores(u), Careful' PROVE Carried'
<1>1. Careful
  BY CarefulBefore DEF Stores, Steady
<1>2. /\ Unedited /\ StoredOrCarried /\ NewGrantIsNew
      /\ \A w \in Workers : At(w, "persist") =>
            CarrierOK(w) /\ \A v \in Workers : CarrierIsAlone(w, v)
  BY <1>1, CarriedParts
<1>3. /\ UNCHANGED <<turn, admin>> /\ row'.doc = work[u].next /\ Only(u)
      /\ At(u, "persist") /\ ~At(u, "persist")' /\ work'[u].used.doc = work[u].used.doc
  BY DEF Stores, Steady, At, Hot
<1>4. /\ work[u].next.grant = work[u].used.doc.grant
      /\ work[u].next.rev = work[u].used.doc.rev
      /\ turn[work[u].next.grant] = work[u].next.turn
  BY <1>2, <1>3, NextFacts DEF CarrierOK
<1>5. Unedited'
  BY <1>2, <1>3, <1>4 DEF Unedited, Only
<1>6. StoredOrCarried'
  BY <1>3, <1>4 DEF StoredOrCarried
<1>7. NewGrantIsNew'
  BY <1>2, <1>3, <1>4 DEF NewGrantIsNew, FirstOf, Only
<1>8. ASSUME NEW w \in Workers, At(w, "persist")'
      PROVE  CarrierOK(w)' /\ \A v \in Workers : CarrierIsAlone(w, v)'
  <2>1. work'[w] = work[w] /\ At(w, "persist") /\ w # u
    BY <1>3, <1>8 DEF At, Only
  <2>2. CarrierOK(w)'
    BY <1>2, <1>3, <2>1 DEF CarrierOK, CarrierIsAlone
  <2>3. ASSUME NEW v \in Workers PROVE CarrierIsAlone(w, v)'
    BY <1>2, <1>3, <2>1 DEF CarrierIsAlone, At, Only
  <2> QED BY <2>2, <2>3
<1> QED BY <1>5, <1>6, <1>7, <1>8 DEF Carried

\* The other steps of a worker neither move a token nor reach for one.
LEMMA OthersCarried ==
    ASSUME Documents, Carried, NEW u \in Workers, Refuses(u) \/ Condemns(u) \/ Blocks(u), Careful'
    PROVE  Carried'
<1>1. Careful
  BY CarefulBefore DEF Refuses, Condemns, Blocks, Steady
<1>2. /\ Unedited /\ StoredOrCarried /\ NewGrantIsNew
      /\ \A w \in Workers : At(w, "persist") =>
            CarrierOK(w) /\ \A v \in Workers : CarrierIsAlone(w, v)
  BY <1>1, CarriedParts
<1>3. /\ UNCHANGED <<turn, admin>> /\ row'.doc = row.doc /\ Only(u)
      /\ ~At(u, "persist") /\ ~At(u, "persist")'
      /\ work'[u].used.doc \in {work[u].used.doc, FirstOf(1)}
  BY DEF Refuses, Condemns, Blocks, Steady, SameRowDoc, At, SameUsed
<1>4. FirstOf(1).grant = 1 /\ FirstOf(1).turn = 1 /\ FirstOf(1).rev = 0
  BY FirstFacts, OneIsGrant
<1>5. Unedited'
  BY <1>2, <1>3, <1>4 DEF Unedited, Only
<1>6. StoredOrCarried'
  BY <1>2, <1>3 DEF StoredOrCarried, At, Only
<1>7. NewGrantIsNew'
  <2> SUFFICES ASSUME admin.at \in {"read", "write"}, admin.op = "reauth" PROVE NewGrantIsNew'
    BY <1>3 DEF NewGrantIsNew
  <2>1. \A w \in Workers : work'[w].used.doc.grant # admin.doc.grant
    BY <1>2, <1>3, <1>4 DEF NewGrantIsNew, Only
  <2> QED BY <1>2, <1>3, <2>1 DEF NewGrantIsNew, FirstOf
<1>8. ASSUME NEW w \in Workers, At(w, "persist")'
      PROVE  CarrierOK(w)' /\ \A v \in Workers : CarrierIsAlone(w, v)'
  <2>1. work'[w] = work[w] /\ At(w, "persist") /\ w # u
    BY <1>3, <1>8 DEF At, Only
  <2>2. CarrierOK(w)'
    BY <1>2, <1>3, <2>1 DEF CarrierOK
  <2>3. work[w].next.turn >= 2
    BY <2>1, NextFacts, Bounds
  <2>4. ASSUME NEW v \in Workers PROVE CarrierIsAlone(w, v)'
    <3>1. CASE v = u
      BY <1>2, <1>3, <1>4, <2>1, <2>3, <3>1, Bounds DEF CarrierIsAlone, At
    <3>2. CASE v # u
      BY <1>2, <1>3, <2>1, <3>2 DEF CarrierIsAlone, At, Only
    <3> QED BY <3>1, <3>2
  <2> QED BY <2>2, <2>4
<1> QED BY <1>5, <1>6, <1>7, <1>8 DEF Carried

\* With the workers and the vendor as they are, what counts is the account.
LEMMA AdminLetsBe ==
    ASSUME Documents, Carried, Careful, UNCHANGED <<turn, work>>, row'.doc = row.doc, NewGrantIsNew'
    PROVE  Carried'
BY CarriedParts DEF Carried, Unedited, StoredOrCarried, CarrierOK, CarrierIsAlone, At

LEMMA ReauthorizeCarried == ASSUME Documents, Carried, Careful, Reauthorize PROVE Carried'
<1> TypeOK
  BY DEF Documents
<1>1. PICK g \in Grants :
         /\ turn[g] = 0
         /\ Begin([NoAdmin EXCEPT !.at = "read", !.op = "reauth", !.doc = FirstOf(g)])
         /\ turn' = [turn EXCEPT ![g] = 1] /\ fresh' = fresh \cup {Token(FirstOf(g))}
         /\ UNCHANGED <<grok, authorized, revoked, denied, row, locks, work, history>>
  BY DEF Reauthorize
<1>2. turn'[g] = 1 /\ \A h \in Grants \ {g} : turn'[h] = turn[h]
  BY <1>1, ReauthorizeGives
<1>3. admin'.doc = FirstOf(g) /\ FirstOf(g).grant = g
  BY <1>1, FirstFacts DEF Begin, NoAdmin
<1>4. /\ g # row.doc.grant
      /\ \A w \in Workers : g # work[w].used.doc.grant /\ (At(w, "persist") => g # work[w].next.grant)
  BY <1>1, Bounds, RowBounds, NextFacts
<1>5. g # 1
  BY <1>1, FirstFacts, OneIsGrant DEF Documents, Given
<1>6. NewGrantIsNew'
  BY <1>1, <1>2, <1>3, <1>4, <1>5 DEF NewGrantIsNew, FirstOf
<1>7. /\ Unedited /\ StoredOrCarried
      /\ \A w \in Workers : At(w, "persist") =>
            CarrierOK(w) /\ \A v \in Workers : CarrierIsAlone(w, v)
  BY CarriedParts
<1>8. Unedited' /\ StoredOrCarried'
  BY <1>1, <1>2, <1>4, <1>7, RowBounds DEF Unedited, StoredOrCarried, At
<1>9. ASSUME NEW w \in Workers, At(w, "persist")'
      PROVE  CarrierOK(w)' /\ \A v \in Workers : CarrierIsAlone(w, v)'
  BY <1>1, <1>2, <1>4, <1>7, <1>9, Bounds DEF CarrierOK, CarrierIsAlone, At
<1> QED BY <1>6, <1>8, <1>9 DEF Carried

LEMMA AdminWriteCarried == ASSUME Documents, Carried, AdminWrite, Careful' PROVE Carried'
<1> TypeOK
  BY DEF Documents
<1>1. Careful /\ admin.op \notin {"edit", "manual"} /\ admin.op \in history'
  BY DEF AdminWrite, Careful, Spared
<1>2. admin.op = "reauth" /\ AdminAt("write") /\ UNCHANGED <<turn, work>>
  BY <1>1 DEF TypeOK, AdminWrite, vendor
<1>3. /\ Unedited /\ NewGrantIsNew
      /\ \A w \in Workers : At(w, "persist") =>
            CarrierOK(w) /\ \A v \in Workers : CarrierIsAlone(w, v)
  BY <1>1, CarriedParts
<1>4. row'.doc = admin.doc /\ admin'.at = "clear"
  BY <1>2, AdminWriteFacts, WrittenFacts
<1>5. /\ admin.doc = FirstOf(admin.doc.grant) /\ turn[admin.doc.grant] = 1
      /\ \A w \in Workers : work[w].used.doc.grant # admin.doc.grant
  BY <1>2, <1>3 DEF NewGrantIsNew, AdminAt
<1>6. admin.doc.turn = 1 /\ admin.doc.rev = 0
  BY <1>5 DEF FirstOf
<1>7. Unedited' /\ StoredOrCarried' /\ NewGrantIsNew'
  BY <1>2, <1>3, <1>4, <1>5, <1>6 DEF Unedited, StoredOrCarried, NewGrantIsNew
<1>8. ASSUME NEW w \in Workers, At(w, "persist")'
      PROVE  CarrierOK(w)' /\ \A v \in Workers : CarrierIsAlone(w, v)'
  BY <1>2, <1>3, <1>4, <1>5, <1>8, NextFacts DEF CarrierOK, CarrierIsAlone, At
<1> QED BY <1>7, <1>8 DEF Carried

LEMMA AdminCarried == ASSUME Documents, Carried, Admin, Careful' PROVE Carried'
<1> TypeOK
  BY DEF Documents
<1>1. history \subseteq history'
  BY HarmAdds DEF Admin, Edit, Reauthorize, ManualRefresh, ManualExchange, AdminRead, AdminWrite,
     AdminClear, AdminFails
<1>2. Careful
  BY <1>1, CarefulBefore
<1>3. CASE Edit \/ ManualRefresh
  <2>1. UNCHANGED <<turn, work, row>> /\ admin'.op # "reauth"
    BY <1>3 DEF Edit, ManualRefresh, Begin, NoAdmin, vendor
  <2> QED BY <1>2, <2>1, AdminLetsBe DEF NewGrantIsNew
<1>4. CASE Reauthorize
  BY <1>2, <1>4, ReauthorizeCarried
<1>5. CASE ManualExchange
  <2>1. admin' = NoAdmin /\ UNCHANGED <<vendor, row, work>>
    BY <1>5 DEF ManualExchange, Careful, Spared
  <2> QED BY <1>2, <2>1, AdminLetsBe DEF NewGrantIsNew, NoAdmin, vendor
<1>6. CASE AdminRead
  <2>1. UNCHANGED <<turn, work, row>> /\ AdminAt("read") /\ admin'.op = admin.op
        /\ admin'.doc = admin.doc
    BY <1>6, AdminReadFacts DEF AdminRead, vendor
  <2>2. NewGrantIsNew'
    BY <1>2, <2>1, CarriedParts DEF NewGrantIsNew, FirstOf, AdminAt
  <2> QED BY <1>2, <2>1, <2>2, AdminLetsBe
<1>7. CASE AdminWrite
  BY <1>7, AdminWriteCarried
<1>8. CASE AdminClear \/ AdminFails
  <2>1. UNCHANGED <<turn, work>> /\ row'.doc = row.doc /\ admin' = NoAdmin
    BY <1>8, StatusFacts DEF AdminClear, AdminFails, vendor
  <2> QED BY <1>2, <2>1, AdminLetsBe DEF NewGrantIsNew, NoAdmin
<1> QED BY <1>3, <1>4, <1>5, <1>6, <1>7, <1>8 DEF Admin

LEMMA RevokesCarried == ASSUME Documents, Carried, Revokes, Careful' PROVE Carried'
<1>1. Careful
  BY CarefulBefore DEF Revokes
<1>2. NewGrantIsNew
  BY <1>1, CarriedParts
<1> QED BY <1>1, <1>2, AdminLetsBe DEF Revokes, SameRowDoc, NewGrantIsNew, FirstOf

LEMMA NextCarried == Documents /\ Carried /\ [Next]_vars => Carried'
<1> SUFFICES ASSUME Documents, Carried, [Next]_vars PROVE Carried'
  OBVIOUS
<1>1. CASE ~Careful'
  BY <1>1 DEF Carried, Careful
<1>2. CASE Careful'
  BY <1>2, FromAfar, QuietCarried, ReadsCarried, RotatesCarried, StoresCarried, OthersCarried,
     AdminCarried, RevokesCarried DEF Acts
<1> QED BY <1>1, <1>2

\* The successor of every token is stored or with the one worker that will store it.
THEOREM SuccessorIsCarried == Spec => []Carried
<1>1. Init => Carried
  BY FirstFacts, OneIsGrant
     DEF Init, Carried, Unedited, StoredOrCarried, NewGrantIsNew, NoRow, NoWork, NoAdmin, At
<1> QED BY <1>1, NextCarried, DocumentsHold, PTL DEF Spec

\* The token the vendor rotated to is not lost between workers, whatever locks expired.
THEOREM TokenStaysKept == Spec => []TokenIsKept
<1>1. Documents /\ Carried => TokenIsKept
  <2> SUFFICES ASSUME Documents, Carried, Careful,
                      ~Valid(row.doc), row.doc.grant \notin revoked
               PROVE  \E w \in Workers : At(w, "persist") /\ Valid(work[w].next)
    BY DEF TokenIsKept, Careful
  <2>1. PICK w \in Workers : At(w, "persist") /\ work[w].next.grant = row.doc.grant
    BY CarriedParts DEF StoredOrCarried, Valid
  <2>2. Valid(work[w].next)
    BY <2>1, CarriedParts DEF CarrierOK, Valid
  <2> QED BY <2>1, <2>2
<1> QED BY <1>1, SuccessorIsCarried, DocumentsHold, PTL

-----------------------------------------------------------------------------
(* What is refused stays refused: Grok accounts                              *)

Shielded == grok /\ Spared({"redis", "manual", "clear"})

\* Two workers are not past the lock together.
LEMMA Apart ==
    ASSUME LeaseHeld, grok \/ Spared({"lapse"}), Spared({"redis"}),
           NEW v \in Workers, NEW w \in Workers, Past(work[v].at), Past(work[w].at)
    PROVE  v = w
<1>1. Spared({"redis", "lapse"})
  BY DEF LeaseHeld, Spared
<1> QED BY <1>1 DEF LeaseHeld, Past

LEMMA RefusedParts ==
    ASSUME RefusedForGood, Shielded
    PROVE  /\ \A d \in Docs : RefusedDoc(d) =>
                 /\ ~Valid(d)
                 /\ \A w \in Workers : At(w, "persist") => Token(d) # Token(work[w].used.doc)
           /\ \A v \in Workers : At(v, "recheck") => ~Valid(work[v].used.doc)
BY DEF RefusedForGood, Shielded

LEMMA RefusedIsGiven ==
    ASSUME Documents, NEW d \in Docs, RefusedDoc(d)
    PROVE  Given(d)
BY DEF Documents, AdminOK, WorkerOK, RefusedDoc

ValidNext(d) == d.grant \notin revoked' /\ turn'[d.grant] = d.turn

\* What is not valid, and was given, does not become valid.
LEMMA InvalidStays ==
    ASSUME Documents, NEW d \in Docs, Given(d), ~Valid(d), revoked \subseteq revoked',
           turn'[d.grant] \in Int, turn[d.grant] <= turn'[d.grant]
    PROVE  ~ValidNext(d)
<1>1. d.turn \in Int /\ turn[d.grant] \in Int
  BY DocFacts DEF Documents, TypeOK
<1> QED BY <1>1 DEF Valid, ValidNext, Given

\* If marks only disappear, and nobody comes to store, marks stay right.
LEMMA MarksStay ==
    ASSUME Documents, RefusedForGood, Shielded,
           revoked \subseteq revoked', denied \subseteq denied',
           \A g \in Grants : turn'[g] \in Int /\ turn[g] <= turn'[g],
           \A d \in Docs : RefusedDoc(d)' => RefusedDoc(d),
           \A w \in Workers : At(w, "persist")' => At(w, "persist") /\ work'[w] = work[w],
           \A w \in Workers : At(w, "recheck")' => At(w, "recheck") /\ work'[w] = work[w]
    PROVE  RefusedForGood'
<1>1. ASSUME NEW d \in Docs, RefusedDoc(d)'
      PROVE  /\ ~Valid(d)'
             /\ \A w \in Workers : At(w, "persist")' => Token(d) # Token(work'[w].used.doc)
  <2>1. RefusedDoc(d) /\ Given(d) /\ ~Valid(d) /\ d.grant \in Grants
    BY <1>1, RefusedParts, RefusedIsGiven, DocFacts
  <2>2. ~ValidNext(d)
    BY <2>1, InvalidStays
  <2> QED BY <2>1, <2>2, RefusedParts DEF Valid, ValidNext
<1>2. ASSUME NEW v \in Workers, At(v, "recheck")' PROVE ~Valid(work[v].used.doc)'
  <2>1. PICK d \in Docs : d = work[v].used.doc
    BY WorkFields DEF Documents
  <2>2. ~Valid(d) /\ Given(d) /\ d.grant \in Grants /\ d = work'[v].used.doc
    BY <1>2, <2>1, RefusedParts, DocFacts DEF Documents, WorkerOK
  <2>3. ~ValidNext(d)
    BY <2>2, InvalidStays
  <2> QED BY <2>2, <2>3 DEF Valid, ValidNext
<1> QED BY <1>1, <1>2 DEF RefusedForGood, Token

LEMMA TurnsAre == ASSUME Documents PROVE \A g \in Grants : turn[g] \in Int /\ turn[g] <= turn[g]
BY DEF Documents, TypeOK

LEMMA QuietRefused ==
    ASSUME Documents, RefusedForGood, Shielded, Quiet
    PROVE  RefusedForGood'
<1>1. /\ UNCHANGED <<turn, revoked, admin>> /\ denied \subseteq denied'
      /\ row'.doc = row.doc /\ row'.status = row.status
  BY DEF Quiet, Steady, SameRowDoc
<1>2. \A v \in Workers : work'[v] = work[v] \/ work'[v].at \notin Hot
  BY DEF Quiet, Rests
<1>3. \A d \in Docs : RefusedDoc(d)' => RefusedDoc(d)
  BY <1>1, <1>2 DEF RefusedDoc, Condemned, Blocked, CopyBlocked, AdminAt, Hot
<1> QED BY <1>1, <1>2, <1>3, TurnsAre, MarksStay DEF At, Hot

LEMMA ReadsRefused ==
    ASSUME Documents, RefusedForGood, Shielded, NEW u \in Workers, Reads(u) \/ Condemns(u)
    PROVE  RefusedForGood'
<1>1. /\ UNCHANGED <<turn, revoked, admin>> /\ denied \subseteq denied'
      /\ row'.doc = row.doc /\ row'.status = row.status
      /\ Only(u)
  BY DEF Reads, Condemns, Steady, SameRowDoc
<1>2. /\ work'[u].at \in {"exchange", "quarantine"}
      /\ work'[u].at = "quarantine" => Condemned(u) /\ work'[u].account = work[u].account
  BY DEF Reads, Condemns, Condemned, SameAccount, At
<1>3. \A d \in Docs : RefusedDoc(d)' => RefusedDoc(d)
  BY <1>1, <1>2 DEF RefusedDoc, Condemned, Blocked, CopyBlocked, AdminAt, Only
<1>4. \A w \in Workers : w # u => work'[w] = work[w]
  BY <1>1 DEF Only
<1>5. ~At(u, "persist")' /\ ~At(u, "recheck")'
  BY <1>2 DEF At
<1>6. /\ \A w \in Workers : At(w, "persist")' => At(w, "persist") /\ work'[w] = work[w]
      /\ \A w \in Workers : At(w, "recheck")' => At(w, "recheck") /\ work'[w] = work[w]
  BY <1>4, <1>5 DEF At
<1> QED BY <1>1, <1>3, <1>6, TurnsAre, MarksStay

LEMMA RotatesRefused ==
    ASSUME Documents, RefusedForGood, Shielded, NEW u \in Workers, Rotates(u)
    PROVE  RefusedForGood'
<1>1. /\ UNCHANGED <<revoked, denied, admin>> /\ row'.doc = row.doc /\ row'.status = row.status
      /\ Only(u) /\ work'[u].at = "persist" /\ work'[u].used = work[u].used
      /\ Valid(work[u].used.doc)
  BY DEF Rotates, SameRowDoc, SameUsed
<1>2. ASSUME NEW g \in Grants PROVE turn'[g] \in Int /\ turn[g] <= turn'[g]
  <2>1. turn[g] \in Int
    BY TurnsAre
  <2>2. CASE g = work[u].used.doc.grant
    <3>1. turn'[g] = work[u].used.doc.turn + 1 /\ turn[g] = work[u].used.doc.turn
      BY <2>2 DEF Rotates, Valid
    <3> QED BY <2>1, <3>1
  <2>3. CASE g # work[u].used.doc.grant
    BY <2>1, <2>3 DEF Rotates
  <2> QED BY <2>2, <2>3
<1>3. ASSUME NEW d \in Docs, RefusedDoc(d)' PROVE RefusedDoc(d)
  BY <1>1, <1>3 DEF RefusedDoc, Condemned, Blocked, CopyBlocked, AdminAt, Only
<1>4. ASSUME NEW d \in Docs, RefusedDoc(d)'
      PROVE  /\ ~Valid(d)'
             /\ \A w \in Workers : At(w, "persist")' => Token(d) # Token(work'[w].used.doc)
  <2>1. RefusedDoc(d) /\ Given(d) /\ ~Valid(d) /\ d.grant \in Grants
    BY <1>3, <1>4, RefusedParts, RefusedIsGiven, DocFacts
  <2>2. ~ValidNext(d)
    BY <1>1, <1>2, <2>1, InvalidStays
  <2>3. Token(d) # Token(work[u].used.doc)
    BY <1>1, <2>1 DEF Token, Valid
  <2>4. ASSUME NEW w \in Workers, At(w, "persist")'
        PROVE  Token(d) # Token(work'[w].used.doc)
    <3>1. CASE w = u
      BY <1>1, <2>3, <3>1
    <3>2. CASE w # u
      BY <1>1, <2>1, <2>4, <3>2, RefusedParts DEF Only, At
    <3> QED BY <3>1, <3>2
  <2> QED BY <2>2, <2>4 DEF Valid, ValidNext
<1>5. ASSUME NEW v \in Workers, At(v, "recheck")' PROVE ~Valid(work[v].used.doc)'
  <2>1. v # u /\ work'[v] = work[v] /\ At(v, "recheck")
    BY <1>1, <1>5 DEF At, Only
  <2>2. PICK d \in Docs : d = work[v].used.doc
    BY WorkFields DEF Documents
  <2>3. ~Valid(d) /\ Given(d) /\ d.grant \in Grants /\ d = work'[v].used.doc
    BY <2>1, <2>2, RefusedParts, DocFacts DEF Documents, WorkerOK
  <2>4. ~ValidNext(d)
    BY <1>1, <1>2, <2>3, InvalidStays
  <2> QED BY <2>3, <2>4 DEF Valid, ValidNext
<1> QED BY <1>4, <1>5 DEF RefusedForGood, Token

\* A refusal comes while nobody else is past the lock.
LEMMA RefusesRefused ==
    ASSUME Documents, LeaseHeld, RefusedForGood, Shielded, NEW u \in Workers, Refuses(u)
    PROVE  RefusedForGood'
<1>1. /\ UNCHANGED <<turn, revoked, admin>> /\ denied \subseteq denied'
      /\ row'.doc = row.doc /\ row'.status = row.status
      /\ Only(u) /\ work'[u].used = work[u].used /\ work'[u].at \in {"recheck", "dead"}
      /\ work'[u].at = "dead" => work'[u].account = work[u].used.doc
      /\ Past(work[u].at)
  BY DEF Refuses, Steady, SameRowDoc, SameUsed, At, Past, Inside
<1>2. work[u].used.doc.grant \notin denied' => ~Valid(work[u].used.doc)
  BY RefusedParts DEF Refuses
<1>2a. work'[u].at = "recheck" => ~Valid(work[u].used.doc)
  BY DEF Refuses
<1>3. \A w \in Workers : ~At(w, "persist")'
  <2>1. ASSUME NEW w \in Workers, At(w, "persist")' PROVE FALSE
    <3>1. w # u /\ At(w, "persist")
      BY <1>1, <2>1 DEF At, Only
    <3>2. Past(work[w].at)
      BY <3>1 DEF At, Past, Inside
    <3> QED BY <1>1, <3>1, <3>2, Apart DEF Shielded, Spared
  <2> QED BY <2>1
<1>4. ASSUME NEW d \in Docs, RefusedDoc(d)' PROVE ~Valid(d)'
  <2>1. RefusedDoc(d) \/ (d = work[u].used.doc /\ d.grant \notin denied')
    BY <1>1, <1>4 DEF RefusedDoc, Condemned, Blocked, CopyBlocked, AdminAt, Only
  <2>2. ~Valid(d)
    BY <1>2, <2>1, RefusedParts
  <2> QED BY <1>1, <2>2 DEF Valid
<1>5. ASSUME NEW v \in Workers, At(v, "recheck")' PROVE ~Valid(work[v].used.doc)'
  <2>1. CASE v = u
    BY <1>1, <1>2a, <1>5, <2>1 DEF Valid, At
  <2>2. CASE v # u
    <3>1. work'[v] = work[v] /\ At(v, "recheck")
      BY <1>1, <1>5, <2>2 DEF At, Only
    <3> QED BY <1>1, <3>1, RefusedParts DEF Valid
  <2> QED BY <2>1, <2>2
<1> QED BY <1>3, <1>4, <1>5 DEF RefusedForGood

\* What is stored replaces a document that is not marked.
LEMMA StoresRefused ==
    ASSUME Documents, RefusedForGood, Shielded, NEW u \in Workers, Stores(u)
    PROVE  RefusedForGood'
<1>1. /\ UNCHANGED <<turn, revoked, admin>> /\ denied \subseteq denied'
      /\ row'.status = row.status
      /\ Only(u) /\ At(u, "persist") /\ work'[u].at \notin Hot
      /\ row.doc = work[u].used.doc /\ row.doc \in Docs
  BY RowFields DEF Stores, Steady, MayStore, Shielded, Documents
<1>2. Blocked => row.doc.grant \in denied
  BY <1>1, RefusedParts DEF RefusedDoc
<1>2a. row'.doc.grant = row.doc.grant
  BY <1>1, NextFacts DEF Stores
<1>3. \A d \in Docs : RefusedDoc(d)' => RefusedDoc(d)
  BY <1>1, <1>2, <1>2a DEF RefusedDoc, Condemned, Blocked, CopyBlocked, AdminAt, Only, Hot
<1>4. /\ \A w \in Workers : At(w, "persist")' => At(w, "persist") /\ work'[w] = work[w]
      /\ \A w \in Workers : At(w, "recheck")' => At(w, "recheck") /\ work'[w] = work[w]
  BY <1>1 DEF At, Only, Hot
<1> QED BY <1>1, <1>3, <1>4, TurnsAre, MarksStay

\* An account is blocked for a document that was marked already.
LEMMA BlocksRefused ==
    ASSUME Documents, RefusedForGood, Shielded, NEW u \in Workers, Blocks(u)
    PROVE  RefusedForGood'
<1>1. /\ UNCHANGED <<turn, revoked, admin>> /\ denied \subseteq denied'
      /\ row'.doc = row.doc
      /\ Only(u) /\ Condemned(u) /\ work'[u].at = "idle" /\ row.doc = work[u].account
  BY DEF Blocks, Steady, MayBlock, Shielded, Condemned, At
<1>2. \A d \in Docs : RefusedDoc(d)' => RefusedDoc(d)
  BY <1>1 DEF RefusedDoc, Condemned, Blocked, CopyBlocked, AdminAt, Only
<1>3. /\ \A w \in Workers : At(w, "persist")' => At(w, "persist") /\ work'[w] = work[w]
      /\ \A w \in Workers : At(w, "recheck")' => At(w, "recheck") /\ work'[w] = work[w]
  BY <1>1 DEF At, Only
<1> QED BY <1>1, <1>2, <1>3, TurnsAre, MarksStay

LEMMA RevokesRefused ==
    ASSUME Documents, RefusedForGood, Shielded, Revokes
    PROVE  RefusedForGood'
<1>1. /\ UNCHANGED <<turn, denied, admin, work>> /\ revoked \subseteq revoked'
      /\ row'.doc = row.doc /\ row'.status = row.status
  BY DEF Revokes, SameRowDoc
<1>2. \A d \in Docs : RefusedDoc(d)' => RefusedDoc(d)
  BY <1>1 DEF RefusedDoc, Condemned, Blocked, CopyBlocked, AdminAt
<1> QED BY <1>1, <1>2, TurnsAre, MarksStay DEF At

\* With the workers and the vendor as they are, marks have to come from marks.
LEMMA AdminMarks ==
    ASSUME Documents, RefusedForGood, Shielded, UNCHANGED <<turn, revoked, denied, work>>,
           \A d \in Docs : RefusedDoc(d)' => RefusedDoc(d)
    PROVE  RefusedForGood'
BY TurnsAre, MarksStay DEF At

LEMMA AdminRefused ==
    ASSUME Documents, RefusedForGood, Shielded, Shielded', Admin
    PROVE  RefusedForGood'
<1> TypeOK
  BY DEF Documents
<1>1. CASE Edit \/ ManualRefresh
  <2>1. /\ UNCHANGED <<turn, revoked, denied, work, row>> /\ admin'.at \in {"read", "exchange"}
        /\ AdminAt("idle")
    BY <1>1 DEF Edit, ManualRefresh, Begin, NoAdmin, vendor
  <2>2. \A d \in Docs : RefusedDoc(d)' => RefusedDoc(d)
    BY <2>1 DEF RefusedDoc, Condemned, Blocked, CopyBlocked, AdminAt
  <2> QED BY <2>1, <2>2, AdminMarks
<1>2. CASE Reauthorize
  <2>1. PICK g \in Grants :
           /\ turn[g] = 0
           /\ Begin([NoAdmin EXCEPT !.at = "read", !.op = "reauth", !.doc = FirstOf(g)])
           /\ turn' = [turn EXCEPT ![g] = 1] /\ fresh' = fresh \cup {Token(FirstOf(g))}
           /\ UNCHANGED <<grok, authorized, revoked, denied, row, locks, work, history>>
    BY <1>2 DEF Reauthorize
  <2>2. \A h \in Grants : turn'[h] \in Int /\ turn[h] <= turn'[h]
    BY <2>1, TurnsAre, ReauthorizeGives
  <2>3. admin'.at = "read" /\ AdminAt("idle")
    BY <2>1 DEF Begin, NoAdmin
  <2>4. \A d \in Docs : RefusedDoc(d)' => RefusedDoc(d)
    BY <2>1, <2>3 DEF RefusedDoc, Condemned, Blocked, CopyBlocked, AdminAt
  <2> QED BY <2>1, <2>2, <2>4, MarksStay DEF At
<1>3. CASE ManualExchange
  <2>1. /\ UNCHANGED <<turn, revoked, denied, work, row>> /\ admin'.at = "idle" /\ AdminAt("exchange")
    BY <1>3 DEF ManualExchange, Shielded, Spared, NoAdmin, vendor
  <2>2. \A d \in Docs : RefusedDoc(d)' => RefusedDoc(d)
    BY <2>1 DEF RefusedDoc, Condemned, Blocked, CopyBlocked, AdminAt
  <2> QED BY <2>1, <2>2, AdminMarks
<1>4. CASE AdminRead
  <2>1. /\ UNCHANGED <<turn, revoked, denied, work, row>> /\ admin'.at = "write" /\ admin'.copy = row
        /\ AdminAt("read")
    BY <1>4, AdminReadFacts DEF AdminRead, vendor
  <2>2. \A d \in Docs : RefusedDoc(d)' => RefusedDoc(d)
    BY <2>1 DEF RefusedDoc, Condemned, Blocked, CopyBlocked, AdminAt
  <2> QED BY <2>1, <2>2, AdminMarks
<1>5. CASE AdminWrite
  <2>1. PICK e \in Written : row'.doc = e
    BY <1>5, AdminWriteFacts
  <2>2. /\ UNCHANGED <<turn, revoked, denied, work>> /\ AdminAt("write") /\ row'.status = admin.copy.status
        /\ admin'.at = (IF admin.op = "reauth" THEN "clear" ELSE "idle")
        /\ admin.op # "manual" /\ admin.op \in {"edit", "manual", "reauth"}
        /\ admin.copy.doc \in Docs
    BY <1>5, AdminWriteFacts, RowFields DEF AdminWrite, vendor, Shielded, Spared, TypeOK
  <2>3. CASE admin.op = "reauth"
    <3>1. \A d \in Docs : RefusedDoc(d)' => RefusedDoc(d)
      BY <2>2, <2>3 DEF RefusedDoc, Condemned, Blocked, CopyBlocked, AdminAt
    <3> QED BY <2>2, <3>1, AdminMarks
  <2>4. CASE admin.op = "edit"
    <3>1. Token(row'.doc) = Token(admin.copy.doc)
      BY <2>1, <2>4, WrittenFacts DEF Token
    <3>2. ASSUME NEW d \in Docs, RefusedDoc(d)'
          PROVE  \E c \in Docs : RefusedDoc(c) /\ Token(c) = Token(d)
      <4>1. CASE \E v \in Workers : Condemned(v)' /\ d = work'[v].account
        BY <2>2, <3>2, <4>1 DEF RefusedDoc, Condemned
      <4>2. CASE Blocked' /\ d = row'.doc
        <5>1. Token(admin.copy.doc) = Token(d) /\ admin.copy.doc.grant = d.grant
          BY <3>1, <4>2 DEF Token
        <5>2. RefusedDoc(admin.copy.doc)
          BY <2>2, <3>2, <4>2, <5>1 DEF RefusedDoc, Blocked, CopyBlocked, AdminAt
        <5> QED BY <2>2, <5>1, <5>2
      <4> QED BY <2>2, <2>4, <3>2, <4>1, <4>2 DEF RefusedDoc, CopyBlocked, AdminAt
    <3>3. ASSUME NEW d \in Docs, RefusedDoc(d)'
          PROVE  /\ ~Valid(d)'
                 /\ \A w \in Workers : At(w, "persist")' => Token(d) # Token(work'[w].used.doc)
      <4>1. PICK c \in Docs : RefusedDoc(c) /\ Token(c) = Token(d)
        BY <3>2, <3>3
      <4>2. c.grant = d.grant /\ c.turn = d.turn
        BY <4>1 DEF Token
      <4> QED BY <2>2, <4>1, <4>2, RefusedParts DEF Valid, At
    <3>4. \A v \in Workers : At(v, "recheck")' => ~Valid(work[v].used.doc)'
      BY <2>2, RefusedParts DEF At, Valid
    <3> QED BY <2>2, <3>3, <3>4 DEF RefusedForGood, Token
  <2> QED BY <2>2, <2>3, <2>4
<1>6. CASE AdminClear
  <2>1. /\ UNCHANGED <<turn, revoked, denied, work>> /\ admin'.at = "idle" /\ row'.status = "active"
    BY <1>6 DEF AdminClear, vendor, NoAdmin, TypeOK, Rows
  <2>2. \A d \in Docs : RefusedDoc(d)' => RefusedDoc(d)
    BY <2>1 DEF RefusedDoc, Condemned, Blocked, CopyBlocked, AdminAt
  <2> QED BY <2>1, <2>2, AdminMarks
<1>7. CASE AdminFails
  <2>1. /\ UNCHANGED <<turn, revoked, denied, work, row>> /\ admin'.at = "idle"
    BY <1>7 DEF AdminFails, vendor, NoAdmin
  <2>2. ~AdminAt("clear")
    BY <1>7, HarmAdds DEF AdminFails, Shielded, Spared
  <2>3. \A d \in Docs : RefusedDoc(d)' => RefusedDoc(d)
    BY <2>1, <2>2 DEF RefusedDoc, Condemned, Blocked, CopyBlocked, AdminAt
  <2> QED BY <2>1, <2>3, AdminMarks
<1> QED BY <1>1, <1>2, <1>3, <1>4, <1>5, <1>6, <1>7 DEF Admin

LEMMA FromAfarKeeps ==
    ASSUME Documents, [Next]_vars
    PROVE  history \subseteq history' /\ grok' = grok
<1>1. Quiet \/ Revokes \/ (\E w \in Workers : Acts(w)) => history \subseteq history' /\ grok' = grok
  BY DEF Quiet, Steady, Revokes, Acts, Reads, Rotates, Refuses, Stores, Condemns, Blocks
<1>2. Admin => history \subseteq history' /\ grok' = grok
  BY HarmAdds DEF Admin, Edit, Reauthorize, ManualRefresh, ManualExchange, AdminRead, AdminWrite,
     AdminClear, AdminFails
<1> QED BY <1>1, <1>2, FromAfar

LEMMA NextRefused == Documents /\ LeaseHeld /\ RefusedForGood /\ [Next]_vars => RefusedForGood'
<1> SUFFICES ASSUME Documents, LeaseHeld, RefusedForGood, [Next]_vars PROVE RefusedForGood'
  OBVIOUS
<1>1. CASE ~Shielded'
  BY <1>1 DEF RefusedForGood, Shielded
<1>2. CASE Shielded'
  <2>1. Shielded
    BY <1>2, FromAfarKeeps DEF Shielded, Spared
  <2> QED BY <1>2, <2>1, FromAfar, QuietRefused, ReadsRefused, RotatesRefused, RefusesRefused,
             StoresRefused, BlocksRefused, RevokesRefused, AdminRefused DEF Acts
<1> QED BY <1>1, <1>2

\* What is marked as refused on a Grok account is refused for good.
THEOREM RefusalIsFinal == Spec => []RefusedForGood
<1>1. Init => RefusedForGood
  BY DEF Init, RefusedForGood, RefusedDoc, Condemned, Blocked, CopyBlocked, AdminAt,
     NoRow, NoWork, NoAdmin, At
<1> QED BY <1>1, NextRefused, DocumentsHold, LeaseIsHeld, PTL DEF Spec

-----------------------------------------------------------------------------
(* What is refused stays refused: all other accounts                         *)

Exposed == ~grok /\ Spared({"redis", "manual", "clear", "lapse", "reauth"})

LEMMA StuckParts ==
    ASSUME StuckForGood, Exposed
    PROVE  OneGrant /\ Ordered /\ (RefusedSomewhere => Stuck)
BY DEF StuckForGood, Exposed

\* Workers that read nothing and do not come to exchange or store change no order.
LEMMA RestStuck ==
    ASSUME Documents, StuckForGood, Exposed, UNCHANGED <<turn, admin>>,
           revoked \subseteq revoked', denied \subseteq denied', row'.doc = row.doc,
           \A v \in Workers :
              work'[v] = work[v] \/ /\ work'[v].at \notin {"exchange", "persist"}
                                    /\ work'[v].used.doc \in {work[v].used.doc, FirstOf(1)},
           RefusedSomewhere' => RefusedSomewhere
    PROVE  StuckForGood'
<1>1. OneGrant /\ Ordered /\ (RefusedSomewhere => Stuck) /\ FirstOf(1).grant = 1
  BY StuckParts, FirstFacts, OneIsGrant
<1>2. OneGrant'
  BY <1>1 DEF OneGrant, AdminAt
<1>3. Ordered'
  BY <1>1 DEF Ordered, AdminAt
<1>4. Stuck => Stuck'
  BY DEF Stuck, AdminAt, At
<1> QED BY <1>1, <1>2, <1>3, <1>4 DEF StuckForGood

LEMMA QuietStuck ==
    ASSUME Documents, StuckForGood, Exposed, Quiet
    PROVE  StuckForGood'
<1>1. /\ UNCHANGED <<turn, revoked, admin>> /\ denied \subseteq denied'
      /\ row'.doc = row.doc /\ row'.status = row.status
      /\ \A v \in Workers : work'[v] = work[v] \/ Rests(v)
  BY DEF Quiet, Steady, SameRowDoc
<1>2. RefusedSomewhere' => RefusedSomewhere
  BY <1>1 DEF RefusedSomewhere, CopyBlocked, AdminAt, Rests, Hot
<1> QED BY <1>1, <1>2, RestStuck DEF Rests, Hot

LEMMA ReadsStuck ==
    ASSUME Documents, StuckForGood, Exposed, NEW u \in Workers, Reads(u)
    PROVE  StuckForGood'
<1>1. /\ UNCHANGED <<turn, revoked, admin>> /\ denied \subseteq denied'
      /\ row'.doc = row.doc /\ row'.status = row.status
      /\ Only(u) /\ work'[u].at = "exchange" /\ work'[u].used.doc = row.doc
  BY DEF Reads, Steady, SameRowDoc
<1>2. OneGrant /\ Ordered /\ (RefusedSomewhere => Stuck)
  BY StuckParts
<1>3. OneGrant'
  BY <1>1, <1>2 DEF OneGrant, AdminAt, Only
<1>4. Ordered'
  <2>1. row.doc.turn <= row.doc.turn
    BY RowBounds
  <2> QED BY <1>1, <1>2, <2>1 DEF Ordered, AdminAt, Only
<1>5. RefusedSomewhere' => RefusedSomewhere
  BY <1>1 DEF RefusedSomewhere, CopyBlocked, AdminAt, Only
<1>6. Stuck => Stuck'
  BY <1>1 DEF Stuck, AdminAt, At, Only
<1> QED BY <1>2, <1>3, <1>4, <1>5, <1>6 DEF StuckForGood

\* Nothing but a denial came before a refresh that the vendor grants.
LEMMA RotatesStuck ==
    ASSUME Documents, StuckForGood, Exposed, NEW u \in Workers, Rotates(u)
    PROVE  StuckForGood'
<1>1. /\ UNCHANGED <<revoked, denied, admin>> /\ row'.doc = row.doc /\ row'.status = row.status
      /\ Only(u) /\ At(u, "exchange") /\ Valid(work[u].used.doc)
      /\ work'[u].at = "persist" /\ work'[u].used = work[u].used
  BY DEF Rotates, SameRowDoc, SameUsed
<1>2. OneGrant /\ Ordered /\ (RefusedSomewhere => Stuck)
  BY StuckParts
<1>3. Stuck => Stuck'
  <2>1. work[u].used.doc.grant = 1 /\ work[u].used.doc.turn = turn[1] /\ 1 \notin revoked
    BY <1>1, <1>2 DEF OneGrant, Valid
  <2>2. Stuck => 1 \in denied
    BY <1>1, <2>1, Bounds DEF Stuck
  <2> QED BY <1>1, <2>2 DEF Stuck
<1>4. OneGrant'
  BY <1>1, <1>2 DEF OneGrant, AdminAt, Only
<1>5. Ordered'
  BY <1>1, <1>2 DEF Ordered, AdminAt, Only, At
<1>6. RefusedSomewhere' => RefusedSomewhere
  BY <1>1 DEF RefusedSomewhere, CopyBlocked, AdminAt, Only
<1> QED BY <1>2, <1>3, <1>4, <1>5, <1>6 DEF StuckForGood

\* A refusal comes while nobody else is past the lock: nobody has the successor.
LEMMA RefusesStuck ==
    ASSUME Documents, LeaseHeld, StuckForGood, Exposed, NEW u \in Workers, Refuses(u)
    PROVE  StuckForGood'
<1>1. /\ UNCHANGED <<turn, revoked, admin>> /\ denied \subseteq denied'
      /\ row'.doc = row.doc /\ row'.status = row.status
      /\ Only(u) /\ work'[u].used = work[u].used /\ work'[u].at \in {"recheck", "dead"}
      /\ Past(work[u].at)
  BY DEF Refuses, Steady, SameRowDoc, SameUsed, At, Past, Inside
<1>2. OneGrant /\ Ordered /\ (RefusedSomewhere => Stuck)
  BY StuckParts
<1>3. OneGrant'
  BY <1>1, <1>2 DEF OneGrant, AdminAt, Only
<1>4. Ordered'
  BY <1>1, <1>2 DEF Ordered, AdminAt, Only
<1>5. Stuck'
  <2>1. CASE At(u, "recheck")
    <3>1. Stuck
      BY <1>2, <2>1 DEF RefusedSomewhere, At
    <3> QED BY <1>1, <3>1 DEF Stuck, AdminAt, At, Only
  <2>2. CASE At(u, "exchange") /\ ~Valid(work[u].used.doc)
    <3>1. \A w \in Workers : ~(At(w, "persist")') /\ ~(At(w, "exchange")')
      <4>1. ASSUME NEW w \in Workers, At(w, "persist")' \/ At(w, "exchange")' PROVE FALSE
        <5>1. w # u /\ Past(work[w].at)
          BY <1>1, <4>1 DEF At, Only, Past, Inside
        <5> QED BY <1>1, <5>1, Apart DEF Exposed, Spared
      <4> QED BY <4>1
    <3>2. 1 \in revoked \/ work[u].used.doc.turn < turn[1]
      BY <1>2, <2>2, Bounds DEF OneGrant, Valid
    <3>3. CASE work[u].used.doc.turn < turn[1]
      <4>1. row.doc.turn <= work[u].used.doc.turn
            /\ (AdminAt("write") => admin.copy.doc.turn <= row.doc.turn)
        BY <1>2, <2>2 DEF Ordered, At
      <4>2. admin.copy.doc.turn \in Int
        BY RowFields, DocFacts DEF Documents
      <4>3. /\ row.doc.turn < turn[1] /\ (AdminAt("write") => admin.copy.doc.turn < turn[1])
        <5>1. /\ row.doc.turn \in Int /\ work[u].used.doc.turn \in Int /\ turn[1] \in Int
          BY OneIsGrant, RowBounds, Bounds, TurnsAre
        <5> QED BY <3>3, <4>1, <4>2, <5>1
      <4> QED BY <1>1, <3>1, <4>3 DEF Stuck, AdminAt
    <3> QED BY <1>1, <3>2, <3>3 DEF Stuck
  <2>3. CASE work[u].used.doc.grant \in denied'
    BY <1>2, <2>3 DEF OneGrant, Stuck
  <2> QED BY <2>1, <2>2, <2>3 DEF Refuses
<1> QED BY <1>3, <1>4, <1>5 DEF StuckForGood

LEMMA StoresStuck ==
    ASSUME Documents, LeaseHeld, StuckForGood, Exposed, NEW u \in Workers, Stores(u)
    PROVE  StuckForGood'
<1>1. /\ UNCHANGED <<turn, revoked, admin>> /\ denied \subseteq denied'
      /\ row'.doc = work[u].next
      /\ row'.status = row.status /\ Only(u) /\ At(u, "persist") /\ work'[u].at \notin Hot
      /\ work'[u].used.doc = work[u].used.doc
  BY DEF Stores, Steady
<1>2. OneGrant /\ Ordered /\ (RefusedSomewhere => Stuck)
  BY StuckParts
<1>3. work[u].next.grant = 1 /\ work[u].next.turn = work[u].used.doc.turn + 1
  BY <1>1, <1>2, NextFacts DEF OneGrant
<1>4. OneGrant'
  BY <1>1, <1>2, <1>3 DEF OneGrant, AdminAt, Only
<1>5. Ordered'
  <2>1. ASSUME NEW w \in Workers, work'[w].at \in {"exchange", "persist"} PROVE FALSE
    <3>1. w # u /\ Past(work[w].at) /\ Past(work[u].at)
      BY <1>1, <2>1 DEF At, Only, Past, Inside, Hot
    <3> QED BY <3>1, Apart DEF Exposed, Spared
  <2>2. (AdminAt("write"))' => admin'.copy.doc.turn <= row'.doc.turn
    <3>1. AdminAt("write") => admin.copy.doc.turn <= row.doc.turn
      BY <1>2 DEF Ordered
    <3>2. row.doc.turn <= work[u].used.doc.turn
      BY <1>1, <1>2 DEF Ordered, At
    <3>3. /\ admin.copy.doc.turn \in Int /\ row.doc.turn \in Int /\ work[u].used.doc.turn \in Int
      BY RowFields, DocFacts, RowBounds, Bounds DEF Documents
    <3> QED BY <1>1, <1>3, <3>1, <3>2, <3>3 DEF AdminAt
  <2> QED BY <2>1, <2>2 DEF Ordered
<1>6. RefusedSomewhere' => RefusedSomewhere
  BY <1>1 DEF RefusedSomewhere, CopyBlocked, AdminAt, Only, Hot
<1>7. Stuck => Stuck'
  BY <1>1 DEF Stuck
<1> QED BY <1>2, <1>4, <1>5, <1>6, <1>7 DEF StuckForGood

\* To be about to block an account is to have been refused.
LEMMA BlocksStuck ==
    ASSUME Documents, StuckForGood, Exposed, NEW u \in Workers, Condemns(u) \/ Blocks(u)
    PROVE  StuckForGood'
<1>1. /\ UNCHANGED <<turn, revoked, admin>> /\ denied \subseteq denied'
      /\ row'.doc = row.doc
      /\ Only(u) /\ work[u].at \in {"dead", "quarantine"}
      /\ work'[u].at \in {"quarantine", "idle"} /\ work'[u].used.doc = FirstOf(1)
  BY DEF Condemns, Blocks, Steady, SameRowDoc, At
<1>2. RefusedSomewhere
  BY <1>1 DEF RefusedSomewhere
<1>3. \A v \in Workers :
         work'[v] = work[v] \/ /\ work'[v].at \notin {"exchange", "persist"}
                               /\ work'[v].used.doc \in {work[v].used.doc, FirstOf(1)}
  BY <1>1 DEF Only
<1> QED BY <1>1, <1>2, <1>3, RestStuck

LEMMA RevokesStuck ==
    ASSUME Documents, StuckForGood, Exposed, Revokes
    PROVE  StuckForGood'
<1>1. /\ UNCHANGED <<turn, denied, admin, work>> /\ revoked \subseteq revoked'
      /\ row'.doc = row.doc /\ row'.status = row.status
  BY DEF Revokes, SameRowDoc
<1>2. RefusedSomewhere' => RefusedSomewhere
  BY <1>1 DEF RefusedSomewhere, CopyBlocked, AdminAt
<1> QED BY <1>1, <1>2, RestStuck

\* The workers and the turns of the only grant stay; the administrator has no copy in hand.
LEMMA NoCopyStuck ==
    ASSUME Documents, StuckForGood, Exposed, turn'[1] = turn[1], UNCHANGED <<revoked, denied, work>>,
           row'.doc = row.doc, row'.status \in {row.status, "active"}, ~(AdminAt("write")')
    PROVE  StuckForGood'
<1>1. OneGrant /\ Ordered /\ (RefusedSomewhere => Stuck)
  BY StuckParts
<1>2. OneGrant' /\ Ordered'
  BY <1>1 DEF OneGrant, Ordered
<1>3. RefusedSomewhere' => RefusedSomewhere
  BY DEF RefusedSomewhere, CopyBlocked
<1>4. Stuck => Stuck'
  BY DEF Stuck, At
<1> QED BY <1>1, <1>2, <1>3, <1>4 DEF StuckForGood

LEMMA AdminStuck ==
    ASSUME Documents, StuckForGood, Exposed, Exposed', Admin
    PROVE  StuckForGood'
<1> TypeOK
  BY DEF Documents
<1>1. CASE Edit \/ ManualRefresh
  <2>1. UNCHANGED <<turn, revoked, denied, work, row>> /\ admin'.at \in {"read", "exchange"}
    BY <1>1 DEF Edit, ManualRefresh, Begin, NoAdmin, vendor
  <2> QED BY <2>1, NoCopyStuck DEF AdminAt
<1>2. CASE Reauthorize
  <2>1. PICK g \in Grants :
           /\ turn[g] = 0
           /\ Begin([NoAdmin EXCEPT !.at = "read", !.op = "reauth", !.doc = FirstOf(g)])
           /\ turn' = [turn EXCEPT ![g] = 1] /\ fresh' = fresh \cup {Token(FirstOf(g))}
           /\ UNCHANGED <<grok, authorized, revoked, denied, row, locks, work, history>>
    BY <1>2 DEF Reauthorize
  <2>2. g # 1
    BY <2>1, FirstFacts, OneIsGrant DEF Documents, Given
  <2>3. turn'[1] = turn[1]
    BY <2>1, <2>2, OneIsGrant, ReauthorizeGives
  <2>4. admin'.at = "read"
    BY <2>1 DEF Begin, NoAdmin
  <2> QED BY <2>1, <2>3, <2>4, NoCopyStuck DEF AdminAt
<1>3. CASE ManualExchange
  <2>1. UNCHANGED <<turn, revoked, denied, work, row>> /\ admin'.at = "idle"
    BY <1>3 DEF ManualExchange, Exposed, Spared, NoAdmin, vendor
  <2> QED BY <2>1, NoCopyStuck DEF AdminAt
<1>4. CASE AdminRead
  <2>1. UNCHANGED <<turn, revoked, denied, work, row>> /\ admin'.at = "write" /\ admin'.copy = row
    BY <1>4, AdminReadFacts DEF AdminRead, vendor
  <2>2. OneGrant /\ Ordered /\ (RefusedSomewhere => Stuck) /\ row.doc.turn <= row.doc.turn
    BY StuckParts, RowBounds
  <2>3. OneGrant' /\ Ordered'
    BY <2>1, <2>2 DEF OneGrant, Ordered
  <2>4. RefusedSomewhere' => RefusedSomewhere
    BY <2>1 DEF RefusedSomewhere, CopyBlocked
  <2>5. Stuck => Stuck'
    BY <2>1 DEF Stuck, At
  <2> QED BY <2>2, <2>3, <2>4, <2>5 DEF StuckForGood
<1>5. CASE AdminWrite
  <2>1. admin.op = "edit"
    BY <1>5 DEF AdminWrite, Exposed, Spared, TypeOK
  <2>2. /\ UNCHANGED <<turn, revoked, denied, work>> /\ AdminAt("write") /\ admin'.at = "idle"
        /\ row'.status = admin.copy.status /\ row'.doc.grant = admin.copy.doc.grant
        /\ row'.doc.turn = admin.copy.doc.turn
    BY <1>5, <2>1, AdminWriteFacts, WrittenFacts DEF AdminWrite, vendor
  <2>3. OneGrant /\ Ordered /\ (RefusedSomewhere => Stuck)
    BY StuckParts
  <2>4. OneGrant'
    BY <2>2, <2>3 DEF OneGrant, AdminAt
  <2>5. Ordered'
    <3>1. admin.copy.doc.turn <= row.doc.turn
      BY <2>2, <2>3 DEF Ordered
    <3>2. admin.copy.doc.turn \in Int /\ row.doc.turn \in Int
      BY RowFields, DocFacts, RowBounds
    <3> QED BY <2>2, <2>3, <3>1, <3>2, Bounds DEF Ordered, AdminAt
  <2>6. RefusedSomewhere' => RefusedSomewhere
    BY <2>2 DEF RefusedSomewhere, CopyBlocked, AdminAt
  <2>7. Stuck => Stuck'
    BY <2>2 DEF Stuck, AdminAt, At
  <2> QED BY <2>3, <2>4, <2>5, <2>6, <2>7 DEF StuckForGood
<1>6. CASE AdminClear \/ AdminFails
  <2>1. /\ UNCHANGED <<turn, revoked, denied, work>> /\ admin'.at = "idle" /\ row'.doc = row.doc
        /\ row'.status \in {row.status, "active"}
    <3>1. CASE AdminClear
      BY <3>1 DEF AdminClear, vendor, NoAdmin, TypeOK, Rows
    <3>2. CASE AdminFails
      BY <3>2 DEF AdminFails, vendor, NoAdmin
    <3> QED BY <1>6, <3>1, <3>2
  <2> QED BY <2>1, NoCopyStuck DEF AdminAt
<1> QED BY <1>1, <1>2, <1>3, <1>4, <1>5, <1>6 DEF Admin

LEMMA NextStuck == Documents /\ LeaseHeld /\ StuckForGood /\ [Next]_vars => StuckForGood'
<1> SUFFICES ASSUME Documents, LeaseHeld, StuckForGood, [Next]_vars PROVE StuckForGood'
  OBVIOUS
<1>1. CASE ~Exposed'
  BY <1>1 DEF StuckForGood, Exposed
<1>2. CASE Exposed'
  <2>1. Exposed
    BY <1>2, FromAfarKeeps DEF Exposed, Spared
  <2> QED BY <1>2, <2>1, FromAfar, QuietStuck, ReadsStuck, RotatesStuck, RefusesStuck,
             StoresStuck, BlocksStuck, RevokesStuck, AdminStuck DEF Acts
<1> QED BY <1>1, <1>2

\* A refusal of an account that is not Grok says that nobody can refresh it any more.
THEOREM RefusalMeansStuck == Spec => []StuckForGood
<1>1. Init => StuckForGood
  BY FirstFacts, OneIsGrant
     DEF Init, StuckForGood, OneGrant, Ordered, RefusedSomewhere, CopyBlocked, AdminAt,
     NoRow, NoWork, NoAdmin
<1> QED BY <1>1, NextStuck, DocumentsHold, LeaseIsHeld, PTL DEF Spec

\* An account is only in error while the vendor refuses its refresh token, or after
\* its grant was denied for another reason.
THEOREM QuarantineStaysDeserved == Spec => []QuarantineIsDeserved
<1>1. Documents /\ RefusedForGood /\ StuckForGood => QuarantineIsDeserved
  <2> SUFFICES ASSUME Documents, RefusedForGood, StuckForGood,
                      row.status = "error", ~AdminAt("clear"),
                      Spared({"redis", "manual", "clear"}),
                      grok \/ Spared({"lapse", "reauth"})
               PROVE  ~Valid(row.doc) \/ row.doc.grant \in denied
    BY DEF QuarantineIsDeserved, Documents, TypeOK, Rows
  <2>1. row.doc \in Docs
    BY RowFields DEF Documents
  <2>2. CASE grok
    BY <2>1, <2>2, RefusedParts DEF Shielded, RefusedDoc, Blocked
  <2>3. CASE ~grok
    <3>1. OneGrant /\ Stuck
      BY <2>3, StuckParts DEF Exposed, Spared, RefusedSomewhere
    <3> QED BY <3>1, RowBounds DEF OneGrant, Stuck, Valid
  <2> QED BY <2>2, <2>3
<1> QED BY <1>1, RefusalIsFinal, RefusalMeansStuck, DocumentsHold, PTL
=============================================================================
