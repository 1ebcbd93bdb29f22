---------------------------- MODULE TokenRotation ----------------------------
(****************************************************************************)
(* OAuth refresh-token rotation for one account: the refreshes that request *)
(* handlers and the proactive scheduler run (token-manager.ts,              *)
(* proactive-token-refresh.ts), the registry of rotations whose persist     *)
(* failed (pending-rotation-registry.ts), the compare-and-swap writes of    *)
(* the account row (account.repository.ts), and the re-authentication that  *)
(* races with all of them (oauth.ts, oauth-flow).                           *)
(*                                                                          *)
(* Refresh and access tokens are numbered as the provider mints them; the   *)
(* n-th exchange mints access token n and, when it rotates, refresh token n *)
(* (0: none).  Expiry times and refresh_token_issued_at order tokens as     *)
(* their numbers do.  Whether an access token is still outside the safety   *)
(* window is a choice made where the code asks.                             *)
(*                                                                          *)
(* A step runs between two awaits that can suspend the caller: a database   *)
(* call, a call of the provider, another caller's promise.  SQLite runs on  *)
(* the event-loop thread; what may last (up to ten minutes) is the wait for *)
(* the writer lock before the statement.  Its continuation runs in the same *)
(* turn, so a statement and its continuation are one step, and everybody    *)
(* else's steps come in between while the caller waits for the lock.        *)
(*                                                                          *)
(* Registry entries are compared by value where the code compares object    *)
(* identity: entries differ in their access token, or in the anchor.        *)
(****************************************************************************)
EXTENDS Integers

CONSTANTS
    Request,        \* callers of refreshAccessTokenSafe
    Proactive,      \* the proactive refreshers
    Sweeper,        \* the registry's retry timer
    Nobody,         \* no refresh in flight
    Reauthenticates,\* whether the user may re-authenticate
    MaxMint,        \* bound: tokens minted, the first one included
    MaxDbFailures,  \* bound: database calls that throw
    MaxCrashes      \* bound: process restarts

ASSUME RolesDistinct ==
    /\ Request \cap Proactive = {}
    /\ Sweeper \cap (Request \cup Proactive) = {}
    /\ Nobody \notin Request \cup Proactive \cup Sweeper
ASSUME BoundsAreNat ==
    /\ MaxMint \in Nat \ {0}
    /\ MaxDbFailures \in Nat
    /\ MaxCrashes \in Nat
    /\ Reauthenticates \in BOOLEAN

Proc == Request \cup Proactive \cup Sweeper

Token == 1..MaxMint
OptToken == 0..MaxMint
Entry == [at : OptToken, rt : OptToken, anchor : OptToken]
NoEntry == [at |-> 0, rt |-> 0, anchor |-> 0]

VARIABLES
    \* durable: the account row
    row,        \* refresh_token, access_token, paused for re-authentication
    \* process memory
    pending,    \* the account's entry of the pending map, or NoEntry
    inFlight,   \* ctx.refreshInFlight: who owns the registered promise
    recent,     \* recentRefreshes: access token of the entry, 0 for none
    backoff,    \* refreshFailures holds a failure within the backoff window
    pc, acct,   \* each caller: where it is, and its Account object's tokens
    loc,        \* each caller: the locals of the call in progress
    reauth,     \* re-authentication: "none", "granted", "written", "resumed"
    \* the provider
    minted, live,
    \* history and fault budgets
    head,       \* the usable refresh token of the newest grant
    stale,      \* refresh tokens of grants a re-authentication has replaced
    excused,    \* head was lost by a crash, a lost response or a revocation
    dbFailures, crashes

memVars == <<pending, inFlight, recent, backoff>>
provVars == <<minted, live, head, stale>>
faultVars == <<excused, dbFailures, crashes>>
vars == <<row, memVars, pc, acct, loc, reauth, provVars, faultVars>>

Idle == [joined |-> Nobody, entry |-> NoEntry, exch |-> 0, at |-> 0, rt |-> 0,
         answer |-> "none"]

Answer == {"none", "ok", "invalid_grant", "error"}

TypeOK ==
    /\ row \in [rt : Token, at : Token, paused : BOOLEAN]
    /\ pending \in Entry
    /\ inFlight \in Request \cup Proactive \cup {Nobody}
    /\ recent \in OptToken
    /\ backoff \in BOOLEAN
    /\ pc \in [Proc -> {"idle", "selected", "join", "flush", "reread", "exchange", "answered",
                        "persist", "retryread", "retrywrite", "adopt", "pause"}]
    /\ acct \in [Proc -> [rt : Token, at : Token]]
    /\ loc \in [Proc -> [joined : Request \cup Proactive \cup {Nobody},
                         entry : Entry, exch : OptToken, at : OptToken,
                         rt : OptToken, answer : Answer]]
    /\ reauth \in {"none", "granted", "written", "resumed"}
    /\ minted \in Token
    /\ live \subseteq Token
    /\ head \in Token
    /\ stale \subseteq Token
    /\ excused \in BOOLEAN
    /\ dbFailures \in 0..MaxDbFailures
    /\ crashes \in 0..MaxCrashes

-----------------------------------------------------------------------------
(* The pending-rotation registry *)

\* The refresh token an entry stands for: the one it carries, or, when its
\* exchange minted none, the anchor.
Generation(e) == IF e.rt # 0 THEN e.rt ELSE e.anchor

\* recordPendingRotation: the oldest known anchor is kept; an entry without an
\* anchor is refused.
Recorded(at, rt, anchor) ==
    LET a == IF pending # NoEntry THEN pending.anchor ELSE anchor
    IN IF a = 0 THEN pending ELSE [at |-> at, rt |-> rt, anchor |-> a]

\* clearPendingRotationIfCurrent
ClearedIfCurrent(e) == IF pending = e THEN NoEntry ELSE pending

\* resolvePendingAfterPersist: the persisted entry goes; a newer one that was
\* recorded meanwhile is re-anchored on what the row now holds.
ResolvedAfterPersist(e, written) ==
    IF pending = NoEntry \/ pending = e THEN NoEntry
    ELSE IF written # 0 THEN [pending EXCEPT !.anchor = written] ELSE pending

-----------------------------------------------------------------------------
(* The account row *)

\* Mutant: the write does not compare.
UnguardedUpdate(at, rt, expected) ==
    /\ row' = [row EXCEPT !.at = at, !.rt = IF rt # 0 THEN rt ELSE @]
    /\ UNCHANGED dbFailures

\* Mutant: without a refresh token the write blanks the column.
BlankingUpdate(at, rt, expected) ==
    /\ row.rt = expected
    /\ row' = [row EXCEPT !.at = at, !.rt = rt]
    /\ UNCHANGED dbFailures

\* updateTokens with an expected refresh token, a compare-and-swap that hits.
UpdateTokens(at, rt, expected) ==
    /\ row.rt = expected
    /\ row' = [row EXCEPT !.at = at, !.rt = IF rt # 0 THEN rt ELSE @]
    /\ UNCHANGED dbFailures

\* The same statement when it misses.
UpdateMisses(expected) == row.rt # expected /\ UNCHANGED <<row, dbFailures>>

\* A database call throws.
DbFails ==
    /\ dbFailures < MaxDbFailures
    /\ dbFailures' = dbFailures + 1
    /\ UNCHANGED row
DbReads == UNCHANGED <<row, dbFailures>>

-----------------------------------------------------------------------------
Init ==
    /\ row = [rt |-> 1, at |-> 1, paused |-> FALSE]
    /\ pending = NoEntry
    /\ inFlight = Nobody
    /\ recent = 0
    /\ backoff = FALSE
    /\ pc = [p \in Proc |-> "idle"]
    /\ acct = [p \in Proc |-> [rt |-> 1, at |-> 1]]
    /\ loc = [p \in Proc |-> Idle]
    /\ reauth = "none"
    /\ minted = 1
    /\ live = {1}
    /\ head = 1
    /\ stale = {}
    /\ excused = FALSE
    /\ dbFailures = 0
    /\ crashes = 0

Goto(p, label) == pc' = [pc EXCEPT ![p] = label]
Set(p, r) == loc' = [loc EXCEPT ![p] = r]
\* An account object after tokens have been installed on it (0: none given).
With(a, rt, at) == [rt |-> IF rt # 0 THEN rt ELSE a.rt,
                    at |-> IF at # 0 THEN at ELSE a.at]
Install(p, a) == acct' = [acct EXCEPT ![p] = a]

\* getCoalescibleRecentRefresh for a caller that holds the access token at
Coalescible(at) == recent # 0 /\ recent # at

\* The call returns or throws.
Return(p) == Goto(p, "idle") /\ Set(p, Idle)

\* Who awaits the refresh promise of p.
Joiners(p) == {q \in Proc : pc[q] = "join" /\ loc[q].joined = p}

\* The promise of p is gone from the in-flight map unless another one has
\* taken its place.
Deregister(p) == inFlight' = IF inFlight = p THEN Nobody ELSE inFlight

\* The promise of p resolves with the access token at; a is what p's account
\* holds.  A joiner takes the token over when it is the one just cached, and
\* reads the row when it is another than its own.
Resolve(p, a, at) ==
    LET synced == {q \in Joiners(p) : recent' = at}
        behind == {q \in Joiners(p) : recent' # at /\ acct[q].at # at}
        done == ({p} \cup Joiners(p)) \ behind
    IN /\ acct' = [q \in Proc |-> IF q = p THEN a
                                 ELSE IF q \in synced THEN With(acct[q], 0, at)
                                 ELSE acct[q]]
       /\ pc' = [q \in Proc |-> IF q \in done THEN "idle"
                               ELSE IF q \in behind THEN "adopt" ELSE pc[q]]
       /\ loc' = [q \in Proc |-> IF q \in done THEN Idle
                                ELSE IF q \in behind THEN [Idle EXCEPT !.at = at]
                                ELSE loc[q]]
       /\ Deregister(p)

\* The promise of p rejects: whoever awaits it throws; p goes on at label with
\* the locals l.
Reject(p, label, l) ==
    /\ pc' = [q \in Proc |-> IF q = p THEN label
                            ELSE IF q \in Joiners(p) THEN "idle" ELSE pc[q]]
    /\ loc' = [q \in Proc |-> IF q = p THEN l
                             ELSE IF q \in Joiners(p) THEN Idle ELSE loc[q]]
    /\ Deregister(p)

-----------------------------------------------------------------------------
(* Up to the exchange *)

\* A caller picks up the account as the row has it.  A request may keep the
\* object and refresh with it much later and more than once; the scheduler
\* works through the rows it has read.
Select(p) ==
    /\ p \in Request \cup Proactive
    /\ pc[p] = "idle"
    /\ Install(p, [rt |-> row.rt, at |-> row.at])
    /\ Goto(p, IF p \in Proactive THEN "selected" ELSE "idle")
    /\ UNCHANGED <<row, memVars, loc, reauth, provVars, faultVars>>

\* Where a call begins.
Ready(p) == pc[p] = IF p \in Proactive THEN "selected" ELSE "idle"

\* Somebody refreshes already, or just has: join, or reuse the outcome.
StartJoin(p) ==
    /\ p \in Request
    /\ pc[p] = "idle"
    /\ \/ /\ inFlight # Nobody
          /\ Goto(p, "join")
          /\ Set(p, [Idle EXCEPT !.joined = inFlight])
          /\ UNCHANGED acct
       \/ /\ inFlight = Nobody
          /\ Coalescible(acct[p].at)
          /\ Install(p, With(acct[p], 0, recent))
          /\ UNCHANGED <<pc, loc>>
    /\ UNCHANGED <<row, memVars, reauth, provVars, faultVars>>

\* In backoff the call throws; after enough of that the row is consulted, and
\* a valid token that differs from the one in hand ends the backoff.
BackoffRecover(p) ==
    /\ p \in Request
    /\ pc[p] = "idle"
    /\ inFlight = Nobody /\ ~Coalescible(acct[p].at)
    /\ backoff
    /\ row.at # acct[p].at
    /\ Install(p, [rt |-> row.rt, at |-> row.at])
    /\ backoff' = FALSE
    /\ UNCHANGED <<row, pending, inFlight, recent, pc, loc, reauth, provVars,
                   faultVars>>

\* Mutant: no retry timer is armed when a rotation is recorded.
FlushesOnCallOnly(p) ==
    /\ pending # NoEntry /\ p \notin Sweeper /\ inFlight = Nobody
    /\ p \in Request => ~Coalescible(acct[p].at) /\ ~backoff

\* Who turns to the registry: a refresh before anything else, and the sweep of
\* the retry timer, which is armed as long as something is pending.
Flushes(p) ==
    /\ pending # NoEntry
    /\ p \notin Sweeper => inFlight = Nobody
    /\ p \in Request => ~Coalescible(acct[p].at) /\ ~backoff

\* flushPendingRotation takes the entry and submits its write.
StartFlush(p) ==
    /\ Ready(p)
    /\ Flushes(p)
    /\ Goto(p, "flush")
    /\ Set(p, [Idle EXCEPT !.entry = pending])
    /\ UNCHANGED <<row, memVars, acct, reauth, provVars, faultVars>>

\* With nothing pending a request reads the row.
StartReread(p) ==
    /\ p \in Request
    /\ pc[p] = "idle"
    /\ pending = NoEntry
    /\ inFlight = Nobody /\ ~Coalescible(acct[p].at) /\ ~backoff
    /\ Goto(p, "reread")
    /\ UNCHANGED <<row, memVars, acct, loc, reauth, provVars, faultVars>>

\* The exchange of the refresh token rt begins; its promise is registered.
StartExchange(p, rt) ==
    /\ Goto(p, "exchange")
    /\ Set(p, [Idle EXCEPT !.exch = rt])
    /\ inFlight' = p

\* refreshProactiveAccountToken goes on only when nothing is pending, with the
\* row its caller has read.
StartProactive(p) ==
    /\ p \in Proactive
    /\ Ready(p)
    /\ inFlight = Nobody
    /\ pending = NoEntry
    /\ ~Coalescible(acct[p].at)
    /\ StartExchange(p, acct[p].rt)
    /\ UNCHANGED <<row, pending, recent, backoff, acct, reauth, provVars,
                   faultVars>>

\* It skips the account when a refresh is in flight or just over.
SkipProactive(p) ==
    /\ p \in Proactive
    /\ Ready(p)
    /\ inFlight # Nobody \/ (pending = NoEntry /\ Coalescible(acct[p].at))
    /\ Return(p)
    /\ UNCHANGED <<row, memVars, acct, reauth, provVars, faultVars>>

\* refreshAccessTokenSafe, once the row or the registry has been consulted and
\* the account holds a: join, coalesce or exchange.
RefreshWith(p, a) ==
    \/ /\ inFlight # Nobody
       /\ Goto(p, "join")
       /\ Set(p, [Idle EXCEPT !.joined = inFlight])
       /\ Install(p, a)
       /\ UNCHANGED inFlight
    \/ /\ inFlight = Nobody
       /\ Coalescible(a.at)
       /\ Install(p, With(a, 0, recent))
       /\ Return(p)
       /\ UNCHANGED inFlight
    \/ /\ inFlight = Nobody
       /\ ~Coalescible(a.at)
       /\ Install(p, a)
       /\ StartExchange(p, a.rt)

\* flushPendingRotation for the sweeper or a proactive refresh, which then
\* skips the account whatever the outcome.
FlushOnly(p) ==
    /\ p \notin Request
    /\ pc[p] = "flush"
    /\ LET e == loc[p].entry
       IN \/ UpdateTokens(e.at, e.rt, e.anchor)
             /\ pending' = ResolvedAfterPersist(e, Generation(e))
          \/ UpdateMisses(e.anchor) /\ pending' = ClearedIfCurrent(e)
          \/ DbFails /\ UNCHANGED pending
    /\ Return(p)
    /\ UNCHANGED <<inFlight, recent, backoff, acct, reauth, provVars, excused,
                   crashes>>

\* adoptDbTokensIfFresher with something to flush.  A live entry outranks the
\* row and serves its access token, or at least its refresh token; an entry
\* just persisted is what the row holds; else the row is read.
FlushAndAdopt(p) ==
    /\ p \in Request
    /\ pc[p] = "flush"
    /\ LET e == loc[p].entry
           live_entry ==
             /\ pending' # NoEntry
             /\ UNCHANGED backoff
             /\ \/ /\ Install(p, With(acct[p], pending'.rt, pending'.at))
                   /\ Return(p)
                   /\ UNCHANGED inFlight
                \/ RefreshWith(p, With(acct[p], pending'.rt, 0))
           just_persisted ==
             /\ pending' = NoEntry
             /\ \/ /\ Install(p, With(acct[p], e.rt, e.at))
                   /\ Return(p)
                   /\ backoff' = FALSE
                   /\ UNCHANGED inFlight
                \/ /\ RefreshWith(p, With(acct[p], e.rt, e.at))
                   /\ UNCHANGED backoff
           read_row ==
             /\ pending' = NoEntry
             /\ Goto(p, "reread")
             /\ UNCHANGED <<acct, loc, backoff, inFlight>>
       IN \/ /\ UpdateTokens(e.at, e.rt, e.anchor)
             /\ pending' = ResolvedAfterPersist(e, Generation(e))
             /\ live_entry \/ just_persisted
          \/ /\ UpdateMisses(e.anchor)
             /\ pending' = ClearedIfCurrent(e)
             /\ live_entry \/ read_row
          \/ /\ DbFails
             /\ pending' = pending
             /\ live_entry \/ read_row
    /\ UNCHANGED <<recent, reauth, provVars, excused, crashes>>

\* The row's refresh token when it is not older than the one in hand.
NotOlder(p) == IF row.rt >= acct[p].rt THEN row.rt ELSE acct[p].rt

\* adoptDbTokensIfFresher, the read: a fresher valid access token ends the
\* call, otherwise the refresh goes on with the live refresh token.
Reread(p) ==
    /\ pc[p] = "reread"
    /\ \/ /\ DbReads
          /\ row.at > acct[p].at \/ (row.rt > acct[p].rt /\ row.at # acct[p].at)
          /\ Install(p, [rt |-> NotOlder(p), at |-> row.at])
          /\ backoff' = FALSE
          /\ Return(p)
          /\ UNCHANGED inFlight
       \/ DbReads /\ RefreshWith(p, With(acct[p], NotOlder(p), 0)) /\ UNCHANGED backoff
       \/ DbFails /\ RefreshWith(p, acct[p]) /\ UNCHANGED backoff
    /\ UNCHANGED <<pending, recent, reauth, provVars, excused, crashes>>

-----------------------------------------------------------------------------
(* The provider *)

\* Exchanging a usable token mints an access token; whether it also rotates
\* the refresh token is the provider's choice.  The answer may get lost.
ExchangeAccepted(p, rotates, delivered) ==
    LET t == loc[p].exch
        n == minted + 1
    IN /\ pc[p] = "exchange"
       /\ t \in live
       /\ minted < MaxMint
       /\ minted' = n
       /\ live' = IF rotates THEN (live \ {t}) \cup {n} ELSE live
       /\ head' = IF rotates /\ t = head THEN n ELSE head
       /\ stale' = IF rotates /\ t \in stale THEN stale \cup {n} ELSE stale
       /\ excused' = (excused \/ (rotates /\ t = head /\ ~delivered))
       /\ Goto(p, "answered")
       /\ Set(p, IF delivered
                 THEN [loc[p] EXCEPT !.answer = "ok", !.at = n,
                                     !.rt = IF rotates THEN n ELSE 0]
                 ELSE [loc[p] EXCEPT !.answer = "error"])
       /\ UNCHANGED <<row, memVars, acct, reauth, dbFailures, crashes>>

\* A token that is not usable is refused; a network error has no effect.
ExchangeRefused(p) ==
    /\ pc[p] = "exchange"
    /\ Goto(p, "answered")
    /\ \/ loc[p].exch \notin live /\ Set(p, [loc[p] EXCEPT !.answer = "invalid_grant"])
       \/ Set(p, [loc[p] EXCEPT !.answer = "error"])
    /\ UNCHANGED <<row, memVars, acct, reauth, provVars, faultVars>>

\* The grant is revoked at the provider: by the user, or by the provider, which
\* may do so when it is shown a refresh token that has been rotated away.
Revoke ==
    /\ live # {}
    /\ ~excused
    /\ live' = {}
    /\ excused' = TRUE
    /\ UNCHANGED <<row, memVars, pc, acct, loc, reauth, minted, head, stale,
                   dbFailures, crashes>>

-----------------------------------------------------------------------------
(* After the exchange *)

\* The entry pending now is carried into the write: its anchor is what the row
\* is believed to hold, its refresh token goes on when none was minted.
BeginPersist(p) ==
    /\ pc[p] = "answered"
    /\ loc[p].answer = "ok"
    /\ Goto(p, "persist")
    /\ Set(p, [loc[p] EXCEPT
         !.entry = pending,
         !.rt = IF @ # 0 THEN @
                ELSE IF pending.rt # 0 \/ p \in Request THEN pending.rt
                ELSE loc[p].exch])
    /\ UNCHANGED <<row, memVars, acct, reauth, provVars, faultVars>>

\* persistAnchor: what the row is believed to hold.
PersistAnchor(p) ==
    IF loc[p].entry # NoEntry THEN loc[p].entry.anchor ELSE loc[p].exch

\* A request drops its failure record once the provider has answered.
ForgetFailure(p) == backoff' = (backoff /\ p \notin Request)

\* The minted tokens are installed and remembered, and the call is over.
ServeMinted(p) ==
    /\ recent' = loc[p].at
    /\ Resolve(p, With(acct[p], loc[p].rt, loc[p].at), loc[p].at)

\* The write hit: what was carried is durable now.
Persisted(p) ==
    /\ pending' = IF loc[p].entry # NoEntry
                  THEN ResolvedAfterPersist(loc[p].entry, loc[p].rt) ELSE pending
    /\ ServeMinted(p)

\* Mutant: a write that threw is only logged.
LoggedOnly(p, anchor) == UNCHANGED pending /\ ServeMinted(p)

\* The write threw: the rotation is held in the registry.
HeldPending(p, anchor) ==
    /\ pending' = Recorded(loc[p].at, loc[p].rt, anchor)
    /\ ServeMinted(p)

\* The write missed, and an entry still in the registry is a newer rotation:
\* it is served if valid; without one the row is authoritative.
Superseded(p) ==
    /\ UNCHANGED recent
    /\ LET a == With(acct[p], pending'.rt, pending'.at)
       IN \/ pending' # NoEntry /\ Resolve(p, a, pending'.at)
          \/ Goto(p, "adopt") /\ Install(p, a) /\ UNCHANGED <<loc, inFlight>>

\* The persist.  A miss drops the entry that was carried; when no other is
\* left, the entry's own flush may have moved the row.
PersistWrite(p) ==
    /\ pc[p] = "persist"
    /\ ForgetFailure(p)
    /\ \/ UpdateTokens(loc[p].at, loc[p].rt, PersistAnchor(p)) /\ Persisted(p)
       \/ DbFails /\ HeldPending(p, PersistAnchor(p))
       \/ /\ UpdateMisses(PersistAnchor(p))
          /\ loc[p].entry = NoEntry
          /\ pending' = pending
          /\ Superseded(p)
       \/ /\ UpdateMisses(PersistAnchor(p))
          /\ loc[p].entry # NoEntry
          /\ pending' = ClearedIfCurrent(loc[p].entry)
          /\ \/ pending' # NoEntry /\ Superseded(p)
             \/ /\ pending' = NoEntry
                /\ Goto(p, "retryread")
                /\ UNCHANGED <<acct, loc, inFlight, recent>>
    /\ UNCHANGED <<reauth, provVars, excused, crashes>>

\* retryPersistOnOwnFlushedRotation, the read: does the row hold what the
\* carried entry's flush wrote?
RetryRead(p) ==
    /\ pc[p] = "retryread"
    /\ LET g == Generation(loc[p].entry)
       IN \/ /\ DbReads
             /\ Goto(p, IF row.rt = g THEN "retrywrite" ELSE "adopt")
             /\ UNCHANGED <<pending, inFlight, recent, acct, loc>>
          \/ DbFails /\ HeldPending(p, g)
    /\ UNCHANGED <<backoff, reauth, provVars, excused, crashes>>

\* retryPersistOnOwnFlushedRotation, the write
RetryWrite(p) ==
    /\ pc[p] = "retrywrite"
    /\ LET g == Generation(loc[p].entry)
       IN \/ UpdateTokens(loc[p].at, loc[p].rt, g) /\ Persisted(p)
          \/ UpdateMisses(g) /\ pending' = pending /\ Superseded(p)
          \/ DbFails /\ HeldPending(p, g)
    /\ UNCHANGED <<backoff, reauth, provVars, excused, crashes>>

\* adoptAuthoritativeAccountTokens: the row's refresh token, and its access
\* token when that is valid; the minted access token is served otherwise.
Adopt(p) ==
    /\ pc[p] = "adopt"
    /\ UNCHANGED recent
    /\ \/ DbReads /\ Resolve(p, [rt |-> row.rt, at |-> row.at], row.at)
       \/ DbReads /\ Resolve(p, [rt |-> row.rt, at |-> loc[p].at], loc[p].at)
       \/ DbFails /\ Resolve(p, With(acct[p], 0, loc[p].at), loc[p].at)
    /\ UNCHANGED <<pending, backoff, reauth, provVars, excused, crashes>>

-----------------------------------------------------------------------------
(* A failed exchange *)

\* Mutant: the exchange is tried again at once, whatever the error.
ExchangeRetried(p) ==
    /\ pc[p] = "answered"
    /\ loc[p].answer = "error"
    /\ Goto(p, "exchange")
    /\ Set(p, [loc[p] EXCEPT !.answer = "none"])
    /\ UNCHANGED <<row, memVars, acct, reauth, provVars, faultVars>>

\* An error that says nothing about the token.
ExchangeError(p) ==
    /\ pc[p] = "answered"
    /\ loc[p].answer = "error"
    /\ backoff' = (backoff \/ p \in Request)
    /\ Reject(p, "idle", Idle)
    /\ UNCHANGED <<row, pending, recent, acct, reauth, provVars, faultVars>>

\* Mutant: any refusal is final.
AnyRefusal(p) == TRUE

\* Whether a refusal is about the live token: not when a rotation is pending
\* and the token exchanged was not the one it stands for.
RefusesLive(p) == pending # NoEntry => loc[p].exch = Generation(pending)

\* A stale token was replayed, the account is healthy.
StaleReplay(p) ==
    /\ pc[p] = "answered"
    /\ loc[p].answer = "invalid_grant"
    /\ ~RefusesLive(p)
    /\ ForgetFailure(p)
    /\ Reject(p, "idle", Idle)
    /\ UNCHANGED <<row, pending, recent, acct, reauth, provVars, faultVars>>

\* Any other invalid_grant: a pending rotation that was refused is dropped and
\* the account is to be paused, provided the row still holds the token the
\* refusal is about.  A proactive refresh has settled its promise by now.
\* (loc.rt carries that token.)
GrantRefused(p) ==
    LET k == IF pending # NoEntry THEN pending.anchor ELSE loc[p].exch
        l == [loc[p] EXCEPT !.rt = k]
    IN /\ pc[p] = "answered"
       /\ loc[p].answer = "invalid_grant"
       /\ RefusesLive(p)
       /\ pending' = NoEntry
       /\ backoff' = (backoff \/ p \in Request)
       /\ IF p \in Request
          THEN Goto(p, "pause") /\ Set(p, l) /\ UNCHANGED inFlight
          ELSE Reject(p, "pause", l)
       /\ UNCHANGED <<row, recent, acct, reauth, provVars, faultVars>>

\* pauseIfActive: guarded on the account being active and on the token.
PauseMatches(p) == ~row.paused /\ row.rt = loc[p].rt

PauseForReauth(p) ==
    /\ pc[p] = "pause"
    /\ \/ /\ PauseMatches(p)
          /\ row' = [row EXCEPT !.paused = TRUE]
          /\ recent' = IF p \in Request THEN 0 ELSE recent
          /\ UNCHANGED <<backoff, dbFailures>>
       \/ /\ (~PauseMatches(p) /\ DbReads) \/ DbFails
          /\ ForgetFailure(p)
          /\ UNCHANGED recent
    /\ Reject(p, "idle", Idle)
    /\ UNCHANGED <<pending, acct, reauth, provVars, excused, crashes>>

-----------------------------------------------------------------------------
(* Re-authentication, the passage of time, restarts *)

\* The user grants access anew and the code is exchanged; the profile is
\* fetched before anything is written.  The provider may or may not revoke the
\* old grant.
ReauthExchange ==
    /\ Reauthenticates
    /\ reauth = "none"
    /\ reauth' = "granted"
    /\ \/ UNCHANGED <<live, excused>>
       \/ live' = {} /\ excused' = TRUE
    /\ UNCHANGED <<row, memVars, pc, acct, loc, minted, head, stale, dbFailures,
                   crashes>>

\* The new tokens are written to the row unconditionally, stamped as issued
\* now: they are numbered here, and before nobody else has them.  A write that
\* throws ends the flow.
ReauthWrite ==
    LET n == minted + 1
    IN /\ reauth = "granted"
       /\ \/ /\ minted < MaxMint
             /\ minted' = n
             /\ live' = live \cup {n}
             /\ head' = n
             /\ stale' = 1..minted
             /\ excused' = FALSE
             /\ row' = [row EXCEPT !.rt = n, !.at = n]
             /\ reauth' = "written"
             /\ UNCHANGED dbFailures
          \/ /\ DbFails
             /\ reauth' = "none"
             /\ UNCHANGED <<provVars, excused>>
       /\ UNCHANGED <<memVars, pc, acct, loc, crashes>>

\* resumeAccountIfNeedsReauth (best effort)
ReauthResume ==
    /\ reauth = "written"
    /\ reauth' = "resumed"
    /\ \/ row' = [row EXCEPT !.paused = FALSE] /\ UNCHANGED dbFailures
       \/ DbFails
    /\ UNCHANGED <<memVars, pc, acct, loc, provVars, excused, crashes>>

\* clearAccountRefreshCache and clearPendingRotation, one after the other
ReauthClear ==
    /\ reauth = "resumed"
    /\ reauth' = "none"
    /\ pending' = NoEntry
    /\ inFlight' = Nobody
    /\ recent' = 0
    /\ backoff' = FALSE
    /\ UNCHANGED <<row, pc, acct, loc, provVars, faultVars>>

\* The coalesce window or the backoff window passes.
WindowPasses ==
    /\ \/ recent # 0 /\ recent' = 0 /\ UNCHANGED backoff
       \/ backoff /\ backoff' = FALSE /\ UNCHANGED recent
    /\ UNCHANGED <<row, pending, inFlight, pc, acct, loc, reauth, provVars,
                   faultVars>>

\* The process stops and starts again; only the row survives.
Restart ==
    /\ crashes < MaxCrashes
    /\ crashes' = crashes + 1
    /\ pending' = NoEntry
    /\ inFlight' = Nobody
    /\ recent' = 0
    /\ backoff' = FALSE
    /\ pc' = [p \in Proc |-> "idle"]
    /\ acct' = [p \in Proc |-> [rt |-> row.rt, at |-> row.at]]
    /\ loc' = [p \in Proc |-> Idle]
    /\ reauth' = "none"
    /\ excused' = (excused \/ row.rt # head)
    /\ UNCHANGED <<row, provVars, dbFailures>>

CallStart(p) ==
    Select(p) \/ StartJoin(p) \/ BackoffRecover(p) \/ StartReread(p)

CallStep(p) ==
    \/ StartProactive(p) \/ SkipProactive(p)
    \/ FlushOnly(p) \/ FlushAndAdopt(p) \/ Reread(p)
    \/ \E rotates, delivered \in BOOLEAN : ExchangeAccepted(p, rotates, delivered)
    \/ ExchangeRefused(p)
    \/ BeginPersist(p) \/ PersistWrite(p) \/ RetryRead(p) \/ RetryWrite(p)
    \/ Adopt(p)
    \/ ExchangeError(p) \/ StaleReplay(p) \/ GrantRefused(p) \/ PauseForReauth(p)

ReauthStep == ReauthWrite \/ ReauthResume \/ ReauthClear

Next ==
    \/ \E p \in Proc : CallStart(p) \/ StartFlush(p) \/ CallStep(p)
    \/ ReauthExchange \/ ReauthStep
    \/ Revoke \/ WindowPasses \/ Restart

\* A call in progress goes on: the provider answers or times out, the database
\* call returns or throws.  The retry timer keeps firing while an entry is
\* pending.  A re-authentication that has begun runs to its end.
Fairness ==
    /\ \A p \in Proc : WF_vars(CallStep(p))
    /\ \A p \in Sweeper \cup Proactive : WF_vars(StartFlush(p))
    /\ WF_vars(ReauthStep)

Spec == Init /\ [][Next]_vars /\ Fairness

-----------------------------------------------------------------------------
(* Properties *)

\* Who in the process can still make the token t durable: the registry entry
\* that stands for it, or a call that has it as the outcome of its exchange.
Carries(p, t) ==
    /\ loc[p].rt = t
    /\ \/ pc[p] = "answered" /\ loc[p].answer = "ok"
       \/ pc[p] \in {"persist", "retryread", "retrywrite"}

Held(t) ==
    \/ row.rt = t
    \/ pending # NoEntry /\ Generation(pending) = t
    \/ \E p \in Proc : Carries(p, t)

\* The usable refresh token of the account is never dropped: it is in the row,
\* in the registry, or in the hands of the call that obtained it.
LiveTokenNotLost == ~excused => Held(head)

\* The row never holds a token of a grant that a re-authentication replaced:
\* no late persist or flush overwrites the new credentials.
RowHoldsNewestGrant == row.rt \notin stale

\* No write moves the row back to an earlier generation.
RowNeverGoesBack == [][row'.rt >= row.rt]_vars

\* An account is paused for re-authentication only when its usable token is
\* really gone: the loser of a race, or a replayed stale token, pauses nobody.
OnlyDeadAccountsPaused == [][row'.paused /\ ~row.paused => excused]_vars

\* A refresh always comes back to its caller, whoever joined it included.
CallsReturn ==
    \A p \in Request \cup Proactive : pc[p] # "idle" ~> pc[p] = "idle"

\* A rotation whose persist failed does not stay undurable for ever.
PendingIsResolved == pending # NoEntry ~> pending = NoEntry
=============================================================================
