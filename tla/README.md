# TLA+ models of ClankerMux

ClankerMux is a gateway that puts several paid model accounts behind one API. It
runs in one Bun process: JavaScript is single-threaded, so concurrency is what
happens between two `await`s, in timers and in promises that several callers
share; besides that there are worker threads, SQLite, the providers' HTTP
endpoints, and restarts. This directory models the parts in which such
interleavings can lose something that matters: a credential, a payload, a paid
reset, or the protection of an overloaded upstream.

## 1. Inventory

| Part (source) | State | Operations | What is hard about it | What makes it correct |
|---|---|---|---|---|
| Overload breaker (`proxy/src/provider-overload-cooldown.ts`, attempts in `handlers/proxy-operations.ts`, `response-handler.ts`) | buckets per model family and per provider: deadline, generation, lease of the probe | trip, admit, take over, settle (recovered, reopened, abandoned), clear | a probe's verdict comes late; re-trips and take-overs displace running probes; a dozen exits must settle | one probe per bucket, no leaked lease, late verdicts change nothing, nobody is refused for ever |
| Token rotation (`handlers/token-manager.ts`, `handlers/pending-rotation-registry.ts`, `proactive-token-refresh.ts`, `account.repository.ts`, `oauth-flow`, `http-api/.../oauth.ts`) | account row; in-flight map, coalescing cache, backoff, registry of rotations not yet persisted | refresh, join, persist (compare-and-swap), flush, sweep, pause, re-authenticate | a refresh token can be used once; exchange and persist cannot be atomic; several callers, the scheduler and the user race | the live token is never dropped, the row never moves back, only dead accounts are paused |
| Payload writer (`database/src/payload-write-client.ts`, `payload-write-worker.ts`) | registry of unacknowledged entries, worker generations, rotation, respawn and retry timers, watchdog | publish, send, ack, retry, rotate, respawn, fence, dispose | worker death at every point, late acks, replay, retention, shutdown in the middle of it all | one writer per row, one outcome per payload, no payload stranded, expired rows not resurrected |
| Database writer and recorder (`database/src/async-writer.ts`, `proxy/src/request-recorder.ts`) | metadata queue, byte and job budget, shutdown flags | reserve, enqueue, run, publish, settle, dispose | a budget released on every one of many failure paths; the row and its payload go over two connections; two-phase shutdown | exact counters, caps, the row written before its payload, a drain that ends and loses nothing |
| Overload holds (`recovery-holds.ts`, `overload-hold.ts`, `keyed-semaphore.ts`) | slots per bucket key, the budget and the rounds of each held request | take slots all or nothing, sleep, poll, attempt in rounds, release | the bucket a request is counted under changes while it waits; an attempt may hang; three kinds of abort | slots match holders, every hold ends, an admissible candidate is tried |
| Failover (`proxy.ts`, `handlers/proxy-operations.ts`, `rate-limit-cooldown.ts`, `burst-cooldown.ts`) | per-account cooldowns | try the candidates in order | cooldowns written by concurrent attempts | a healthy account is tried |
| Banked resets (`anthropic-banked-reset-coordinator.ts`, `-applier.ts`, `-event.repository.ts`) | durable ledger of claims, status cache, claim and read in flight per account, the tick, the pause a reset is owed to | claim, open the row, POST and retry, record, give up, lift the owed pause, sweep, rank | a claim spends something that cannot be given back; answers get lost, rows expire under a claim, users and policies pause the account meanwhile | no second spend on top of an unknown one, a truthful ledger, only the owed pause lifted |
| Codex reset credits (`codex-spend-coordinator.ts`, `codex-reset-credit-applier.ts`, `codex-observation-fence.ts`, `codex-reset-credit-event.repository.ts`) | ledger of attempts, usage cache, application sequence and epoch, the tick, the call in flight | replay, discover, confirm, claim, dispatch, withdraw; observe usage on three channels | a crash or a lost answer between claim and resolution; readings issued before a redemption arrive after it | no forgotten redemption, no stale reading, unknown outcomes are resolved |
| Spaced reads (`spaced-read-gate.ts`) | queue, turn, last read sent | acquire (urgent or not), send, release, stop | a turn that is not given back, sleeping while others queue up | reads a gap apart, nobody forgotten, everybody answered |
| Selection and affinity (`load-balancer/src/strategies/index.ts`) | affinity pins | choose | pins against failover and priority edits | stickiness, eligibility |
| SDK bridge (`claude-sdk-bridge`) | live and parked processes, sessions | start, park, resume, release | process caps, dead continuations | caps, no orphan |
| Sessions and login (`http-api/src/services`) | sessions, throttle | login, refresh, revoke | concurrent derivations | caps hold |
| Schedulers, server life cycle, SQL repositories, analytics, provider formats, dashboard, configuration | — | — | mostly sequential, numeric or textual | — |

Interactions: the proxy asks the breaker before each upstream attempt and
settles it from the response handler; a request it refuses is held and makes its
attempts through the same admission; a request with an expired or rejected
access token calls `refreshAccessTokenSafe`; every finished request goes through
the recorder to `AsyncDbWriter`, whose job saves the row and hands the payload to
the payload writer; the payload writer reports each settlement back
(`onSettled`); at shutdown the recorder, the database writer and the payload
writer are drained in this order. The banked-reset scheduler and the dashboard
claim through one coordinator, whose status reads pass the gate; the Codex
applier and the operator redeem through one registry, and three kinds of usage
observation share the cache that the applier decides on.

`PROJECT.json` lists all components, the source lines behind every definition,
the runs, and the hazards with the properties that cover them.

## 2. Modules

| Module | Models |
|---|---|
| `OverloadBreaker` | the breaker and the attempts that trip, probe and settle it |
| `OverloadHold` | the overload hold, composed with `OverloadBreaker` |
| `TokenRotation` | refresh, rotation, registry, pause and re-authentication of one OAuth account |
| `PayloadWriter` | the payload writer's client and its worker generations |
| `PayloadLedger` | what the payload writer promises its owner; implemented by `PayloadWriter`, used by `AsyncWriter` |
| `AsyncWriter` | metadata queue, payload budget and shutdown, with the recorder's job, composed with `PayloadLedger` |
| `BankedReset` | ledger, coordinator and scheduler of Anthropic's banked resets |
| `CodexCredits` | ledger, applier and fences of Codex reset credits |
| `SpacedReadGate` | the gate before the banked-reset status reads |
| `..._proofs` | machine-checked proofs about the module of that name, one for each of the above but `PayloadLedger` |
| `MC...` | model values and symmetry sets for TLC |

An operator whose comment begins with *Mutant* is a plausible mistake in the
definition after it. It is used by no specification; put in the place of that
definition it makes TLC report the property named in `PROJECT.json`, which shows
that the property depends on the code.

### OverloadBreaker

One provider with its family buckets and the provider-wide one. `buckets` is the
module-level Map: no key means closed, a deadline ahead means open, a passed
deadline half-open. Time is relative (a deadline is a number of ticks ahead, a
lease has an age up to the admission deadline), so `Tick` needs no clock. An
attempt is a `Request`: `pc`, its model, its probe identity, its token (the
leases it has still to settle) and whether its displacement abort has fired.

`Refuse`, `AdmitFree`, `AdmitProbe` are the three answers of
`tryAcquireProviderOverloadProbe` with what `proxyWithAccount` does with them;
`Trip`, `Recover`, `Finish` are the settlements `reopened`, `recovered`,
`abandoned`; `OperatorClear` is the dashboard's clear. `cleared` is a history
variable: after a clear the code deliberately lets old probes run beside new
ones, and the properties say so.

### OverloadHold

`hold[r]` is the state of `holdForOverloadRecovery` for a request: at the head of
its loop (asleep or polling), in a round, or in a round that has met a verdict to
wait for; with the models of the gated accounts, the slot keys taken and what is
left of the budget. `EnterHold` takes the slots under the keys of that moment,
`EndHold` is the `finally` block. A round's attempts are the breaker's own
`AdmitFree`, `AdmitProbe`, `Trip` and `Finish`; `Served` ends the hold with a
response that goes on by itself. Budgets are counted in the breaker's ticks. The
other holds of the file, the memory of candidates that failed for ordinary
reasons and the recovery probe per account are left out.

### TokenRotation

One account. Tokens are numbered in the order the provider mints them. The row
has a refresh token, an access token and the pause; a step lasts from one await
that can suspend the caller to the next. The callers are requests, proactive
refreshers and the registry's retry timer. `acct[p]` is the `Account` object the
caller holds, which may be arbitrarily stale; `loc[p]` holds the locals of its
call, among them the registry entry captured before the persist. Provider,
database and process may fail: an exchange may be refused, fail, or succeed with
its answer lost; each database call may throw; `Restart` keeps the row only.
`head` is history: the usable refresh token of the newest grant; `excused` says
that it was lost by something the process cannot help (a restart with the token
in memory, a lost answer, a revocation). A provider that answers the reuse of a
consumed refresh token by revoking the whole family is covered by `Revoke`, which
may come at any time.

A re-authentication is a code exchange (`ReauthExchange`, which may end the old
grant), the row's write (`ReauthWrite`), the resume and the clear, each ending in
an await of its own. A refresh that finds nothing pending goes through
`flushPendingRotation` without a database call. The `await` of it is no step of its
own: it yields to continuations that are queued already, never to I/O or a timer.
A caller whose own continuation is queued in the same turn of the event loop could
begin a refresh in between; the models do not show this.

Left out: the guard for disabled accounts, eviction from the registry beyond
1000 accounts, account removal, identity columns, and how many backoff hits it
takes before the row is consulted.

### PayloadWriter and PayloadLedger

`entry` is the client's registry (state, generation last sent to, and, when
settled, the outcome), `gen` the generations, `rotation` and `disposal` the
suspended async functions `rotate()` and `doDispose()`, the rest flags and
timers. `inbox[g]` is what worker `g` has been given and not yet written,
`outbox[g]` the acks under way. Bytes are counted in payloads. A `trySend` that
uses up the rotation budget retires the generation in the same step, a
`postMessage` that throws tears it down: `HandOver` has these three outcomes. When
a replay is cut short by a throw, the entries it did not come to stay bound to the
dead generation instead of being detached from it: nothing is delivered from there,
and the next replay takes both kinds.
Every worker death, hang, missed deadline, failed spawn and failed write is
counted as a fault.

`PayloadLedger` has three variables: the outcome of each payload, whether
admission is open, and the stage of disposal. `PayloadWriter` implements it under
the mapping at its end (`ImplementsLedger`).

### AsyncWriter

`job`, `queue`, `running`, `ticking` are the metadata queue and its tick; `token`
and the counters the budget; `outcome`, `accepting`, `stage` the payload writer
as `PayloadLedger`. `Record`, `SaveRequest`, `PublishPayload` are
`RequestRecorder.persistOrdered` up to each await: reservation and enqueue, the
row, the encoded payload. A payload is handed to the writer or dropped with its
reservation released: because the job has none, because no writer can be created,
or because the writer refuses it or throws. `Dispose`, `DrainDone`, `WriterClosed`
are the phases of `dispose`. Rows are those that were ever saved: retention may
delete a row later, and the payload worker then drops the orphan; `PublishedHasRow`
is about the order of the two writes.

### BankedReset

A claim's request id is an `Attempt`; `row` is its ledger row, `claim[a]` the
promise in `claimInflight` with the locals of `runClaim`, `read[a]` the status
read in `statusInflight`, `applier` the tick. The server's side is `spentBy`: a
grant is spent once, a request id that spent it is told `already_used`, and an id is
decided once. `stray` are POSTs that the client's timeout gave up on: such a POST
may arrive later (`LandLate`), as long as its row is within the replay window of ten
minutes, which is also how long the server is relied on to remember an id. A step
lasts from one await to the next: opening the row, the last look before the POST,
the POST, its answer, the ledger write, the owed pause, the read afterwards.
`pause` carries the account's `pause_epoch`, by which the code tells the pause a
reset is owed to from a later one. The scheduler may claim whenever ledger and
account allow it: lead time, gain, cooldown and re-arming are left open, so the
properties do not depend on their values. `AutoAttempts` has the reuse of a pending
row by `claimAutoAttempt` as the code has it; it is not reached, because
`processAccount` holds new claims off while one is pending and no other caller makes
automatic rows. Two steps are coarser than the code. `OpenLedgerRow` sweeps, writes
the row and reads the pause at once: the insert and its check for other pending
claims are one SQL statement, a failure after each of the three is an alternative of
the step, but a pause that changes between the row and the reading of it counts as
changed before. `SettleOwedRow` looks at the row as it is, the applier at the row of
its listing; the two differ when the claim's own settlement comes in between, and
then the code goes on with an epoch at which `resumeIfOveragePausedAt` finds the same
pause or none.

### CodexCredits

One account. A key names a credit and an attempt; `ledger` has the automatic rows
in order, `sent` every key that went out, `late` requests nobody waits for that
may still land. `obs` are observations under way on the three channels: the
status read and the ping carry an application sequence, traffic an epoch;
`FenceOff` is what `consumeResetCredit` does the moment the outcome is known.
A reading carries, to judge it by, the credits spent when upstream made it. The
weekly decision's view of other accounts is an arbitrary answer. A redemption that
the registry refuses, because another key is in flight or no server is registered,
is withdrawn unless it is a replay; one that fails is sent again by the next
registered server. After a restart the usage cache is empty: the snapshot persisted
with the account is read for the dashboard only, never by the weekly trigger
(`getWeeklyWindow` reads `usageCache`).

`evaluate` is one step, although it reads the account, the usage and the ledger in
turn: what its reading may miss is what happens between the decision and the claim,
which are two steps. Credits do not expire upstream: an expired credit would be
answered like one that another key has spent (`noCredit`), which the operator's
redemptions bring about.

### SpacedReadGate

`waiters`, `turnOf`, `slept`, `last` are the gate; each account is a reader with at
most one read under way, as in `refreshStatus`. The jitter is left open.

## 3. What is checked

All runs use the full specification of the module. Deadlock is checked for the
gate and the banked resets; elsewhere it is not, because a gateway without
requests, a settled registry, a closed writer and credits that are used up are
legitimate ends.

| Run | Shows | Bounds |
|---|---|---|
| `hold` | a running probe owns its leases; probes are single-flight; no exit leaks a lease or a slot; an open bucket is not closed by an earlier verdict; a refused request becomes admissible and a hold ends although nothing ever answers | 2 requests, 1 family and the provider, 2 trips, 3 probes, budget 2, 1 slot per bucket, hints beyond the cap |
| `rotation` | the live token is in the row, the registry or the hands of its call; the row never moves back; only dead accounts are paused; every refresh returns; a held rotation is resolved | 1 request, the scheduler, the timer, 3 mints, 2 database failures, a restart |
| `rotation_reauth` | the row never returns to credentials of an older grant | 2 requests, re-authentications whose exchange and write are separate steps, 4 mints, no database failure |
| `payload` | one writer per row and no late ack that settles a replayed one; nothing is stranded; an expired payload is not replayed; `PayloadLedger` is implemented | 2 payloads, 3 generations, budget 1, 2 faults of every kind, expiry and disposal |
| `payload_live` | payloads settle; suspensions, rotations and disposals end | 2 payloads, budget 2, 1 fault, no death while closing |
| `async` | exact budget within its caps, row before payload, nothing lost by the drain; accepted jobs run, and the drain of a disposal ends although the payload writer may never answer | 3 requests, queue of 1, 2 payloads, 5 bytes, sizes 1, 3 and an oversized 4 |
| `banked` | no reset is spent on top of one that may have been spent; what was given up is not sent; the ledger is truthful; only the owed pause is lifted; the status after a claim is newer than it, with POSTs that arrive after their timeout | 1 account, 2 grants, 2 request ids, 2 faults or user actions, a replay window of 1 tick |
| `codex` | no stale reading, no forgotten redemption, no weekly claim on a reading an automatic redemption has overtaken; unknown outcomes are resolved | 2 credits (one lapsing), 2 attempts each, 1 observation, 2 faults or operator actions, 3 of both together |
| `gate` | gate and readers agree, reads are a gap apart, everybody is answered | 3 accounts, 3 forced reads |

Why the bounds are enough: the breaker's hazards need a probe, somebody who
displaces it and a re-trip; a slot goes astray when one bucket appears or goes
between entry and exit (the theorems below have no such bound). A lost rotation
needs an exchange whose persist fails and a second one on top of it. The payload
writer's hazards need one payload that is replayed beside one that is not, a
generation that goes, one that comes and one still referred to by late acks, and
a fault during the handling of another. The budget's hazards need one payload
that has published, one that has reserved and one that is refused. A second
spend needs a claim whose answer is lost and another claim of the same account;
a wrongly lifted pause needs a claim, a resume and a new pause; a stale reading
needs one observation, one redemption and the order between them. Requests,
payloads, grants and request ids are interchangeable, and symmetry is used where
only safety is checked.

Two properties had to be restricted to what the code achieves, and say so:
`ExpiredIsNotReplayed` is about entries handed over before disposal (see below),
and `WeeklyClaimIsJustified` about automatic redemptions.

### Fairness

* `OverloadBreaker`: only time passes. No attempt is assumed to end, which is the
  hard case for `EventuallyAdmissible`.
* `OverloadHold`: time passes, and the loop and the timers of a hold go on. No
  upstream answers, no client leaves, no probe is settled by anybody.
* `TokenRotation`: a call that has begun goes on (HTTP and database calls end in
  an answer, an error or a timeout), the retry timer keeps firing while an entry
  is pending, and a re-authentication runs to its end. No request has to come.
* `PayloadWriter`: timers fire; a worker that does not hang answers; a message is
  delivered or, after termination, lost; the watchdog's fence comes. Workers that
  hang never answer.
* `AsyncWriter`: database calls return, the interval and the drain kick the queue.
  The payload writer gets none: it may hold back every outcome, and it may never
  close (see `payload_wedged`), so `DrainEnds` speaks of the drain and its deadline
  and not of the return of `dispose`.
* `CodexCredits`: the interval timer keeps ticking and a request in hand is carried
  through; faults are finitely many. `PendingIsResolved` asks for both triggers to
  stay enabled.
* `SpacedReadGate`: the gap passes, its timer fires, a read with its turn ends (an
  answer or a timeout, then the `finally`). Forced reads are finitely many: urgent
  waiters overtake ordinary ones, without a bound in the code.
* `BankedReset`: none; only safety is checked.

### Where the code disagrees with what it says

Three runs are expected to fail; `PROJECT.json` quotes the lines.

* `hold_convoy`: `attemptCandidates` passes over a candidate while its bucket has
  an active lease, which lasts up to the safety limit of an hour, although the
  breaker would let the request take the bucket over once the probe's admission
  deadline has passed. Requests that come in anew take over; requests that are
  held wait out their budget behind a hung probe.
* `rotation_stale_anchor`: a persist captures the anchor of a pending entry, the
  sweeper flushes that entry while the persist waits for the database, the
  persist throws, and the new rotation is recorded under an anchor the row no
  longer has. Its next flush misses and drops the live token. It takes three
  database failures, one more than `rotation` allows, and the proofs show that no
  interleaving does with fewer. With four failures there is a second way: the
  flush of an older captured entry re-anchors the entry that the persist carries,
  and the persist, which misses, takes the re-anchored entry for a newer rotation
  and drops the live token.
* `payload_wedged`: a worker that dies while it is closing leaves
  `closeGeneration` unsettled, because `killGeneration` clears the close timer and
  does not call `onClosed`. The disposal that waits for it never ends, and with it
  hangs `AsyncDbWriter.dispose`, which awaits it without a deadline although its
  comment (`async-writer.ts`, lines 27-31) bounds the shutdown. A rotation can be
  wedged by the same death. `payload_live` assumes that this does not happen.

Other weaknesses the models show, each outside what the runs assume:

* Given a database failure, `rotation_reauth` fails: a delayed refresh of the old
  grant takes its anchor from a pending rotation of the new grant, and its
  compare-and-swap overwrites the new credentials (`token-manager.ts`, line 836).
  The clear at the end of a re-authentication also drops a rotation of the *new*
  grant recorded since the row was written, and forgets the refresh of the new
  grant that is in flight, so that a second exchange of the same token starts, is
  refused, and pauses the account.
* The last hand-over of a disposal (`sendDuringDispose`) does not drop expired
  entries.
* `findPendingForAccount` of the Codex ledger returns the oldest pending row. While
  that is a weekly attempt whose trigger is off, a younger expiry attempt with a
  lost answer is not replayed, and weekly redemption stays barred. The operator's
  redemption has no pending row: if its answer is lost, the weekly trigger may act
  on a reading from before it.
* A banked reset whose answer was lost is confirmed by the replay's
  `already_used`, which records no owed pause: the overage pause then stays until
  somebody else lifts it. The first `settleStatusRead` of a claim does not keep out
  a read that starts between it and the POST; the second one, after the answer,
  does what the status needs.

## 4. What is proved

Every invariant and action property of the passing runs is also a theorem, in
the module `..._proofs` of its component; so is the refinement of
`PayloadLedger`. A theorem holds for every value of the constants that the named
`ASSUME`s of the modules allow: keys, nulls and roles are distinct, caps, windows,
cooldowns and budgets are positive, bounds are natural numbers, a grant has one
owner. No set of requests, payloads, accounts, grants or callers is assumed
finite, and the bounds on faults, mints and generations may be anything. Most
theorems about `TokenRotation` have hypotheses of their own, given
below with what happens without them.

An invariant is proved by an inductive one, `IInv` in most modules, with a lemma
for the initial states and one for the steps, which has a case per action; an
action property is then shown of a step from a state in
`IInv`. Each inductive invariant was checked by TLC on a small instance before it
was proved.

**`OverloadBreaker_proofs`** — `TypeCorrect` (deadlines stay within the cap),
`ProbesOwnTheirLeases`, `LeasesAreNotLeaked`, `ProbesAreSingleFlight`,
`OpenBucketsStayOpen`. Single flight is not inductive: a step that takes a lease
over aborts the attempt whose probe identity the bucket names, so one must know
that the identity names the right attempt. `IInv` adds that identities are minted
once and held by one attempt (`ProbeIdsUnique`), that an attempt outside a flight
has none (`IdleIsClean`), that each stored lease belongs to an unsettled attempt
(`NoLeakedLease`) and that an unaborted probe owns what its token names
(`ProbeOwnsItsLeases`); single flight follows because a bucket stores one probe.

**`OverloadHold_proofs`** — `HoldsImplementBreaker`: a step of the composition is an
operation of the breaker or leaves it alone. `HeldProbesAreSingleFlight`,
`HoldsLeakNoLease` and `HoldsKeepOpenBucketsOpen` carry the breaker's theorems
over by it. `SlotsAreExact` needs its own invariant: the holders of a key are a
finite set whose cardinality is the key's counter, which a step changes by one
member under the keys the hold remembers, whatever the buckets are by then.

**`TokenRotation_proofs`** — seven theorems over five invariants, because what the
code achieves depends on what may happen:

| Theorem | Hypotheses | Invariant |
|---|---|---|
| `RowIsNeverBlanked` (`TypeOK`) | none | `Typed` |
| `RowOnlyGoesForward` (`RowNeverGoesBack`) | no re-authentication | `Ordered` |
| `NewestGrantStays` (`RowHoldsNewestGrant`) | no database failure | `Unheld` |
| `OnlyOvertakenPersistLosesToken` (`LiveTokenNotLost`), `OnlyOvertakenPersistPauses` (`OnlyDeadAccountsPaused`) | no re-authentication, `NoOvertakenPersist` | `Safe` with `Ordered` |
| `LiveTokenSurvivesTwoFailures` (`LiveTokenNotLost`), `TwoFailuresPauseNobody` (`OnlyDeadAccountsPaused`) | no re-authentication, at most two database failures | `Counted` with `Safe` |

The hypotheses are those of the code's behaviour, not of the proof: with a
re-authentication and a database failure the row does go back (section 3), and
with three database failures the live token is lost (`rotation_stale_anchor`).
`Ordered` is the compare-and-swap discipline: what a call or an entry is about to
write is a later generation than the anchor it compares with, and no later than
the newest minted one. `Unheld` says that without database failures the registry
stays empty and what was exchanged for a token of a replaced grant is itself of a
replaced grant.

A persist is overtaken when the row has moved off the anchor of the entry it
carries and it ends without the retry on what the flush wrote
(`OvertakenPersist`); this is how the token gets lost, and `Safe` holds for any
number of failures as long as it does not happen. `Safe` says that a pending
entry's anchor is the row's token, that no flush under way writes anything newer
than what registry and row know, that the one call with the outcome of an exchange
in hand has the live token, minted from the newest one known (without such a call
the newest one known is live), and that a refusal or a pause under way is about a
token the row has left behind.

`Counted` bounds the failures that a state has cost: every entry stands for one;
two different entries for two; a call can exchange the token of an entry that is
still in the registry only after a flush of it failed or met another entry, which
makes two as well; and two entries that both move the same token of the row have
cost three. An overtaken persist has therefore cost two, and needs a third to lose
the token.

A caller has many steps and each of them does one of a few things to the shared
state: `CallerSteps` brings each into a form of `Outcome` (it mints, settles,
records an entry, flushes, and so on) and the invariants are proved over these
forms.

**`PayloadWriter_proofs`** — `TypesAreRight`, `NoRowHasTwoWriters`,
`NoEntryIsStranded`, `NoExpiredReplay`, and `WriterImplementsLedger`: initial states
of `PayloadWriter` map to initial states of `PayloadLedger`, and every step maps to
a step of it or to a stutter. `IInv` ties the registry to the generations
(`Sound`: what a worker has to write, or has written and not been heard of, is in
the registry as sent to it; at most the outgoing and the incoming generation are
alive; a dead one has nothing to write), the retry timers to
waiting entries (`Timers`), and says that a generation is there or coming
(`Attended`). One weakening is the code's: while disposal waits for its last close
an entry may have been handed over twice, so `Sound` speaks about hands only before
that, and `NoRowHasTwoWriters` follows because all but one worker are gone by
then. Handlers end in the same few operations (`HandOver`, `Flush`, `Replay`,
`EnsureAndSend`); what each leaves behind is a lemma, and a handler's case composes
them.

**`AsyncWriter_proofs`** — `BudgetExact`, `RowBeforePayload`, `DisposalIsComplete`.
`IInv` has the queue (each queued job once, at most one running), the budget (the
counters are the totals over the tokens held and the payloads in flight) and the
links: a reservation belongs to a job that has still to run, a payload is offered
once, and after disposal no reservation is left or made. A total is defined as
the number of elements of a set of bytes, one per byte of each payload, so that
adding or releasing a payload is adding or removing a finite set.

**`BankedReset_proofs`** — `LedgerTruth`, `SendsArePending`, `OneSpendAtATime`,
`LiftsOnlyWhatIsOwed`, `RefreshIsFresh`. The properties are about what was sent and
spent, the code decides on rows, so `IInv` ties a claim in flight to its row stage
by stage: request ids are used by one claim, an account has one pending row, a
claim that may still be sent has a live row, what is spent was sent and is either
pending or recorded, a POST still under way belongs to a request id the server has
not refused (`StraysAreOpen`), and the epochs of a pause, of the row and of the POST
are ordered. `ReadsAreFresh` says that the read joined after the answer left after it.

**`CodexCredits_proofs`** — `ReadingsAreFresh`, `LedgerRemembersSends`,
`WeeklyClaimsAreJustified`. `IInv`: the call, the tick and the ledger row are at
matching stages (`CallOK`, `TickOK`); every key that went out has its row
(`Remembered`); the cached reading and every observation that would still be
applied know of each reset that was handled (`Fenced`, which holds because handling
one moves sequence and epoch past everything issued); and outside the cooldown they
also know of what closed rows have spent, and no request of a closed row can spend
any more (`Overtaken`).

**`SpacedReadGate_proofs`** — `GateForgetsNobody`, `GateSpacesReads`. `IInv` adds that
no account is queued twice, that the one taken is not queued, that the queue of a
free gate is empty, and that a turn is given after the gap or to the account read
last.

Only model-checked:

* liveness, which is outside the proof system's reach (fairness and `ENABLED`):
  `EventuallyAdmissible`, `HoldsEnd`, `CallsReturn`, `PendingIsResolved` of
  `TokenRotation` and of `CodexCredits`, `EntriesSettle`, `StallsEnd`, `DisposalEnds`,
  `AcceptedJobsRun`, `DrainEnds`, `WaitersAreAnswered`. Every invariant and action
  property of the passing runs is stated by a theorem.

## 5. Plan

1. `TokenRotation`: what a re-authentication may lose when a database call fails, as
   a theorem that names the step (section 3), like `OnlyOvertakenPersistLosesToken`.
2. `OverloadHold`: the budget and stage of each hold as an invariant.
3. `PayloadLedger`: what it promises, as theorems that `PayloadWriter` inherits
   through `WriterImplementsLedger` and `AsyncWriter` through its composition.

## 6. Not modelled

* Failover over candidates, per-account cooldowns and session affinity: choices
  over account rows and clocks; their shared state is written by single
  statements. The overload admission in the loop is in `OverloadBreaker`.
* The recorder's life before `persistOrdered` (grace and patch timers, settlement of
  usage), the other holds of `recovery-holds.ts`, `transparent-retry.ts`.
* The SDK bridge: its behaviour is that of the SDK's process protocol, which is not
  in this repository.
* Sessions and login throttle, drain-idle: small and separate from the rest.
* Scheduling and cost accounting of Codex pings, ranking over several accounts.
* Provider formats and adapters (text), the dashboard, analytics and pricing
  (floating point over stored rows), SQL migrations and maintenance, configuration
  and logging (I/O). The schedulers appear as the proactive callers of
  `TokenRotation`.

## 7. Running

    tlc -workers 2 -config TokenRotation.cfg MCTokenRotation
    tlapm TokenRotation_proofs.tla
