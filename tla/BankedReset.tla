----------------------------- MODULE BankedReset -----------------------------
(****************************************************************************)
(* Anthropic's banked resets: the ledger of claims                          *)
(* (anthropic-banked-reset-event.repository.ts), the coordinator that reads *)
(* an account's status and sends claims                                     *)
(* (anthropic-banked-reset-coordinator.ts) and the scheduler that makes     *)
(* claims on its own (anthropic-banked-reset-applier.ts).  The gate that    *)
(* spaces the status reads is SpacedReadGate; here a read that waits for    *)
(* its turn gets it or is refused.                                          *)
(*                                                                          *)
(* A step lasts from one await to the next.  A claim's request id is an     *)
(* Attempt; the server deduplicates on it.  A grant belongs to one account  *)
(* and holds one reset.  The contents of a status are the grants it shows   *)
(* as spent; the thresholds of the scheduler's decision (lead, gain,        *)
(* cooldown, re-arming) are left open: it may claim at any of its ticks.    *)
(* Time is relative: a pending row has an age up to its replay window, and  *)
(* `wait` says that its next_attempt_at lies ahead.                         *)
(****************************************************************************)
EXTENDS Integers

CONSTANTS
    Account,
    Grant,
    OwnerOf,        \* the account of each grant
    Attempt,        \* bound: request ids
    None,           \* null
    Window,         \* ANTHROPIC_BANKED_RESET_REPLAY_WINDOW_MS, in ticks
    MaxEvents       \* bound: faults (ledger failures, lost answers, restarts)
                    \* and what users and policies do (status reads, claims,
                    \* pauses, resumes and edits of the account)

ASSUME GrantsAreOwned == OwnerOf \in [Grant -> Account]
ASSUME WindowIsPositive == Window \in Nat \ {0}
ASSUME BoundIsNat == MaxEvents \in Nat
ASSUME NullsDistinct == None \notin Attempt \cup Grant \cup Nat

NoStatus == {None}      \* an empty status cache, a read without an answer

VARIABLES
    row,            \* the ledger
    claim,          \* the claim in flight of each account (claimInflight)
    read,           \* the status read of each account (statusInflight)
    cache,          \* anthropicBankedResetCache: the grants seen as spent
    pause,          \* the account's pause and its pause_epoch
    on,             \* the auto-apply toggles of the account
    usable,         \* enabled, OAuth, not in need of re-authentication
    applier,        \* the scheduler's tick
    spentBy,        \* the server: the attempt that spent a grant
    stray,          \* attempts with a POST that was given up on and is under way
    sentUnder,      \* history: the pause_epoch when the attempt was last sent
    faults, ops

accountVars == <<pause, on, usable>>
serverVars == <<spentBy, stray, sentUnder>>
vars == <<row, claim, read, cache, accountVars, applier, serverVars, faults,
          ops>>

Cause == {"expiry", "weekly"}
Trigger == {"manual"} \cup Cause
Epoch == Nat
Restoring == {"reset", "already_used"}
Resolving == Restoring \cup {"refused"}   \* not_limited, cooldown, ineligible

\* `failed` rows are told apart by their reason: not_sent or unconfirmed.
Row == [status : {"none", "pending", "not_sent", "unconfirmed"} \cup Resolving,
        grant : Grant \cup {None}, trigger : Trigger, age : 0..Window,
        wait : BOOLEAN,
        owed : Epoch \cup {None}, late : BOOLEAN]
ClaimPc == {"idle", "start", "settling", "open", "look", "posted", "rejected",
            "reposted", "answered", "owed", "restore", "restoring", "refresh", "refreshing"}
Claim == [pc : ClaimPc, q : Attempt \cup {None}, grant : Grant \cup {None},
          trigger : Trigger, replay : BOOLEAN, created : BOOLEAN,
          epoch : Epoch \cup {None}, ans : Resolving \cup {"auth", "error"}]
Read == [pc : {"idle", "waiting", "served"},
         snap : (SUBSET Grant) \cup {NoStatus}]
Tick == [pc : {"idle", "owed", "lift", "scan", "rank", "reading",
               "confirming", "claiming", "dispatch"},
         rank : BOOLEAN, rows : SUBSET Attempt, todo : SUBSET Account,
         weekly : SUBSET Account, seen : SUBSET Account, held : BOOLEAN,
         a : Account \cup {None}, q : Attempt \cup {None},
         g : Grant \cup {None}, cause : Trigger]

TypeOK ==
    /\ row \in [Attempt -> Row]
    /\ claim \in [Account -> Claim]
    /\ read \in [Account -> Read]
    /\ cache \in [Account -> (SUBSET Grant) \cup {NoStatus}]
    /\ pause \in [Account -> [kind : {"none", "overage", "other"}, epoch : Epoch]]
    /\ on \in [Account -> SUBSET Cause]
    /\ usable \in [Account -> BOOLEAN]
    /\ applier \in Tick
    /\ spentBy \in [Grant -> Attempt \cup {None}]
    /\ stray \subseteq Attempt
    /\ sentUnder \in [Attempt -> Epoch \cup {None}]
    /\ faults \in 0..MaxEvents
    /\ ops \in 0..MaxEvents

NoRow == [status |-> "none", grant |-> None, trigger |-> "manual", age |-> 0,
          wait |-> FALSE, owed |-> None, late |-> FALSE]
NoClaim == [pc |-> "idle", q |-> None, grant |-> None, trigger |-> "manual",
            replay |-> FALSE, created |-> FALSE, epoch |-> None, ans |-> "error"]
NoRead == [pc |-> "idle", snap |-> NoStatus]
NoTick == [pc |-> "idle", rank |-> FALSE, rows |-> {}, todo |-> {},
           weekly |-> {}, seen |-> {}, held |-> FALSE, a |-> None, q |-> None,
           g |-> None, cause |-> "manual"]

Init ==
    /\ row = [q \in Attempt |-> NoRow]
    /\ claim = [a \in Account |-> NoClaim]
    /\ read = [a \in Account |-> NoRead]
    /\ cache = [a \in Account |-> NoStatus]
    /\ pause = [a \in Account |-> [kind |-> "overage", epoch |-> 0]]
    /\ on = [a \in Account |-> Cause]
    /\ usable = [a \in Account |-> TRUE]
    /\ applier = NoTick
    /\ spentBy = [g \in Grant |-> None]
    /\ stray = {}
    /\ sentUnder = [q \in Attempt |-> None]
    /\ faults = 0
    /\ ops = 0

Fault == faults + ops < MaxEvents /\ faults' = faults + 1
Operation == faults + ops < MaxEvents /\ ops' = ops + 1

-----------------------------------------------------------------------------
(* The ledger *)

Of(a) == {q \in Attempt : row[q].status # "none" /\ OwnerOf[row[q].grant] = a}
Pending(a) == {q \in Of(a) : row[q].status = "pending"}
AutoPending(a) == {q \in Pending(a) : row[q].trigger # "manual"}

\* The request ids nobody has used yet.
Unused == {q \in Attempt : row[q].status = "none" /\ \A a \in Account : claim[a].q # q}

NewRow(g, trigger) ==
    [NoRow EXCEPT !.status = "pending", !.grant = g, !.trigger = trigger]

\* expireStalePending: rows whose replay window has closed are given up.
Expired ==
    [q \in Attempt |->
        IF row[q].status = "pending" /\ row[q].age = Window
        THEN [row[q] EXCEPT !.status = "unconfirmed", !.wait = FALSE]
        ELSE row[q]]

\* resolveAttempt: a pending row, or one given up while its POST was out.
Resolvable(q) == row[q].status \in {"pending", "unconfirmed"}

\* The row with an answer recorded: what is owed to the pause goes into the
\* same write.
Resolved(q, status, owed) ==
    IF Resolvable(q)
    THEN [row EXCEPT ![q] = [NoRow EXCEPT !.status = status, !.grant = row[q].grant,
                                          !.owed = owed]]
    ELSE row

NotSent(q) == Resolved(q, "not_sent", None)

\* setNextAttemptAt.
BackedOff(q) ==
    IF row[q].status = "pending" THEN [row EXCEPT ![q].wait = TRUE] ELSE row

\* clearRecoveryPending.
OwesNothing(q) == [row EXCEPT ![q].owed = None, ![q].late = FALSE]

\* writeLedger: the row is written, or the failure is only logged.
WriteLedger(r) ==
    \/ row' = r /\ UNCHANGED faults
    \/ Fault /\ UNCHANGED row

-----------------------------------------------------------------------------
(* Who waits for whom: a claim and the tick wait for status reads, the tick  *)
(* for claims.                                                               *)

Continue(t) ==
    [t EXCEPT !.pc = IF t.rank THEN "rank" ELSE "scan", !.a = None, !.g = None,
              !.cause = "manual"]

\* dispatch has returned: a weekly claim of the ranking ends the tick.
AfterDispatch(t, trigger) ==
    IF t.rank /\ trigger = "weekly" THEN NoTick ELSE Continue(t)

TickAfterClaim(a, t) ==
    IF t.pc = "dispatch" /\ t.a = a THEN AfterDispatch(t, claim[a].trigger) ELSE t

TickAfterRead(a, ok, t) ==
    IF t.pc = "reading" /\ t.a = a
    THEN IF ok THEN [t EXCEPT !.pc = "confirming", !.seen = @ \cup {a}]
         ELSE Continue(t)
    ELSE t

ClaimAfterRead(c) ==
    CASE c.pc = "settling"  -> [c EXCEPT !.pc = "open"]
      [] c.pc = "restoring" -> [c EXCEPT !.pc = "refresh"]
      [] c.pc = "refreshing" -> NoClaim
      [] OTHER -> c

\* The claim of a returns.
EndClaim(a) ==
    /\ claim' = [claim EXCEPT ![a] = NoClaim]
    /\ applier' = TickAfterClaim(a, applier)

\* The read of a returns: with a status, or without one.
EndRead(a, ok) ==
    /\ read' = [read EXCEPT ![a] = NoRead]
    /\ claim' = [claim EXCEPT ![a] = ClaimAfterRead(@)]
    /\ LET t == TickAfterRead(a, ok, applier)
       IN applier' = IF claim[a].pc = "refreshing" THEN TickAfterClaim(a, t) ELSE t

-----------------------------------------------------------------------------
(* Status reads: refreshStatus, runStatusRead, sendStatusRead *)

StartRead(a) ==
    /\ read[a].pc = "idle"
    /\ usable[a]
    /\ read' = [read EXCEPT ![a].pc = "waiting"]

\* A read asked for by the dashboard, or by the tick's discovery.
Refresh(a) ==
    /\ Operation
    /\ StartRead(a)
    /\ UNCHANGED <<row, claim, cache, accountVars, applier, serverVars, faults>>

\* The turn comes, the account is looked at again and the server answers with
\* the grants as they stand.
ServeRead(a) ==
    /\ read[a].pc = "waiting"
    /\ usable[a]
    /\ read' = [read EXCEPT ![a] =
          [pc |-> "served",
           snap |-> {g \in Grant : OwnerOf[g] = a /\ spentBy[g] # None}]]
    /\ UNCHANGED <<row, claim, cache, accountVars, applier, serverVars, faults,
                   ops>>

\* No turn (the gate was stopped), the account unusable or rate-limited, no
\* token, or an answer without a status.
FailRead(a) ==
    /\ read[a].pc = "waiting"
    /\ EndRead(a, FALSE)
    /\ UNCHANGED <<row, cache, accountVars, serverVars, faults, ops>>

\* The answer arrives and is cached.
FinishRead(a) ==
    /\ read[a].pc = "served"
    /\ cache' = [cache EXCEPT ![a] = read[a].snap]
    /\ EndRead(a, TRUE)
    /\ UNCHANGED <<row, accountVars, serverVars, faults, ops>>

ReadStep(a) == ServeRead(a) \/ FailRead(a) \/ FinishRead(a)

-----------------------------------------------------------------------------
(* Claims: claim, runClaim *)

\* What the steps of a claim leave alone, but for those that say otherwise.
claimFrame == <<cache, accountVars, serverVars, ops>>

Claimable(a, trigger) == usable[a] /\ (trigger = "manual" \/ trigger \in on[a])

Started(q, g, trigger, replay) ==
    [NoClaim EXCEPT !.pc = "start", !.q = q, !.grant = g, !.trigger = trigger,
                    !.replay = replay]

At(a, pc) == claim' = [claim EXCEPT ![a].pc = pc]

\* A user's claim.  A request id in flight is joined and another one refused
\* as busy, neither of which changes anything.  So does a claim of an account
\* that is unusable or has no token or organization.
ManualClaim(a, q, g) ==
    /\ Operation
    /\ claim[a].pc = "idle"
    /\ OwnerOf[g] = a
    /\ q \in Unused \cup Of(a)
    /\ claim' = [claim EXCEPT ![a] = Started(q, g, "manual", FALSE)]
    /\ UNCHANGED <<row, read, applier, faults, cache, accountVars, serverVars>>

\* Mutant: the read in flight is not waited for.
JoinReadInFlight(a, waiting, next) == At(a, next)

\* settleStatusRead: a status read in flight is waited for.
SettleStatusRead(a, waiting, next) ==
    At(a, IF read[a].pc = "idle" THEN next ELSE waiting)

\* The account, its access token and its organization are read; then a status
\* read in flight is waited for.
PrepareClaim(a) ==
    /\ claim[a].pc = "start"
    /\ \/ /\ Claimable(a, claim[a].trigger)
          /\ SettleStatusRead(a, "settling", "open")
          /\ UNCHANGED applier
       \/ EndClaim(a)
    /\ UNCHANGED <<row, read, faults, claimFrame>>

\* Mutant: a manual claim does not look for other pending claims.
BlockedByNone(a, q) == {}

\* The pending claims that keep a new manual one out.
BlockedBy(a, q) == {p \in Attempt \ {q} : /\ Expired[p].status = "pending"
                                          /\ OwnerOf[row[p].grant] = a}

\* beginManualAttempt: the ledger with the row of a new manual claim, unless
\* another claim of the account is pending.
BeginManual(a, c) ==
    IF c.trigger = "manual" /\ row[c.q].status = "none" /\ BlockedBy(a, c.q) = {}
    THEN {[Expired EXCEPT ![c.q] = NewRow(c.grant, "manual")]}
    ELSE {}

\* overagePauseAtClaim: the pause a reset will owe a verdict.
OveragePause(a) == IF pause[a].kind = "overage" THEN pause[a].epoch ELSE None

\* openLedgerRow: rows past their window are given up; then a manual claim
\* writes its row, or a pending row that is due is sent for.
OpenLedgerRow(a) ==
    LET c == claim[a]
        own == Expired[c.q]
        due == own.status = "pending" /\ ~own.wait /\ own.grant = c.grant
    IN /\ c.pc = "open"
       /\ \/ /\ row' \in BeginManual(a, c)
             /\ claim' = [claim EXCEPT ![a].pc = "look", ![a].created = TRUE,
                                       ![a].epoch = OveragePause(a)]
             /\ UNCHANGED <<applier, faults>>
          \/ /\ due
             /\ row' = Expired
             /\ claim' = [claim EXCEPT ![a].pc = "look", ![a].epoch = OveragePause(a),
                                       ![a].replay = @ \/ c.trigger = "manual"]
             /\ UNCHANGED <<applier, faults>>
          \* another claim is pending; or the row answers, or is not due, or is
          \* bound to another grant
          \/ /\ ~due /\ BeginManual(a, c) = {}
             /\ row' = Expired
             /\ EndClaim(a)
             /\ UNCHANGED faults
          \* the ledger fails, before or after a write, or the pause cannot be
          \* read: nothing is sent
          \/ /\ Fault
             /\ row' \in {row, Expired} \cup BeginManual(a, c)
             /\ EndClaim(a)
          \/ /\ Fault
             /\ IF BeginManual(a, c) # {}
                THEN row' \in {[r EXCEPT ![c.q].status = "not_sent"] :
                                 r \in BeginManual(a, c)}
                ELSE due /\ row' = [Expired EXCEPT ![c.q].wait = TRUE]
             /\ EndClaim(a)
       /\ UNCHANGED <<read, claimFrame>>

\* Mutant: the replay window is not looked at again before a POST.
WindowNeverCloses(q) == FALSE

WindowClosed(q) == row[q].age = Window

\* Mutant: a row that may have been sent is given up as not sent.
GiveUpAsNotSent(q, created) == NotSent(q)

\* giveUpAtWindow.
GiveUp(q, created) == IF created THEN NotSent(q) ELSE Expired

\* The POST leaves.  From here on the row is one that may have been sent.
Post(a, pc) ==
    /\ claim' = [claim EXCEPT ![a].pc = pc, ![a].created = FALSE]
    /\ sentUnder' = [sentUnder EXCEPT ![claim[a].q] = pause[a].epoch]

\* The last look at the account and the window, with no await before the POST.
LastLook(a) ==
    LET c == claim[a] IN
    /\ c.pc = "look"
    /\ \/ /\ ~Claimable(a, c.trigger)
          /\ IF c.created THEN WriteLedger(NotSent(c.q)) ELSE UNCHANGED <<row, faults>>
          /\ EndClaim(a)
          /\ UNCHANGED sentUnder
       \/ /\ Claimable(a, c.trigger)
          /\ WindowClosed(c.q)
          /\ WriteLedger(GiveUp(c.q, c.created))
          /\ EndClaim(a)
          /\ UNCHANGED sentUnder
       \/ /\ Claimable(a, c.trigger)
          /\ ~WindowClosed(c.q)
          /\ Post(a, "posted")
          /\ UNCHANGED <<row, faults, applier>>
    /\ UNCHANGED <<read, cache, accountVars, spentBy, stray, ops>>

\* The answer to the POST reaches the claim: an auth error is retried once.
Answer(a, ans) ==
    claim' = [claim EXCEPT ![a].ans = ans,
                           ![a].pc = IF ans = "auth" /\ claim[a].pc = "posted"
                                     THEN "rejected" ELSE "answered"]

\* The server's side of the POST: a reset is spent once, a request id that
\* spent it is told so, a refusal spends nothing, and an answer may be lost.
\* An id that was decided on is decided: a copy still under way changes
\* nothing.  The claim's timeout gives up on a POST that may yet arrive.
Land(a) ==
    LET c == claim[a]
        free == spentBy[c.grant] = None
        spend == spentBy' = [spentBy EXCEPT ![c.grant] = c.q]
        decided == stray' = stray \ {c.q}
    IN /\ c.pc \in {"posted", "reposted"}
       /\ \/ free /\ spend /\ decided /\ Answer(a, "reset") /\ UNCHANGED faults
          \/ free /\ spend /\ decided /\ Answer(a, "error") /\ Fault
          \/ ~free /\ decided /\ Answer(a, "already_used") /\ UNCHANGED <<spentBy, faults>>
          \/ free /\ decided /\ Answer(a, "refused") /\ UNCHANGED <<spentBy, faults>>
          \/ \E ans \in {"auth", "error"} :
                Answer(a, ans) /\ UNCHANGED <<spentBy, stray, faults>>
          \/ /\ stray' = stray \cup {c.q}
             /\ Answer(a, "error")
             /\ Fault
             /\ UNCHANGED spentBy
       /\ UNCHANGED <<row, read, cache, accountVars, applier, sentUnder, ops>>

\* A POST that timed out arrives after all, within its replay window.
LandLate(q) ==
    /\ q \in stray
    /\ row[q].status = "pending"
    /\ spentBy[row[q].grant] = None
    /\ spentBy' = [spentBy EXCEPT ![row[q].grant] = q]
    /\ stray' = stray \ {q}
    /\ UNCHANGED <<row, claim, read, cache, accountVars, applier, sentUnder, faults, ops>>

\* An auth error: after a forced token refresh the account and the window are
\* looked at again, and the claim is sent once more.
RetryClaim(a) ==
    LET c == claim[a] IN
    /\ c.pc = "rejected"
    /\ \/ At(a, "answered") /\ UNCHANGED sentUnder
       \/ /\ Claimable(a, c.trigger)
          /\ ~WindowClosed(c.q)
          /\ Post(a, "reposted")
    /\ UNCHANGED <<row, read, cache, accountVars, applier, spentBy, stray, faults, ops>>

\* An answer of already_used to a replay means that an earlier POST landed.
WindowsRestored(c) == c.ans = "reset" \/ (c.ans = "already_used" /\ c.replay)

\* The epoch of the pause owed a verdict, by a reset of a weekly window.
Owed(c) == IF c.ans = "reset" THEN {c.epoch, None} ELSE {None}

\* The answer is recorded; without one the replay is put off, or given up when
\* its window has closed.
RecordAnswer(a) ==
    LET c == claim[a] IN
    /\ c.pc = "answered"
    /\ \/ /\ c.ans \in Resolving
          /\ \E owed \in Owed(c) :
                /\ WriteLedger(Resolved(c.q, c.ans, owed))
                /\ IF WindowsRestored(c)
                   THEN /\ claim' = [claim EXCEPT
                              ![a].pc = IF owed = None THEN "restore" ELSE "owed",
                              ![a].ans = "error", ![a].epoch = owed]
                        /\ UNCHANGED applier
                   ELSE EndClaim(a)
       \/ /\ c.ans = "auth" /\ WindowClosed(c.q)
          /\ WriteLedger(GiveUp(c.q, FALSE))
          /\ EndClaim(a)
       \/ /\ c.ans \in {"auth", "error"}
          /\ c.ans = "error" \/ ~WindowClosed(c.q)
          /\ WriteLedger(BackedOff(c.q))
          /\ EndClaim(a)
    /\ UNCHANGED <<read, claimFrame>>

\* Mutant: whatever overage pause stands is lifted.
ResumeAnyOverage(a, epoch) ==
    IF pause[a].kind = "overage"
    THEN [pause EXCEPT ![a] = [kind |-> "none", epoch |-> @.epoch + 1]]
    ELSE pause

\* resumeIfOveragePausedAt: the pause of that epoch only.
ResumeAt(a, epoch) ==
    IF pause[a].kind = "overage" /\ pause[a].epoch = epoch
    THEN [pause EXCEPT ![a] = [kind |-> "none", epoch |-> @.epoch + 1]]
    ELSE pause

\* settleOwedPause, from the usage reading after the claim: headroom lifts the
\* pause, a limit keeps it, no reading leaves the obligation to the scheduler.
SettleOwedPause(a) ==
    /\ claim[a].pc = "owed"
    /\ \/ UNCHANGED <<row, pause, faults>>
       \/ /\ pause' \in {pause, ResumeAt(a, claim[a].epoch)}
          /\ WriteLedger(OwesNothing(claim[a].q))
    /\ claim' = [claim EXCEPT ![a].pc = "restore", ![a].epoch = None]
    /\ UNCHANGED <<read, cache, on, usable, applier, serverVars, ops>>

\* A read that left before the claim is waited for.
SettleAgain(a) ==
    /\ claim[a].pc = "restore"
    /\ SettleStatusRead(a, "restoring", "refresh")
    /\ UNCHANGED <<row, read, applier, faults, claimFrame>>

\* The forced read after a claim that restored windows: joins a read in
\* flight or starts one; an unusable account is not read.
RefreshAfterClaim(a) ==
    /\ claim[a].pc = "refresh"
    /\ \/ /\ read[a].pc # "idle"
          /\ At(a, "refreshing")
          /\ UNCHANGED <<read, applier>>
       \/ /\ StartRead(a)
          /\ At(a, "refreshing")
          /\ UNCHANGED applier
       \/ /\ read[a].pc = "idle" /\ ~usable[a]
          /\ EndClaim(a)
          /\ UNCHANGED read
    /\ UNCHANGED <<row, faults, claimFrame>>

ClaimStep(a) ==
    \/ PrepareClaim(a) \/ OpenLedgerRow(a) \/ LastLook(a)
    \/ Land(a) \/ RetryClaim(a) \/ RecordAnswer(a)
    \/ SettleOwedPause(a) \/ SettleAgain(a) \/ RefreshAfterClaim(a)

-----------------------------------------------------------------------------
(* The scheduler's tick *)

tickFrame == <<cache, accountVars, serverVars, ops>>

\* weeklyResetCanLiftPause.
PauseLiftable(a) == pause[a].kind # "other"

MayReplay(a, q) ==
    /\ Claimable(a, row[q].trigger)
    /\ row[q].trigger = "weekly" => PauseLiftable(a)

\* expireStaleAttempts at the start of a tick.
SweptRows == Expired

TickStart ==
    /\ applier.pc = "idle"
    /\ WriteLedger(SweptRows)
    /\ applier' = [NoTick EXCEPT !.pc = "owed",
                     !.rows = {q \in Attempt : row[q].owed # None}]
    /\ UNCHANGED <<claim, read, tickFrame>>

\* An obligation is void when its time is up or the pause it is owed to has
\* been lifted or replaced.
OwedIsVoid(a, q) ==
    \/ row[q].owed = None \/ row[q].late
    \/ pause[a].kind # "overage" \/ pause[a].epoch # row[q].owed

\* settleOwedOveragePause: otherwise it is decided by a usage reading that
\* postdates the claim, if there is one.
SettleOwedRow(q) ==
    LET a == OwnerOf[row[q].grant]
        rest == [applier EXCEPT !.rows = @ \ {q}]
    IN /\ applier.pc = "owed"
       /\ q \in applier.rows
       /\ \/ /\ OwedIsVoid(a, q)
             /\ WriteLedger(OwesNothing(q))
             /\ applier' = rest
          \* the reading is at a limit
          \/ /\ ~OwedIsVoid(a, q)
             /\ WriteLedger(OwesNothing(q))
             /\ applier' = rest
          \* no reading, or one with headroom
          \/ /\ ~OwedIsVoid(a, q)
             /\ applier' \in {rest, [applier EXCEPT !.pc = "lift", !.q = q]}
             /\ UNCHANGED <<row, faults>>
       /\ UNCHANGED <<claim, read, tickFrame>>

\* The usage read is an await: the pause may have changed since it was looked
\* at.
LiftOwedPause ==
    LET q == applier.q IN
    /\ applier.pc = "lift"
    /\ pause' = ResumeAt(OwnerOf[row[q].grant], row[q].owed)
    /\ WriteLedger(OwesNothing(q))
    /\ applier' = [applier EXCEPT !.pc = "owed", !.rows = @ \ {q}, !.q = None]
    /\ UNCHANGED <<claim, read, cache, on, usable, serverVars, ops>>

ListCandidates ==
    /\ applier.pc = "owed"
    /\ applier.rows = {}
    /\ applier' = [applier EXCEPT !.pc = "scan",
                     !.todo = {a \in Account : usable[a] /\ on[a] # {}}]
    /\ UNCHANGED <<row, claim, read, faults, tickFrame>>

\* dispatchClaim: starts the claim, joins the same one in flight, or returns
\* at once because another one is.
Dispatch(t, a, q, r, replay) ==
    IF claim[a].pc # "idle"
    THEN /\ applier' = IF claim[a].q = q THEN [t EXCEPT !.pc = "dispatch", !.a = a]
                       ELSE AfterDispatch(t, r.trigger)
         /\ UNCHANGED claim
    ELSE /\ applier' = [t EXCEPT !.pc = "dispatch", !.a = a]
         /\ claim' = [claim EXCEPT ![a] = Started(q, r.grant, r.trigger, replay)]

\* confirm's forced read, joined or started.
ConfirmRead(a, t) ==
    /\ applier' = [t EXCEPT !.pc = "reading", !.a = a]
    /\ \/ read[a].pc # "idle" /\ UNCHANGED read
       \/ StartRead(a)

\* The unconfirmed claims that hold a new one off.
HeldOffBy(a) == Pending(a)

\* processAccount: a pending claim of the scheduler is replayed when it is
\* due, any pending claim holds a new one off, and discovery leads to the read
\* that confirms an expiring grant or to a weekly proposal.
ProcessAccount(a) ==
    LET held == \E q \in AutoPending(a) : row[q].trigger = "weekly" /\ MayReplay(a, q)
        waiting == \E q \in AutoPending(a) : row[q].wait
        ready == {q \in AutoPending(a) : MayReplay(a, q)}
        t == [applier EXCEPT !.todo = @ \ {a}, !.held = @ \/ held]
    IN /\ applier.pc = "scan"
       /\ a \in applier.todo
       /\ \/ /\ ~waiting /\ ready # {}
             /\ \E q \in ready : Dispatch(t, a, q, row[q], TRUE)
             /\ UNCHANGED read
          \/ /\ waiting \/ ready = {}
             /\ applier' = t
             /\ UNCHANGED <<claim, read>>
          \/ /\ ~waiting /\ ready = {} /\ HeldOffBy(a) = {}
             /\ "expiry" \in on[a] /\ cache[a] # NoStatus
             /\ ConfirmRead(a, t)
             /\ UNCHANGED claim
          \/ /\ ~waiting /\ ready = {} /\ HeldOffBy(a) = {}
             /\ "weekly" \in on[a]
             /\ applier' = [t EXCEPT !.weekly = @ \cup {a}]
             /\ UNCHANGED <<claim, read>>
       /\ UNCHANGED <<row, faults, tickFrame>>

\* After the accounts the weekly proposals are ranked, unless a pending weekly
\* claim holds the tick's one weekly claim.
EndScan ==
    /\ applier.pc = "scan"
    /\ applier.todo = {}
    /\ applier' = IF applier.held THEN NoTick
                  ELSE [applier EXCEPT !.pc = "rank", !.rank = TRUE,
                                       !.todo = applier.weekly, !.weekly = {}]
    /\ UNCHANGED <<row, claim, read, faults, tickFrame>>

\* The next proposal: its status is read once in a tick, and not at all soon
\* after another confirming read.
Rank ==
    /\ applier.pc = "rank"
    /\ \/ /\ applier.todo = {}
          /\ applier' = NoTick
          /\ UNCHANGED read
       \/ \E a \in applier.todo :
             LET t == [applier EXCEPT !.todo = @ \ {a}]
             IN \/ /\ a \in t.seen
                   /\ applier' = [t EXCEPT !.pc = "confirming", !.a = a]
                   /\ UNCHANGED read
                \/ /\ a \notin t.seen
                   /\ \/ ConfirmRead(a, t)
                      \/ applier' = t /\ UNCHANGED read
    /\ UNCHANGED <<row, claim, faults, tickFrame>>

\* decideBankedResetAction on the cached status: a grant it shows as usable
\* may be claimed, before it expires or at the weekly limit.
MayClaim(a, g, cause) ==
    /\ usable[a] /\ cause \in on[a]
    /\ cache[a] # NoStatus
    /\ OwnerOf[g] = a /\ g \notin cache[a]
    /\ cause = "weekly" => PauseLiftable(a)

\* evaluate: no claim, a claim, or before the ranking a weekly proposal.
Evaluate ==
    LET t == applier IN
    /\ t.pc = "confirming"
    /\ \/ applier' = Continue(t)
       \/ \E g \in Grant, cause \in Cause :
             /\ MayClaim(t.a, g, cause)
             /\ applier' = IF cause = "weekly" /\ ~t.rank
                           THEN [Continue(t) EXCEPT !.weekly = @ \cup {t.a}]
                           ELSE [t EXCEPT !.pc = "claiming", !.g = g, !.cause = cause]
    /\ UNCHANGED <<row, claim, read, faults, tickFrame>>

\* claimAutoAttempt inserts only when no claim of the account is pending.
InsertAllowed(a) == Pending(a) = {}

\* The scheduler's own pending row for a grant, which claimAutoAttempt reuses.
Reusable(a, g) == {q \in AutoPending(a) : row[q].grant = g}

\* The request ids claimAutoAttempt may return.
AutoAttempts(a, g) ==
    Reusable(a, g) \cup (IF InsertAllowed(a) THEN Unused ELSE {})

\* claimAndDispatch: the claim of a row that is reused or new is sent, or the
\* ledger refuses.
ClaimAndDispatch ==
    LET t == applier
        new == NewRow(t.g, t.cause)
    IN /\ t.pc = "claiming"
       /\ \/ \E q \in AutoAttempts(t.a, t.g) :
                LET reused == row[q].status # "none"
                IN /\ row' = IF reused THEN row ELSE [row EXCEPT ![q] = new]
                   /\ Dispatch(t, t.a, q, new, reused)
          \/ /\ AutoAttempts(t.a, t.g) = {}
             /\ applier' = Continue(t)
             /\ UNCHANGED <<row, claim>>
       /\ UNCHANGED <<read, faults, tickFrame>>

TickStep ==
    \/ TickStart \/ LiftOwedPause \/ ListCandidates
    \/ \E q \in Attempt : SettleOwedRow(q)
    \/ \E a \in Account : ProcessAccount(a)
    \/ EndScan \/ Rank \/ Evaluate \/ ClaimAndDispatch

-----------------------------------------------------------------------------
(* Users, time and restarts *)

\* The account is paused or resumed, by a user or by the overage policy.
SetPause(a, kind) ==
    /\ Operation
    /\ kind # pause[a].kind
    /\ pause' = [pause EXCEPT ![a] = [kind |-> kind, epoch |-> @.epoch + 1]]
    /\ UNCHANGED <<row, claim, read, cache, on, usable, applier, serverVars, faults>>

\* The toggles are switched on or off, or the account is disabled or enabled.
EditAccount(a) ==
    /\ Operation
    /\ \/ /\ on' = [on EXCEPT ![a] = IF @ = {} THEN Cause ELSE {}]
          /\ UNCHANGED usable
       \/ usable' = [usable EXCEPT ![a] = ~@] /\ UNCHANGED on
    /\ UNCHANGED <<row, claim, read, cache, pause, applier, serverVars, faults>>

clockFrame == <<claim, read, cache, accountVars, applier, serverVars, faults, ops>>

Age(q) ==
    /\ row[q].status = "pending"
    /\ row[q].age < Window
    /\ row' = [row EXCEPT ![q].age = @ + 1]
    /\ UNCHANGED clockFrame

WaitOver(q) ==
    /\ row[q].wait
    /\ row' = [row EXCEPT ![q].wait = FALSE]
    /\ UNCHANGED clockFrame

RecoveryWindowCloses(q) ==
    /\ row[q].owed # None /\ ~row[q].late
    /\ row' = [row EXCEPT ![q].late = TRUE]
    /\ UNCHANGED clockFrame

\* The process stops and starts again: the ledger, the accounts and the
\* server remain.
Restart ==
    /\ Fault
    /\ claim' = [a \in Account |-> NoClaim]
    /\ read' = [a \in Account |-> NoRead]
    /\ cache' = [a \in Account |-> NoStatus]
    /\ applier' = NoTick
    /\ UNCHANGED <<row, accountVars, serverVars, ops>>

Next ==
    \/ \E a \in Account :
          \/ Refresh(a) \/ ReadStep(a) \/ ClaimStep(a)
          \/ \E q \in Attempt, g \in Grant : ManualClaim(a, q, g)
          \/ \E kind \in {"none", "overage", "other"} : SetPause(a, kind)
          \/ EditAccount(a)
    \/ TickStep
    \/ \E q \in Attempt : \/ LandLate(q)
                         \/ Age(q) \/ WaitOver(q) \/ RecoveryWindowCloses(q)
    \/ Restart

Spec == Init /\ [][Next]_vars

-----------------------------------------------------------------------------
(* Properties *)

Spent(q) == \E g \in Grant : spentBy[g] = q

\* A reset is not spent on top of another one that may have been spent: when a
\* claim spends a reset, no other claim of the account has spent one whose
\* row is still unconfirmed, whatever answers were lost, whoever claims and
\* wherever the process was restarted.
NoSecondSpend ==
    [][\A g \in Grant : spentBy'[g] # spentBy[g] =>
         \A q \in Of(OwnerOf[g]) \ {spentBy'[g]} :
             Spent(q) => row[q].status # "pending"]_vars

\* A request id that was given up or answered never leaves again: every POST,
\* the retry after an auth error too, has a pending row behind it, although
\* the scheduler gives rows up while a claim is between its checks.
OnlyPendingIsSent ==
    [][\A a \in Account :
         /\ claim'[a].pc \in {"posted", "reposted"}
         /\ claim'[a].pc # claim[a].pc
         => row[claim[a].q].status = "pending"]_vars

\* What the ledger says is true: a claim recorded as not sent never left, a
\* claim recorded as a reset spent its grant, a refused one did not.
LedgerIsTruthful ==
    /\ TypeOK
    /\ \A q \in Attempt :
          /\ row[q].status = "not_sent" => sentUnder[q] = None
          /\ row[q].status = "reset" => spentBy[row[q].grant] = q
          /\ row[q].status = "refused" => ~Spent(q)

\* Only the overage pause that stood when a successful claim was sent is
\* lifted on its account: no other pause, and none begun since, ends without
\* the user or the policy.
OnlyTheOwedPauseIsLifted ==
    [][\A a \in Account : pause'[a] # pause[a] =>
         \/ ops' # ops
         \/ /\ pause[a].kind = "overage"
            /\ \E q \in Of(a) : Spent(q) /\ sentUnder[q] = pause[a].epoch]_vars

\* When a claim that restored windows returns with its status refreshed, the
\* cached status shows the grant as spent: it is not that of a read which left
\* before the claim.
RestoredStatusIsFresh ==
    [][\A a \in Account :
         /\ claim[a].pc = "refreshing" /\ claim'[a].pc = "idle"
         /\ read[a].snap # NoStatus /\ cache'[a] # NoStatus
         => claim[a].grant \in cache'[a]]_vars
=============================================================================
