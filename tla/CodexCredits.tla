----------------------------- MODULE CodexCredits -----------------------------
(***************************************************************************)
(* The automatic redemption of a Codex account's banked usage resets.      *)
(*                                                                         *)
(* The applier ticks over one account: it replays the oldest attempt whose *)
(* outcome is unknown, then discovers, confirms, claims a ledger row and   *)
(* dispatches it.  The spend coordinator sends the redemption and, when    *)
(* the answer arrives, fences off every usage observation that was issued  *)
(* before it: the free status read and the scheduled ping by an            *)
(* application sequence, real traffic by an epoch.  The operator redeems   *)
(* credits under keys of their own.  The process may crash at any step and *)
(* requests and answers may be lost or late.                               *)
(*                                                                         *)
(* One account is modelled.  What other accounts contribute, a pool that   *)
(* can still serve, is an arbitrary answer of the weekly decision.  A read *)
(* of the credit metadata is one step.  Rows written for the operator's    *)
(* redemptions, and the cooldown and pause columns a redemption clears,    *)
(* are read by nothing here and left out.                                  *)
(***************************************************************************)
EXTENDS Integers, Sequences, FiniteSets, SequencesExt

CONSTANTS
    Credit,      \* banked resets of the account
    Lapsing,     \* those within the lead time of their expiry
    MaxAttempt,  \* bound on the attempts per credit
    MaxObs,      \* bound on the usage observations issued
    MaxEvents,   \* bound on faults and operator actions
    MaxTotal,    \* bound on both together
    None

ASSUME LapsingAssumption == Lapsing \subseteq Credit
ASSUME BoundsAssumption == MaxAttempt \in Nat

Cause == {"expiry", "weekly"}

(* An idempotency key names its credit and its attempt; attempt 0 is the   *)
(* operator's.                                                             *)
Key == Credit \X (0..MaxAttempt)
CreditOf(k) == k[1]
IsAuto(k) == k[2] > 0

Resolution == {"reset", "alreadyRedeemed", "noCredit", "nothingToReset"}
Restoring == {"reset", "alreadyRedeemed"}
Row == [key : Key, cause : Cause, status : Resolution \cup {"pending"}]

ASSUME NoneAssumption == None \notin Key \cup Row

(* A usage reading: whether the weekly window was spent, and (to judge it  *)
(* by) the credits that had been spent when upstream answered.             *)
Reading == [exhausted : BOOLEAN, at : SUBSET Credit]
Channel == {"read", "ping", "traffic"}

VARIABLES
    level,      \* upstream: 0 unused, 1 used, 2 weekly window exhausted
    spentBy,    \* upstream: the key that spent each credit
    late,       \* requests nobody waits for any more that may still land
    sent,       \* every key that was ever put on the wire
    ledger,     \* codex_reset_credit_events, auto rows, oldest first
    on,         \* the account's opt-in per cause, and a pause it can lift
    cooling,    \* an anchoring resolution is less than an hour old
    seen,       \* credits the metadata cache shows as available
    usage,      \* usageCache entry
    issuedSeq,  \* applicationSeqCounter
    appliedSeq, \* lastAppliedSeq
    epoch,      \* codex-observation-fence
    obs,        \* the observation in flight on each channel
    acked,      \* credits whose restoring answer this process has handled
    tick,       \* the applier's tick
    call,       \* codexResetCreditConsumeInflight and its request
    issued,     \* observations issued so far
    events      \* faults and operator actions so far

upstream == <<level, spentBy, late, sent>>
fences == <<usage, issuedSeq, appliedSeq, epoch, obs, acked, issued>>
vars == <<upstream, ledger, on, cooling, seen, fences, tick, call, events>>

NoTick == [pc |-> "idle", pending |-> None, skip |-> None, plan |-> None,
           reused |-> FALSE, replay |-> FALSE]
NoCall == [pc |-> "idle", key |-> None, outcome |-> None]
NoObs == [pc |-> "idle", seq |-> 0, epoch |-> 0, over |-> FALSE, snap |-> None]

Init ==
    /\ level = 0
    /\ spentBy = [c \in Credit |-> None]
    /\ late = {} /\ sent = {}
    /\ ledger = <<>>
    /\ on = [c \in Cause |-> TRUE]
    /\ cooling = FALSE
    /\ seen = {}
    /\ usage = None
    /\ issuedSeq = 0 /\ appliedSeq = 0 /\ epoch = 0
    /\ obs = [ch \in Channel |-> NoObs]
    /\ acked = {}
    /\ tick = NoTick
    /\ call = NoCall
    /\ issued = 0
    /\ events = 0

Spend(n) ==
    /\ n > 0 => events + n <= MaxEvents /\ events + issued + n <= MaxTotal
    /\ events' = events + n

-----------------------------------------------------------------------------
(* Upstream *)

Spent == {c \in Credit : spentBy[c] # None}
Available == Credit \ Spent
AutoSpent == {c \in Spent : IsAuto(spentBy[c])}

(* What upstream may answer to a redemption.  A key that has done its work *)
(* is told so; a credit another key spent is gone.                         *)
Answers(k) ==
    CASE spentBy[CreditOf(k)] = k -> {"alreadyRedeemed"}
      [] CreditOf(k) \in Spent /\ spentBy[CreditOf(k)] # k ->
            {"alreadyRedeemed", "noCredit"}
      [] CreditOf(k) \notin Spent /\ level = 0 -> {"nothingToReset"}
      [] OTHER -> {"reset"}

(* Upstream handles key k with answer a.                                   *)
Land(k, a) ==
    /\ a \in Answers(k)
    /\ spentBy' = IF a = "reset" THEN [spentBy EXCEPT ![CreditOf(k)] = k]
                                 ELSE spentBy
    /\ level' = IF a = "reset" THEN 0 ELSE level

(* An abandoned request reaches upstream after all, or is lost.            *)
LandLate(k) ==
    /\ k \in late
    /\ late' = late \ {k}
    /\ \/ \E a \in Resolution : Land(k, a)
       \/ UNCHANGED <<level, spentBy>>
    /\ UNCHANGED <<sent, ledger, on, cooling, seen, fences, tick, call, events>>

UseQuota ==
    /\ level < 2
    /\ level' = level + 1
    /\ UNCHANGED <<spentBy, late, sent, ledger, on, cooling, seen, fences,
                   tick, call, events>>

-----------------------------------------------------------------------------
(* The ledger *)

RowsOf(c) == {i \in DOMAIN ledger : CreditOf(ledger[i].key) = c}
(* Mutant: the lookup of unresolved attempts misses the expiry ones.     *)
PendingWeekly ==
    {i \in DOMAIN ledger : ledger[i].status = "pending" /\ ledger[i].cause = "weekly"}

Pending == {i \in DOMAIN ledger : ledger[i].status = "pending"}
IsPending(k) == \E i \in Pending : ledger[i].key = k

(* The oldest unresolved automatic attempt.                                *)
findPendingForAccount ==
    IF Pending = {} THEN None
    ELSE ledger[CHOOSE i \in Pending : \A j \in Pending : i <= j]

TerminalCredits ==
    {CreditOf(ledger[i].key) : i \in {j \in DOMAIN ledger :
        ledger[j].status \in Resolution \ {"nothingToReset"}}}

LatestAttempt(c) ==
    IF RowsOf(c) = {} THEN None
    ELSE ledger[CHOOSE i \in RowsOf(c) :
                    \A j \in RowsOf(c) : ledger[j].key[2] <= ledger[i].key[2]]

(* The key under which a credit may be claimed next: that of its pending   *)
(* row, the next attempt of a credit that had nothing to reset, or none.   *)
ClaimKey(c) ==
    LET latest == LatestAttempt(c) IN
    CASE latest = None -> <<c, 1>>
      [] latest # None /\ latest.status = "pending" -> latest.key
      [] latest # None /\ latest.status = "nothingToReset" ->
            <<c, latest.key[2] + 1>>
      [] OTHER -> None

(* The guard of the INSERT: a weekly claim needs an account without an     *)
(* unresolved attempt.                                                     *)
MayInsert(cause) == cause = "expiry" \/ Pending = {}

(* resolveAttempt touches a pending row only.                              *)
Resolved(k, status) ==
    [i \in DOMAIN ledger |->
        IF ledger[i].key = k /\ ledger[i].status = "pending"
        THEN [ledger[i] EXCEPT !.status = status] ELSE ledger[i]]

(* withdrawPendingAttempt deletes the row of an attempt if it is pending.  *)
Withdrawn(k) ==
    IF IsPending(k)
    THEN RemoveAt(ledger, CHOOSE i \in Pending : ledger[i].key = k)
    ELSE ledger

-----------------------------------------------------------------------------
(* The applier's tick *)

(* decideResetCreditAction: expiry before weekly exhaustion, the credit    *)
(* that lapses first, none that is settled or set aside this tick.         *)
Usable(credits, skip) == (credits \ {skip}) \ TerminalCredits
ExpiryPlans(credits, skip) ==
    IF on["expiry"]
    THEN {[credit |-> c, cause |-> "expiry"] :
             c \in Usable(credits, skip) \cap Lapsing}
    ELSE {}
SoonestOf(S) == IF S \cap Lapsing # {} THEN S \cap Lapsing ELSE S
WeeklyPlans(credits, skip) ==
    IF /\ on["weekly"] /\ ~cooling /\ skip = None
       /\ usage # None /\ usage.exhausted
    THEN {[credit |-> c, cause |-> "weekly"] :
             c \in SoonestOf(Usable(credits, skip))}
    ELSE {}

(* The decisions evaluate may reach; None is to skip.  A weekly one is     *)
(* given up whenever another account can serve.                            *)
Decisions(credits, skip) ==
    IF ExpiryPlans(credits, skip) # {} THEN ExpiryPlans(credits, skip)
    ELSE WeeklyPlans(credits, skip) \cup {None}

(* Mutant: only a credit still shown as available is replayed.           *)
MayReplayAvailable(p) == on[p.cause] /\ CreditOf(p.key) \in Available

(* A pending attempt is replayed while its own trigger is enabled, even    *)
(* when the metadata no longer shows its credit.                           *)
MayReplay(p) == on[p.cause]

tickOnly == <<upstream, on, cooling, fences, call>>

TickStart ==
    /\ tick.pc = "idle"
    /\ \E c \in Cause : on[c]
    /\ LET p == findPendingForAccount IN
       tick' = [NoTick EXCEPT !.pc = IF p = None THEN "discover"
                                                 ELSE "reconcile",
                              !.pending = p]
    /\ UNCHANGED <<tickOnly, ledger, seen, events>>

(* A pending attempt: reconcile the metadata, then replay the same key.    *)
Reconcile ==
    /\ tick.pc = "reconcile"
    /\ LET p == tick.pending  c == CreditOf(tick.pending.key) IN
       \/ /\ Spend(0)
          /\ seen' = Available
          /\ tick' = IF MayReplay(p)
                     THEN [tick EXCEPT !.pc = "dispatch", !.skip = c,
                              !.plan = [key |-> p.key, cause |-> p.cause],
                              !.reused = TRUE, !.replay = TRUE]
                     ELSE [tick EXCEPT !.pc = "discover"]
       \/ /\ Spend(1)
          /\ tick' = [tick EXCEPT !.pc = "discover", !.skip = c]
          /\ UNCHANGED seen
    /\ UNCHANGED <<tickOnly, ledger>>

(* Discovery on metadata that may be as old as the cache allows.           *)
Discover ==
    /\ tick.pc = "discover"
    /\ seen' \in {seen, Available}
    /\ \E d \in Decisions(seen', tick.skip) :
           tick' = IF d = None THEN NoTick ELSE [tick EXCEPT !.pc = "confirm"]
    /\ UNCHANGED <<tickOnly, ledger, events>>

(* Confirmation on a forced read; a pending attempt bars the weekly one.   *)
Confirm ==
    /\ tick.pc = "confirm"
    /\ \/ /\ Spend(0)
          /\ seen' = Available
          /\ \E d \in Decisions(Available, tick.skip) :
                tick' = IF \/ d = None
                           \/ d.cause = "weekly" /\ tick.pending # None
                        THEN NoTick
                        ELSE [tick EXCEPT !.pc = "claim", !.plan = d]
       \/ /\ Spend(1)
          /\ tick' = NoTick
          /\ UNCHANGED seen
    /\ UNCHANGED <<tickOnly, ledger>>

Claim ==
    /\ tick.pc = "claim"
    /\ LET d == tick.plan
           k == ClaimKey(d.credit)
           plan == [tick EXCEPT !.pc = "dispatch",
                       !.plan = [key |-> k, cause |-> d.cause],
                       !.replay = FALSE]
       IN CASE k = None \/ k \notin Key ->
                 /\ tick' = NoTick
                 /\ UNCHANGED ledger
            [] k \in Key /\ IsPending(k) ->
                 /\ tick' = [plan EXCEPT !.reused = TRUE]
                 /\ UNCHANGED ledger
            [] k \in Key /\ ~IsPending(k) /\ MayInsert(d.cause) ->
                 /\ tick' = [plan EXCEPT !.reused = FALSE]
                 /\ ledger' = Append(ledger, [key |-> k, cause |-> d.cause,
                                              status |-> "pending"])
            [] OTHER ->
                 /\ tick' = NoTick
                 /\ UNCHANGED ledger
    /\ UNCHANGED <<tickOnly, seen, events>>

(* Where the tick goes once its dispatch has ended.                        *)
AfterDispatch ==
    IF tick.replay
    THEN [tick EXCEPT !.pc = "discover", !.plan = None, !.reused = FALSE,
                      !.replay = FALSE]
    ELSE NoTick

(* Mutant: a refused replay is withdrawn too.                            *)
MayWithdrawAny == TRUE

(* A claim the registry refused before sending is withdrawn (or stays,     *)
(* when that write fails), unless it is a replay, whose first send may     *)
(* have landed.                                                            *)
MayWithdraw == ~tick.reused

Send(k) ==
    /\ sent' = sent \cup {k}
    /\ call' = [NoCall EXCEPT !.pc = "waiting", !.key = k]

(* The registry refuses while another key is in flight, or because no      *)
(* server is registered to redeem (a fault).                               *)
DispatchRefused ==
    /\ tick.pc = "dispatch"
    /\ LET unregistered == IF call.pc = "idle" THEN 1 ELSE 0 IN
       \/ MayWithdraw /\ ledger' = Withdrawn(tick.plan.key) /\ Spend(unregistered)
       \/ ~MayWithdraw /\ UNCHANGED ledger /\ Spend(unregistered)
       \/ MayWithdraw /\ UNCHANGED ledger /\ Spend(unregistered + 1)
    /\ tick' = AfterDispatch
    /\ UNCHANGED <<tickOnly, seen>>

(* Account and token checks, then the request goes out; when a check fails *)
(* nothing is sent, and the row stays pending all the same.                *)
Dispatch ==
    /\ tick.pc = "dispatch"
    /\ call.pc = "idle"
    /\ \/ /\ Spend(0)
          /\ Send(tick.plan.key)
          /\ tick' = [tick EXCEPT !.pc = "awaiting"]
       \/ /\ Spend(1)
          /\ tick' = AfterDispatch
          /\ UNCHANGED <<sent, call>>
    /\ UNCHANGED <<level, spentBy, late, ledger, on, cooling, seen, fences>>

-----------------------------------------------------------------------------
(* The redemption itself *)

(* Whoever awaits the call carries on when it ends.                        *)
CallEnds ==
    /\ call' = NoCall
    /\ tick' = IF tick.pc = "awaiting" /\ IsAuto(call.key) THEN AfterDispatch
                                                           ELSE tick

OperatorRedeems(c) ==
    /\ call.pc = "idle"
    /\ Spend(1)
    /\ Send(<<c, 0>>)
    /\ UNCHANGED <<level, spentBy, late, ledger, on, cooling, seen, fences, tick>>

UpstreamAnswers ==
    /\ call.pc = "waiting"
    /\ \E a \in Resolution :
          /\ Land(call.key, a)
          /\ call' = [call EXCEPT !.pc = "answered", !.outcome = a]
    /\ UNCHANGED <<late, sent, ledger, on, cooling, seen, fences, tick, events>>

(* The request times out or its answer is lost; it may land all the same.  *)
(* The next registered server sends it again, or there is none left.       *)
AnswerLost ==
    /\ call.pc \in {"waiting", "answered"}
    /\ Spend(1)
    /\ late' = IF call.pc = "waiting" THEN late \cup {call.key} ELSE late
    /\ \/ CallEnds
       \/ call' = [NoCall EXCEPT !.pc = "waiting", !.key = call.key] /\ UNCHANGED tick
    /\ UNCHANGED <<level, spentBy, sent, ledger, on, cooling, seen, fences>>

(* The instant the outcome is known: older observations lose their claim,  *)
(* and the cached reading goes.                                            *)
FenceOff ==
    /\ issuedSeq' = issuedSeq + 1
    /\ appliedSeq' = issuedSeq + 1
    /\ epoch' = epoch + 1
    /\ usage' = None
    /\ obs' = [obs EXCEPT !["read"].over = FALSE]
    /\ acked' = acked \cup {CreditOf(call.key)}
    /\ UNCHANGED issued

HandleAnswer ==
    /\ call.pc = "answered"
    /\ IF call.outcome \in Restoring THEN FenceOff ELSE UNCHANGED fences
    /\ call' = [call EXCEPT !.pc = "recording"]
    /\ UNCHANGED <<upstream, ledger, on, cooling, seen, tick, events>>

(* recordResetCreditLedger, whose errors are swallowed; then the metadata  *)
(* is read again, with or without success.                                 *)
RecordOutcome ==
    /\ call.pc = "recording"
    /\ \/ /\ Spend(0)
          /\ ledger' = Resolved(call.key, call.outcome)
          /\ cooling' = (cooling \/ /\ IsPending(call.key)
                                    /\ call.outcome # "noCredit")
       \/ /\ Spend(1)
          /\ UNCHANGED <<ledger, cooling>>
    /\ seen' \in {seen, Available}
    /\ CallEnds
    /\ UNCHANGED <<upstream, on, fences>>

-----------------------------------------------------------------------------
(* Usage observations *)

otherThanFences == <<upstream, ledger, on, cooling, seen, tick, call, events>>

(* A write of the cache overtakes a status read still in flight.           *)
StoreReading(ch) ==
    /\ usage' = obs[ch].snap
    /\ obs' = [obs EXCEPT ![ch] = NoObs,
                  !["read"].over = (obs["read"].pc # "idle" /\ ch # "read")]

Drop(ch) == obs' = [obs EXCEPT ![ch] = NoObs] /\ UNCHANGED usage

(* Issue reserves the sequence, or captures the epoch.                     *)
Issue(ch) ==
    /\ obs[ch].pc = "idle"
    /\ issued < MaxObs /\ events + issued < MaxTotal
    /\ issued' = issued + 1
    /\ LET numbered == ch # "traffic" IN
       /\ issuedSeq' = IF numbered THEN issuedSeq + 1 ELSE issuedSeq
       /\ obs' = [obs EXCEPT ![ch] =
                     [NoObs EXCEPT !.pc = "issued",
                         !.seq = IF numbered THEN issuedSeq + 1 ELSE 0,
                         !.epoch = IF numbered THEN 0 ELSE epoch]]
    /\ UNCHANGED <<usage, appliedSeq, epoch, acked, otherThanFences>>

UpstreamReports(ch) ==
    /\ obs[ch].pc = "issued"
    /\ obs' = [obs EXCEPT ![ch].pc = "reported",
                  ![ch].snap = [exhausted |-> level = 2, at |-> Spent]]
    /\ UNCHANGED <<usage, issuedSeq, appliedSeq, epoch, acked, issued,
                   otherThanFences>>

(* The request fails, or the account or its credentials change meanwhile.  *)
ObservationFails(ch) ==
    /\ obs[ch].pc # "idle"
    /\ Drop(ch)
    /\ UNCHANGED <<issuedSeq, appliedSeq, epoch, acked, issued, otherThanFences>>

claimApplication(seq) == seq > appliedSeq

(* The status read claims its sequence, then awaits the account row.       *)
ReadClaims ==
    /\ obs["read"].pc = "reported"
    /\ IF ~obs["read"].over /\ claimApplication(obs["read"].seq)
       THEN /\ obs' = [obs EXCEPT !["read"].pc = "claimed"]
            /\ appliedSeq' = obs["read"].seq
            /\ UNCHANGED usage
       ELSE Drop("read") /\ UNCHANGED appliedSeq
    /\ UNCHANGED <<issuedSeq, epoch, acked, issued, otherThanFences>>

(* Mutant: the claim is not validated after the await.                   *)
NewestBeforeTheAwait == TRUE

(* After the await the claim is validated once more.                       *)
StillNewest == appliedSeq = obs["read"].seq

ReadApplies ==
    /\ obs["read"].pc = "claimed"
    /\ IF StillNewest THEN StoreReading("read") ELSE Drop("read")
    /\ UNCHANGED <<issuedSeq, appliedSeq, epoch, acked, issued, otherThanFences>>

PingApplies ==
    /\ obs["ping"].pc = "reported"
    /\ IF claimApplication(obs["ping"].seq)
       THEN StoreReading("ping") /\ appliedSeq' = obs["ping"].seq
       ELSE Drop("ping") /\ UNCHANGED appliedSeq
    /\ UNCHANGED <<issuedSeq, epoch, acked, issued, otherThanFences>>

isCodexObservationCurrent(e) == e = epoch

TrafficApplies ==
    /\ obs["traffic"].pc = "reported"
    /\ IF isCodexObservationCurrent(obs["traffic"].epoch)
       THEN StoreReading("traffic") ELSE Drop("traffic")
    /\ UNCHANGED <<issuedSeq, appliedSeq, epoch, acked, issued, otherThanFences>>

-----------------------------------------------------------------------------
(* The operator, the clock and crashes *)

Toggle(c) ==
    /\ Spend(1)
    /\ on' = [on EXCEPT ![c] = ~@]
    /\ UNCHANGED <<upstream, ledger, cooling, seen, fences, tick, call>>

(* An hour passes.  No request stays on the wire that long and no tick     *)
(* takes that long, and usageCache evicts a reading after ten minutes.     *)
CooldownElapses ==
    /\ cooling
    /\ late = {} /\ tick.pc = "idle" /\ call.pc = "idle"
    /\ \A ch \in Channel : obs[ch].pc = "idle"
    /\ cooling' = FALSE
    /\ usage' = None
    /\ UNCHANGED <<upstream, ledger, on, seen, issuedSeq, appliedSeq, epoch,
                   obs, acked, issued, tick, call, events>>

(* The ledger and the account survive; everything in memory is gone.  The  *)
(* usage snapshot kept with the account (codex_usage_json) is read for the *)
(* dashboard only: the weekly trigger looks at usageCache, which is empty. *)
Crash ==
    /\ Spend(1)
    /\ late' = IF call.pc = "waiting" THEN late \cup {call.key} ELSE late
    /\ seen' = {}
    /\ usage' = None
    /\ issuedSeq' = 0 /\ appliedSeq' = 0 /\ epoch' = 0
    /\ obs' = [ch \in Channel |-> NoObs]
    /\ acked' = {}
    /\ tick' = NoTick
    /\ call' = NoCall
    /\ UNCHANGED <<level, spentBy, sent, ledger, on, cooling, issued>>

TickStep == TickStart \/ Reconcile \/ Discover \/ Confirm \/ Claim
            \/ DispatchRefused \/ Dispatch
CallStep == UpstreamAnswers \/ HandleAnswer \/ RecordOutcome
ObservationStep ==
    \/ \E ch \in Channel : Issue(ch) \/ UpstreamReports(ch) \/ ObservationFails(ch)
    \/ ReadClaims \/ ReadApplies \/ PingApplies \/ TrafficApplies

Next ==
    \/ TickStep
    \/ CallStep
    \/ AnswerLost
    \/ ObservationStep
    \/ \E k \in Key : LandLate(k)
    \/ UseQuota
    \/ \E c \in Credit : OperatorRedeems(c)
    \/ \E c \in Cause : Toggle(c)
    \/ CooldownElapses
    \/ Crash

(* The interval timer keeps ticking and a request in hand is carried       *)
(* through; upstream answers once the bounded faults are over.  Each of    *)
(* these steps changes the tick or the call.                               *)
Spec == Init /\ [][Next]_vars /\ WF_tick(TickStep) /\ WF_call(CallStep)

-----------------------------------------------------------------------------
(* Properties *)

(* Every variable stays within the states the code can store, and no       *)
(* attempt has two rows.                                                   *)
TypeOK ==
    /\ level \in 0..2
    /\ spentBy \in [Credit -> Key \cup {None}]
    /\ late \subseteq sent /\ sent \subseteq Key
    /\ ledger \in Seq(Row)
    /\ \A i, j \in DOMAIN ledger : ledger[i].key = ledger[j].key => i = j
    /\ on \in [Cause -> BOOLEAN] /\ cooling \in BOOLEAN
    /\ seen \subseteq Credit /\ acked \subseteq Credit
    /\ usage \in Reading \cup {None}
    /\ appliedSeq <= issuedSeq
    /\ \A ch \in Channel : obs[ch].seq <= issuedSeq /\ obs[ch].epoch <= epoch
    /\ call.pc = "idle" \/ call.key \in Key
    /\ tick.pc = "awaiting" => call.pc # "idle" /\ call.key = tick.plan.key

(* A reading in the usage cache is never older than a reset whose answer   *)
(* this process has handled, whichever channel observed it and however     *)
(* long it was in flight (codex-spend-coordinator.ts consumeResetCredit:   *)
(* a stale exhausted reading would authorize a second redemption).         *)
NoStaleReading == usage # None => acked \subseteq usage.at

(* The ledger never forgets an automatic redemption that went out, and     *)
(* never says that a credit is gone while upstream still holds it: a row   *)
(* is withdrawn only if its key was never sent, even across replays,       *)
(* refusals and crashes.                                                   *)
SendsAreRemembered ==
    /\ TypeOK
    /\ \A k \in sent : IsAuto(k) => \E i \in DOMAIN ledger : ledger[i].key = k
    /\ TerminalCredits \subseteq Spent

(* When the weekly trigger claims a new attempt, no automatic redemption   *)
(* has restored the window since the exhausted reading it acts on, not     *)
(* even one whose answer was lost.                                         *)
FreshWeeklyClaim ==
    /\ Len(ledger') > Len(ledger)
    /\ Last(ledger').cause = "weekly"
WeeklyClaimIsJustified ==
    [][FreshWeeklyClaim /\ usage # None => AutoSpent \subseteq usage.at]_vars

(* Attempts with an unknown outcome are replayed until none is left, as    *)
(* long as both triggers stay enabled and faults are finitely many: a lost *)
(* answer never leaves the account barred from weekly redemption for good. *)
PendingIsResolved == []<>(Pending = {} \/ \E c \in Cause : ~on[c])
=============================================================================
