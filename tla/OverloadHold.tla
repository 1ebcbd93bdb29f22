----------------------------- MODULE OverloadHold -----------------------------
(****************************************************************************)
(* The transparent hold of requests that the overload breaker refuses       *)
(* (holdForOverloadRecovery and attemptCandidates of recovery-holds.ts,     *)
(* overload-hold.ts, keyed-semaphore.ts), composed with OverloadBreaker:    *)
(* a held request keeps its connection, takes a slot of every bucket it     *)
(* waits for, and makes breaker attempts in rounds until it is served, its  *)
(* client leaves or its budget is spent.                                    *)
(*                                                                          *)
(* The budget is counted in the ticks of the breaker.  A hold that sleeps   *)
(* or polls may look again at any moment: both sleeps are shorter than what *)
(* is left of the budget, which is all the code relies on.                  *)
(****************************************************************************)
EXTENDS OverloadBreaker, FiniteSets

CONSTANTS
    HoldBudget,     \* OVERLOAD_HOLD_MAX_MS, in ticks
    HoldCap         \* OVERLOAD_HOLD_MAX_CONCURRENT_PER_BUCKET

ASSUME HoldBoundsArePositive == HoldBudget \in Nat \ {0} /\ HoldCap \in Nat \ {0}

VARIABLES
    hold,           \* the hold of each request
    slots           \* holdSlots: the holders counted per bucket key

holdVars == <<hold, slots>>
allVars == <<vars, holdVars>>

\* "wake": at the head of the loop, asleep or polling; "round": in a round
\* without, "pending": in one with a verdict to wait for.  `pairs` are the
\* models of the gated accounts, `keys` the slots taken.
Hold == [st : {"no", "wake", "round", "pending"}, pairs : SUBSET Key,
         keys : SUBSET Key, left : 0..HoldBudget]

NoHold == [st |-> "no", pairs |-> {}, keys |-> {}, left |-> 0]

HoldTypeOK ==
    /\ hold \in [Request -> Hold]
    /\ slots \in [Key -> 0..HoldCap]

HoldInit ==
    /\ Init
    /\ hold = [r \in Request |-> NoHold]
    /\ slots = [k \in Key |-> 0]

Held(r) == hold[r].st # "no"
InRound(r) == hold[r].st \in {"round", "pending"}

-----------------------------------------------------------------------------
(* inspectProviderOverload *)

Largest(S) == CHOOSE x \in S : \A y \in S : y <= x
Smallest(S) == CHOOSE x \in S : \A y \in S : x <= y

ModelOpen(m) == \E k \in relevantKeys(m) : Open(k)
ModelClosed(m) == relevantKeys(m) = {}
OpenUntil(m) == Largest({0} \cup {buckets[k].remaining : k \in relevantKeys(m)})

\* isLeaseActive: its time limit outlasts every attempt.
ProbeActive(m) == \E k \in relevantKeys(m) : buckets[k].probe # 0

AllOpen(P) == \A m \in P : ModelOpen(m)

\* The soonest deadline, 0 when some model is not gated by an open bucket.
Soonest(P) == Smallest({OpenUntil(m) : m \in P})

-----------------------------------------------------------------------------
(* Slots *)

\* getOverloadHoldSlotKey: a live provider-wide bucket is the one that counts.
SlotKey(m) == IF Live(Wide) THEN Wide ELSE m

\* The slots after a hold has asked for keys: all of them, or none.
Acquired(keys) ==
    IF \A k \in keys : slots[k] < HoldCap
    THEN [k \in Key |-> IF k \in keys THEN slots[k] + 1 ELSE slots[k]]
    ELSE slots

\* Mutant: the slots are given back under the keys of the moment.
ReleasedUnderCurrentKey(r) ==
    LET keys == {SlotKey(m) : m \in hold[r].pairs}
    IN [k \in Key |-> IF k \in keys /\ slots[k] > 0 THEN slots[k] - 1 ELSE slots[k]]

\* The slots after the finally block.
Released(r) ==
    [k \in Key |-> IF k \in hold[r].keys /\ slots[k] > 0 THEN slots[k] - 1 ELSE slots[k]]

-----------------------------------------------------------------------------
(* Entering and leaving *)

\* The candidate loop has ended with refused attempts, for models P.
EnterHold(r, P) ==
    LET keys == {SlotKey(m) : m \in P}
        granted == \A k \in keys : slots[k] < HoldCap
    IN /\ ~Held(r)
       /\ model[r] \in P
       /\ GiveUp(r)
       /\ Soonest(P) <= HoldBudget
       /\ slots' = Acquired(keys)
       /\ hold' = IF granted
                  THEN [hold EXCEPT ![r] = [st |-> "wake", pairs |-> P,
                                            keys |-> keys, left |-> HoldBudget]]
                  ELSE hold

\* No hold: a synthetic or internal request, a client that has left, or a
\* cooldown beyond the budget.
NoHoldForIt(r) == ~Held(r) /\ GiveUp(r) /\ UNCHANGED holdVars

EndHold(r) ==
    /\ hold' = [hold EXCEPT ![r] = NoHold]
    /\ slots' = Released(r)

\* The budget is spent, or the soonest deadline or the next poll lies beyond it.
ExitAtBudget(r) ==
    /\ hold[r].st = "wake"
    /\ hold[r].left <= 1 \/ Soonest(hold[r].pairs) > hold[r].left
    /\ EndHold(r)
    /\ UNCHANGED vars

\* abortableSleep reports the client's abort; an attempt in flight ends.
ClientLeaves(r) ==
    /\ Held(r)
    /\ EndHold(r)
    /\ IF pc[r] = "flight" THEN Finish(r) ELSE UNCHANGED vars

-----------------------------------------------------------------------------
(* Rounds *)

InState(r, st) == hold' = [hold EXCEPT ![r].st = st] /\ UNCHANGED slots

\* Some bucket is not open: accounts are selected anew.
StartRound(r) ==
    /\ hold[r].st = "wake"
    /\ hold[r].left > 0
    /\ ~AllOpen(hold[r].pairs)
    /\ InState(r, "round")
    /\ UNCHANGED vars

\* The selection comes back empty: nothing to wait for once all buckets are
\* closed, a poll otherwise (which leaves the hold where it is).
EmptyRound(r) ==
    /\ hold[r].st = "wake"
    /\ hold[r].left > 0
    /\ \A m \in hold[r].pairs : ModelClosed(m)
    /\ EndHold(r)
    /\ UNCHANGED vars

\* The inspection before an attempt.
Suppressed(m) == ModelOpen(m) \/ ProbeActive(m)

\* A candidate is passed over: its verdict is pending.
SkipCandidate(r, m) ==
    /\ InRound(r) /\ pc[r] = "idle"
    /\ m \in hold[r].pairs
    /\ Suppressed(m)
    /\ InState(r, "pending")
    /\ UNCHANGED vars

\* A candidate is attempted, within what is left of the budget.
AttemptCandidate(r, m) ==
    /\ InRound(r) /\ pc[r] = "idle"
    /\ hold[r].left > 0
    /\ m \in hold[r].pairs
    /\ ~Suppressed(m)
    /\ AdmitFree(r, m) \/ AdmitProbe(r, m)
    /\ UNCHANGED holdVars

\* The attempt reports an overload: the round goes on, a verdict is pending.
RetripInRound(r, hint) ==
    /\ InRound(r)
    /\ Trip(r, hint)
    /\ InState(r, "pending")

\* An ordinary failure: the round goes on with the next candidate.
FailureInRound(r) == InRound(r) /\ Finish(r) /\ UNCHANGED holdVars

\* The attempt has a response: the hold ends, the response goes on by itself.
Served(r) ==
    /\ InRound(r)
    /\ pc[r] = "flight"
    /\ EndHold(r)
    /\ UNCHANGED vars

\* Mutant: the attempt is not bounded by the budget.
NoBudgetTimer(r) == FALSE

\* The budget timer of the attempt fires.
BudgetTimer(r) == hold[r].left = 0

BudgetAbort(r) ==
    /\ InRound(r)
    /\ pc[r] = "flight"
    /\ BudgetTimer(r)
    /\ Finish(r)
    /\ EndHold(r)

\* The round is over: a poll when a verdict is pending, the end otherwise.
EndRound(r) ==
    /\ InRound(r) /\ pc[r] = "idle"
    /\ IF hold[r].st = "pending" THEN InState(r, "wake") ELSE EndHold(r)
    /\ UNCHANGED vars

HoldStep(r) ==
    \/ ExitAtBudget(r) \/ StartRound(r) \/ EmptyRound(r)
    \/ BudgetAbort(r) \/ EndRound(r)

-----------------------------------------------------------------------------
\* One tick for the breaker and for the budgets.
HoldTick ==
    /\ buckets' = [k \in DOMAIN buckets |-> Aged(buckets[k])]
    /\ hold' = [r \in Request |->
                  IF hold[r].left > 0 THEN [hold[r] EXCEPT !.left = @ - 1] ELSE hold[r]]
    /\ <<buckets, hold>>' # <<buckets, hold>>
    /\ UNCHANGED <<generationCounter, probeIdCounter, attemptVars, slots>>

\* The steps of requests that are not held.
FreeStep(r) ==
    /\ ~Held(r)
    /\ \/ \E m \in Key : Refuse(r, m) \/ AdmitFree(r, m) \/ AdmitProbe(r, m)
       \/ \E hint \in Hints : Trip(r, hint)
       \/ Finish(r)
    /\ UNCHANGED holdVars

HoldNext ==
    \/ \E r \in Request :
          \/ FreeStep(r)
          \/ Recover(r) /\ UNCHANGED holdVars
          \/ NoHoldForIt(r)
          \/ \E P \in SUBSET Key : EnterHold(r, P)
          \/ \E m \in Key : SkipCandidate(r, m) \/ AttemptCandidate(r, m)
          \/ \E hint \in Hints : RetripInRound(r, hint)
          \/ FailureInRound(r) \/ Served(r) \/ ClientLeaves(r)
          \/ HoldStep(r)
    \/ OperatorClear /\ UNCHANGED holdVars
    \/ HoldTick

\* Time passes and the timers and the loop of a hold go on.  No upstream has
\* to answer and no client has to leave.
HoldSpec ==
    /\ HoldInit /\ [][HoldNext]_allVars
    /\ WF_allVars(HoldTick)
    /\ \A r \in Request : WF_allVars(HoldStep(r))

-----------------------------------------------------------------------------
(* Properties *)

\* Every slot counted belongs to a hold that is still there, and every hold is
\* counted in all its slots, although buckets come and go, and with them the
\* key a request would be counted under: no incident uses up the slots, and
\* no bucket has more holders than its cap.
SlotsMatchHolds ==
    /\ HoldTypeOK
    /\ \A k \in Key : slots[k] = Cardinality({r \in Request : k \in hold[r].keys})

\* A hold ends, even when its attempt hangs at an upstream that never answers
\* and nobody ever settles the probe it waits for.
HoldsEnd == \A r \in Request : Held(r) ~> ~Held(r)

\* A held request does not wait behind a probe that no longer keeps others
\* out: what the breaker would admit is attempted.
AdmissibleIsAttempted ==
    [][\A r \in Request, m \in Key :
         SkipCandidate(r, m) /\ hold[r].left > 0 => ~Admissible(m)]_allVars
=============================================================================
