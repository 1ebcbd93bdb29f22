------------------------- MODULE OverloadHold_proofs -------------------------
(****************************************************************************)
(* The holds use the breaker only through its operations: every step of the *)
(* composition is a step of the breaker or leaves it alone, so that what is *)
(* proved of the breaker holds of the composition.  And the slots a hold    *)
(* takes are counted exactly.                                               *)
(****************************************************************************)
EXTENDS OverloadHold, OverloadBreaker_proofs, FiniteSetTheorems

\* A tick of the composition is a tick of the breaker, or changes budgets only.
LEMMA TickIsBreakerTick == HoldTick => [Next]_vars
<1> SUFFICES ASSUME HoldTick PROVE [Next]_vars
  OBVIOUS
<1>1. CASE buckets' = buckets
  BY <1>1 DEF HoldTick, vars, breakerVars, attemptVars
<1>2. CASE buckets' # buckets
  BY <1>2 DEF HoldTick, Tick, Next
<1> QED BY <1>1, <1>2

\* What one request does, held or not, is a step of the breaker or none.
LEMMA RequestIsBreakerStep ==
  ASSUME NEW r \in Request,
         \/ FreeStep(r)
         \/ Recover(r) /\ UNCHANGED holdVars
         \/ NoHoldForIt(r)
         \/ \E P \in SUBSET Key : EnterHold(r, P)
         \/ \E m \in Key : SkipCandidate(r, m) \/ AttemptCandidate(r, m)
         \/ \E hint \in Hints : RetripInRound(r, hint)
         \/ FailureInRound(r) \/ Served(r) \/ ClientLeaves(r)
         \/ HoldStep(r)
  PROVE  [Next]_vars
<1>1. CASE FreeStep(r)
  BY <1>1 DEF FreeStep, Next
<1>2. CASE Recover(r)
  BY <1>2 DEF Next
<1>3. CASE NoHoldForIt(r) \/ \E P \in SUBSET Key : EnterHold(r, P)
  <2>1. GiveUp(r)
    BY <1>3 DEF NoHoldForIt, EnterHold
  <2> QED BY <2>1 DEF Next
<1>4. CASE \E m \in Key : SkipCandidate(r, m) \/ AttemptCandidate(r, m)
  BY <1>4 DEF SkipCandidate, AttemptCandidate, Next
<1>5. CASE \E hint \in Hints : RetripInRound(r, hint)
  BY <1>5 DEF RetripInRound, Next
<1>6. CASE FailureInRound(r) \/ Served(r) \/ ClientLeaves(r)
  <2>1. Finish(r) \/ UNCHANGED vars
    BY <1>6 DEF FailureInRound, Served, ClientLeaves
  <2> QED BY <2>1 DEF Next
<1>7. CASE HoldStep(r)
  <2>1. Finish(r) \/ UNCHANGED vars
    BY <1>7 DEF HoldStep, ExitAtBudget, StartRound, EmptyRound, BudgetAbort,
                EndRound
  <2> QED BY <2>1 DEF Next
<1> QED BY <1>1, <1>2, <1>3, <1>4, <1>5, <1>6, <1>7

\* Every step of the composition maps to a step or a stutter of the breaker.
LEMMA StepIsBreakerStep == [HoldNext]_allVars => [Next]_vars
<1> SUFFICES ASSUME [HoldNext]_allVars PROVE [Next]_vars
  OBVIOUS
<1>1. CASE UNCHANGED allVars
  BY <1>1 DEF allVars
<1>2. CASE OperatorClear /\ UNCHANGED holdVars
  BY <1>2 DEF Next
<1>3. CASE HoldTick
  BY <1>3, TickIsBreakerTick
<1>4. ASSUME NEW r \in Request,
             \/ FreeStep(r)
             \/ Recover(r) /\ UNCHANGED holdVars
             \/ NoHoldForIt(r)
             \/ \E P \in SUBSET Key : EnterHold(r, P)
             \/ \E m \in Key : SkipCandidate(r, m) \/ AttemptCandidate(r, m)
             \/ \E hint \in Hints : RetripInRound(r, hint)
             \/ FailureInRound(r) \/ Served(r) \/ ClientLeaves(r)
             \/ HoldStep(r)
      PROVE  [Next]_vars
  BY <1>4, RequestIsBreakerStep
<1> QED BY <1>1, <1>2, <1>3, <1>4 DEF HoldNext

\* The composition of the holds with the breaker (holdForOverloadRecovery over
\* tryAcquireProviderOverloadProbe and its settlements) behaves, as far as the
\* breaker is concerned, as the breaker alone, its fairness aside.
THEOREM HoldsImplementBreaker == HoldSpec => Init /\ [][Next]_vars
<1>1. HoldInit => Init
  BY DEF HoldInit
<1> QED BY <1>1, StepIsBreakerStep, PTL DEF HoldSpec

\* The breaker's strengthened invariant holds under held requests too.
LEMMA HoldInvariance == HoldSpec => []IInv
  BY HoldsImplementBreaker, InvInit, InvStep, PTL

\* With any number of held requests waking in rounds, at most one running probe
\* tests a bucket.
THEOREM HeldProbesAreSingleFlight == HoldSpec => []SingleFlight
  BY InvSingleFlight, HoldInvariance, PTL

\* No end of a hold (served, budget spent, client gone) leaks the lease of the
\* attempt it was making.
THEOREM HoldsLeakNoLease == HoldSpec => []NoLeakedLease
<1>1. IInv => NoLeakedLease
  BY DEF IInv
<1> QED BY <1>1, HoldInvariance, PTL

\* Evidence of an overload outlives the verdicts of held requests as well: a
\* hold that is served, aborted or gives up closes no open bucket.
THEOREM HoldsKeepOpenBucketsOpen == HoldSpec => OpenSurvivesLateVerdicts
  BY OpenAction, HoldsImplementBreaker, HoldInvariance, HalfOpenInit, HalfOpenStep,
     PTL DEF OpenSurvivesLateVerdicts

-----------------------------------------------------------------------------
(* The slots *)

\* The requests counted under a key.
Holders(k) == {r \in Request : k \in hold[r].keys}

\* What makes the count inductive: who is not held holds no slot, so that a
\* request never takes a slot twice and a release never finds the count at 0.
\* The set of requests may be infinite, that of the holders is not.
SlotInv ==
    /\ HoldTypeOK
    /\ \A r \in Request : ~Held(r) => hold[r].keys = {}
    /\ \A k \in Key : /\ IsFiniteSet(Holders(k))
                      /\ slots[k] = Cardinality(Holders(k))

\* The steps that only move a hold along.
KeepsSlots ==
    /\ slots' = slots
    /\ hold' \in [Request -> Hold]
    /\ \A r \in Request : /\ hold'[r].keys = hold[r].keys
                          /\ hold'[r].st = "no" => hold[r].st = "no"

\* Such a step counts nobody in or out.
LEMMA KeptSlots == SlotInv /\ KeepsSlots => SlotInv'
<1> SUFFICES ASSUME SlotInv, KeepsSlots PROVE SlotInv'
  OBVIOUS
<1>1. HoldTypeOK'
  BY DEF SlotInv, KeepsSlots, HoldTypeOK
<1>2. \A r \in Request : hold'[r].st = "no" => hold'[r].keys = {}
  BY DEF SlotInv, KeepsSlots, Held
<1>3. ASSUME NEW k \in Key PROVE Holders(k)' = Holders(k)
  BY DEF Holders, KeepsSlots
<1>4. \A k \in Key : IsFiniteSet(Holders(k)') /\ slots'[k] = Cardinality(Holders(k)')
  BY <1>3 DEF SlotInv, KeepsSlots
<1> QED BY <1>1, <1>2, <1>4 DEF SlotInv, Held

\* A hold that ends gives back exactly the slots it was counted in.
LEMMA EndedHold ==
    ASSUME SlotInv, NEW r \in Request, EndHold(r)
    PROVE  SlotInv'
<1>0. hold \in [Request -> Hold] /\ slots \in [Key -> 0..HoldCap]
  BY DEF SlotInv, HoldTypeOK
<1>1. /\ hold' \in [Request -> Hold] /\ hold'[r] = NoHold
      /\ \A q \in Request \ {r} : hold'[q] = hold[q]
  <2>1. NoHold \in Hold
    BY HoldBoundsArePositive DEF NoHold, Hold
  <2> QED BY <1>0, <2>1 DEF EndHold
<1>2. NoHold.keys = {} /\ NoHold.st = "no"
  BY DEF NoHold
<1>3. \A q \in Request : hold'[q].st = "no" => hold'[q].keys = {}
  BY <1>1, <1>2 DEF SlotInv, Held
<1>4. ASSUME NEW k \in Key
      PROVE  /\ IsFiniteSet(Holders(k)') /\ slots'[k] = Cardinality(Holders(k)')
             /\ slots'[k] \in 0..HoldCap
  <2>1. Holders(k)' = Holders(k) \ {r}
    BY <1>1, <1>2 DEF Holders
  <2>2. /\ IsFiniteSet(Holders(k)) /\ slots[k] = Cardinality(Holders(k))
        /\ slots[k] \in Nat /\ slots[k] <= HoldCap
    BY <1>0, HoldBoundsArePositive DEF SlotInv
  <2>3. slots'[k] = IF k \in hold[r].keys /\ slots[k] > 0 THEN slots[k] - 1
                    ELSE slots[k]
    BY DEF EndHold, Released
  <2>4. /\ IsFiniteSet(Holders(k) \ {r})
        /\ Cardinality(Holders(k) \ {r}) =
              IF r \in Holders(k) THEN Cardinality(Holders(k)) - 1
              ELSE Cardinality(Holders(k))
    BY <2>2, FS_RemoveElement
  <2>5. r \in Holders(k) <=> k \in hold[r].keys
    BY DEF Holders
  <2>6. r \in Holders(k) => slots[k] > 0
    BY <2>2, FS_EmptySet
  <2>7. slots'[k] = Cardinality(Holders(k)')
    BY <2>1, <2>2, <2>3, <2>4, <2>5, <2>6
  <2>8. slots'[k] \in 0..HoldCap
    BY <2>2, <2>3, HoldBoundsArePositive
  <2> QED BY <2>1, <2>4, <2>7, <2>8
<1>5. slots' \in [Key -> 0..HoldCap]
  BY <1>4 DEF EndHold, Released
<1> QED BY <1>1, <1>3, <1>4, <1>5 DEF SlotInv, HoldTypeOK, Held

\* A hold takes one slot of each of its keys, or none and does not begin.
LEMMA EnteredHold ==
    ASSUME SlotInv, NEW r \in Request, NEW P \in SUBSET Key, EnterHold(r, P)
    PROVE  SlotInv'
<1> DEFINE K == {SlotKey(m) : m \in P}
<1> DEFINE h == [st |-> "wake", pairs |-> P, keys |-> K, left |-> HoldBudget]
<1>0. hold \in [Request -> Hold] /\ slots \in [Key -> 0..HoldCap]
  BY DEF SlotInv, HoldTypeOK
<1>1. CASE ~(\A k \in K : slots[k] < HoldCap)
  <2>1. slots' = slots /\ hold' = hold
    BY <1>1 DEF EnterHold, Acquired
  <2> QED BY <1>0, <2>1, KeptSlots DEF KeepsSlots
<1>2. CASE \A k \in K : slots[k] < HoldCap
  <2>1. K \in SUBSET Key
    BY DEF SlotKey, Key
  <2>2. h \in Hold /\ h.keys = K /\ h.st # "no"
    BY <2>1, HoldBoundsArePositive DEF Hold
  <2>3. /\ hold' = [hold EXCEPT ![r] = h]
        /\ slots' = [k \in Key |-> IF k \in K THEN slots[k] + 1 ELSE slots[k]]
    BY <1>2 DEF EnterHold, Acquired
  <2>4. hold[r].keys = {}
    BY DEF EnterHold, SlotInv
  <2> HIDE DEF K, h
  <2>5. /\ hold' \in [Request -> Hold] /\ hold'[r] = h
        /\ \A q \in Request \ {r} : hold'[q] = hold[q]
    BY <1>0, <2>2, <2>3
  <2>6. \A q \in Request : hold'[q].st = "no" => hold'[q].keys = {}
    BY <2>2, <2>5 DEF SlotInv, Held
  <2>7. ASSUME NEW k \in Key
        PROVE  /\ IsFiniteSet(Holders(k)') /\ slots'[k] = Cardinality(Holders(k)')
               /\ slots'[k] \in 0..HoldCap
    <3>1. /\ IsFiniteSet(Holders(k)) /\ slots[k] = Cardinality(Holders(k))
          /\ slots[k] \in Nat /\ slots[k] <= HoldCap
      BY <1>0, HoldBoundsArePositive DEF SlotInv
    <3>2. r \notin Holders(k)
      BY <2>4 DEF Holders
    <3>3. CASE k \in K
      <4>1. Holders(k)' = Holders(k) \cup {r}
        BY <2>2, <2>5, <3>3 DEF Holders
      <4>2. slots'[k] = slots[k] + 1 /\ slots[k] < HoldCap
        BY <1>2, <2>3, <3>3
      <4>3. /\ IsFiniteSet(Holders(k) \cup {r})
            /\ Cardinality(Holders(k) \cup {r}) = Cardinality(Holders(k)) + 1
        BY <3>1, <3>2, FS_AddElement
      <4> QED BY <3>1, <4>1, <4>2, <4>3, HoldBoundsArePositive
    <3>4. CASE k \notin K
      <4>1. Holders(k)' = Holders(k)
        BY <2>2, <2>4, <2>5, <3>4 DEF Holders
      <4>2. slots'[k] = slots[k]
        BY <2>3, <3>4
      <4> QED BY <1>0, <3>1, <4>1, <4>2
    <3> QED BY <3>3, <3>4
  <2>8. slots' \in [Key -> 0..HoldCap]
    BY <2>3, <2>7
  <2> QED BY <2>5, <2>6, <2>7, <2>8 DEF SlotInv, HoldTypeOK, Held
<1> QED BY <1>1, <1>2

\* Moving a hold to another point of its loop keeps its slots.
LEMMA MovedHold ==
    ASSUME SlotInv, NEW r \in Request, NEW st \in {"wake", "round", "pending"},
           Held(r), InState(r, st)
    PROVE  KeepsSlots
<1>0. hold \in [Request -> Hold] /\ hold[r] \in Hold
  BY DEF SlotInv, HoldTypeOK
<1> DEFINE h == [hold[r] EXCEPT !.st = st]
<1>1. h \in Hold /\ h.keys = hold[r].keys /\ h.st = st
  BY <1>0 DEF Hold
<1>2. hold' = [hold EXCEPT ![r] = h] /\ slots' = slots
  BY <1>0 DEF InState
<1> HIDE DEF h
<1> QED BY <1>0, <1>1, <1>2 DEF KeepsSlots

\* A tick takes time from the budgets and nothing from the slots.
LEMMA TickKeepsSlots == SlotInv /\ HoldTick => KeepsSlots
<1> SUFFICES ASSUME SlotInv, HoldTick PROVE KeepsSlots
  OBVIOUS
<1>0. hold \in [Request -> Hold]
  BY DEF SlotInv, HoldTypeOK
<1>1. ASSUME NEW r \in Request
      PROVE  /\ hold'[r] \in Hold /\ hold'[r].keys = hold[r].keys
             /\ hold'[r].st = hold[r].st
  <2>1. hold[r] \in Hold /\ hold[r].left \in 0..HoldBudget
    BY <1>0 DEF Hold
  <2>2. hold'[r] = IF hold[r].left > 0 THEN [hold[r] EXCEPT !.left = hold[r].left - 1]
                   ELSE hold[r]
    BY DEF HoldTick
  <2>3. hold[r].left > 0 => hold[r].left - 1 \in 0..HoldBudget
    BY <2>1, HoldBoundsArePositive
  <2> QED BY <2>1, <2>2, <2>3 DEF Hold
<1>2. hold' = [r \in Request |-> hold'[r]]
  BY DEF HoldTick
<1>3. hold' \in [Request -> Hold]
  BY <1>1, <1>2
<1> QED BY <1>1, <1>3 DEF KeepsSlots, HoldTick

\* A step of one request begins a hold, ends one, or moves one along.
LEMMA SlotRequestStep ==
  ASSUME SlotInv, NEW r \in Request,
         \/ FreeStep(r)
         \/ Recover(r) /\ UNCHANGED holdVars
         \/ NoHoldForIt(r)
         \/ \E P \in SUBSET Key : EnterHold(r, P)
         \/ \E m \in Key : SkipCandidate(r, m) \/ AttemptCandidate(r, m)
         \/ \E hint \in Hints : RetripInRound(r, hint)
         \/ FailureInRound(r) \/ Served(r) \/ ClientLeaves(r)
         \/ HoldStep(r)
  PROVE  SlotInv'
<1>0. InRound(r) \/ hold[r].st = "wake" => Held(r)
  BY DEF InRound, Held
<1>1. ASSUME UNCHANGED holdVars PROVE SlotInv'
  BY <1>1, KeptSlots DEF holdVars, KeepsSlots, SlotInv, HoldTypeOK
<1>2. ASSUME Held(r), InState(r, "wake") \/ InState(r, "round") \/ InState(r, "pending")
      PROVE  SlotInv'
  BY <1>2, MovedHold, KeptSlots
<1>3. CASE FreeStep(r) \/ (Recover(r) /\ UNCHANGED holdVars) \/ NoHoldForIt(r)
  BY <1>1, <1>3 DEF FreeStep, NoHoldForIt
<1>4. CASE \E P \in SUBSET Key : EnterHold(r, P)
  BY <1>4, EnteredHold
<1>5. CASE \E m \in Key : SkipCandidate(r, m) \/ AttemptCandidate(r, m)
  BY <1>0, <1>1, <1>2, <1>5 DEF SkipCandidate, AttemptCandidate
<1>6. CASE \E hint \in Hints : RetripInRound(r, hint)
  BY <1>0, <1>2, <1>6 DEF RetripInRound
<1>7. CASE FailureInRound(r) \/ Served(r) \/ ClientLeaves(r)
  BY <1>1, <1>7, EndedHold DEF FailureInRound, Served, ClientLeaves
<1>8. CASE HoldStep(r)
  BY <1>0, <1>2, <1>8, EndedHold
     DEF HoldStep, ExitAtBudget, StartRound, EmptyRound, BudgetAbort, EndRound
<1> QED BY <1>3, <1>4, <1>5, <1>6, <1>7, <1>8

\* Every step of the composition keeps the count.
LEMMA SlotStep == SlotInv /\ [HoldNext]_allVars => SlotInv'
<1> SUFFICES ASSUME SlotInv, [HoldNext]_allVars PROVE SlotInv'
  OBVIOUS
<1>1. ASSUME UNCHANGED holdVars PROVE SlotInv'
  BY <1>1, KeptSlots DEF holdVars, KeepsSlots, SlotInv, HoldTypeOK
<1>2. CASE UNCHANGED allVars \/ (OperatorClear /\ UNCHANGED holdVars)
  BY <1>1, <1>2 DEF allVars
<1>3. CASE HoldTick
  BY <1>3, TickKeepsSlots, KeptSlots
<1> QED BY <1>2, <1>3, SlotRequestStep DEF HoldNext

\* At the start nobody holds a slot.
LEMMA SlotInit == HoldInit => SlotInv
<1> SUFFICES ASSUME HoldInit PROVE SlotInv
  OBVIOUS
<1>1. NoHold \in Hold /\ NoHold.keys = {}
  BY HoldBoundsArePositive DEF NoHold, Hold
<1>2. \A r \in Request : hold[r] = NoHold
  BY DEF HoldInit
<1>3. HoldTypeOK
  BY <1>1, HoldBoundsArePositive DEF HoldInit, HoldTypeOK
<1>4. \A k \in Key : Holders(k) = {}
  BY <1>1, <1>2 DEF Holders
<1> QED BY <1>1, <1>2, <1>3, <1>4, FS_EmptySet DEF SlotInv, HoldInit

\* For any number of requests, buckets and slots: every slot counted by the
\* keyed semaphore belongs to a hold that is still there and every hold is
\* counted in all its slots, whatever key the finally block would compute now.
THEOREM SlotsAreExact == HoldSpec => []SlotsMatchHolds
<1>1. SlotInv => SlotsMatchHolds
  BY DEF SlotInv, SlotsMatchHolds, Holders
<1> QED BY <1>1, SlotInit, SlotStep, PTL DEF HoldSpec
=============================================================================
