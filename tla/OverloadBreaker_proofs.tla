------------------------ MODULE OverloadBreaker_proofs ------------------------
(****************************************************************************)
(* Proofs about OverloadBreaker, for every set of requests and families and *)
(* for every value of the bounds: type correctness, single flight of the    *)
(* probes, that no exit of an attempt leaks its lease, and that no late     *)
(* verdict closes an open bucket.                                           *)
(****************************************************************************)
EXTENDS OverloadBreaker, TLAPS

\* Outside a flight an attempt has no probe identity, no lease and no abort.
IdleIsClean ==
    \A r \in Request :
        /\ pc[r] # "flight" => probe[r] = 0 /\ token[r] = {} /\ ~aborted[r]
        /\ token[r] # {} => probe[r] # 0

\* A probe identity is minted once and belongs to one attempt.
ProbeIdsUnique ==
    /\ \A r \in Request : probe[r] <= probeIdCounter
    /\ \A r, s \in Request : r # s /\ probe[r] # 0 => probe[r] # probe[s]

IInv == TypeOK /\ IdleIsClean /\ ProbeIdsUnique /\ NoLeakedLease
               /\ ProbeOwnsItsLeases

\* What a settled token does to the buckets keeps them well formed.
LEMMA ReleaseType ==
    ASSUME NEW r \in Request, NEW b, DOMAIN b \subseteq Key,
           \A k \in DOMAIN b : b[k] \in Bucket
    PROVE  /\ DOMAIN ReleaseLeases(r, b) = DOMAIN b
           /\ \A k \in DOMAIN b : ReleaseLeases(r, b)[k] \in Bucket
  BY TicksArePositive, BoundsAreNat DEF ReleaseLeases, Bucket, LeasedTo

\* The cooldown a trip asks for is positive and at most the cap.
LEMMA UntilBounded ==
    ASSUME NEW hint \in Hints
    PROVE  normalizeUntil(hint) \in 1..MaxCooldown
  BY TicksArePositive DEF normalizeUntil, Hints

\* The buckets after a trip are well formed, and the tripped one is unleased.
LEMMA TrippedType ==
    ASSUME TypeOK, NEW k \in Key, NEW hint \in Hints,
           generationCounter < MaxGeneration
    PROVE  /\ DOMAIN Tripped(k, hint) = DOMAIN buckets \cup {k}
           /\ \A j \in DOMAIN Tripped(k, hint) : Tripped(k, hint)[j] \in Bucket
           /\ Tripped(k, hint)[k].probe = 0
           /\ \A j \in DOMAIN buckets \ {k} : Tripped(k, hint)[j] = buckets[j]
  BY UntilBounded, TicksArePositive, BoundsAreNat
     DEF TypeOK, Tripped, Bucket, Live

\* The type invariant is inductive.
LEMMA TypeStep ==
    ASSUME TypeOK, [Next]_vars
    PROVE  TypeOK'
<1> USE TicksArePositive, BoundsAreNat
<1>1. CASE \E r \in Request, m \in Key : Refuse(r, m) \/ AdmitFree(r, m)
  BY <1>1 DEF TypeOK, Refuse, AdmitFree, breakerVars
<1>2. ASSUME NEW r \in Request, NEW m \in Key, AdmitProbe(r, m)
      PROVE  TypeOK'
  <2>1. DOMAIN buckets' = DOMAIN buckets /\ \A k \in DOMAIN buckets : buckets'[k] \in Bucket
    BY <1>2 DEF TypeOK, AdmitProbe, Bucket, relevantKeys, LeasedTo
  <2>2. token' \in [Request -> SUBSET Lease]
    BY <1>2 DEF TypeOK, AdmitProbe, Bucket, Lease, relevantKeys
  <2> QED BY <1>2, <2>1, <2>2 DEF TypeOK, AdmitProbe, AbortedBy
<1>3. ASSUME NEW r \in Request, NEW hint \in Hints, Trip(r, hint)
      PROVE  TypeOK'
  <2>1. model[r] \in Key /\ generationCounter < MaxGeneration
    BY <1>3 DEF Trip, TypeOK
  <2>2. DOMAIN buckets' \subseteq Key /\ \A k \in DOMAIN buckets' : buckets'[k] \in Bucket
    <3> DEFINE B == Tripped(model[r], hint)
    <3>1. DOMAIN B \subseteq Key /\ \A k \in DOMAIN B : B[k] \in Bucket
      <4>1. /\ DOMAIN B = DOMAIN buckets \cup {model[r]}
            /\ \A k \in DOMAIN B : B[k] \in Bucket
        BY <2>1, TrippedType
      <4>2. DOMAIN buckets \subseteq Key
        BY DEF TypeOK
      <4> QED BY <2>1, <4>1, <4>2
    <3>2. buckets' = ReleaseLeases(r, B)
      BY <1>3 DEF Trip
    <3> HIDE DEF B
    <3> QED BY <3>1, <3>2, ReleaseType
  <2>3. aborted' \in [Request -> BOOLEAN]
    BY <1>3 DEF Trip, TypeOK, AbortedBy
  <2> QED BY <1>3, <2>2, <2>3 DEF Trip, TypeOK, EndAttempt, Key
<1>4. ASSUME NEW r \in Request, Recover(r)
      PROVE  TypeOK'
  BY <1>4 DEF TypeOK, Recover, CloseLeased
<1>5. ASSUME NEW r \in Request, Finish(r)
      PROVE  TypeOK'
  BY <1>5, ReleaseType DEF TypeOK, Finish, EndAttempt, Key
<1>6. ASSUME NEW r \in Request, GiveUp(r)
      PROVE  TypeOK'
  BY <1>6 DEF TypeOK, GiveUp, breakerVars, Key
<1>7. CASE OperatorClear
  BY <1>7 DEF TypeOK, OperatorClear
<1>8. CASE Tick
  BY <1>8 DEF TypeOK, Tick, attemptVars, Bucket, Aged
<1>9. CASE UNCHANGED vars
  BY <1>9 DEF TypeOK, vars, breakerVars, attemptVars
<1> QED BY <1>1, <1>2, <1>3, <1>4, <1>5, <1>6, <1>7, <1>8, <1>9 DEF Next

\* Type correctness of the breaker and its attempts.
THEOREM TypeCorrect == Spec => []TypeOK
<1>1. Init => TypeOK
  BY TicksArePositive, BoundsAreNat DEF Init, TypeOK, Key
<1> QED BY <1>1, TypeStep, PTL DEF Spec

-----------------------------------------------------------------------------
\* The keys a completion acts on carry the probe of the completing attempt.
LEMMA CurrentKeysOwned ==
    ASSUME NEW r \in Request, NEW b, NEW k \in CurrentKeys(r, b)
    PROVE  /\ k \in DOMAIN b
           /\ b[k].probe = probe[r]
           /\ [key |-> k, generation |-> b[k].generation] \in token[r]
  BY DEF CurrentKeys

\* Releasing the leases of r leaves the buckets leased to other probes alone
\* and leaves none leased to r.
LEMMA ReleaseEffect ==
    ASSUME IInv, NEW r \in Request, NEW b,
           \A k \in DOMAIN b : b[k] \in Bucket,
           \A k \in DOMAIN b : b[k].probe # 0 => k \in DOMAIN buckets /\ b[k] = buckets[k],
           NEW k \in DOMAIN b
    PROVE  LET c == ReleaseLeases(r, b)[k]
           IN /\ c.generation = b[k].generation
              /\ c.probe # 0 => c = b[k] /\ k \in DOMAIN buckets /\ c = buckets[k]
              /\ c.probe # 0 => c.probe # probe[r]
              /\ b[k].probe # probe[r] => c = b[k]
<1>1. CASE k \in CurrentKeys(r, b)
  BY <1>1, CurrentKeysOwned DEF ReleaseLeases, LeasedTo
<1>2. CASE k \notin CurrentKeys(r, b)
  <2>1. ReleaseLeases(r, b)[k] = b[k]
    BY <1>2 DEF ReleaseLeases
  <2>2. ASSUME b[k].probe # 0, b[k].probe = probe[r] PROVE FALSE
    <3>1. k \in DOMAIN buckets /\ b[k] = buckets[k]
      BY <2>2
    <3>2. PICK s \in Request :
             /\ probe[s] = buckets[k].probe
             /\ [key |-> k, generation |-> buckets[k].generation] \in token[s]
      BY <2>2, <3>1 DEF IInv, NoLeakedLease
    <3>3. s = r
      BY <2>2, <3>1, <3>2 DEF IInv, ProbeIdsUnique
    <3> QED BY <1>2, <2>2, <3>1, <3>2, <3>3 DEF CurrentKeys
  <2> QED BY <2>1, <2>2
<1> QED BY <1>1, <1>2

\* Settling r's token in the buckets b and ending the attempt keeps the
\* invariant, provided whoever lost a lease on the way to b was aborted.
LEMMA EndStep ==
    ASSUME IInv, TypeOK', NEW r \in Request, NEW b,
           \A k \in DOMAIN b : b[k] \in Bucket,
           \A k \in DOMAIN b : b[k].probe # 0 => k \in DOMAIN buckets /\ b[k] = buckets[k],
           buckets' = ReleaseLeases(r, b),
           EndAttempt(r),
           probeIdCounter' = probeIdCounter,
           aborted'[r] = FALSE,
           \A s \in Request \ {r} :
              /\ aborted[s] => aborted'[s]
              /\ aborted'[s] => aborted[s] \/ pc[s] = "flight"
              /\ Unsettled(s) /\ ~aborted'[s] /\ ~cleared[s] =>
                    \A l \in token[s] : l.key \in DOMAIN b /\ b[l.key] = buckets[l.key]
    PROVE  IInv'
<1>1. /\ pc' = [pc EXCEPT ![r] = "idle"]
      /\ probe' = [probe EXCEPT ![r] = 0]
      /\ token' = [token EXCEPT ![r] = {}]
      /\ cleared' = [cleared EXCEPT ![r] = FALSE]
  BY DEF EndAttempt
<1>2. IdleIsClean'
  BY <1>1 DEF IInv, TypeOK, IdleIsClean
<1>3. ProbeIdsUnique'
  BY <1>1, BoundsAreNat DEF IInv, TypeOK, ProbeIdsUnique
<1>4. DOMAIN buckets' = DOMAIN b
  BY DEF ReleaseLeases
<1>5. NoLeakedLease'
  <2> SUFFICES ASSUME NEW k \in DOMAIN buckets', buckets'[k].probe # 0
               PROVE  \E s \in Request :
                        /\ Unsettled(s)'
                        /\ probe'[s] = buckets'[k].probe
                        /\ [key |-> k, generation |-> buckets'[k].generation]
                              \in token'[s]
    BY DEF NoLeakedLease
  <2>1. /\ k \in DOMAIN buckets
        /\ buckets'[k] = buckets[k]
        /\ buckets[k].probe # probe[r]
    BY <1>4, ReleaseEffect
  <2>2. PICK s \in Request :
             /\ Unsettled(s)
             /\ probe[s] = buckets[k].probe
             /\ [key |-> k, generation |-> buckets[k].generation] \in token[s]
    BY <2>1 DEF IInv, NoLeakedLease
  <2>3. s # r
    BY <2>1, <2>2
  <2> QED BY <1>1, <2>1, <2>2, <2>3 DEF IInv, TypeOK, Unsettled
<1>6. ProbeOwnsItsLeases'
  <2> SUFFICES ASSUME NEW s \in Request, Unsettled(s)', ~aborted'[s], ~cleared'[s],
                      NEW l \in token'[s]
               PROVE  /\ l.key \in DOMAIN buckets'
                      /\ buckets'[l.key].generation = l.generation
                      /\ buckets'[l.key].probe = probe'[s]
    BY DEF ProbeOwnsItsLeases, Live
  <2>1. s # r
    BY <1>1 DEF IInv, TypeOK, Unsettled
  <2>2. /\ Unsettled(s) /\ ~cleared[s] /\ l \in token[s]
        /\ probe'[s] = probe[s]
    BY <1>1, <2>1 DEF IInv, TypeOK, Unsettled
  <2>3. ~aborted[s]
    BY <2>1
  <2>4. /\ buckets[l.key].generation = l.generation
        /\ buckets[l.key].probe = probe[s]
    BY <2>2, <2>3 DEF IInv, ProbeOwnsItsLeases
  <2>5. l.key \in DOMAIN b /\ b[l.key] = buckets[l.key]
    BY <2>1, <2>2
  <2>6. probe[s] # probe[r]
    BY <2>1, <2>2 DEF IInv, ProbeIdsUnique, IdleIsClean
  <2>7. buckets'[l.key] = b[l.key]
    BY <2>4, <2>5, <2>6, ReleaseEffect
  <2> QED BY <1>4, <2>2, <2>4, <2>5, <2>7
<1> QED BY <1>2, <1>3, <1>5, <1>6 DEF IInv

\* The inductive invariant is preserved by every step.
LEMMA InvStep ==
    ASSUME IInv, [Next]_vars
    PROVE  IInv'
<1> TypeOK'
  BY TypeStep DEF IInv
<1> USE TicksArePositive, BoundsAreNat
<1>1. ASSUME NEW r \in Request, NEW m \in Key, Refuse(r, m) \/ AdmitFree(r, m)
      PROVE  IInv'
  BY <1>1 DEF IInv, TypeOK, Refuse, AdmitFree, breakerVars, IdleIsClean,
     ProbeIdsUnique, NoLeakedLease, ProbeOwnsItsLeases, Unsettled, Live
<1>2. ASSUME NEW r \in Request, NEW m \in Key, AdmitProbe(r, m)
      PROVE  IInv'
  <2> DEFINE K == relevantKeys(m)
  <2>1. /\ K \subseteq DOMAIN buckets
        /\ DOMAIN buckets' = DOMAIN buckets
        /\ \A k \in K : /\ buckets'[k].generation = buckets[k].generation
                         /\ buckets'[k].probe = probeIdCounter + 1
        /\ \A k \in DOMAIN buckets \ K : buckets'[k] = buckets[k]
    BY <1>2 DEF AdmitProbe, relevantKeys, LeasedTo
  <2>2. /\ probe' = [probe EXCEPT ![r] = probeIdCounter + 1]
        /\ token' = [token EXCEPT ![r] =
              {[key |-> k, generation |-> buckets[k].generation] : k \in K}]
        /\ pc' = [pc EXCEPT ![r] = "flight"]
        /\ aborted' = AbortedBy(TakenOver(K))
        /\ cleared' = cleared
        /\ pc[r] # "flight"
        /\ probeIdCounter' = probeIdCounter + 1
        /\ K # {}
    BY <1>2 DEF AdmitProbe
  <2> HIDE DEF K
  <2>3. IdleIsClean'
    BY <2>2 DEF IInv, TypeOK, IdleIsClean, AbortedBy
  <2>4. ProbeIdsUnique'
    BY <2>2 DEF IInv, TypeOK, ProbeIdsUnique
  <2>5. NoLeakedLease'
    <3> SUFFICES ASSUME NEW k \in DOMAIN buckets', buckets'[k].probe # 0
                 PROVE  \E s \in Request :
                          /\ Unsettled(s)'
                          /\ probe'[s] = buckets'[k].probe
                          /\ [key |-> k, generation |-> buckets'[k].generation]
                                \in token'[s]
      BY DEF NoLeakedLease
    <3>1. CASE k \in K
      <4> DEFINE l == [key |-> k, generation |-> buckets[k].generation]
      <4>1. /\ token'[r] = {[key |-> j, generation |-> buckets[j].generation] : j \in K}
            /\ probe'[r] = probeIdCounter + 1
            /\ pc'[r] = "flight"
        BY <2>2 DEF IInv, TypeOK
      <4>2. l \in token'[r]
        BY <3>1, <4>1
      <4>3. buckets'[k].generation = buckets[k].generation /\ buckets'[k].probe = probe'[r]
        BY <2>1, <3>1, <4>1
      <4>4. Unsettled(r)'
        BY <4>1, <4>2 DEF Unsettled
      <4> QED BY <4>2, <4>3, <4>4
    <3>2. CASE k \notin K
      <4>1. PICK s \in Request :
               /\ Unsettled(s)
               /\ probe[s] = buckets[k].probe
               /\ [key |-> k, generation |-> buckets[k].generation] \in token[s]
        BY <2>1, <3>2 DEF IInv, NoLeakedLease
      <4>2. s # r
        BY <2>2, <4>1 DEF Unsettled
      <4> QED BY <2>1, <2>2, <3>2, <4>1, <4>2 DEF IInv, TypeOK, Unsettled
    <3> QED BY <3>1, <3>2
  <2>6. ProbeOwnsItsLeases'
    <3> SUFFICES ASSUME NEW s \in Request, Unsettled(s)', ~aborted'[s], ~cleared'[s],
                        NEW l \in token'[s]
                 PROVE  /\ l.key \in DOMAIN buckets'
                        /\ buckets'[l.key].generation = l.generation
                        /\ buckets'[l.key].probe = probe'[s]
      BY DEF ProbeOwnsItsLeases, Live
    <3>1. CASE s = r
      <4>1. /\ token'[r] = {[key |-> j, generation |-> buckets[j].generation] : j \in K}
            /\ probe'[r] = probeIdCounter + 1
        BY <2>2 DEF IInv, TypeOK
      <4>2. PICK k \in K : l = [key |-> k, generation |-> buckets[k].generation]
        BY <3>1, <4>1
      <4> QED BY <2>1, <3>1, <4>1, <4>2
    <3>2. CASE s # r
      <4>1. Unsettled(s) /\ ~aborted[s] /\ ~cleared[s] /\ l \in token[s]
        BY <2>2, <3>2 DEF IInv, TypeOK, Unsettled, AbortedBy
      <4>2. /\ l.key \in DOMAIN buckets
            /\ buckets[l.key].generation = l.generation
            /\ buckets[l.key].probe = probe[s]
        BY <4>1 DEF IInv, ProbeOwnsItsLeases, Live
      <4>3. l.key \notin K
        <5>1. probe[s] # 0 /\ pc[s] = "flight"
          BY <4>1 DEF IInv, IdleIsClean, Unsettled
        <5>2. probe[s] \notin TakenOver(K)
          BY <2>2, <5>1, <3>2 DEF AbortedBy
        <5> QED BY <4>2, <5>1, <5>2 DEF TakenOver
      <4> QED BY <2>1, <2>2, <3>2, <4>2, <4>3 DEF IInv, TypeOK
    <3> QED BY <3>1, <3>2
  <2> QED BY <2>3, <2>4, <2>5, <2>6 DEF IInv
<1>3. ASSUME NEW r \in Request, NEW hint \in Hints, Trip(r, hint)
      PROVE  IInv'
  <2> DEFINE b == Tripped(model[r], hint)
  <2>1. model[r] \in Key /\ generationCounter < MaxGeneration /\ TypeOK
    BY <1>3 DEF Trip, IInv, TypeOK
  <2>2. /\ DOMAIN b = DOMAIN buckets \cup {model[r]}
        /\ \A k \in DOMAIN b : b[k] \in Bucket
        /\ b[model[r]].probe = 0
        /\ \A k \in DOMAIN buckets \ {model[r]} : b[k] = buckets[k]
    BY <2>1, TrippedType
  <2>3. /\ buckets' = ReleaseLeases(r, b)
        /\ EndAttempt(r)
        /\ probeIdCounter' = probeIdCounter
        /\ aborted' = [AbortedBy(LosesLease(r, model[r])) EXCEPT ![r] = FALSE]
    BY <1>3 DEF Trip
  <2> HIDE DEF b
  <2>4. aborted'[r] = FALSE
    BY <2>3 DEF AbortedBy
  <2>5. ASSUME NEW s \in Request \ {r}
        PROVE  /\ aborted[s] => aborted'[s]
               /\ aborted'[s] => aborted[s] \/ pc[s] = "flight"
               /\ pc[s] = "flight" /\ ~aborted'[s] => probe[s] \notin LosesLease(r, model[r])
    BY <2>3 DEF AbortedBy
  <2>6. ASSUME NEW s \in Request \ {r}, Unsettled(s), ~aborted'[s], ~cleared[s],
               NEW l \in token[s]
        PROVE  l.key \in DOMAIN b /\ b[l.key] = buckets[l.key]
    <3>1. /\ l.key \in DOMAIN buckets
          /\ buckets[l.key].probe = probe[s]
      BY <2>5, <2>6 DEF IInv, ProbeOwnsItsLeases, Live
    <3>2. probe[s] # 0 /\ probe[s] # probe[r]
      BY <2>6 DEF IInv, IdleIsClean, ProbeIdsUnique
    <3>3. l.key # model[r]
      BY <2>5, <2>6, <3>1, <3>2 DEF LosesLease, Unsettled, Live
    <3> QED BY <2>2, <3>1, <3>3
  <2> QED BY <2>2, <2>3, <2>4, <2>5, <2>6, EndStep
<1>4. ASSUME NEW r \in Request, Recover(r)
      PROVE  IInv'
  <2>1. /\ buckets' = CloseLeased(r, buckets)
        /\ token' = [token EXCEPT ![r] = {}]
        /\ UNCHANGED <<probeIdCounter, pc, probe, aborted, cleared>>
    BY <1>4 DEF Recover
  <2>2. IdleIsClean' /\ ProbeIdsUnique'
    BY <2>1 DEF IInv, TypeOK, IdleIsClean, ProbeIdsUnique
  <2>3. ASSUME NEW k \in DOMAIN buckets', NEW s \in Request,
               probe[s] = buckets[k].probe, buckets[k].probe # 0,
               [key |-> k, generation |-> buckets[k].generation] \in token[s]
        PROVE  s # r
    BY <2>1, <2>3 DEF CloseLeased, CurrentKeys
  <2>4. DOMAIN buckets' \subseteq DOMAIN buckets /\ \A k \in DOMAIN buckets' : buckets'[k] = buckets[k]
    BY <2>1 DEF CloseLeased
  <2>5. NoLeakedLease'
    BY <2>1, <2>3, <2>4 DEF IInv, TypeOK, NoLeakedLease, Unsettled
  <2>6. ProbeOwnsItsLeases'
    <3> SUFFICES ASSUME NEW s \in Request, Unsettled(s)', ~aborted'[s], ~cleared'[s],
                        NEW l \in token'[s]
                 PROVE  /\ l.key \in DOMAIN buckets'
                        /\ buckets'[l.key].generation = l.generation
                        /\ buckets'[l.key].probe = probe'[s]
      BY DEF ProbeOwnsItsLeases, Live
    <3>1. s # r /\ Unsettled(s) /\ l \in token[s]
      BY <2>1 DEF IInv, TypeOK, Unsettled
    <3>2. /\ l.key \in DOMAIN buckets
          /\ buckets[l.key].generation = l.generation
          /\ buckets[l.key].probe = probe[s]
      BY <2>1, <3>1 DEF IInv, ProbeOwnsItsLeases, Live
    <3>3. probe[s] # probe[r]
      BY <3>1 DEF IInv, IdleIsClean, ProbeIdsUnique
    <3>4. l.key \in DOMAIN buckets'
      BY <2>1, <3>2, <3>3 DEF CloseLeased, CurrentKeys
    <3> QED BY <2>1, <2>4, <3>2, <3>4
  <2> QED BY <2>2, <2>5, <2>6 DEF IInv
<1>5. ASSUME NEW r \in Request, Finish(r)
      PROVE  IInv'
  <2>1. \A k \in DOMAIN buckets : buckets[k] \in Bucket
    BY DEF IInv, TypeOK
  <2>2. /\ buckets' = ReleaseLeases(r, buckets)
        /\ EndAttempt(r)
        /\ probeIdCounter' = probeIdCounter
        /\ aborted' = [aborted EXCEPT ![r] = FALSE]
    BY <1>5 DEF Finish
  <2>3. aborted'[r] = FALSE /\ \A s \in Request \ {r} : aborted'[s] = aborted[s]
    BY <2>2 DEF IInv, TypeOK
  <2>4. \A s \in Request : Unsettled(s) /\ ~aborted[s] /\ ~cleared[s] =>
           \A l \in token[s] : l.key \in DOMAIN buckets
    BY DEF IInv, ProbeOwnsItsLeases, Live
  <2> QED BY <2>1, <2>2, <2>3, <2>4, EndStep
<1>6. ASSUME NEW r \in Request, GiveUp(r)
      PROVE  IInv'
  BY <1>6 DEF IInv, TypeOK, GiveUp, breakerVars, IdleIsClean,
     ProbeIdsUnique, NoLeakedLease, ProbeOwnsItsLeases, Unsettled, Live
<1>7. CASE OperatorClear
  BY <1>7 DEF IInv, TypeOK, OperatorClear, IdleIsClean,
     ProbeIdsUnique, NoLeakedLease, ProbeOwnsItsLeases, Unsettled
<1>8. CASE Tick
  <2>1. /\ DOMAIN buckets' = DOMAIN buckets
        /\ \A k \in DOMAIN buckets : /\ buckets'[k].probe = buckets[k].probe
                                      /\ buckets'[k].generation = buckets[k].generation
        /\ UNCHANGED <<probeIdCounter, attemptVars>>
    BY <1>8 DEF Tick, Aged
  <2> QED BY <2>1 DEF IInv, IdleIsClean, ProbeIdsUnique, NoLeakedLease,
             ProbeOwnsItsLeases, Unsettled, Live, attemptVars
<1>9. CASE UNCHANGED vars
  BY <1>9 DEF IInv, vars, breakerVars, attemptVars, IdleIsClean, ProbeIdsUnique,
     NoLeakedLease, ProbeOwnsItsLeases, Unsettled, Live
<1> QED BY <1>1, <1>2, <1>3, <1>4, <1>5, <1>6, <1>7, <1>8, <1>9 DEF Next

\* The strengthened invariant holds to begin with.
LEMMA InvInit == Init => IInv
  BY TypeCorrect, TicksArePositive, BoundsAreNat
     DEF Init, IInv, TypeOK, Key, IdleIsClean, ProbeIdsUnique, NoLeakedLease,
         ProbeOwnsItsLeases, Unsettled

\* It rules out two running probes of one bucket: both would own its lease.
LEMMA InvSingleFlight == IInv => SingleFlight
<1> SUFFICES ASSUME IInv, NEW r \in Request, NEW s \in Request, r # s,
                    Unsettled(r), ~aborted[r], ~cleared[r],
                    Unsettled(s), ~aborted[s], ~cleared[s],
                    NEW l \in token[r], NEW m \in token[s], l.key = m.key
             PROVE  FALSE
  BY DEF SingleFlight
<1>1. buckets[l.key].probe = probe[r] /\ buckets[m.key].probe = probe[s]
  BY DEF IInv, ProbeOwnsItsLeases
<1>2. probe[r] # 0
  BY DEF IInv, IdleIsClean, Unsettled
<1> QED BY <1>1, <1>2 DEF IInv, ProbeIdsUnique

\* The strengthened invariant holds throughout.
LEMMA Invariance == Spec => []IInv
  BY InvInit, InvStep, PTL DEF Spec

\* A probe that runs on has lost none of its leases: every re-trip and every
\* take-over aborts the probe it displaces.
THEOREM ProbesOwnTheirLeases == Spec => []ProbeOwnsItsLeases
<1>1. IInv => ProbeOwnsItsLeases
  BY DEF IInv
<1> QED BY <1>1, Invariance, PTL

\* No exit of an attempt leaks the lease it holds on a half-open bucket.
THEOREM LeasesAreNotLeaked == Spec => []NoLeakedLease
<1>1. IInv => NoLeakedLease
  BY DEF IInv
<1> QED BY <1>1, Invariance, PTL

\* At most one running probe tests a bucket, for any number of requests.
THEOREM ProbesAreSingleFlight == Spec => []SingleFlight
  BY InvSingleFlight, Invariance, PTL

-----------------------------------------------------------------------------
(* Late verdicts *)

\* A lease is only ever held on a bucket whose deadline has passed.
LeasedIsHalfOpen ==
    \A k \in DOMAIN buckets : buckets[k].probe # 0 => buckets[k].remaining = 0

\* It is inductive: a trip, the one step that sets a deadline ahead, takes the
\* lease away.
LEMMA HalfOpenStep ==
    ASSUME IInv, LeasedIsHalfOpen, [Next]_vars
    PROVE  LeasedIsHalfOpen'
<1>0. TypeOK
  BY DEF IInv
<1>1. ASSUME NEW r \in Request, NEW b,
             \A k \in DOMAIN b : b[k].probe # 0 => b[k].remaining = 0
      PROVE  \A k \in DOMAIN ReleaseLeases(r, b) :
                ReleaseLeases(r, b)[k].probe # 0 => ReleaseLeases(r, b)[k].remaining = 0
  BY <1>1 DEF ReleaseLeases, LeasedTo
<1>2. ASSUME NEW r \in Request, NEW m \in Key, AdmitProbe(r, m)
      PROVE  LeasedIsHalfOpen'
  BY <1>2 DEF AdmitProbe, Admissible, HalfOpen, LeasedIsHalfOpen, LeasedTo
<1>3. ASSUME NEW r \in Request, NEW hint \in Hints, Trip(r, hint)
      PROVE  LeasedIsHalfOpen'
  <2> DEFINE B == Tripped(model[r], hint)
  <2>1. /\ DOMAIN B = DOMAIN buckets \cup {model[r]} /\ B[model[r]].probe = 0
        /\ \A j \in DOMAIN buckets \ {model[r]} : B[j] = buckets[j]
    BY <1>0, <1>3, TrippedType DEF Trip, TypeOK
  <2>2. \A k \in DOMAIN B : B[k].probe # 0 => B[k].remaining = 0
    <3> HIDE DEF B
    <3> QED BY <2>1 DEF LeasedIsHalfOpen
  <2>3. buckets' = ReleaseLeases(r, B)
    BY <1>3 DEF Trip
  <2> HIDE DEF B
  <2> QED BY <1>1, <2>2, <2>3 DEF LeasedIsHalfOpen
<1>4. ASSUME NEW r \in Request, Recover(r)
      PROVE  LeasedIsHalfOpen'
  BY <1>4 DEF Recover, CloseLeased, LeasedIsHalfOpen
<1>5. ASSUME NEW r \in Request, Finish(r)
      PROVE  LeasedIsHalfOpen'
  BY <1>1, <1>5 DEF Finish, LeasedIsHalfOpen
<1>6. CASE OperatorClear
  BY <1>6 DEF OperatorClear, LeasedIsHalfOpen
<1>7. CASE Tick
  BY <1>7 DEF Tick, Aged, LeasedIsHalfOpen
<1>8. ASSUME UNCHANGED buckets PROVE LeasedIsHalfOpen'
  BY <1>8 DEF LeasedIsHalfOpen
<1> QED BY <1>2, <1>3, <1>4, <1>5, <1>6, <1>7, <1>8
        DEF Next, Refuse, AdmitFree, GiveUp, vars, breakerVars

\* At the start there is no bucket.
LEMMA HalfOpenInit == Init => LeasedIsHalfOpen
  BY DEF Init, LeasedIsHalfOpen

\* What one step can do to an open bucket: a settlement finds no lease on it.
LEMMA OpenStep ==
    ASSUME IInv, LeasedIsHalfOpen, [Next]_vars, ~OperatorClear, ~Tick,
           NEW k \in Key, Open(k)
    PROVE  k \in DOMAIN buckets' /\ buckets'[k].remaining >= buckets[k].remaining
<1>0. /\ k \in DOMAIN buckets /\ buckets[k].remaining > 0 /\ buckets[k].remaining \in Nat
      /\ buckets[k].remaining >= buckets[k].remaining
  <2>1. buckets[k] \in Bucket /\ k \in DOMAIN buckets /\ buckets[k].remaining > 0
    BY DEF Open, Live, IInv, TypeOK
  <2>2. buckets[k].remaining \in Nat
    BY <2>1, TicksArePositive DEF Bucket
  <2> QED BY <2>1, <2>2
<1>1. \A r \in Request : k \notin CurrentKeys(r, buckets)
  <2>1. buckets[k].probe = 0
    BY <1>0 DEF LeasedIsHalfOpen
  <2> QED BY <2>1 DEF CurrentKeys, IInv, IdleIsClean
<1>2. ASSUME NEW r \in Request, NEW m \in Key, AdmitProbe(r, m)
      PROVE  k \in DOMAIN buckets' /\ buckets'[k].remaining >= buckets[k].remaining
  BY <1>0, <1>2 DEF AdmitProbe, LeasedTo
<1>3. ASSUME NEW r \in Request, NEW hint \in Hints, Trip(r, hint)
      PROVE  k \in DOMAIN buckets' /\ buckets'[k].remaining >= buckets[k].remaining
  <2> DEFINE B == Tripped(model[r], hint)
  <2>1. k \in DOMAIN B /\ B[k].remaining >= buckets[k].remaining
    <3>1. normalizeUntil(hint) \in Nat
      BY UntilBounded, TicksArePositive
    <3> QED BY <1>0, <3>1 DEF Tripped, Live
  <2>2. buckets' = ReleaseLeases(r, B)
    BY <1>3 DEF Trip
  <2> HIDE DEF B
  <2>3. DOMAIN buckets' = DOMAIN B /\ buckets'[k].remaining = B[k].remaining
    BY <2>1, <2>2 DEF ReleaseLeases, LeasedTo
  <2> QED BY <2>1, <2>3
<1>4. ASSUME NEW r \in Request, Recover(r)
      PROVE  k \in DOMAIN buckets' /\ buckets'[k].remaining >= buckets[k].remaining
  BY <1>0, <1>1, <1>4 DEF Recover, CloseLeased
<1>5. ASSUME NEW r \in Request, Finish(r)
      PROVE  k \in DOMAIN buckets' /\ buckets'[k].remaining >= buckets[k].remaining
  BY <1>0, <1>1, <1>5 DEF Finish, ReleaseLeases
<1> QED BY <1>0, <1>2, <1>3, <1>4, <1>5
        DEF Next, Refuse, AdmitFree, GiveUp, vars, breakerVars

\* The step that the property asks of every transition.
LEMMA OpenAction ==
    IInv /\ LeasedIsHalfOpen /\ [Next]_vars =>
        [\A k \in Key : Open(k) =>
           \/ OperatorClear
           \/ /\ k \in DOMAIN buckets'
              /\ \/ buckets'[k].remaining >= buckets[k].remaining
                 \/ Tick]_vars
<1>1. ASSUME NEW k \in Key, Open(k), Tick
      PROVE  k \in DOMAIN buckets'
  BY <1>1 DEF Open, Live, Tick
<1> QED BY <1>1, OpenStep

\* Evidence of an overload outlives every verdict reached before it: neither
\* completeProviderOverloadProbe nor a trip with an earlier deadline closes an
\* open bucket or shortens its cooldown.
THEOREM OpenBucketsStayOpen == Spec => OpenSurvivesLateVerdicts
  BY OpenAction, Invariance, HalfOpenInit, HalfOpenStep, PTL
     DEF Spec, OpenSurvivesLateVerdicts
=============================================================================
