--------------------------- MODULE OverloadBreaker ---------------------------
(****************************************************************************)
(* The upstream-overload circuit breaker (provider-overload-cooldown.ts),   *)
(* together with the upstream attempts that trip it, probe it and settle it *)
(* (proxy-operations.ts, response-handler.ts).                              *)
(*                                                                          *)
(* One provider.  A bucket is keyed by a model family, or by the provider   *)
(* itself (Wide) for a model that resolves to no family.  No bucket means   *)
(* closed; a bucket whose deadline lies ahead is open; a bucket whose       *)
(* deadline has passed is half-open and admits a single probing attempt.    *)
(*                                                                          *)
(* Time is relative: a bucket stores how many ticks its deadline lies ahead *)
(* (0: it has passed) and a lease stores its age, saturated at the one      *)
(* threshold the breaker compares it with.  There is no clock to bound.     *)
(*                                                                          *)
(* The code's leaseId and probeId are minted together, so one number per    *)
(* admission, with the bucket key, identifies a lease; 0 stands for null.   *)
(****************************************************************************)
EXTENDS Integers

CONSTANTS
    Request,          \* attempts that can be in progress side by side
    Family,           \* model families
    Wide,             \* the provider-wide bucket key; as a model: no family
    DefaultCooldown,  \* DEFAULT_PROVIDER_OVERLOAD_COOLDOWN_MS, in ticks
    MaxCooldown,      \* MAX_PROVIDER_OVERLOAD_COOLDOWN_MS, in ticks
    AdmissionTtl,     \* PROBE_ADMISSION_TTL_MS, in ticks
    MaxGeneration,    \* bound: number of trips
    MaxProbe          \* bound: number of probes admitted

ASSUME KeysDistinct == Wide \notin Family
ASSUME TicksArePositive ==
    /\ DefaultCooldown \in Nat \ {0}
    /\ MaxCooldown \in Nat \ {0}
    /\ AdmissionTtl \in Nat \ {0}
    /\ DefaultCooldown <= MaxCooldown
ASSUME BoundsAreNat == MaxGeneration \in Nat /\ MaxProbe \in Nat

Key == Family \cup {Wide}

VARIABLES
    buckets,            \* the buckets Map: its domain is the set of live keys
    generationCounter,
    probeIdCounter,
    pc,                 \* "idle", "suppressed" (admission refused) or "flight"
    model,              \* the bucket key the attempt's model is attributed to
    probe,              \* probeId minted for the attempt, 0 for none
    token,              \* unsettled leases of the attempt's overloadProbeToken
    aborted,            \* the attempt's `displaced` AbortController has fired
    cleared             \* history: the operator cleared the breaker under the
                        \* attempt's unsettled token

breakerVars == <<buckets, generationCounter, probeIdCounter>>
attemptVars == <<pc, model, probe, token, aborted, cleared>>
vars == <<breakerVars, attemptVars>>

Bucket == [remaining : 0..MaxCooldown, generation : 1..MaxGeneration,
           probe : 0..MaxProbe, age : 0..AdmissionTtl]
Lease == [key : Key, generation : 1..MaxGeneration]

TypeOK ==
    /\ DOMAIN buckets \subseteq Key
    /\ \A k \in DOMAIN buckets : buckets[k] \in Bucket
    /\ generationCounter \in 0..MaxGeneration
    /\ probeIdCounter \in 0..MaxProbe
    /\ pc \in [Request -> {"idle", "suppressed", "flight"}]
    /\ model \in [Request -> Key]
    /\ probe \in [Request -> 0..MaxProbe]
    /\ token \in [Request -> SUBSET Lease]
    /\ aborted \in [Request -> BOOLEAN]
    /\ cleared \in [Request -> BOOLEAN]

-----------------------------------------------------------------------------
(* Queries *)

Live(k) == k \in DOMAIN buckets
Open(k) == Live(k) /\ buckets[k].remaining > 0
HalfOpen(k) == Live(k) /\ buckets[k].remaining = 0

\* The buckets that gate a model: its family's and the provider-wide one; a
\* model of no family is gated by every bucket of the provider.
relevantKeys(m) ==
    IF m = Wide THEN DOMAIN buckets ELSE {m, Wide} \cap DOMAIN buckets

\* Mutant: a lease blocks until its owner settles it, without a deadline.
BlocksUntilSettled(k) == buckets[k].probe # 0

isLeaseBlockingAdmission(k) ==
    buckets[k].probe # 0 /\ buckets[k].age < AdmissionTtl

\* Mutant: the hint is taken as it comes.
UncappedUntil(hint) == IF hint = 0 THEN DefaultCooldown ELSE hint

\* A reset hint that lies ahead is capped, any other is replaced by the
\* default (hint 0: absent, unusable or in the past).
normalizeUntil(hint) ==
    IF hint = 0 THEN DefaultCooldown
    ELSE IF hint > MaxCooldown THEN MaxCooldown ELSE hint

Hints == 0..(MaxCooldown + 1)

Admissible(m) ==
    \A k \in relevantKeys(m) : HalfOpen(k) /\ ~isLeaseBlockingAdmission(k)

\* The attempts aborted once the onDisplaced callbacks of the given probes
\* have fired.
AbortedBy(ids) ==
    [r \in Request |-> aborted[r] \/ (pc[r] = "flight" /\ probe[r] \in ids)]

\* A bucket whose lease is given to a probe (0: to nobody).
LeasedTo(b, id) == [remaining |-> b.remaining, generation |-> b.generation,
                    probe |-> id, age |-> 0]

-----------------------------------------------------------------------------
Init ==
    /\ buckets = [k \in {} |-> 0]
    /\ generationCounter = 0
    /\ probeIdCounter = 0
    /\ pc = [r \in Request |-> "idle"]
    /\ model = [r \in Request |-> Wide]
    /\ probe = [r \in Request |-> 0]
    /\ token = [r \in Request |-> {}]
    /\ aborted = [r \in Request |-> FALSE]
    /\ cleared = [r \in Request |-> FALSE]

(* tryAcquireProviderOverloadProbe and what proxyWithAccount does with its   *)
(* three answers.                                                            *)

\* Refused ("open" or "probe-active"): the attempt fails over without
\* contacting the upstream, and may be made again (a hold polls).
Refuse(r, m) ==
    /\ pc[r] \in {"idle", "suppressed"}
    /\ pc[r] = "suppressed" => m = model[r]
    /\ ~Admissible(m)
    /\ pc' = [pc EXCEPT ![r] = "suppressed"]
    /\ model' = [model EXCEPT ![r] = m]
    /\ UNCHANGED <<breakerVars, probe, token, aborted, cleared>>

\* Every relevant bucket is closed: admitted without a token.
AdmitFree(r, m) ==
    /\ pc[r] \in {"idle", "suppressed"}
    /\ pc[r] = "suppressed" => m = model[r]
    /\ relevantKeys(m) = {}
    /\ pc' = [pc EXCEPT ![r] = "flight"]
    /\ model' = [model EXCEPT ![r] = m]
    /\ UNCHANGED <<breakerVars, probe, token, aborted, cleared>>

\* Mutant: a take-over leaves the displaced attempt running.
TakenOverSilently(K) == {}

\* The probes displaced by a take-over of the leases on K.
TakenOver(K) == {buckets[k].probe : k \in K} \ {0}

\* Admitted as the probe of every relevant bucket, all half-open.  A lease
\* that no longer blocks admission is taken over and its owner is aborted.
AdmitProbe(r, m) ==
    /\ pc[r] \in {"idle", "suppressed"}
    /\ pc[r] = "suppressed" => m = model[r]
    /\ relevantKeys(m) # {}
    /\ Admissible(m)
    /\ probeIdCounter < MaxProbe
    /\ probeIdCounter' = probeIdCounter + 1
    /\ LET K == relevantKeys(m) IN
       /\ buckets' = [k \in DOMAIN buckets |->
                        IF k \in K THEN LeasedTo(buckets[k], probeIdCounter + 1)
                                   ELSE buckets[k]]
       /\ token' = [token EXCEPT ![r] =
                      {[key |-> k, generation |-> buckets[k].generation] : k \in K}]
       /\ aborted' = AbortedBy(TakenOver(K))
    /\ probe' = [probe EXCEPT ![r] = probeIdCounter + 1]
    /\ pc' = [pc EXCEPT ![r] = "flight"]
    /\ model' = [model EXCEPT ![r] = m]
    /\ UNCHANGED <<generationCounter, cleared>>

\* Mutant: a completion acts on the bucket whatever happened to it since.
NamedKeys(r, b) == {k \in DOMAIN b : \E l \in token[r] : l.key = k}

\* The leases of r's token that completeProviderOverloadProbe still acts on,
\* in the buckets b: bucket live, same generation, same lease identity.
CurrentKeys(r, b) ==
    {k \in DOMAIN b : /\ [key |-> k, generation |-> b[k].generation] \in token[r]
                      /\ b[k].probe = probe[r]}

\* Mutant: the token is dropped without releasing anything.
DropToken(r, b) == b

\* completeProviderOverloadProbe with "reopened" or "abandoned".
ReleaseLeases(r, b) ==
    [k \in DOMAIN b |->
        IF k \in CurrentKeys(r, b) THEN LeasedTo(b[k], 0) ELSE b[k]]

\* completeProviderOverloadProbe with "recovered".
CloseLeased(r, b) == [k \in DOMAIN b \ CurrentKeys(r, b) |-> b[k]]

\* The attempt's local variables end with it.
EndAttempt(r) ==
    /\ pc' = [pc EXCEPT ![r] = "idle"]
    /\ model' = [model EXCEPT ![r] = Wide]
    /\ probe' = [probe EXCEPT ![r] = 0]
    /\ token' = [token EXCEPT ![r] = {}]
    /\ cleared' = [cleared EXCEPT ![r] = FALSE]

\* applyProviderOverloadCooldown: the buckets after a trip of key k.
Tripped(k, hint) ==
    LET until == normalizeUntil(hint)
        old   == IF Live(k) THEN buckets[k].remaining ELSE 0
    IN [j \in DOMAIN buckets \cup {k} |->
          IF j = k
          THEN [remaining |-> IF old > until THEN old ELSE until,
                generation |-> generationCounter + 1, probe |-> 0, age |-> 0]
          ELSE buckets[j]]

\* Mutant: a re-trip drops the lease without cancelling its owner.
LosesNothing(r, k) == {}

\* The probe that loses its lease by r's trip of k, r's own excepted.
LosesLease(r, k) ==
    IF Live(k) THEN {buckets[k].probe} \ {0, IF token[r] = {} THEN 0 ELSE probe[r]}
               ELSE {}

\* A 529 status, or an overloaded_error frame in a stream: trip the bucket of
\* the attempt's model, abort the probe that loses its lease by it unless it
\* is the reporting attempt's own, then settle the attempt's token "reopened".
Trip(r, hint) ==
    /\ pc[r] = "flight"
    /\ generationCounter < MaxGeneration
    /\ generationCounter' = generationCounter + 1
    /\ buckets' = ReleaseLeases(r, Tripped(model[r], hint))
    /\ aborted' = [AbortedBy(LosesLease(r, model[r])) EXCEPT ![r] = FALSE]
    /\ EndAttempt(r)
    /\ UNCHANGED probeIdCounter

\* Health evidence (message_start, a clean end of stream, a 2xx): settle the
\* token "recovered".  The stream goes on and may still report an overload.
Recover(r) ==
    /\ pc[r] = "flight"
    /\ token[r] # {}
    /\ buckets' = CloseLeased(r, buckets)
    /\ token' = [token EXCEPT ![r] = {}]
    /\ UNCHANGED <<generationCounter, probeIdCounter, pc, model, probe, aborted,
                   cleared>>

\* Any other end of the attempt: failover, client gone, transport error (the
\* displacement abort too), rate limit, policy rejection, end of a stream
\* that has settled.  An unsettled token is settled "abandoned".
Finish(r) ==
    /\ pc[r] = "flight"
    /\ buckets' = ReleaseLeases(r, buckets)
    /\ aborted' = [aborted EXCEPT ![r] = FALSE]
    /\ EndAttempt(r)
    /\ UNCHANGED <<generationCounter, probeIdCounter>>

\* The walk over the candidates is over and the attempt was refused: the request
\* is held or answered with the 529; the attempt itself has ended.
GiveUp(r) ==
    /\ pc[r] = "suppressed"
    /\ pc' = [pc EXCEPT ![r] = "idle"]
    /\ model' = [model EXCEPT ![r] = Wide]
    /\ UNCHANGED <<breakerVars, probe, token, aborted, cleared>>

\* clearProviderOverloadCooldown: probes in flight are deliberately kept.
OperatorClear ==
    /\ DOMAIN buckets # {}
    /\ buckets' = [k \in {} |-> 0]
    /\ cleared' = [r \in Request |-> cleared[r] \/ token[r] # {}]
    /\ UNCHANGED <<generationCounter, probeIdCounter, pc, model, probe, token,
                   aborted>>

\* One tick later: deadlines come closer and leases grow older.
Aged(b) ==
    [remaining  |-> IF b.remaining > 0 THEN b.remaining - 1 ELSE 0,
     generation |-> b.generation,
     probe      |-> b.probe,
     age        |-> IF b.probe # 0 /\ b.age < AdmissionTtl THEN b.age + 1
                                                          ELSE b.age]

Tick ==
    /\ buckets' = [k \in DOMAIN buckets |-> Aged(buckets[k])]
    /\ buckets' # buckets
    /\ UNCHANGED <<generationCounter, probeIdCounter, attemptVars>>

Next ==
    \/ \E r \in Request, m \in Key :
          Refuse(r, m) \/ AdmitFree(r, m) \/ AdmitProbe(r, m)
    \/ \E r \in Request :
          \/ \E hint \in Hints : Trip(r, hint)
          \/ Recover(r)
          \/ Finish(r)
          \/ GiveUp(r)
    \/ OperatorClear
    \/ Tick

\* Only the passage of time is fair: an upstream may never answer, so no
\* attempt is assumed to end.
Spec == Init /\ [][Next]_vars /\ WF_vars(Tick)

-----------------------------------------------------------------------------
(* Properties *)

Unsettled(r) == pc[r] = "flight" /\ token[r] # {}

\* A probe that was neither aborted nor freed by an operator clear owns every
\* bucket its token names: whatever took a lease away from it (a re-trip, a
\* take-over) has aborted it, so its upstream request does not run on unseen.
ProbeOwnsItsLeases ==
    \A r \in Request : Unsettled(r) /\ ~aborted[r] /\ ~cleared[r] =>
        \A l \in token[r] :
            /\ Live(l.key)
            /\ buckets[l.key].generation = l.generation
            /\ buckets[l.key].probe = probe[r]

\* Single flight: no two running probes test the same bucket.  Outstanding
\* requests cannot pile up on a half-open upstream that never answers.
SingleFlight ==
    \A r, s \in Request :
        /\ r # s
        /\ Unsettled(r) /\ ~aborted[r] /\ ~cleared[r]
        /\ Unsettled(s) /\ ~aborted[s] /\ ~cleared[s]
        => \A l \in token[r], m \in token[s] : l.key # m.key

\* A lease always belongs to an attempt in flight that has still to settle it:
\* no exit of an attempt leaks the lease it holds.
NoLeakedLease ==
    \A k \in DOMAIN buckets : buckets[k].probe # 0 =>
        \E r \in Request : /\ Unsettled(r)
                           /\ probe[r] = buckets[k].probe
                           /\ [key |-> k, generation |-> buckets[k].generation]
                                \in token[r]

\* Evidence of an overload is not erased by a verdict reached earlier: while a
\* bucket is open only the operator removes it, and no step shortens its
\* deadline except the passage of time.
OpenSurvivesLateVerdicts ==
    [][\A k \in Key : Open(k) =>
         \/ OperatorClear
         \/ /\ k \in DOMAIN buckets'
            /\ \/ buckets'[k].remaining >= buckets[k].remaining
               \/ Tick]_vars

\* No convoy: a refused request is not refused for ever, even when no probe
\* ever answers.  Each lease stops blocking at its admission deadline.
EventuallyAdmissible ==
    \A r \in Request :
        pc[r] = "suppressed" ~> (pc[r] # "suppressed" \/ Admissible(model[r]))
=============================================================================
