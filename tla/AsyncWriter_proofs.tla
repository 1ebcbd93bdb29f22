-------------------------- MODULE AsyncWriter_proofs --------------------------
(****************************************************************************)
(* Proofs about AsyncWriter, for any set of requests and any caps: the      *)
(* budget is exact and within its caps, a payload is published only after   *)
(* its request row, and the shutdown leaves nothing behind.                 *)
(*                                                                          *)
(* The budget's byte counters are totals over the payloads.  A total is the *)
(* number of elements of a set of bytes, so that it is reasoned about with  *)
(* the theorems on finite sets; that this set is finite is carried along in *)
(* the invariant, as nothing is assumed about the number of requests.       *)
(****************************************************************************)
EXTENDS AsyncWriter, FiniteSetTheorems, SequenceTheorems, TLAPS

(* Totals *)

\* A byte of S is a byte of one of its payloads.
LEMMA BytesElements ==
    ASSUME NEW f, NEW S
    PROVE  \A p : p \in Bytes(f, S) <=>
                    \E r \in S : \E i \in 1..f[r] : p = <<r, i>>
  BY DEF Bytes

\* The bytes of one payload are as many as its size.
LEMMA BytesOfOne ==
    ASSUME NEW r, NEW n \in Nat
    PROVE  /\ IsFiniteSet({r} \X (1..n))
           /\ Cardinality({r} \X (1..n)) = n
<1> DEFINE f == [i \in 1..n |-> <<r, i>>]
<1>1. IsFiniteSet(1..n) /\ Cardinality(1..n) = n
  BY FS_Interval
<1>2. f \in Bijection(1..n, {r} \X (1..n))
  <2>1. f \in Injection(1..n, {r} \X (1..n))
    BY DEF Injection, IsInjective
  <2>2. f \in Surjection(1..n, {r} \X (1..n))
    <3>1. ASSUME NEW p \in {r} \X (1..n)
          PROVE  \E i \in 1..n : f[i] = p
      <4>1. PICK i \in 1..n : p = <<r, i>>
        OBVIOUS
      <4> QED BY <4>1
    <3>2. f \in [1..n -> {r} \X (1..n)]
      OBVIOUS
    <3> HIDE DEF f
    <3> QED BY <3>1, <3>2 DEF Surjection
  <2> QED BY <2>1, <2>2 DEF Bijection
<1>3. ExistsBijection(1..n, {r} \X (1..n))
  BY <1>2 DEF ExistsBijection
<1> QED BY <1>1, <1>3, FS_Bijection

\* A payload that joins adds its size to the total.
LEMMA TotalAdds ==
    ASSUME NEW f, NEW g, NEW S, NEW r, r \notin S, g[r] \in Nat,
           \A s \in S : g[s] = f[s], IsFiniteSet(Bytes(f, S))
    PROVE  /\ IsFiniteSet(Bytes(g, S \cup {r}))
           /\ Total(g, S \cup {r}) = Total(f, S) + g[r]
<1> DEFINE B == {r} \X (1..g[r])
<1>1. IsFiniteSet(B) /\ Cardinality(B) = g[r]
  BY BytesOfOne
<1>2. Bytes(g, S \cup {r}) = Bytes(f, S) \cup B
  BY DEF Bytes
<1>3. Bytes(f, S) \cap B = {}
  <2>1. ASSUME NEW p \in Bytes(f, S), p \in B PROVE FALSE
    <3>1. PICK s \in S : \E i \in 1..f[s] : p = <<s, i>>
      BY BytesElements
    <3>2. PICK i \in 1..f[s] : p = <<s, i>>
      BY <3>1
    <3>3. p[1] = r
      BY <2>1
    <3> QED BY <3>2, <3>3
  <2> QED BY <2>1
<1>4. Cardinality(Bytes(f, S)) \in Nat
  BY FS_CardinalityType
<1> HIDE DEF B
<1>5. /\ IsFiniteSet(Bytes(f, S) \cup B)
      /\ Cardinality(Bytes(f, S) \cup B) =
            Cardinality(Bytes(f, S)) + Cardinality(B) - Cardinality(Bytes(f, S) \cap B)
  BY <1>1, FS_Union
<1>6. Cardinality(Bytes(f, S) \cap B) = 0
  BY <1>3, FS_EmptySet
<1>7. Cardinality(Bytes(f, S) \cup B) = Cardinality(Bytes(f, S)) + g[r]
  BY <1>1, <1>4, <1>5, <1>6
<1> QED BY <1>2, <1>5, <1>7 DEF Total

\* Payloads that leave take their total along.
LEMMA TotalRemoves ==
    ASSUME NEW f, NEW S, NEW T, T \subseteq S, IsFiniteSet(Bytes(f, S))
    PROVE  /\ IsFiniteSet(Bytes(f, S \ T))
           /\ Total(f, S \ T) = Total(f, S) - Total(f, T)
           /\ Total(f, S) \in Nat /\ Total(f, T) \in Nat
           /\ Total(f, T) <= Total(f, S)
<1>1. Bytes(f, S \ T) = Bytes(f, S) \ Bytes(f, T)
  <2>1. ASSUME NEW p \in Bytes(f, S \ T) PROVE p \in Bytes(f, S) \ Bytes(f, T)
    <3>1. PICK s \in S \ T : \E i \in 1..f[s] : p = <<s, i>>
      BY BytesElements
    <3>2. PICK i \in 1..f[s] : p = <<s, i>>
      BY <3>1
    <3>3. p \in Bytes(f, S)
      BY <3>2, BytesElements
    <3>4. ASSUME p \in Bytes(f, T) PROVE FALSE
      <4>1. PICK t \in T : \E j \in 1..f[t] : p = <<t, j>>
        BY <3>4, BytesElements
      <4>2. PICK j \in 1..f[t] : p = <<t, j>>
        BY <4>1
      <4>3. s = t
        BY <3>2, <4>2
      <4> QED BY <4>3
    <3> QED BY <3>3, <3>4
  <2>2. ASSUME NEW p \in Bytes(f, S) \ Bytes(f, T) PROVE p \in Bytes(f, S \ T)
    <3>1. PICK s \in S : \E i \in 1..f[s] : p = <<s, i>>
      BY BytesElements
    <3>2. s \notin T
      BY <3>1, BytesElements
    <3> QED BY <3>1, <3>2, BytesElements
  <2> QED BY <2>1, <2>2
<1>2. Bytes(f, T) \subseteq Bytes(f, S)
  BY DEF Bytes
<1>3. Bytes(f, S) \cap Bytes(f, T) = Bytes(f, T)
  BY <1>2
<1>4. /\ IsFiniteSet(Bytes(f, S) \ Bytes(f, T))
      /\ Cardinality(Bytes(f, S) \ Bytes(f, T)) =
            Cardinality(Bytes(f, S)) - Cardinality(Bytes(f, S) \cap Bytes(f, T))
  BY FS_Difference
<1>5. /\ IsFiniteSet(Bytes(f, T))
      /\ Cardinality(Bytes(f, T)) <= Cardinality(Bytes(f, S))
  BY <1>2, FS_Subset
<1>6. Cardinality(Bytes(f, S)) \in Nat /\ Cardinality(Bytes(f, T)) \in Nat
  BY <1>5, FS_CardinalityType
<1> QED BY <1>1, <1>3, <1>4, <1>5, <1>6 DEF Total

\* Only the sizes of the payloads of S count.
LEMMA TotalDepends ==
    ASSUME NEW f, NEW g, NEW S, \A s \in S : g[s] = f[s]
    PROVE  Bytes(g, S) = Bytes(f, S) /\ Total(g, S) = Total(f, S)
<1>1. Bytes(g, S) = Bytes(f, S)
  BY DEF Bytes
<1> QED BY <1>1 DEF Total

\* The total over one payload is its size.
LEMMA TotalOfOne ==
    ASSUME NEW f, NEW r, f[r] \in Nat
    PROVE  Total(f, {r}) = f[r]
<1>1. Bytes(f, {r}) = {r} \X (1..f[r])
  BY DEF Bytes
<1> QED BY <1>1, BytesOfOne DEF Total

-----------------------------------------------------------------------------
(* The queue *)

JobState == {"none", "queued", "running", "done", "refused"}

\* The jobs' states, the queue and the job that runs say the same: a job is in
\* the queue once while it is queued, and it is the one that runs while it is
\* running.  Only the shutdown job exceeds the cap.
QueueOK(jb, q, run) ==
    /\ jb \in [Job -> JobState] /\ q \in Seq(Job) /\ run \in Job \cup {Idle}
    /\ Len(q) <= IF jb[Batch] = "none" THEN QueueCap ELSE QueueCap + 1
    /\ \A i \in 1..Len(q) : jb[q[i]] = "queued"
    /\ \A i, j \in 1..Len(q) : q[i] = q[j] => i = j
    /\ \A j \in Job : jb[j] = "queued" => \E i \in 1..Len(q) : q[i] = j
    /\ \A j \in Job : jb[j] = "running" <=> run = j

QueueInv ==
    /\ QueueOK(job, queue, running)
    /\ ticking \in BOOLEAN
    /\ ~ticking => running = Idle

\* A new job joins at the end.
LEMMA JobJoins ==
    ASSUME NEW jb, NEW q, NEW run, QueueOK(jb, q, run), NEW j \in Job,
           jb[j] = "none", j = Batch \/ Len(q) < QueueCap
    PROVE  QueueOK([jb EXCEPT ![j] = "queued"], Append(q, j), run)
<1> DEFINE jc == [jb EXCEPT ![j] = "queued"]
<1> DEFINE p == Append(q, j)
<1>0. jb \in [Job -> JobState] /\ q \in Seq(Job) /\ run \in Job \cup {Idle}
  BY DEF QueueOK
<1>1. /\ jc \in [Job -> JobState] /\ jc[j] = "queued"
      /\ \A k \in Job \ {j} : jc[k] = jb[k]
  BY <1>0 DEF JobState
<1>2. /\ p \in Seq(Job) /\ Len(p) = Len(q) + 1 /\ p[Len(q) + 1] = j
      /\ \A i \in 1..Len(q) : p[i] = q[i]
  BY <1>0, AppendProperties
<1>3. Len(q) \in Nat /\ \A i \in 1..Len(q) : q[i] \in Job
  BY <1>0
<1>4. \A i \in 1..Len(q) : q[i] # j
  BY <1>3 DEF QueueOK
<1> HIDE DEF jc, p
<1>5. Len(p) <= IF jc[Batch] = "none" THEN QueueCap ELSE QueueCap + 1
  <2>1. QueueCap \in Nat /\ Batch \in Job
    BY Caps DEF Job
  <2>2. Len(q) <= IF jb[Batch] = "none" THEN QueueCap ELSE QueueCap + 1
    BY DEF QueueOK
  <2>3. CASE j = Batch
    BY <1>1, <1>2, <1>3, <2>1, <2>2, <2>3
  <2>4. CASE j # Batch
    BY <1>1, <1>2, <1>3, <2>1, <2>2, <2>4
  <2> QED BY <2>3, <2>4
<1>6. \A i \in 1..Len(p) : i \in 1..Len(q) \/ i = Len(q) + 1
  BY <1>2, <1>3
<1>7. \A i \in 1..Len(p) : jc[p[i]] = "queued"
  BY <1>1, <1>2, <1>3, <1>4, <1>6 DEF QueueOK
<1>8. \A i, k \in 1..Len(p) : p[i] = p[k] => i = k
  BY <1>2, <1>3, <1>4, <1>6 DEF QueueOK
<1>9. \A k \in Job : jc[k] = "queued" => \E i \in 1..Len(p) : p[i] = k
  <2>1. ASSUME NEW k \in Job, jc[k] = "queued", k # j
        PROVE  \E i \in 1..Len(p) : p[i] = k
    <3>1. PICK i \in 1..Len(q) : q[i] = k
      BY <1>1, <2>1 DEF QueueOK
    <3>2. i \in 1..Len(p) /\ p[i] = k
      BY <1>2, <1>3, <3>1
    <3> QED BY <3>2
  <2>2. Len(q) + 1 \in 1..Len(p)
    BY <1>2, <1>3
  <2> QED BY <1>2, <2>1, <2>2
<1>10. \A k \in Job : jc[k] = "running" <=> run = k
  BY <1>1 DEF QueueOK
<1>11. QueueOK(jc, p, run)
  BY <1>0, <1>1, <1>2, <1>5, <1>7, <1>8, <1>9, <1>10 DEF QueueOK
<1> QED BY <1>11 DEF jc, p

\* The first job leaves the queue and runs.
LEMMA JobTaken ==
    ASSUME NEW jb, NEW q, QueueOK(jb, q, Idle), q # <<>>
    PROVE  QueueOK([jb EXCEPT ![Head(q)] = "running"], Tail(q), Head(q))
<1> DEFINE h == Head(q)
<1> DEFINE p == Tail(q)
<1> DEFINE jc == [jb EXCEPT ![h] = "running"]
<1>0. jb \in [Job -> JobState] /\ q \in Seq(Job) /\ Len(q) \in Nat
  BY DEF QueueOK
<1>1. /\ h \in Job /\ h = q[1] /\ p \in Seq(Job) /\ Len(p) = Len(q) - 1 /\ Len(q) > 0
      /\ \A i \in 1..Len(p) : p[i] = q[i + 1]
  <2>1. h = q[1] /\ Len(q) > 0
    BY <1>0
  <2> QED BY <1>0, <2>1, HeadTailProperties
<1>2. /\ jc \in [Job -> JobState] /\ jc[h] = "running"
      /\ \A k \in Job \ {h} : jc[k] = jb[k]
  BY <1>0, <1>1 DEF JobState
<1>3. jb[h] = "queued"
  BY <1>0, <1>1 DEF QueueOK
<1> HIDE DEF jc, p, h
<1>4. Len(p) <= IF jc[Batch] = "none" THEN QueueCap ELSE QueueCap + 1
  <2>1. QueueCap \in Nat /\ Batch \in Job
    BY Caps DEF Job
  <2>2. Len(q) <= IF jb[Batch] = "none" THEN QueueCap ELSE QueueCap + 1
    BY DEF QueueOK
  <2>3. jc[Batch] = "none" => jb[Batch] = "none"
    BY <1>2, <2>1
  <2> QED BY <1>0, <1>1, <2>1, <2>2, <2>3
<1>5. \A i \in 1..Len(p) : i + 1 \in 1..Len(q) /\ i + 1 # 1
  BY <1>0, <1>1
<1>6. \A i \in 1..Len(p) : p[i] \in Job /\ p[i] # h
  <2>1. 1 \in 1..Len(q)
    BY <1>0, <1>1
  <2>2. \A i \in 1..Len(p) : q[i + 1] \in Job /\ q[i + 1] # q[1]
    BY <1>0, <1>5, <2>1 DEF QueueOK
  <2> QED BY <1>1, <2>2
<1>7. ASSUME NEW i \in 1..Len(p) PROVE jc[p[i]] = "queued"
  <2>1. jb[q[i + 1]] = "queued"
    BY <1>5 DEF QueueOK
  <2> QED BY <1>1, <1>2, <1>6, <2>1
<1>8. ASSUME NEW i \in 1..Len(p), NEW k \in 1..Len(p), p[i] = p[k] PROVE i = k
  <2>1. q[i + 1] = q[k + 1]
    BY <1>1, <1>8
  <2>2. i + 1 = k + 1
    BY <1>5, <2>1 DEF QueueOK
  <2> QED BY <2>2
<1>9. ASSUME NEW k \in Job, jc[k] = "queued"
      PROVE  \E i \in 1..Len(p) : p[i] = k
  <2>1. k # h /\ jb[k] = "queued"
    BY <1>2, <1>9
  <2>2. PICK i \in 1..Len(q) : q[i] = k
    BY <2>1 DEF QueueOK
  <2>3. i # 1
    BY <1>1, <2>1, <2>2
  <2>4. i - 1 \in 1..Len(p) /\ p[i - 1] = q[i]
    BY <1>0, <1>1, <2>3
  <2> QED BY <2>2, <2>4
<1>10. \A k \in Job : jc[k] = "running" <=> h = k
  <2>1. \A k \in Job : jb[k] # "running"
    BY Caps DEF QueueOK, Job
  <2> QED BY <1>1, <1>2, <2>1
<1>11. QueueOK(jc, p, h)
  BY <1>1, <1>2, <1>4, <1>7, <1>8, <1>9, <1>10 DEF QueueOK
<1> QED BY <1>11 DEF jc, p, h

\* A job that is neither queued nor taken changes nothing for the others: the
\* running one ends, or a new one is refused.
LEMMA JobLeaves ==
    ASSUME NEW jb, NEW q, NEW run, QueueOK(jb, q, run), NEW j \in Job,
           NEW run2, NEW st,
           \/ run = j /\ run2 = Idle /\ st = "done"
           \/ jb[j] = "none" /\ run2 = run /\ st = "refused"
    PROVE  QueueOK([jb EXCEPT ![j] = st], q, run2)
<1> DEFINE jc == [jb EXCEPT ![j] = st]
<1>0. jb \in [Job -> JobState] /\ q \in Seq(Job) /\ run \in Job \cup {Idle}
      /\ jb[j] \in {"none", "running"} /\ st \in {"done", "refused"}
  BY DEF QueueOK
<1>1. /\ jc \in [Job -> JobState] /\ jc[j] = st
      /\ \A k \in Job \ {j} : jc[k] = jb[k]
  BY <1>0 DEF JobState
<1>2. \A i \in 1..Len(q) : q[i] \in Job /\ q[i] # j
  BY <1>0 DEF QueueOK
<1> HIDE DEF jc
<1>3. Len(q) <= IF jc[Batch] = "none" THEN QueueCap ELSE QueueCap + 1
  <2>1. QueueCap \in Nat /\ Batch \in Job /\ Len(q) \in Nat
    BY <1>0, Caps DEF Job
  <2>2. Len(q) <= IF jb[Batch] = "none" THEN QueueCap ELSE QueueCap + 1
    BY DEF QueueOK
  <2>3. jc[Batch] = "none" => jb[Batch] = "none"
    BY <1>0, <1>1, <2>1
  <2> QED BY <2>1, <2>2, <2>3
<1>4. \A i \in 1..Len(q) : jc[q[i]] = "queued"
  BY <1>1, <1>2 DEF QueueOK
<1>5. \A k \in Job : jc[k] = "queued" => \E i \in 1..Len(q) : q[i] = k
  BY <1>0, <1>1 DEF QueueOK
<1>6. \A k \in Job : jc[k] = "running" <=> run2 = k
  <2>1. Idle \notin Job
    BY Caps DEF Job
  <2> QED BY <1>0, <1>1, <2>1 DEF QueueOK
<1>7. run2 \in Job \cup {Idle}
  BY <1>0
<1>8. QueueOK(jc, q, run2)
  BY <1>0, <1>1, <1>3, <1>4, <1>5, <1>6, <1>7 DEF QueueOK
<1> QED BY <1>8 DEF jc

\* Every step keeps the queue and the jobs in agreement.
LEMMA QueueStep ==
    QueueInv /\ rows \subseteq Request /\ [Next]_vars => QueueInv'
<1> SUFFICES ASSUME QueueInv, rows \subseteq Request, [Next]_vars PROVE QueueInv'
  OBVIOUS
<1>0. QueueOK(job, queue, running) /\ Batch \in Job /\ Idle \notin Job
  BY Caps DEF QueueInv, Job
<1>1. ASSUME UNCHANGED <<job, queue, running, ticking>> PROVE QueueInv'
  BY <1>1 DEF QueueInv, QueueOK
<1>2. ASSUME NEW j \in Job, job[j] = "none", j = Batch \/ Len(queue) < QueueCap,
             Enqueue(j)
      PROVE  QueueInv'
  <2> DEFINE jc == [job EXCEPT ![j] = "queued"]
  <2> DEFINE q == Append(queue, j)
  <2>1. QueueOK(jc, q, running)
    BY <1>0, <1>2, JobJoins
  <2>2. CASE ticking
    <3>1. QueueOK(job', queue', running')
      BY <1>2, <2>1, <2>2 DEF Enqueue
    <3> QED BY <1>2, <2>2, <3>1 DEF QueueInv, Enqueue
  <2>3. CASE ~ticking
    <3>1. running = Idle /\ queue \in Seq(Job) /\ job \in [Job -> JobState]
      BY <2>3 DEF QueueInv, QueueOK
    <3>2. q # <<>>
      BY <3>1, AppendProperties
    <3>3. QueueOK([jc EXCEPT ![Head(q)] = "running"], Tail(q), Head(q))
      <4> HIDE DEF q, jc
      <4> QED BY <2>1, <3>1, <3>2, JobTaken
    <3>4. /\ job' = [jc EXCEPT ![Head(q)] = "running"]
          /\ queue' = Tail(q) /\ running' = Head(q) /\ ticking' = TRUE
      BY <1>2, <2>3, <3>1 DEF Enqueue
    <3> HIDE DEF q, jc
    <3>5. QueueOK(job', queue', running')
      BY <3>3, <3>4
    <3> QED BY <3>4, <3>5 DEF QueueInv
  <2> QED BY <2>2, <2>3 DEF QueueInv
<1>3. ASSUME NEW j \in Job, job[j] = "none", job' = [job EXCEPT ![j] = "refused"],
             UNCHANGED <<queue, running, ticking>>
      PROVE  QueueInv'
  <2>1. QueueOK(job', queue', running')
    BY <1>0, <1>3, JobLeaves
  <2> QED BY <1>3, <2>1 DEF QueueInv
<1>4. ASSUME running \in Job, JobDone, UNCHANGED <<queue, ticking>> PROVE QueueInv'
  <2>1. QueueOK(job', queue', running')
    BY <1>0, <1>4, JobLeaves DEF JobDone
  <2> QED BY <1>4, <2>1 DEF QueueInv, JobDone
<1>5. ASSUME queue # <<>>, running = Idle, running' = Head(queue),
             queue' = Tail(queue), job' = [job EXCEPT ![Head(queue)] = "running"],
             ticking'
      PROVE  QueueInv'
  <2>1. QueueOK(job', queue', running')
    BY <1>0, <1>5, JobTaken
  <2> QED BY <1>5, <2>1 DEF QueueInv
<1>6. ASSUME NEW r \in Request, NEW b, Record(r, b) PROVE QueueInv'
  <2>1. r \in Job /\ job[r] = "none"
    BY <1>6 DEF Record, Job
  <2> QED BY <1>2, <1>3, <1>6, <2>1 DEF Record, canAcceptMetadata
<1>7. CASE EnqueueShutdownBatch
  BY <1>0, <1>2, <1>3, <1>7 DEF EnqueueShutdownBatch
<1>8. CASE SaveRequest
  <2>1. running \in Job
    BY <1>8 DEF SaveRequest, Job
  <2>2. JobDone \/ UNCHANGED <<job, running>>
    BY <1>8 DEF SaveRequest
  <2> QED BY <1>1, <1>4, <1>8, <2>1, <2>2 DEF SaveRequest
<1>9. CASE PublishPayload
  <2>1. running \in Job
    BY <1>0, <1>9 DEF PublishPayload, Job
  <2> QED BY <1>4, <1>9, <2>1 DEF PublishPayload
<1>10. CASE RunBatch
  BY <1>0, <1>4, <1>10 DEF RunBatch
<1>11. CASE TakeJob
  BY <1>5, <1>11 DEF TakeJob
<1>12. CASE EndTick
  <2>1. QueueOK(job', queue', running')
    BY <1>0, <1>12 DEF EndTick
  <2> QED BY <1>12, <2>1 DEF EndTick, QueueInv
<1>13. CASE KickQueue
  BY <1>5, <1>13 DEF KickQueue, Kick, QueueInv
<1>14. CASE WriterSettles \/ Dispose \/ DrainDone \/ WriterClosed \/ UNCHANGED vars
  BY <1>1, <1>14 DEF WriterSettles, Dispose, DrainDone, WriterClosed, vars
<1> QED BY <1>6, <1>7, <1>8, <1>9, <1>10, <1>11, <1>12, <1>13, <1>14 DEF Next

-----------------------------------------------------------------------------
(* The budget *)

Holding == {r \in Request : token[r] # 0}
InFlight == {r \in Request : outcome[r] = "held"}

BudgetInv ==
    /\ token \in [Request -> Sizes \cup {0}] /\ size \in [Request -> Sizes \cup {0}]
    /\ IsFiniteSet(Holding) /\ reservedCount = Cardinality(Holding)
    /\ IsFiniteSet(Bytes(token, Holding)) /\ reservedBytes = Total(token, Holding)
    /\ IsFiniteSet(InFlight) /\ inFlightCount = Cardinality(InFlight)
    /\ IsFiniteSet(Bytes(size, InFlight)) /\ inFlightBytes = Total(size, InFlight)
    /\ dropped \in Nat /\ settled \in Nat
    /\ IsFiniteSet(offered)
    /\ Cardinality(offered) = reservedCount + inFlightCount + dropped + settled
    /\ reservedCount + inFlightCount <= JobCap
    /\ reservedBytes + inFlightBytes <= BytesCap

\* What the invariant says of the numbers.
LEMMA BudgetNumbers ==
    ASSUME BudgetInv
    PROVE  /\ reservedCount \in Nat /\ reservedBytes \in Nat
           /\ inFlightCount \in Nat /\ inFlightBytes \in Nat
           /\ dropped \in Nat /\ settled \in Nat /\ JobCap \in Nat /\ BytesCap \in Nat
           /\ \A r \in Request : token[r] \in Nat /\ size[r] \in Nat
<1>1. reservedCount \in Nat /\ inFlightCount \in Nat
  BY FS_CardinalityType DEF BudgetInv
<1>2. reservedBytes \in Nat /\ inFlightBytes \in Nat
  BY FS_CardinalityType DEF BudgetInv, Total
<1>3. \A r \in Request : token[r] \in Nat /\ size[r] \in Nat
  <2>1. \A r \in Request : token[r] \in Sizes \cup {0} /\ size[r] \in Sizes \cup {0}
    BY DEF BudgetInv
  <2>2. \A n \in Sizes : n \in Nat
    BY Caps
  <2> QED BY <2>1, <2>2
<1> QED BY <1>1, <1>2, <1>3, Caps DEF BudgetInv

\* A reservation that is made.
LEMMA Reserved ==
    ASSUME BudgetInv, NEW r \in Request, NEW b \in Sizes, canAcceptPayload(b),
           token[r] = 0, r \notin offered, Reserve(r, b), offered' = offered \cup {r},
           size' = size, outcome' = outcome
    PROVE  BudgetInv'
<1>0. b \in Nat /\ b # 0
  BY Caps
<1>1. /\ token' \in [Request -> Sizes \cup {0}] /\ token'[r] = b
      /\ \A s \in Request \ {r} : token'[s] = token[s]
  <2>1. token \in [Request -> Sizes \cup {0}] /\ token' = [token EXCEPT ![r] = b]
    BY DEF BudgetInv, Reserve
  <2> QED BY <2>1
<1>2. Holding' = Holding \cup {r} /\ r \notin Holding
  BY <1>0, <1>1 DEF Holding
<1>3. /\ IsFiniteSet(Holding \cup {r})
      /\ Cardinality(Holding \cup {r}) = Cardinality(Holding) + 1
  BY <1>2, FS_AddElement DEF BudgetInv
<1>4. /\ IsFiniteSet(Bytes(token', Holding \cup {r}))
      /\ Total(token', Holding \cup {r}) = Total(token, Holding) + token'[r]
  <2>1. r \notin Holding /\ token'[r] \in Nat /\ \A s \in Holding : token'[s] = token[s]
    BY <1>0, <1>1, <1>2 DEF Holding
  <2>2. IsFiniteSet(Bytes(token, Holding))
    BY DEF BudgetInv
  <2> QED BY <2>1, <2>2, TotalAdds
<1>5. /\ IsFiniteSet(offered \cup {r})
      /\ Cardinality(offered \cup {r}) = Cardinality(offered) + 1
  BY FS_AddElement DEF BudgetInv
<1>6. /\ reservedCount' = reservedCount + 1 /\ reservedBytes' = reservedBytes + b
      /\ inFlightCount' = inFlightCount /\ inFlightBytes' = inFlightBytes
      /\ dropped' = dropped /\ settled' = settled
  BY DEF Reserve
<1>7. InFlight' = InFlight
  BY DEF InFlight
<1>8. /\ reservedCount + inFlightCount < JobCap
      /\ reservedBytes + inFlightBytes + b <= BytesCap
  BY DEF canAcceptPayload
<1>9. Cardinality(offered) = reservedCount + inFlightCount + dropped + settled
  BY DEF BudgetInv
<1>10. /\ Cardinality(offered') = reservedCount' + inFlightCount' + dropped' + settled'
       /\ reservedCount' + inFlightCount' <= JobCap
       /\ reservedBytes' + inFlightBytes' <= BytesCap
  BY <1>0, <1>5, <1>6, <1>8, <1>9, BudgetNumbers
<1>11. /\ IsFiniteSet(Holding') /\ reservedCount' = Cardinality(Holding')
       /\ IsFiniteSet(Bytes(token', Holding')) /\ reservedBytes' = Total(token', Holding')
  BY <1>1, <1>2, <1>3, <1>4, <1>6 DEF BudgetInv
<1>12. /\ IsFiniteSet(InFlight') /\ inFlightCount' = Cardinality(InFlight')
       /\ IsFiniteSet(Bytes(size', InFlight')) /\ inFlightBytes' = Total(size', InFlight')
  BY <1>6, <1>7 DEF BudgetInv
<1> QED BY <1>1, <1>5, <1>6, <1>10, <1>11, <1>12 DEF BudgetInv

\* A payload for which no reservation could be made.
LEMMA DroppedAtOnce ==
    ASSUME BudgetInv, NEW r \in Request, r \notin offered, JustDrop,
           offered' = offered \cup {r}, size' = size, outcome' = outcome
    PROVE  BudgetInv'
<1>1. /\ IsFiniteSet(offered \cup {r})
      /\ Cardinality(offered \cup {r}) = Cardinality(offered) + 1
  BY FS_AddElement DEF BudgetInv
<1>2. dropped' = dropped + 1 /\ UNCHANGED <<token, reservedBytes, reservedCount,
                                   inFlightBytes, inFlightCount, settled>>
  BY DEF JustDrop
<1>3. Holding' = Holding /\ InFlight' = InFlight
  BY <1>2 DEF Holding, InFlight
<1>4. Cardinality(offered) = reservedCount + inFlightCount + dropped + settled
  BY DEF BudgetInv
<1>5. Cardinality(offered') = reservedCount' + inFlightCount' + dropped' + settled'
  BY <1>1, <1>2, <1>4, BudgetNumbers
<1>6. dropped' \in Nat
  BY <1>2, BudgetNumbers
<1> QED BY <1>1, <1>2, <1>3, <1>5, <1>6 DEF BudgetInv

\* What is left of the reservations when that of r is given up.
LEMMA ReservationGone ==
    ASSUME BudgetInv, NEW r \in Request, token' = [token EXCEPT ![r] = 0]
    PROVE  /\ token' \in [Request -> Sizes \cup {0}]
           /\ Holding' = Holding \ {r}
           /\ IsFiniteSet(Holding')
           /\ Cardinality(Holding') = IF token[r] = 0 THEN reservedCount
                                      ELSE reservedCount - 1
           /\ IsFiniteSet(Bytes(token', Holding'))
           /\ Total(token', Holding') = reservedBytes - token[r]
           /\ token[r] <= reservedBytes
           /\ token[r] # 0 => reservedCount > 0
<1>1. /\ token' \in [Request -> Sizes \cup {0}] /\ token'[r] = 0
      /\ \A s \in Request \ {r} : token'[s] = token[s]
  BY DEF BudgetInv
<1>2. Holding' = Holding \ {r}
  BY <1>1 DEF Holding
<1>3. /\ IsFiniteSet(Holding \ {r})
      /\ Cardinality(Holding \ {r}) = IF token[r] = 0 THEN reservedCount
                                      ELSE reservedCount - 1
  <2>1. r \in Holding <=> token[r] # 0
    BY DEF Holding
  <2>2. IsFiniteSet(Holding) /\ reservedCount = Cardinality(Holding)
    BY DEF BudgetInv
  <2> QED BY <2>1, <2>2, FS_RemoveElement
<1>4. token[r] # 0 => reservedCount > 0
  <2>1. token[r] # 0 => Holding # {}
    BY DEF Holding
  <2>2. IsFiniteSet(Holding) /\ reservedCount = Cardinality(Holding) /\ reservedCount \in Nat
    BY BudgetNumbers DEF BudgetInv
  <2> QED BY <2>1, <2>2, FS_EmptySet
<1>5. \A s \in Holding \ {r} : token'[s] = token[s]
  BY <1>1 DEF Holding
<1>6. Bytes(token', Holding \ {r}) = Bytes(token, Holding \ {r})
      /\ Total(token', Holding \ {r}) = Total(token, Holding \ {r})
  BY <1>5, TotalDepends
<1>7. IsFiniteSet(Bytes(token, Holding)) /\ reservedBytes = Total(token, Holding)
  BY DEF BudgetInv
<1>8. /\ IsFiniteSet(Bytes(token, Holding \ {r}))
      /\ Total(token, Holding \ {r}) = reservedBytes - token[r]
      /\ token[r] <= reservedBytes
  <2>1. CASE token[r] = 0
    <3>1. Holding \ {r} = Holding
      BY <2>1 DEF Holding
    <3> QED BY <1>7, <2>1, <3>1, BudgetNumbers
  <2>2. CASE token[r] # 0
    <3>1. {r} \subseteq Holding
      BY <2>2 DEF Holding
    <3>2. Total(token, {r}) = token[r]
      BY BudgetNumbers, TotalOfOne
    <3>3. /\ IsFiniteSet(Bytes(token, Holding \ {r}))
          /\ Total(token, Holding \ {r}) = Total(token, Holding) - Total(token, {r})
          /\ Total(token, {r}) <= Total(token, Holding)
      BY <1>7, <3>1, TotalRemoves
    <3> QED BY <1>7, <3>2, <3>3
  <2> QED BY <2>1, <2>2
<1> QED BY <1>1, <1>2, <1>3, <1>4, <1>6, <1>8

\* A reservation that is released, its payload dropped.
LEMMA Released ==
    ASSUME BudgetInv, NEW r \in Request, ReleaseAndDrop(r), offered' = offered,
           size' = size, outcome' = outcome
    PROVE  BudgetInv'
<1>1. /\ token' = [token EXCEPT ![r] = 0] /\ reservedBytes' = reservedBytes - token[r]
      /\ inFlightBytes' = inFlightBytes /\ inFlightCount' = inFlightCount
      /\ settled' = settled
  BY DEF ReleaseAndDrop
<1>2. IF token[r] = 0 THEN reservedCount' = reservedCount /\ dropped' = dropped
      ELSE reservedCount' = reservedCount - 1 /\ dropped' = dropped + 1
  BY DEF ReleaseAndDrop
<1>3. InFlight' = InFlight
  BY DEF InFlight
<1>4. /\ Cardinality(offered) = reservedCount + inFlightCount + dropped + settled
      /\ reservedCount + inFlightCount <= JobCap
      /\ reservedBytes + inFlightBytes <= BytesCap
  BY DEF BudgetInv
<1>5. /\ Cardinality(offered') = reservedCount' + inFlightCount' + dropped' + settled'
      /\ reservedCount' + inFlightCount' <= JobCap /\ dropped' \in Nat
  BY <1>1, <1>2, <1>4, BudgetNumbers
<1>6. token[r] \in Nat
  BY BudgetNumbers
<1>7. reservedBytes' + inFlightBytes' <= BytesCap
  BY <1>1, <1>4, <1>6, BudgetNumbers
<1>8. /\ IsFiniteSet(Holding') /\ reservedCount' = Cardinality(Holding')
      /\ IsFiniteSet(Bytes(token', Holding')) /\ reservedBytes' = Total(token', Holding')
      /\ token' \in [Request -> Sizes \cup {0}]
  BY <1>1, <1>2, ReservationGone
<1> QED BY <1>1, <1>3, <1>5, <1>7, <1>8 DEF BudgetInv

\* A payload that is published: its exact size takes the place of what was
\* reserved for it.
LEMMA Published ==
    ASSUME BudgetInv, NEW r \in Request, NEW b \in Sizes, token[r] # 0,
           HandToWriter(r, b), offered' = offered,
           Writer!TypeOK
    PROVE  BudgetInv'
<1>0. b \in Nat
  BY Caps
<1>1. /\ token' = [token EXCEPT ![r] = 0] /\ reservedBytes' = reservedBytes - token[r]
      /\ size' = [size EXCEPT ![r] = b] /\ reservedCount' = reservedCount - 1
      /\ inFlightBytes' = inFlightBytes + b /\ inFlightCount' = inFlightCount + 1
      /\ settled' = settled /\ dropped' = dropped
      /\ outcome[r] = "none" /\ outcome' = [outcome EXCEPT ![r] = "held"]
  BY DEF HandToWriter, Writer!Publish
<1>2. /\ size' \in [Request -> Sizes \cup {0}] /\ size'[r] = b
      /\ \A s \in Request \ {r} : size'[s] = size[s]
  <2>1. size \in [Request -> Sizes \cup {0}]
    BY DEF BudgetInv
  <2> QED BY <1>1, <2>1
<1>3. InFlight' = InFlight \cup {r} /\ r \notin InFlight
  BY <1>1 DEF InFlight, Writer!TypeOK
<1>4. /\ IsFiniteSet(InFlight \cup {r})
      /\ Cardinality(InFlight \cup {r}) = Cardinality(InFlight) + 1
  BY <1>3, FS_AddElement DEF BudgetInv
<1>5. /\ IsFiniteSet(Bytes(size', InFlight \cup {r}))
      /\ Total(size', InFlight \cup {r}) = Total(size, InFlight) + size'[r]
  <2>1. size'[r] \in Nat /\ \A s \in InFlight : size'[s] = size[s]
    BY <1>0, <1>2, <1>3 DEF InFlight
  <2>2. IsFiniteSet(Bytes(size, InFlight))
    BY DEF BudgetInv
  <2> QED BY <1>3, <2>1, <2>2, TotalAdds
<1>6. /\ IsFiniteSet(InFlight') /\ inFlightCount' = Cardinality(InFlight')
      /\ IsFiniteSet(Bytes(size', InFlight')) /\ inFlightBytes' = Total(size', InFlight')
  BY <1>1, <1>2, <1>3, <1>4, <1>5 DEF BudgetInv
<1>7. /\ IsFiniteSet(Holding') /\ reservedCount' = Cardinality(Holding')
      /\ IsFiniteSet(Bytes(token', Holding')) /\ reservedBytes' = Total(token', Holding')
      /\ token' \in [Request -> Sizes \cup {0}]
  BY <1>1, ReservationGone
<1>8. /\ Cardinality(offered) = reservedCount + inFlightCount + dropped + settled
      /\ reservedCount + inFlightCount <= JobCap
  BY DEF BudgetInv
<1>9. /\ Cardinality(offered') = reservedCount' + inFlightCount' + dropped' + settled'
      /\ reservedCount' + inFlightCount' <= JobCap
  BY <1>1, <1>8, BudgetNumbers
<1>10. reservedBytes - token[r] + inFlightBytes + b <= BytesCap /\ token[r] \in Nat
  BY BudgetNumbers DEF HandToWriter, RoomFor
<1>11. reservedBytes' + inFlightBytes' <= BytesCap
  BY <1>0, <1>1, <1>10, BudgetNumbers
<1> QED BY <1>1, <1>2, <1>6, <1>7, <1>9, <1>11 DEF BudgetInv

\* Payloads that the writer settles, and no others, leave the budget.
LEMMA Settled ==
    ASSUME BudgetInv, CountSettled, offered' = offered, size' = size, token' = token,
           InFlight' \subseteq InFlight
    PROVE  BudgetInv'
<1> DEFINE S == {r \in Request : outcome[r] = "held" /\ outcome'[r] # "held"}
<1> DEFINE lost == {r \in S : outcome'[r] = "dropped"}
<1>1. /\ inFlightBytes' = inFlightBytes - Total(size, S)
      /\ inFlightCount' = inFlightCount - Cardinality(S)
      /\ dropped' = dropped + Cardinality(lost)
      /\ settled' = settled + Cardinality(S \ lost)
      /\ reservedBytes' = reservedBytes /\ reservedCount' = reservedCount
  BY DEF CountSettled
<1>2. S \subseteq InFlight /\ InFlight' = InFlight \ S /\ lost \subseteq S
  BY DEF InFlight
<1>3. Holding' = Holding
  BY DEF Holding
<1> HIDE DEF S, lost
<1>4. /\ IsFiniteSet(InFlight) /\ inFlightCount = Cardinality(InFlight)
      /\ IsFiniteSet(Bytes(size, InFlight)) /\ inFlightBytes = Total(size, InFlight)
      /\ Cardinality(offered) = reservedCount + inFlightCount + dropped + settled
      /\ reservedCount + inFlightCount <= JobCap
      /\ reservedBytes + inFlightBytes <= BytesCap
  BY DEF BudgetInv
<1>5. /\ IsFiniteSet(InFlight \ S)
      /\ Cardinality(InFlight \ S) = Cardinality(InFlight) - Cardinality(S)
      /\ IsFiniteSet(S)
  <2>1. InFlight \cap S = S
    BY <1>2
  <2>2. IsFiniteSet(S)
    BY <1>2, <1>4, FS_Subset
  <2>3. /\ IsFiniteSet(InFlight \ S)
        /\ Cardinality(InFlight \ S) = Cardinality(InFlight) - Cardinality(InFlight \cap S)
    BY <1>4, FS_Difference
  <2> QED BY <2>1, <2>2, <2>3
<1>6. /\ IsFiniteSet(lost) /\ IsFiniteSet(S \ lost)
      /\ Cardinality(S \ lost) = Cardinality(S) - Cardinality(lost)
  <2>1. S \cap lost = lost
    BY <1>2
  <2>2. IsFiniteSet(lost)
    BY <1>2, <1>5, FS_Subset
  <2>3. /\ IsFiniteSet(S \ lost)
        /\ Cardinality(S \ lost) = Cardinality(S) - Cardinality(S \cap lost)
    BY <1>5, FS_Difference
  <2> QED BY <2>1, <2>2, <2>3
<1>7. /\ Cardinality(S) \in Nat /\ Cardinality(lost) \in Nat
      /\ Cardinality(S \ lost) \in Nat
  BY <1>5, <1>6, FS_CardinalityType
<1>8. /\ IsFiniteSet(Bytes(size, InFlight \ S))
      /\ Total(size, InFlight \ S) = Total(size, InFlight) - Total(size, S)
      /\ Total(size, S) \in Nat
  BY <1>2, <1>4, TotalRemoves
<1>9. /\ IsFiniteSet(InFlight') /\ inFlightCount' = Cardinality(InFlight')
      /\ IsFiniteSet(Bytes(size', InFlight')) /\ inFlightBytes' = Total(size', InFlight')
  BY <1>1, <1>2, <1>4, <1>5, <1>8
<1>10. /\ Cardinality(offered') = reservedCount' + inFlightCount' + dropped' + settled'
       /\ reservedCount' + inFlightCount' <= JobCap
       /\ dropped' \in Nat /\ settled' \in Nat
  BY <1>1, <1>4, <1>6, <1>7, BudgetNumbers
<1>11. reservedBytes' + inFlightBytes' <= BytesCap
  BY <1>1, <1>4, <1>8, BudgetNumbers
<1> QED BY <1>1, <1>3, <1>9, <1>10, <1>11 DEF BudgetInv

-----------------------------------------------------------------------------
(* The whole *)

\* How the parts depend on each other: a reservation belongs to a job that has
\* still to run, a payload was offered once, and after disposal there is no
\* reservation left and none is made.
LinkInv ==
    /\ rows \subseteq Request /\ offered \subseteq Request
    /\ closing \in BOOLEAN /\ disposed \in BOOLEAN /\ created \in BOOLEAN
    /\ Writer!TypeOK
    /\ \A r \in Request : token[r] # 0 => job[r] \in {"queued", "running"}
    /\ \A r \in offered : job[r] # "none"
    /\ disposed => \A r \in Request : token[r] = 0
    /\ PublishedHasRow
    /\ stage = "closed" => \A r \in Request : outcome[r] # "held"

IInv == QueueInv /\ BudgetInv /\ LinkInv

\* At the start the budget is untouched.
LEMMA InvInit == Init => IInv
<1> SUFFICES ASSUME Init PROVE IInv
  OBVIOUS
<1>1. QueueInv
  <2>1. /\ job \in [Job -> JobState] /\ queue = <<>> /\ queue \in Seq(Job)
        /\ Len(queue) = 0 /\ running = Idle /\ ticking = FALSE
        /\ \A j \in Job : job[j] = "none"
    BY DEF Init, JobState
  <2>2. QueueCap \in Nat /\ Idle \notin Job
    BY Caps DEF Job
  <2>3. /\ \A i \in 1..Len(queue) : FALSE
        /\ \A j \in Job : running # j
    BY <2>1, <2>2
  <2>4. Len(queue) <= IF job[Batch] = "none" THEN QueueCap ELSE QueueCap + 1
    BY <2>1, <2>2
  <2> QED BY <2>1, <2>3, <2>4 DEF QueueInv, QueueOK
<1>2. Holding = {} /\ InFlight = {}
  BY DEF Init, Writer!Init, Holding, InFlight
<1>3. Bytes(token, {}) = {} /\ Bytes(size, {}) = {}
  BY DEF Bytes
<1>4. IsFiniteSet({}) /\ Cardinality({}) = 0
  BY FS_EmptySet
<1>5. Total(token, {}) = 0 /\ Total(size, {}) = 0
  BY <1>3, <1>4 DEF Total
<1>6. BudgetInv
  <2>1. JobCap \in Nat /\ BytesCap \in Nat
    BY Caps
  <2>2. /\ reservedBytes = 0 /\ reservedCount = 0 /\ inFlightBytes = 0
        /\ inFlightCount = 0 /\ dropped = 0 /\ settled = 0 /\ offered = {}
        /\ token \in [Request -> Sizes \cup {0}] /\ size \in [Request -> Sizes \cup {0}]
    BY DEF Init
  <2>3. /\ reservedCount + inFlightCount <= JobCap
        /\ reservedBytes + inFlightBytes <= BytesCap
        /\ 0 = reservedCount + inFlightCount + dropped + settled
    BY <2>1, <2>2
  <2> QED BY <1>2, <1>3, <1>4, <1>5, <2>2, <2>3 DEF BudgetInv
<1>7. LinkInv
  BY DEF LinkInv, Init, Writer!Init, Writer!TypeOK, Writer!Terminal, PublishedHasRow
<1> QED BY <1>1, <1>6, <1>7 DEF IInv

\* Jobs that were accepted stay so.
JobsKept ==
    \A j \in Job : /\ job[j] # "none" => job'[j] # "none"
                   /\ job[j] \in {"queued", "running"} => job'[j] \in {"queued", "running"}

\* All steps but those of the job that runs keep the accepted jobs.
LEMMA JobsStay ==
    ASSUME IInv,
           \/ \E r \in Request, b \in Sizes \cup {0} : Record(r, b)
           \/ EnqueueShutdownBatch \/ TakeJob \/ EndTick \/ KickQueue \/ WriterSettles
           \/ Dispose \/ DrainDone \/ WriterClosed \/ UNCHANGED vars
    PROVE  JobsKept
<1>0. job \in [Job -> JobState] /\ queue \in Seq(Job)
  BY DEF IInv, QueueInv, QueueOK
<1>1. ASSUME NEW j \in Job, job[j] = "none", Enqueue(j) PROVE JobsKept
  <2>1. job' = [job EXCEPT ![j] = "queued"] \/
        \E h : job' = [job EXCEPT ![j] = "queued", ![h] = "running"]
    BY <1>1 DEF Enqueue
  <2> QED BY <1>0, <2>1 DEF JobsKept
<1>2. ASSUME NEW j \in Job, job[j] = "none", job' = [job EXCEPT ![j] = "refused"]
      PROVE  JobsKept
  BY <1>0, <1>2 DEF JobsKept
<1>3. ASSUME NEW h, job' = [job EXCEPT ![h] = "running"] PROVE JobsKept
  BY <1>0, <1>3 DEF JobsKept
<1>4. ASSUME NEW r \in Request, NEW b, Record(r, b) PROVE JobsKept
  <2>1. r \in Job /\ job[r] = "none"
    BY <1>4 DEF Record, Job
  <2> QED BY <1>1, <1>2, <1>4, <2>1 DEF Record
<1>5. ASSUME EnqueueShutdownBatch PROVE JobsKept
  BY <1>1, <1>2, <1>5 DEF EnqueueShutdownBatch, Job
<1>6. ASSUME TakeJob \/ KickQueue PROVE JobsKept
  BY <1>3, <1>6 DEF TakeJob, KickQueue, Kick
<1>7. ASSUME \/ EndTick \/ WriterSettles \/ Dispose \/ DrainDone \/ WriterClosed
             \/ UNCHANGED vars
      PROVE  JobsKept
  BY <1>7 DEF EndTick, WriterSettles, Dispose, DrainDone, WriterClosed, vars, JobsKept
<1> QED BY <1>4, <1>5, <1>6, <1>7

\* The payloads that the writer's own steps take out of flight.
LEMMA WriterOnlySettles ==
    ASSUME Writer!TypeOK,
           (\E S \in SUBSET Writer!Held : Writer!Settle(S)) \/ Writer!Close
    PROVE  /\ Writer!TypeOK' /\ InFlight' \subseteq InFlight
           /\ \A r \in Request : outcome'[r] # "none" => outcome[r] # "none"
           /\ \A r \in Request : outcome'[r] = "held" => outcome[r] = "held"
           /\ stage' = "closed" => stage = "closed" \/ \A r \in Request : outcome'[r] # "held"
<1>1. ASSUME NEW S \in SUBSET Writer!Held, Writer!Settle(S)
      PROVE  /\ Writer!TypeOK' /\ stage' = stage
             /\ \A r \in Request : outcome'[r] # "none" => outcome[r] # "none"
             /\ \A r \in Request : outcome'[r] = "held" => outcome[r] = "held"
  <2>1. PICK f \in [S -> Writer!Terminal] :
          outcome' = [e \in Request |-> IF e \in S THEN f[e] ELSE outcome[e]]
    BY <1>1 DEF Writer!Settle
  <2>2. \A e \in S : e \in Request /\ outcome[e] = "held" /\ f[e] \in Writer!Terminal
    BY DEF Writer!Held
  <2>3. \A e \in Request : /\ e \in S => outcome'[e] \in Writer!Terminal
                           /\ e \notin S => outcome'[e] = outcome[e]
    BY <2>1, <2>2
  <2>4. /\ accepting' \in BOOLEAN /\ stage' = stage
        /\ outcome \in [Request -> {"none", "held", "abandoned"} \cup Writer!Terminal]
        /\ stage \in {"open", "closing", "closed"}
    BY <1>1 DEF Writer!Settle, Writer!TypeOK
  <2>5. outcome' \in [Request -> {"none", "held", "abandoned"} \cup Writer!Terminal]
    BY <2>1, <2>3, <2>4
  <2> QED BY <2>2, <2>3, <2>4, <2>5 DEF Writer!TypeOK, Writer!Terminal
<1>2. ASSUME Writer!Close
      PROVE  /\ Writer!TypeOK'
             /\ \A r \in Request : outcome'[r] # "none" => outcome[r] # "none"
             /\ \A r \in Request : outcome'[r] # "held"
  BY <1>2 DEF Writer!Close, Writer!TypeOK
<1> QED BY <1>1, <1>2 DEF InFlight

\* What may happen to a payload when its request is recorded.
LEMMA RecordBudget ==
    ASSUME IInv, NEW r \in Request, NEW b \in Sizes \cup {0}, Record(r, b)
    PROVE  /\ BudgetInv'
           /\ \A s \in Request \ {r} : token'[s] = token[s]
           /\ token'[r] # 0 => job'[r] \in {"queued", "running"} /\ ~disposed
           /\ offered' \subseteq offered \cup {r}
           /\ job'[r] # "none"
<1>0. /\ job \in [Job -> JobState] /\ queue \in Seq(Job) /\ r \in Job
      /\ token \in [Request -> Sizes \cup {0}]
  BY DEF IInv, QueueInv, QueueOK, BudgetInv, Job
<1>1. job[r] = "none" /\ size' = size /\ outcome' = outcome
  BY DEF Record, writer
<1>2. token[r] = 0 /\ r \notin offered
  BY <1>1 DEF IInv, LinkInv
<1>3. BudgetInv
  BY DEF IInv
<1>4. ASSUME UNCHANGED <<token, offered, accounting>> PROVE BudgetInv'
  BY <1>1, <1>3, <1>4 DEF BudgetInv, Holding, InFlight, accounting
<1>5. ASSUME b # 0, canAcceptPayload(b), Reserve(r, b), offered' = offered \cup {r}
      PROVE  BudgetInv'
  BY <1>1, <1>2, <1>3, <1>5, Reserved
<1>6. ASSUME JustDrop, offered' = offered \cup {r} PROVE BudgetInv'
  BY <1>1, <1>2, <1>3, <1>6, DroppedAtOnce
<1>7. \/ UNCHANGED <<token, offered, accounting>>
      \/ /\ b # 0 /\ canAcceptPayload(b) /\ Reserve(r, b) /\ offered' = offered \cup {r}
         /\ canAcceptMetadata
      \/ JustDrop /\ offered' = offered \cup {r}
  BY DEF Record
<1>8. canAcceptMetadata => job'[r] \in {"queued", "running"}
  <2>1. canAcceptMetadata => Enqueue(r)
    BY DEF Record
  <2>2. ASSUME Enqueue(r) PROVE job'[r] \in {"queued", "running"}
    <3>1. job' = [job EXCEPT ![r] = "queued"] \/
          \E h : job' = [job EXCEPT ![r] = "queued", ![h] = "running"]
      BY <2>2 DEF Enqueue
    <3> QED BY <1>0, <3>1
  <2> QED BY <2>1, <2>2
<1>9. ~canAcceptMetadata => job'[r] = "refused"
  BY <1>0 DEF Record
<1>10. \A s \in Request \ {r} : token'[s] = token[s]
  BY <1>0, <1>7 DEF Reserve, JustDrop
<1>11. token'[r] # 0 => canAcceptMetadata /\ ~disposed
  BY <1>2, <1>7 DEF JustDrop, canAcceptPayload
<1>12. offered' \subseteq offered \cup {r}
  BY <1>7
<1> QED BY <1>4, <1>5, <1>6, <1>7, <1>8, <1>9, <1>10, <1>11, <1>12

\* What may happen to the payload of the job that runs: it is published, or its
\* reservation, if it has one, is released.
LEMMA RunningBudget ==
    ASSUME IInv, SaveRequest \/ PublishPayload
    PROVE  /\ BudgetInv' /\ running \in Request /\ offered' = offered
           /\ \A s \in Request \ {running} : token'[s] = token[s]
           /\ token'[running] \in {0, token[running]}
           /\ token'[running] # 0 => job' = job
           /\ \/ UNCHANGED writer
              \/ Writer!Publish(running) /\ running \in rows
           /\ rows \subseteq rows' /\ rows' \subseteq Request
<1>0. /\ BudgetInv /\ token \in [Request -> Sizes \cup {0}] /\ Writer!TypeOK
      /\ rows \subseteq Request
  BY DEF IInv, BudgetInv, LinkInv
<1>1. running \in Request /\ offered' = offered /\ rows \subseteq rows' /\ rows' \subseteq Request
  BY <1>0 DEF SaveRequest, PublishPayload
<1>2. ASSUME ReleaseAndDrop(running)
      PROVE  token'[running] = 0 /\ \A s \in Request \ {running} : token'[s] = token[s]
  BY <1>0, <1>1, <1>2 DEF ReleaseAndDrop
<1>3. CASE SaveRequest
  <2>1. size' = size /\ outcome' = outcome /\ UNCHANGED writer
    BY <1>3 DEF SaveRequest, writer
  <2>2. CASE ReleaseAndDrop(running)
    BY <1>0, <1>1, <1>2, <2>1, <2>2, Released
  <2>3. CASE UNCHANGED <<token, accounting>> /\ (token[running] # 0 => job' = job)
    <3>1. BudgetInv'
      BY <1>0, <1>1, <2>1, <2>3 DEF BudgetInv, Holding, InFlight, accounting
    <3> QED BY <1>1, <2>1, <2>3, <3>1
  <2> QED BY <1>3, <2>2, <2>3 DEF SaveRequest
<1>4. CASE PublishPayload
  <2>0. token[running] # 0 /\ running \in rows
    BY <1>4 DEF PublishPayload
  <2>1. ASSUME ReleaseAndDrop(running), UNCHANGED <<size, writer>>
        PROVE  BudgetInv' /\ token'[running] = 0
               /\ \A s \in Request \ {running} : token'[s] = token[s]
    BY <1>0, <1>1, <1>2, <2>1, Released DEF writer
  <2>2. ASSUME NEW b \in Sizes, HandToWriter(running, b)
        PROVE  /\ BudgetInv' /\ token'[running] = 0 /\ Writer!Publish(running)
               /\ \A s \in Request \ {running} : token'[s] = token[s]
    <3>1. BudgetInv'
      BY <1>0, <1>1, <2>0, <2>2, Published
    <3>2. token' = [token EXCEPT ![running] = 0] /\ Writer!Publish(running)
      BY <2>2 DEF HandToWriter
    <3> QED BY <1>0, <1>1, <3>1, <3>2
  <2>3. \/ \E b \in Sizes : HandToWriter(running, b)
        \/ ReleaseAndDrop(running) /\ UNCHANGED <<size, writer>>
    BY <1>4 DEF PublishPayload, EnqueuePayload
  <2>4. CASE ReleaseAndDrop(running) /\ UNCHANGED <<size, writer>>
    BY <1>1, <2>1, <2>4
  <2>5. CASE \E b \in Sizes : HandToWriter(running, b)
    BY <1>1, <2>0, <2>2, <2>5
  <2> QED BY <2>3, <2>4, <2>5
<1> QED BY <1>3, <1>4

\* The other steps of the queue touch neither budget nor writer, except that
\* the end of the drain closes the writer's admission.
LEMMA QuietSteps ==
    ASSUME IInv,
           \/ EnqueueShutdownBatch \/ RunBatch \/ TakeJob \/ EndTick \/ KickQueue
           \/ Dispose \/ DrainDone \/ UNCHANGED vars
    PROVE  UNCHANGED <<token, size, accounting, offered, rows, outcome>>
  BY DEF EnqueueShutdownBatch, RunBatch, TakeJob, EndTick, KickQueue, Kick, Dispose,
         DrainDone, vars, writer, accounting, Writer!BeginClose

\* Every step keeps the budget exact.
LEMMA BudgetStep == IInv /\ [Next]_vars => BudgetInv'
<1> SUFFICES ASSUME IInv, [Next]_vars PROVE BudgetInv'
  OBVIOUS
<1>1. CASE \E r \in Request, b \in Sizes \cup {0} : Record(r, b)
  BY <1>1, RecordBudget
<1>2. CASE SaveRequest \/ PublishPayload
  BY <1>2, RunningBudget
<1>3. CASE \/ EnqueueShutdownBatch \/ RunBatch \/ TakeJob \/ EndTick \/ KickQueue
           \/ Dispose \/ DrainDone \/ UNCHANGED vars
  <2>1. UNCHANGED <<token, size, accounting, offered, rows, outcome>>
    BY <1>3, QuietSteps
  <2> QED BY <2>1 DEF IInv, BudgetInv, Holding, InFlight, accounting
<1>4. CASE WriterSettles \/ WriterClosed
  <2>1. (\E S \in SUBSET Writer!Held : Writer!Settle(S)) \/ Writer!Close
    BY <1>4 DEF WriterSettles, WriterClosed
  <2>2. InFlight' \subseteq InFlight
    BY <2>1, WriterOnlySettles DEF IInv, LinkInv
  <2>3. CountSettled /\ offered' = offered /\ size' = size /\ token' = token
    BY <1>4 DEF WriterSettles, WriterClosed
  <2> QED BY <2>2, <2>3, Settled DEF IInv
<1> QED BY <1>1, <1>2, <1>3, <1>4 DEF Next

\* Every step keeps the parts linked.
LEMMA LinkStep == IInv /\ [Next]_vars => LinkInv'
<1> SUFFICES ASSUME IInv, [Next]_vars PROVE LinkInv'
  OBVIOUS
<1>0. LinkInv /\ Request \subseteq Job
  BY DEF IInv, Job
<1>1. ASSUME NEW r \in Request, NEW b \in Sizes \cup {0}, Record(r, b) PROVE LinkInv'
  <2>1. /\ \A s \in Request \ {r} : token'[s] = token[s]
        /\ token'[r] # 0 => job'[r] \in {"queued", "running"} /\ ~disposed
        /\ offered' \subseteq offered \cup {r} /\ job'[r] # "none"
    BY <1>1, RecordBudget
  <2>2. UNCHANGED <<rows, closing, disposed, created, outcome, accepting, stage>>
    BY <1>1 DEF Record, writer
  <2>3. JobsKept
    BY <1>1, JobsStay
  <2>4. \A s \in Request : token'[s] # 0 => job'[s] \in {"queued", "running"}
    BY <1>0, <2>1, <2>3 DEF LinkInv, JobsKept
  <2>5. \A s \in offered' : job'[s] # "none"
    BY <1>0, <2>1, <2>3 DEF LinkInv, JobsKept
  <2>6. disposed' => \A s \in Request : token'[s] = 0
    BY <1>0, <2>1, <2>2 DEF LinkInv
  <2> QED BY <1>0, <2>1, <2>2, <2>4, <2>5, <2>6
          DEF LinkInv, PublishedHasRow, Writer!TypeOK
<1>2. CASE SaveRequest \/ PublishPayload
  <2>1. /\ running \in Request /\ offered' = offered
        /\ \A s \in Request \ {running} : token'[s] = token[s]
        /\ token'[running] \in {0, token[running]}
        /\ token'[running] # 0 => job' = job
        /\ UNCHANGED writer \/ (Writer!Publish(running) /\ running \in rows)
        /\ rows \subseteq rows' /\ rows' \subseteq Request
    BY <1>2, RunningBudget
  <2>2. \A k \in Job : job'[k] = job[k] \/ (k = running /\ job'[k] = "done")
    <3>1. job \in [Job -> JobState]
      BY DEF IInv, QueueInv, QueueOK
    <3> QED BY <1>2, <3>1 DEF SaveRequest, PublishPayload, JobDone
  <2>3. closing' = closing /\ disposed' = disposed /\ created' \in BOOLEAN
    BY <1>0, <1>2 DEF SaveRequest, PublishPayload, EnqueuePayload, HandToWriter, LinkInv
  <2>4. /\ Writer!TypeOK' /\ stage' = stage
        /\ \A r \in Request : outcome'[r] # "none" => r \in rows'
        /\ stage = "closed" => \A r \in Request : outcome'[r] # "held"
    <3>1. Writer!TypeOK
      BY <1>0 DEF LinkInv
    <3>2. CASE UNCHANGED writer
      BY <1>0, <2>1, <3>1, <3>2 DEF writer, Writer!TypeOK, LinkInv, PublishedHasRow
    <3>3. CASE Writer!Publish(running) /\ running \in rows
      <4>1. /\ stage = "open" /\ stage' = stage /\ accepting' = accepting
            /\ outcome' = [outcome EXCEPT ![running] = "held"]
        BY <3>3 DEF Writer!Publish
      <4>2. \A r \in Request \ {running} : outcome'[r] = outcome[r]
        BY <3>1, <4>1 DEF Writer!TypeOK
      <4>3. Writer!TypeOK'
        BY <2>1, <3>1, <4>1 DEF Writer!TypeOK
      <4> QED BY <1>0, <2>1, <3>3, <4>1, <4>2, <4>3 DEF LinkInv, PublishedHasRow
    <3> QED BY <2>1, <3>2, <3>3
  <2>5. \A s \in Request : token'[s] # 0 => job'[s] \in {"queued", "running"}
    BY <1>0, <2>1, <2>2 DEF LinkInv
  <2>6. \A s \in offered' : job'[s] # "none"
    BY <1>0, <2>1, <2>2 DEF LinkInv
  <2>7. disposed' => \A s \in Request : token'[s] = 0
    BY <1>0, <2>1, <2>3 DEF LinkInv
  <2> QED BY <1>0, <2>1, <2>3, <2>4, <2>5, <2>6, <2>7 DEF LinkInv, PublishedHasRow
<1>3. ASSUME UNCHANGED <<token, offered, rows>>,
             \/ EnqueueShutdownBatch \/ TakeJob \/ EndTick \/ KickQueue \/ WriterSettles
             \/ Dispose \/ DrainDone \/ WriterClosed \/ RunBatch \/ UNCHANGED vars
      PROVE  /\ rows' \subseteq Request /\ offered' \subseteq Request
             /\ \A r \in Request : token'[r] # 0 => job'[r] \in {"queued", "running"}
             /\ \A r \in offered' : job'[r] # "none"
  <2>1. CASE RunBatch
    <3>1. job \in [Job -> JobState] /\ Batch \notin Request
      BY Caps DEF IInv, QueueInv, QueueOK
    <3>2. \A r \in Request : job'[r] = job[r]
      BY <1>0, <2>1, <3>1 DEF RunBatch, JobDone
    <3> QED BY <1>0, <1>3, <3>2 DEF LinkInv
  <2>2. CASE ~RunBatch
    <3>1. JobsKept
      BY <1>3, <2>2, JobsStay
    <3> QED BY <1>0, <1>3, <3>1 DEF LinkInv, JobsKept
  <2> QED BY <2>1, <2>2
<1>4. CASE \/ EnqueueShutdownBatch \/ TakeJob \/ EndTick \/ KickQueue \/ RunBatch
           \/ Dispose \/ UNCHANGED vars
  <2>1. UNCHANGED <<token, offered, rows, outcome>>
    BY <1>4, QuietSteps
  <2>2. UNCHANGED <<disposed, created, accepting, stage>> /\ closing' \in BOOLEAN
    BY <1>0, <1>4 DEF EnqueueShutdownBatch, RunBatch, TakeJob, EndTick, KickQueue, Kick,
                      Dispose, vars, writer, LinkInv
  <2> QED BY <1>0, <1>3, <1>4, <2>1, <2>2 DEF LinkInv, PublishedHasRow, Writer!TypeOK
<1>5. CASE DrainDone
  <2>1. UNCHANGED <<token, offered, rows, outcome>>
    BY <1>5, QuietSteps
  <2>2. /\ UNCHANGED <<closing, created>> /\ disposed' = TRUE /\ queue = <<>> /\ ~ticking
        /\ Writer!BeginClose \/ UNCHANGED writer
    BY <1>5 DEF DrainDone
  <2>3. \A r \in Request : token'[r] = 0
    <3>1. \A j \in Job : job[j] \notin {"queued", "running"}
      <4>1. Len(queue) = 0 /\ running = Idle /\ Idle \notin Job
        BY <2>2, Caps DEF IInv, QueueInv, Job
      <4> QED BY <4>1 DEF IInv, QueueInv, QueueOK
    <3> QED BY <1>0, <2>1, <3>1 DEF LinkInv
  <2>4. Writer!TypeOK' /\ (stage' = "closed" => stage = "closed")
    BY <1>0, <2>2 DEF LinkInv, Writer!TypeOK, Writer!BeginClose, writer
  <2> QED BY <1>0, <1>3, <1>5, <2>1, <2>2, <2>3, <2>4 DEF LinkInv, PublishedHasRow
<1>6. CASE WriterSettles \/ WriterClosed
  <2>1. (\E S \in SUBSET Writer!Held : Writer!Settle(S)) \/ Writer!Close
    BY <1>6 DEF WriterSettles, WriterClosed
  <2>2. UNCHANGED <<token, offered, rows, closing, disposed, created>>
    BY <1>6 DEF WriterSettles, WriterClosed
  <2>3. /\ Writer!TypeOK'
        /\ \A r \in Request : outcome'[r] # "none" => outcome[r] # "none"
        /\ \A r \in Request : outcome'[r] = "held" => outcome[r] = "held"
        /\ stage' = "closed" => stage = "closed" \/ \A r \in Request : outcome'[r] # "held"
    BY <1>0, <2>1, WriterOnlySettles DEF LinkInv
  <2>4. PublishedHasRow'
    BY <1>0, <2>2, <2>3 DEF LinkInv, PublishedHasRow
  <2>5. stage' = "closed" => \A r \in Request : outcome'[r] # "held"
    BY <1>0, <2>3 DEF LinkInv
  <2> QED BY <1>0, <1>3, <1>6, <2>2, <2>3, <2>4, <2>5 DEF LinkInv
<1> QED BY <1>1, <1>2, <1>4, <1>5, <1>6 DEF Next

\* The three parts together are inductive.
LEMMA InvStep == IInv /\ [Next]_vars => IInv'
<1>1. IInv => QueueInv /\ rows \subseteq Request
  BY DEF IInv, LinkInv
<1> QED BY <1>1, QueueStep, BudgetStep, LinkStep DEF IInv

\* It holds always.
LEMMA Invariance == Spec => []IInv
  BY InvInit, InvStep, PTL DEF Spec

\* For any number of requests and any caps: the counters of the payload budget
\* (tryReservePayload, enqueuePayload, onPayloadSettled) are the totals of what
\* the jobs have reserved and the writer holds, every payload is counted in one
\* place, and neither cap is exceeded.
THEOREM BudgetExact == Spec => []BudgetIsExact
<1>1. IInv => BudgetIsExact
  <2> SUFFICES ASSUME IInv PROVE BudgetIsExact
    OBVIOUS
  <2>1. Len(queue) <= QueueCap + 1
    <3>1. QueueCap \in Nat /\ Len(queue) \in Nat
      BY Caps DEF IInv, QueueInv, QueueOK
    <3>2. Len(queue) <= IF job[Batch] = "none" THEN QueueCap ELSE QueueCap + 1
      BY DEF IInv, QueueInv, QueueOK
    <3> QED BY <3>1, <3>2
  <2>2. {reservedBytes, reservedCount, inFlightBytes, inFlightCount, dropped, settled}
          \subseteq Nat
    BY BudgetNumbers DEF IInv
  <2>3. TypeOK
    BY <2>1, <2>2 DEF IInv, QueueInv, QueueOK, BudgetInv, LinkInv, TypeOK, JobState
  <2>4. Writer!Held = InFlight
    BY DEF Writer!Held, InFlight
  <2> QED BY <2>3, <2>4 DEF IInv, BudgetInv, LinkInv, BudgetIsExact, Holding
<1> QED BY <1>1, Invariance, PTL

\* The payload writer is given a payload only once persistOrdered's job has
\* saved its request row, whichever of the job's steps fail.
THEOREM RowBeforePayload == Spec => []PublishedHasRow
<1>1. IInv => PublishedHasRow
  BY DEF IInv, LinkInv
<1> QED BY <1>1, Invariance, PTL

\* dispose's drain leaves no reservation behind, even though requests may be
\* recorded after it, and the writer's close leaves nothing in flight.
THEOREM DisposalIsComplete == Spec => []DisposedLosesNothing
<1>1. IInv => DisposedLosesNothing
  <2> SUFFICES ASSUME IInv PROVE DisposedLosesNothing
    OBVIOUS
  <2>1. disposed => Holding = {}
    BY DEF IInv, LinkInv, Holding
  <2>2. stage = "closed" => InFlight = {}
    BY DEF IInv, LinkInv, InFlight
  <2>3. reservedCount = Cardinality(Holding) /\ inFlightCount = Cardinality(InFlight)
    BY DEF IInv, BudgetInv
  <2>4. Cardinality({}) = 0
    BY FS_EmptySet
  <2> QED BY <2>1, <2>2, <2>3, <2>4 DEF DisposedLosesNothing
<1> QED BY <1>1, Invariance, PTL
=============================================================================
