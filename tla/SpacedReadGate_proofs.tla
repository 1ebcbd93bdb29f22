------------------------ MODULE SpacedReadGate_proofs ------------------------
(****************************************************************************)
(* Proofs about SpacedReadGate, for every set of accounts and any number of *)
(* forced reads: the gate and its readers agree on who waits and whose turn *)
(* it is, and reads of two accounts are a gap apart.                        *)
(****************************************************************************)
EXTENDS SpacedReadGate, SequenceTheorems, FiniteSetTheorems,
        WellFoundedInduction, TLAPS

Queued(a, q) == \E i \in DOMAIN q : q[i].account = a

\* No account is queued twice.
Distinct(q) == \A i, j \in DOMAIN q : q[i].account = q[j].account => i = j

\* The readers and the gate agree on whose turn it is and who waits.
ReadersMatchGate ==
    \A a \in Account :
        /\ reader[a] = "turn" <=> turnOf = a /\ slept
        /\ reader[a] = "waiting" <=> (turnOf = a /\ ~slept) \/ Queued(a, waiters)

\* The reader taken from the queue is no longer in it.
TakenIsNotQueued == turnOf # None => ~Queued(turnOf, waiters)

\* A turn that has been given is for the account read last, or a gap lies
\* behind that read.
TurnIsSpaced ==
    turnOf # None /\ slept => last = None \/ last = turnOf \/ spaced

IInv == /\ TypeOK /\ Distinct(waiters) /\ ReadersMatchGate
        /\ TakenIsNotQueued /\ (~busy => waiters = <<>>)
        /\ TurnIsSpaced

\* A non-empty set of naturals has a least element.
LEMMA LeastOfSet ==
    ASSUME NEW S \in SUBSET Nat, S # {}
    PROVE  \E i \in S : \A j \in S : i <= j
<1>1. IsWellFoundedOn(OpToRel(<, Nat), Nat)
  BY NatLessThanWellFounded
<1>2. PICK i \in S : \A j \in S : <<j, i>> \notin OpToRel(<, Nat)
  BY <1>1, WFMin
<1>3. \A j \in S : ~(j < i)
  BY <1>2 DEF OpToRel
<1> QED BY <1>3

\* Where InsertAt puts an element.
LEMMA InsertAtEffect ==
    ASSUME NEW s \in Seq(Waiter), NEW p \in 1..Len(s), NEW w \in Waiter
    PROVE  /\ InsertAt(s, p, w) \in Seq(Waiter)
           /\ Len(InsertAt(s, p, w)) = Len(s) + 1
           /\ InsertAt(s, p, w)[p] = w
           /\ \A j \in 1..(p - 1) : InsertAt(s, p, w)[j] = s[j]
           /\ \A j \in (p + 1)..(Len(s) + 1) : InsertAt(s, p, w)[j] = s[j - 1]
<1> DEFINE x == SubSeq(s, 1, p - 1)
           y == SubSeq(s, p, Len(s))
<1>1. /\ x \in Seq(Waiter) /\ Len(x) = p - 1
      /\ \A i \in 1..(p - 1) : x[i] = s[i]
  BY SubSeqProperties
<1>2. /\ y \in Seq(Waiter) /\ Len(y) = Len(s) - p + 1
      /\ \A i \in 1..(Len(s) - p + 1) : y[i] = s[p + i - 1]
  BY SubSeqProperties
<1>3. <<w>> \in Seq(Waiter) /\ Len(<<w>>) = 1 /\ <<w>>[1] = w
  OBVIOUS
<1> HIDE DEF x, y
<1> DEFINE z == x \o <<w>>
<1>4. /\ z \in Seq(Waiter) /\ Len(z) = p
      /\ \A i \in 1..p : z[i] = IF i < p THEN s[i] ELSE w
  BY <1>1, <1>3, ConcatProperties
<1> HIDE DEF z
<1> DEFINE q == z \o y
<1>5. q \in Seq(Waiter) /\ Len(q) = Len(s) + 1
  <2>1. q \in Seq(Waiter) /\ Len(q) = Len(z) + Len(y)
    BY <1>2, <1>4, ConcatProperties
  <2> QED BY <2>1, <1>2, <1>4
<1>6. \A i \in 1..(Len(s) + 1) : q[i] = IF i <= p THEN z[i] ELSE y[i - p]
  <2>1. \A i \in 1..(Len(z) + Len(y)) : q[i] = IF i <= Len(z) THEN z[i] ELSE y[i - Len(z)]
    BY <1>2, <1>4, ConcatProperties
  <2> QED BY <2>1, <1>2, <1>4
<1>7. \A i \in (p + 1)..(Len(s) + 1) : y[i - p] = s[i - 1]
  <2> SUFFICES ASSUME NEW i \in (p + 1)..(Len(s) + 1) PROVE y[i - p] = s[i - 1]
    OBVIOUS
  <2>1. i - p \in 1..(Len(s) - p + 1) /\ p + (i - p) - 1 = i - 1
    OBVIOUS
  <2> QED BY <1>2, <2>1
<1>8. InsertAt(s, p, w) = q
  BY DEF InsertAt, x, y, z
<1> HIDE DEF q
<1>9. q[p] = w
  BY <1>4, <1>6
<1>10. \A j \in 1..(p - 1) : q[j] = s[j]
  BY <1>4, <1>6
<1>11. \A j \in (p + 1)..(Len(s) + 1) : q[j] = s[j - 1]
  BY <1>6, <1>7
<1> QED BY <1>5, <1>8, <1>9, <1>10, <1>11

\* An added waiter goes to one place of the queue; the others keep their
\* order.
LEMMA InsertedEffect ==
    ASSUME TypeOK, NEW w \in Waiter
    PROVE  /\ Inserted(w) \in Seq(Waiter)
           /\ Len(Inserted(w)) = Len(waiters) + 1
           /\ \E p \in 1..(Len(waiters) + 1) :
                 /\ Inserted(w)[p] = w
                 /\ \A j \in 1..(p - 1) : Inserted(w)[j] = waiters[j]
                 /\ \A j \in (p + 1)..(Len(waiters) + 1) :
                       Inserted(w)[j] = waiters[j - 1]
<1> DEFINE normal == {i \in DOMAIN waiters : ~waiters[i].urgent}
<1>0. waiters \in Seq(Waiter) /\ DOMAIN waiters = 1..Len(waiters) /\ Len(waiters) \in Nat
  BY DEF TypeOK
<1>1. CASE w.urgent /\ normal # {}
  <2>1. PICK p \in 1..Len(waiters) : Inserted(w) = InsertAt(waiters, p, w)
    <3> DEFINE first == CHOOSE i \in normal : \A j \in normal : i <= j
    <3>1. normal \in SUBSET Nat
      BY <1>0
    <3>2. first \in normal
      BY <1>1, <3>1, LeastOfSet
    <3>3. Inserted(w) = InsertAt(waiters, first, w)
      BY <1>1 DEF Inserted
    <3> QED BY <1>0, <3>2, <3>3
  <2>2. /\ InsertAt(waiters, p, w) \in Seq(Waiter)
        /\ Len(InsertAt(waiters, p, w)) = Len(waiters) + 1
        /\ InsertAt(waiters, p, w)[p] = w
        /\ \A j \in 1..(p - 1) : InsertAt(waiters, p, w)[j] = waiters[j]
        /\ \A j \in (p + 1)..(Len(waiters) + 1) :
              InsertAt(waiters, p, w)[j] = waiters[j - 1]
    BY <1>0, InsertAtEffect
  <2>3. p \in 1..(Len(waiters) + 1)
    BY <1>0
  <2> QED BY <2>1, <2>2, <2>3
<1>2. CASE ~(w.urgent /\ normal # {})
  <2>1. Inserted(w) = Append(waiters, w)
    BY <1>2 DEF Inserted
  <2>2. /\ Append(waiters, w) \in Seq(Waiter)
        /\ Len(Append(waiters, w)) = Len(waiters) + 1
        /\ \A i \in 1..Len(waiters) : Append(waiters, w)[i] = waiters[i]
        /\ Append(waiters, w)[Len(waiters) + 1] = w
    BY <1>0, AppendProperties
  <2> QED BY <1>0, <2>1, <2>2
<1> QED BY <1>1, <1>2

\* The queue after an account that was not in it is added.
LEMMA InsertedQueue ==
    ASSUME TypeOK, Distinct(waiters), NEW w \in Waiter,
           ~Queued(w.account, waiters)
    PROVE  LET q == Inserted(w)
           IN /\ q \in Seq(Waiter) /\ q # <<>> /\ Distinct(q)
              /\ \A a \in Account :
                    Queued(a, q) <=> a = w.account \/ Queued(a, waiters)
<1> DEFINE q == Inserted(w)
<1>0. /\ q \in Seq(Waiter) /\ waiters \in Seq(Waiter) /\ Len(waiters) \in Nat
      /\ Len(q) = Len(waiters) + 1
      /\ DOMAIN q = 1..(Len(waiters) + 1)
      /\ DOMAIN waiters = 1..Len(waiters)
  BY InsertedEffect DEF TypeOK
<1>1. PICK p \in 1..(Len(waiters) + 1) :
         /\ q[p] = w
         /\ \A j \in 1..(p - 1) : q[j] = waiters[j]
         /\ \A j \in (p + 1)..(Len(waiters) + 1) : q[j] = waiters[j - 1]
  BY InsertedEffect
<1> HIDE DEF q
<1> DEFINE from(i) == IF i < p THEN i ELSE i - 1
           to(j) == IF j < p THEN j ELSE j + 1
<1>2. \A i \in DOMAIN q : i # p => from(i) \in DOMAIN waiters /\ q[i] = waiters[from(i)]
  BY <1>0, <1>1
<1>3. \A j \in DOMAIN waiters : to(j) \in DOMAIN q /\ to(j) # p /\ q[to(j)] = waiters[j]
  BY <1>0, <1>1
<1>4. Distinct(q)
  <2> SUFFICES ASSUME NEW i \in DOMAIN q, NEW j \in DOMAIN q,
                      q[i].account = q[j].account
               PROVE  i = j
    BY DEF Distinct
  <2>1. CASE i # p /\ j # p
    <3>1. from(i) = from(j)
      BY <1>2, <2>1 DEF Distinct
    <3> QED BY <1>0, <2>1, <3>1
  <2>2. CASE i = p /\ j # p
    BY <1>1, <1>2, <2>2 DEF Queued
  <2>3. CASE i # p /\ j = p
    BY <1>1, <1>2, <2>3 DEF Queued
  <2> QED BY <2>1, <2>2, <2>3
<1>5. ASSUME NEW a \in Account
      PROVE  Queued(a, q) <=> a = w.account \/ Queued(a, waiters)
  <2>1. Queued(a, q) => a = w.account \/ Queued(a, waiters)
    BY <1>1, <1>2 DEF Queued
  <2>2. a = w.account => Queued(a, q)
    BY <1>0, <1>1 DEF Queued
  <2>3. Queued(a, waiters) => Queued(a, q)
    BY <1>3 DEF Queued
  <2> QED BY <2>1, <2>2, <2>3
<1>6. q # <<>>
  BY <1>0
<1> QED BY <1>0, <1>4, <1>5, <1>6 DEF q

\* A queue without its head.
LEMMA TailQueue ==
    ASSUME NEW q \in Seq(Waiter), q # <<>>, Distinct(q)
    PROVE  /\ Tail(q) \in Seq(Waiter) /\ Distinct(Tail(q))
           /\ Head(q).account \in Account
           /\ \A a \in Account :
                 Queued(a, q) <=> a = Head(q).account \/ Queued(a, Tail(q))
           /\ ~Queued(Head(q).account, Tail(q))
<1>1. /\ Tail(q) \in Seq(Waiter) /\ Len(q) \in Nat /\ Len(q) > 0
      /\ Len(Tail(q)) = Len(q) - 1 /\ Head(q) = q[1] /\ q[1] \in Waiter
      /\ DOMAIN q = 1..Len(q) /\ DOMAIN Tail(q) = 1..(Len(q) - 1)
      /\ \A i \in 1..(Len(q) - 1) : Tail(q)[i] = q[i + 1]
  BY HeadTailProperties
<1>2. Distinct(Tail(q))
  <2> SUFFICES ASSUME NEW i \in DOMAIN Tail(q), NEW j \in DOMAIN Tail(q),
                      Tail(q)[i].account = Tail(q)[j].account
               PROVE  i = j
    BY DEF Distinct
  <2>1. i + 1 \in DOMAIN q /\ j + 1 \in DOMAIN q /\ q[i + 1].account = q[j + 1].account
    BY <1>1
  <2>2. i + 1 = j + 1
    BY <2>1 DEF Distinct
  <2> QED BY <1>1, <2>2
<1>3. ASSUME NEW a \in Account
      PROVE  Queued(a, q) <=> a = Head(q).account \/ Queued(a, Tail(q))
  <2>1. ASSUME NEW i \in DOMAIN q, q[i].account = a, a # Head(q).account
        PROVE  Queued(a, Tail(q))
    <3>1. i - 1 \in DOMAIN Tail(q) /\ Tail(q)[i - 1] = q[i]
      BY <1>1, <2>1
    <3> QED BY <2>1, <3>1 DEF Queued
  <2>2. ASSUME NEW i \in DOMAIN Tail(q), Tail(q)[i].account = a
        PROVE  Queued(a, q)
    <3>1. i + 1 \in DOMAIN q /\ q[i + 1].account = a
      BY <1>1, <2>2
    <3> QED BY <3>1 DEF Queued
  <2>3. a = Head(q).account => Queued(a, q)
    BY <1>1 DEF Queued
  <2> QED BY <2>1, <2>2, <2>3 DEF Queued
<1>4. ~Queued(Head(q).account, Tail(q))
  <2> SUFFICES ASSUME NEW i \in DOMAIN Tail(q), Tail(q)[i].account = Head(q).account
               PROVE  FALSE
    BY DEF Queued
  <2>1. i + 1 \in DOMAIN q /\ 1 \in DOMAIN q /\ q[i + 1].account = q[1].account
    BY <1>1
  <2>2. i + 1 = 1
    BY <2>1 DEF Distinct
  <2> QED BY <1>1, <2>2
<1>5. Head(q).account \in Account
  BY <1>1 DEF Waiter
<1> QED BY <1>1, <1>2, <1>3, <1>4, <1>5

\* next() leaves a consistent gate when nobody has a turn and exactly the
\* queued readers wait.
LEMMA NextWaiterKeeps ==
    ASSUME TypeOK, NEW q \in Seq(Waiter), Distinct(q),
           NEW readers \in [Account -> {"idle", "waiting", "turn"}],
           \A a \in Account : readers[a] # "turn",
           \A a \in Account : readers[a] = "waiting" <=> Queued(a, q),
           NextWaiter(q, readers), UNCHANGED <<last, spaced, stopped>>
    PROVE  IInv'
<1>1. CASE q = <<>>
  <2>1. /\ waiters' = <<>> /\ turnOf' = None /\ slept' = FALSE /\ reader' = readers
    BY <1>1 DEF NextWaiter
  <2>2. \A a \in Account : ~Queued(a, q)
    BY <1>1 DEF Queued
  <2>3. TypeOK'
    BY <2>1, <1>1 DEF TypeOK
  <2>4. ReadersMatchGate' /\ Distinct(waiters')
    BY <1>1, <2>1, <2>2, NoneIsNoAccount DEF ReadersMatchGate, Distinct
  <2> QED BY <2>1, <2>3, <2>4 DEF IInv, TakenIsNotQueued, TurnIsSpaced
<1>2. CASE q # <<>>
  <2> DEFINE a == Head(q).account
  <2>1. /\ waiters' = Tail(q) /\ turnOf' = a /\ slept' = ~MustWait(a)
        /\ reader' = IF MustWait(a) THEN readers ELSE [readers EXCEPT ![a] = "turn"]
    BY <1>2 DEF NextWaiter
  <2>2. /\ Tail(q) \in Seq(Waiter) /\ Distinct(Tail(q)) /\ a \in Account
        /\ \A b \in Account : Queued(b, q) <=> b = a \/ Queued(b, Tail(q))
        /\ ~Queued(a, Tail(q))
    BY <1>2, TailQueue
  <2> HIDE DEF a
  <2>3. TypeOK'
    BY <2>1, <2>2 DEF TypeOK
  <2>4. ReadersMatchGate'
    BY <2>1, <2>2 DEF ReadersMatchGate
  <2>5. TakenIsNotQueued' /\ busy' /\ Distinct(waiters')
    BY <2>1, <2>2, NoneIsNoAccount DEF TakenIsNotQueued, busy
  <2>6. TurnIsSpaced'
    BY <2>1 DEF TurnIsSpaced, MustWait
  <2> QED BY <2>3, <2>4, <2>5, <2>6 DEF IInv
<1> QED BY <1>1, <1>2

-----------------------------------------------------------------------------
\* acquire() keeps the gate consistent: refused, queued, or given the turn.
LEMMA AcquireKeeps ==
    ASSUME IInv, NEW a \in Account, NEW urgent \in BOOLEAN, Acquire(a, urgent)
    PROVE  IInv'
<1> DEFINE w == [account |-> a, urgent |-> urgent]
           q == Inserted(w)
           readers == [reader EXCEPT ![a] = "waiting"]
<1>0. w \in Waiter /\ w.account = a
  BY DEF Waiter
<1>1. TypeOK /\ Distinct(waiters) /\ ~Queued(a, waiters)
  BY DEF IInv, Acquire, ReadersMatchGate
<1>2. /\ q \in Seq(Waiter) /\ q # <<>> /\ Distinct(q)
      /\ \A b \in Account : Queued(b, q) <=> b = a \/ Queued(b, waiters)
  BY <1>0, <1>1, InsertedQueue
<1>3. readers \in [Account -> {"idle", "waiting", "turn"}]
  BY <1>1 DEF TypeOK
<1>4. reader[a] = "idle" /\ UNCHANGED <<last, spaced, stopped>>
  BY DEF Acquire
<1>5. CASE stopped
  BY <1>4, <1>5 DEF Acquire, IInv, TypeOK, ReadersMatchGate, TakenIsNotQueued,
                    busy, TurnIsSpaced
<1>6. CASE ~stopped /\ busy
  <2>1. waiters' = q /\ reader' = readers /\ UNCHANGED <<turnOf, slept>>
    BY <1>6 DEF Acquire
  <2> HIDE DEF q
  <2>2. turnOf # a
    BY <1>4, <1>6 DEF IInv, TypeOK, ReadersMatchGate, busy
  <2>3. TypeOK'
    BY <1>2, <1>3, <1>4, <2>1 DEF IInv, TypeOK
  <2>4. ReadersMatchGate' /\ TakenIsNotQueued'
    BY <1>2, <1>1, <1>4, <2>1, <2>2
       DEF IInv, TypeOK, ReadersMatchGate, TakenIsNotQueued
  <2>5. Distinct(waiters') /\ busy' /\ TurnIsSpaced'
    BY <1>2, <1>4, <1>6, <2>1 DEF IInv, busy, TurnIsSpaced
  <2> QED BY <2>3, <2>4, <2>5 DEF IInv
<1>7. CASE ~stopped /\ ~busy
  <2>1. NextWaiter(q, readers)
    BY <1>7 DEF Acquire
  <2>2. /\ \A b \in Account : readers[b] # "turn"
        /\ \A b \in Account : readers[b] = "waiting" <=> Queued(b, q)
    <3> HIDE DEF q
    <3> QED BY <1>1, <1>2, <1>4, <1>7, NoneIsNoAccount
            DEF IInv, TypeOK, ReadersMatchGate, busy
  <2> QED BY <1>1, <1>2, <1>3, <1>4, <2>1, <2>2, NextWaiterKeeps
<1> QED BY <1>5, <1>6, <1>7

\* The gate passes to the next waiter when the one it is busy for goes idle.
LEMMA HandOver ==
    ASSUME IInv, NEW a \in Account, turnOf = a,
           NextWaiter(waiters, [reader EXCEPT ![a] = "idle"]),
           UNCHANGED <<last, spaced, stopped>>
    PROVE  IInv'
<1> DEFINE readers == [reader EXCEPT ![a] = "idle"]
<1>1. /\ TypeOK /\ waiters \in Seq(Waiter) /\ Distinct(waiters)
      /\ readers \in [Account -> {"idle", "waiting", "turn"}]
  BY DEF IInv, TypeOK
<1>2. /\ \A b \in Account : readers[b] # "turn"
      /\ \A b \in Account : readers[b] = "waiting" <=> Queued(b, waiters)
  BY NoneIsNoAccount DEF IInv, TypeOK, ReadersMatchGate, TakenIsNotQueued
<1> QED BY <1>1, <1>2, NextWaiterKeeps

\* The inductive step.
LEMMA InvStep ==
    ASSUME IInv, [Next]_vars
    PROVE  IInv'
<1>1. ASSUME NEW a \in Account, NEW urgent \in BOOLEAN, Acquire(a, urgent)
      PROVE  IInv'
  BY <1>1, AcquireKeeps
<1>2. ASSUME NEW a \in Account, Send(a)
      PROVE  IInv'
  BY <1>2 DEF Send, IInv, TypeOK, ReadersMatchGate, TakenIsNotQueued, busy,
              TurnIsSpaced
<1>3. ASSUME NEW a \in Account, Release(a)
      PROVE  IInv'
  <2>1. turnOf = a
    BY <1>3 DEF Release, IInv, ReadersMatchGate
  <2> QED BY <1>3, <2>1, HandOver DEF Release
<1>4. CASE Wake
  <2>1. turnOf \in Account
    BY <1>4 DEF Wake, IInv, TypeOK
  <2>2. CASE stopped
    BY <1>4, <2>1, <2>2, HandOver DEF Wake
  <2>3. CASE ~stopped
    <3>1. /\ slept' = TRUE /\ reader' = [reader EXCEPT ![turnOf] = "turn"]
          /\ ~slept /\ spaced
          /\ UNCHANGED <<waiters, turnOf, last, spaced, stopped>>
      BY <1>4, <2>3 DEF Wake
    <3>2. TypeOK'
      BY <2>1, <3>1 DEF IInv, TypeOK
    <3>3. ReadersMatchGate'
      BY <2>1, <3>1, NoneIsNoAccount
         DEF IInv, TypeOK, ReadersMatchGate, TakenIsNotQueued
    <3> QED BY <3>1, <3>2, <3>3 DEF IInv, TakenIsNotQueued, busy, TurnIsSpaced
  <2> QED BY <2>2, <2>3
<1>5. CASE Stop
  <2>1. /\ waiters' = <<>> /\ UNCHANGED <<turnOf, slept, last, spaced>>
        /\ stopped' = TRUE
        /\ reader' = [a \in Account |-> IF Queued(a, waiters) THEN "idle" ELSE reader[a]]
    BY <1>5 DEF Stop, Queued
  <2>2. \A a \in Account : ~Queued(a, waiters')
    BY <2>1 DEF Queued
  <2>3. TypeOK' /\ Distinct(waiters')
    BY <2>1 DEF IInv, TypeOK, Distinct
  <2>4. ReadersMatchGate'
    BY <2>1, <2>2, NoneIsNoAccount
       DEF IInv, TypeOK, ReadersMatchGate, TakenIsNotQueued
  <2>5. TakenIsNotQueued' /\ TurnIsSpaced'
    BY <2>1, <2>2 DEF IInv, TypeOK, TakenIsNotQueued, TurnIsSpaced
  <2> QED BY <2>1, <2>3, <2>4, <2>5 DEF IInv
<1>6. CASE GapPasses
  BY <1>6 DEF GapPasses, IInv, TypeOK, ReadersMatchGate, TakenIsNotQueued, busy,
              TurnIsSpaced
<1>7. CASE UNCHANGED vars
  BY <1>7 DEF vars, IInv, TypeOK, ReadersMatchGate, TakenIsNotQueued, busy,
              TurnIsSpaced
<1> QED BY <1>1, <1>2, <1>3, <1>4, <1>5, <1>6, <1>7 DEF Next

\* The inductive invariant holds throughout.
LEMMA Invariance == Spec => []IInv
<1>1. Init => IInv
  <2> SUFFICES ASSUME Init PROVE IInv
    OBVIOUS
  <2>1. TypeOK
    <3>1. <<>> \in Seq(Waiter)
      OBVIOUS
    <3> QED BY <3>1 DEF Init, TypeOK
  <2>3. Distinct(waiters)
    BY DEF Init, Distinct
  <2>2. ReadersMatchGate
    BY NoneIsNoAccount DEF Init, ReadersMatchGate, Queued
  <2> QED BY <2>1, <2>2, <2>3 DEF Init, IInv, TakenIsNotQueued, TurnIsSpaced
<1> QED BY <1>1, InvStep, PTL DEF Spec

\* A queue without repetitions has as many accounts as places.
LEMMA DistinctCount ==
    ASSUME NEW q \in Seq(Waiter), Distinct(q)
    PROVE  Cardinality({q[i].account : i \in DOMAIN q}) = Len(q)
<1> DEFINE S == {q[i].account : i \in DOMAIN q}
           f == [i \in 1..Len(q) |-> q[i].account]
<1>1. Len(q) \in Nat /\ DOMAIN q = 1..Len(q)
  OBVIOUS
<1>2. f \in Bijection(1..Len(q), S)
  <2>1. f \in [1..Len(q) -> S]
    BY <1>1
  <2>2. \A i, j \in 1..Len(q) : f[i] = f[j] => i = j
    BY <1>1 DEF Distinct
  <2>3. \A x \in S : \E i \in 1..Len(q) : f[i] = x
    BY <1>1
  <2> QED BY <2>1, <2>2, <2>3 DEF Bijection, Injection, Surjection, IsInjective
<1>3. ExistsBijection(1..Len(q), S)
  BY <1>2 DEF ExistsBijection
<1> QED BY <1>1, <1>3, FS_CountingElements

\* next() forgets nobody: of any set of accounts, the reader with a turn is the
\* one the gate is busy for, each waiting reader is queued once or is the one
\* asleep, and a free gate leaves nobody waiting, whenever stop() comes.
THEOREM GateForgetsNobody == Spec => []NobodyIsForgotten
<1>1. IInv => NobodyIsForgotten
  <2> SUFFICES ASSUME IInv PROVE NobodyIsForgotten
    OBVIOUS
  <2>1. Cardinality({waiters[i].account : i \in DOMAIN waiters}) = Len(waiters)
    BY DistinctCount DEF IInv, TypeOK
  <2> QED BY <2>1 DEF IInv, ReadersMatchGate, Queued, NobodyIsForgotten
<1> QED BY <1>1, Invariance, PTL

\* turn.sent() never follows the read of another account by less than a gap,
\* however long a turn was held unsent before it.
THEOREM GateSpacesReads == Spec => ReadsAreSpaced
<1>1. IInv /\ [Next]_vars => [last' # last /\ last # None => spaced]_vars
  <2> SUFFICES ASSUME IInv, Next, last' # last, last # None PROVE spaced
    OBVIOUS
  <2>1. PICK a \in Account : Send(a)
    BY DEF Next, Acquire, Release, Wake, Stop, GapPasses
  <2>2. turnOf = a /\ slept /\ last' = a
    BY <2>1 DEF Send, IInv, ReadersMatchGate
  <2> QED BY <2>2, NoneIsNoAccount DEF IInv, TurnIsSpaced
<1> QED BY <1>1, Invariance, PTL DEF Spec, ReadsAreSpaced
=============================================================================
