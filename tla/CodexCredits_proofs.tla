-------------------------- MODULE CodexCredits_proofs --------------------------
(***************************************************************************)
(* Proofs about CodexCredits, for any credits, attempts, observations and  *)
(* faults: readings in the cache are never older than a handled reset, no  *)
(* redemption that went out is forgotten, and a fresh weekly claim acts on *)
(* a reading that no automatic redemption has overtaken.                   *)
(***************************************************************************)
EXTENDS CodexCredits, SequenceTheorems, WellFoundedInduction,
        NaturalsInduction, TLAPS

(* Types *)

Tick == [pc : {"idle", "reconcile", "discover", "confirm", "claim", "dispatch",
               "awaiting"},
         pending : Row \cup {None}, skip : Credit \cup {None},
         plan : [credit : Credit, cause : Cause]
                  \cup [key : Key, cause : Cause] \cup {None},
         reused : BOOLEAN, replay : BOOLEAN]
Call == [pc : {"idle", "waiting", "answered", "recording"},
         key : Key \cup {None}, outcome : Resolution \cup {None}]
Observation == [pc : {"idle", "issued", "reported", "claimed"}, seq : Nat,
                epoch : Nat, over : BOOLEAN, snap : Reading \cup {None}]

(* The rows of a ledger.  All are automatic attempts, and no attempt has   *)
(* two of them.                                                            *)
Rows(led) == {led[i] : i \in DOMAIN led}
LedgerOK(led) ==
    /\ led \in Seq(Row)
    /\ \A r \in Rows(led) : IsAuto(r.key)
    /\ \A i, j \in DOMAIN led : led[i].key = led[j].key => i = j

HasRow(led, k) == \E r \in Rows(led) : r.key = k
HasPending(led, k) == \E r \in Rows(led) : r.key = k /\ r.status = "pending"

(* Observations, and the counters they are compared with.                  *)
Counted ==
    /\ issuedSeq \in Nat /\ appliedSeq \in Nat /\ epoch \in Nat
    /\ appliedSeq <= issuedSeq
    /\ obs \in [Channel -> Observation]
    /\ \A ch \in Channel : obs[ch].seq <= issuedSeq /\ obs[ch].epoch <= epoch
    /\ \A ch \in Channel : obs[ch].pc \in {"reported", "claimed"} =>
                              obs[ch].snap \in Reading
    /\ \A ch \in Channel : obs[ch].pc = "claimed" =>
                              ch = "read" /\ obs[ch].seq <= appliedSeq

Typed ==
    /\ level \in 0..2
    /\ spentBy \in [Credit -> Key \cup {None}]
    /\ late \subseteq sent /\ sent \subseteq Key
    /\ on \in [Cause -> BOOLEAN] /\ cooling \in BOOLEAN
    /\ seen \subseteq Credit
    /\ usage \in Reading \cup {None}
    /\ LedgerOK(ledger)
    /\ Counted

(* The call in progress, and what its answer says about upstream.          *)
CallOK ==
    /\ call \in Call
    /\ call.pc # "idle" => call.key \in sent
    /\ call.pc \in {"answered", "recording"} =>
          /\ call.outcome \in Resolution
          /\ call.outcome # "nothingToReset" => CreditOf(call.key) \in Spent
          /\ call.outcome = "noCredit" => spentBy[CreditOf(call.key)] # call.key

(* What the tick has in hand is in the ledger with its outcome open, and   *)
(* the tick and the call know of each other.  A claim that is new has not  *)
(* been sent, and a weekly one was decided outside the cooldown.           *)
TickOK ==
    /\ tick \in Tick
    /\ tick.pc = "reconcile" =>
          tick.pending \in Row /\ HasPending(ledger, tick.pending.key)
    /\ tick.pc = "claim" =>
          /\ tick.plan \in [credit : Credit, cause : Cause]
          /\ tick.plan.cause = "weekly" => ~cooling
    /\ tick.pc \in {"dispatch", "awaiting"} =>
          /\ tick.plan \in [key : Key, cause : Cause]
          /\ HasPending(ledger, tick.plan.key)
    /\ tick.pc = "dispatch" /\ ~tick.reused => tick.plan.key \notin sent
    /\ tick.pc = "awaiting" => call.pc # "idle" /\ call.key = tick.plan.key
    /\ call.pc # "idle" /\ IsAuto(call.key) => tick.pc = "awaiting"

(* What the ledger, upstream and the wire know of each other.              *)
Remembered ==
    /\ \A k \in sent : IsAuto(k) => HasRow(ledger, k)
    /\ \A c \in Spent : spentBy[c] \in sent /\ CreditOf(spentBy[c]) = c
    /\ \A r \in Rows(ledger) : r.status \in Resolution \ {"nothingToReset"} =>
                                  CreditOf(r.key) \in Spent

(* Whether the observation o of channel ch would still be applied, when    *)
(* the sequence applied last is a and the epoch is e; and that a reading u *)
(* and all such observations are as recent as the spending of S.           *)
Current(ch, o, a, e) ==
    /\ o.pc \in {"reported", "claimed"}
    /\ CASE ch = "traffic" -> o.epoch = e
         [] ch # "traffic" /\ o.pc = "claimed" -> o.seq = a
         [] OTHER -> o.seq > a
Covers(S, u, os, a, e) ==
    /\ u # None => S \subseteq u.at
    /\ \A ch \in Channel : Current(ch, os[ch], a, e) => S \subseteq os[ch].snap.at

Fenced == acked \subseteq Spent /\ Covers(acked, usage, obs, appliedSeq, epoch)

(* Outside the cooldown, what automatic attempts have spent whose row is   *)
(* closed is known to every reading, and none that is closed can still     *)
(* spend anything.                                                         *)
Announced == {c \in AutoSpent : ~HasPending(ledger, spentBy[c])}
Overtaken ==
    ~cooling =>
       /\ Covers(Announced, usage, obs, appliedSeq, epoch)
       /\ \A k \in late : IsAuto(k) /\ ~HasPending(ledger, k) =>
                             CreditOf(k) \in Spent

IInv == Typed /\ CallOK /\ TickOK /\ Remembered /\ Fenced /\ Overtaken

-----------------------------------------------------------------------------
(* Numbers and ledgers *)

\* A non-empty set of naturals has a least element.
LEMMA LeastNumber ==
    ASSUME NEW S \in SUBSET Nat, S # {}
    PROVE  \E i \in S : \A j \in S : i <= j
<1>1. IsWellFoundedOn(OpToRel(<, Nat), Nat)
  BY NatLessThanWellFounded
<1>2. PICK i \in S : \A j \in S : <<j, i>> \notin OpToRel(<, Nat)
  BY <1>1, WFMin
<1>3. \A j \in S : ~(j < i)
  BY <1>2 DEF OpToRel
<1> QED BY <1>3

\* A non-empty set of naturals below a bound has a greatest element.
LEMMA GreatestNumber ==
    ASSUME NEW n \in Nat, NEW S \in SUBSET (0..n), S # {}
    PROVE  \E i \in S : \A j \in S : j <= i
<1> DEFINE T == {n - i : i \in S}
<1>1. T \in SUBSET Nat /\ T # {}
  <2>1. \A i \in S : n - i \in Nat
    OBVIOUS
  <2> QED BY <2>1
<1>2. PICK t \in T : \A u \in T : t <= u
  BY <1>1, LeastNumber
<1>3. PICK i \in S : t = n - i
  BY <1>2
<1>4. \A j \in S : j <= i
  BY <1>2, <1>3
<1> QED BY <1>4

\* What a key is made of.
LEMMA KeyParts ==
    /\ \A k \in Key : CreditOf(k) \in Credit /\ k[2] \in 0..MaxAttempt
    /\ \A c \in Credit, n \in 0..MaxAttempt :
         <<c, n>> \in Key /\ CreditOf(<<c, n>>) = c /\ <<c, n>>[2] = n
  BY DEF Key, CreditOf

\* A row for a new attempt is added to the ledger.
LEMMA AppendRow ==
    ASSUME NEW led, LedgerOK(led), NEW r \in Row, IsAuto(r.key),
           ~HasRow(led, r.key)
    PROVE  LedgerOK(Append(led, r)) /\ Rows(Append(led, r)) = Rows(led) \cup {r}
<1>1. led \in Seq(Row)
  BY DEF LedgerOK
<1>2. /\ Append(led, r) \in Seq(Row)
      /\ DOMAIN Append(led, r) = DOMAIN led \cup {Len(led) + 1}
      /\ Len(led) + 1 \notin DOMAIN led
      /\ \A i \in DOMAIN led : Append(led, r)[i] = led[i]
      /\ Append(led, r)[Len(led) + 1] = r
  BY <1>1, AppendProperties
<1> DEFINE new == Append(led, r)
           n == Len(led) + 1
           D == DOMAIN led
<1>3. /\ new \in Seq(Row) /\ DOMAIN new = D \cup {n} /\ n \notin D
      /\ \A i \in D : new[i] = led[i]
      /\ new[n] = r
  BY <1>2
<1> HIDE DEF new, n
<1>4. Rows(new) = Rows(led) \cup {r}
  BY <1>3 DEF Rows
<1>5. \A i \in D : led[i].key # r.key
  BY DEF HasRow, Rows
<1>6. \A i, j \in D \cup {n} : new[i].key = new[j].key => i = j
  BY <1>3, <1>5 DEF LedgerOK
<1>7. \A q \in Rows(new) : IsAuto(q.key)
  BY <1>4 DEF LedgerOK
<1>8. LedgerOK(new)
  BY <1>3, <1>6, <1>7 DEF LedgerOK
<1> QED BY <1>4, <1>8 DEF new

\* resolveAttempt closes the pending row of an attempt.
LEMMA ResolveRow ==
    ASSUME LedgerOK(ledger), NEW k, NEW status \in Resolution
    PROVE  /\ LedgerOK(Resolved(k, status))
           /\ Len(Resolved(k, status)) = Len(ledger)
           /\ \A q : HasRow(Resolved(k, status), q) <=> HasRow(ledger, q)
           /\ \A q : HasPending(Resolved(k, status), q)
                        <=> q # k /\ HasPending(ledger, q)
           /\ \A r \in Rows(Resolved(k, status)) :
                 r \in Rows(ledger) \/ (r.key = k /\ r.status = status)
<1> DEFINE new == Resolved(k, status)
           D == DOMAIN ledger
<1>1. ledger \in Seq(Row) /\ D = 1..Len(ledger) /\ Len(ledger) \in Nat
  BY DEF LedgerOK
<1>2. \A i \in D : ledger[i] \in Row
  BY <1>1
<1>3. /\ DOMAIN new = D
      /\ \A i \in D : new[i] = IF ledger[i].key = k /\ ledger[i].status = "pending"
                               THEN [ledger[i] EXCEPT !.status = status]
                               ELSE ledger[i]
  BY DEF Resolved
<1>4. \A i \in D : /\ new[i] \in Row /\ new[i].key = ledger[i].key
                   /\ new[i] = ledger[i] \/ (new[i].key = k /\ new[i].status = status)
                   /\ new[i].status = "pending" <=>
                         ledger[i].status = "pending" /\ ledger[i].key # k
  BY <1>2, <1>3 DEF Row, Resolution
<1>5. new = [i \in 1..Len(ledger) |-> new[i]]
  BY <1>1, <1>3 DEF Resolved
<1> HIDE DEF new
<1>6. new \in Seq(Row) /\ Len(new) = Len(ledger)
  BY <1>1, <1>4, <1>5
<1>7. LedgerOK(new)
  <2>1. \A r \in Rows(new) : IsAuto(r.key)
    BY <1>3, <1>4 DEF LedgerOK, Rows, IsAuto
  <2>2. \A i, j \in DOMAIN new : new[i].key = new[j].key => i = j
    BY <1>3, <1>4 DEF LedgerOK
  <2> QED BY <1>6, <2>1, <2>2 DEF LedgerOK
<1>8. \A q : HasRow(new, q) <=> HasRow(ledger, q)
  BY <1>3, <1>4 DEF HasRow, Rows
<1>9. \A q : HasPending(new, q) <=> q # k /\ HasPending(ledger, q)
  BY <1>3, <1>4 DEF HasPending, Rows
<1>10. \A r \in Rows(new) : r \in Rows(ledger) \/ (r.key = k /\ r.status = status)
  BY <1>3, <1>4 DEF Rows
<1> QED BY <1>6, <1>7, <1>8, <1>9, <1>10 DEF new

\* A row is taken out of the ledger.
LEMMA RemoveRow ==
    ASSUME NEW led, LedgerOK(led), NEW n \in DOMAIN led
    PROVE  /\ LedgerOK(RemoveAt(led, n))
           /\ Rows(RemoveAt(led, n)) = Rows(led) \ {led[n]}
           /\ Len(RemoveAt(led, n)) = Len(led) - 1
<1> DEFINE x == SubSeq(led, 1, n - 1)
           y == SubSeq(led, n + 1, Len(led))
           new == RemoveAt(led, n)
           from == [i \in 1..(Len(led) - 1) |-> IF i < n THEN i ELSE i + 1]
<1>1. led \in Seq(Row) /\ n \in 1..Len(led) /\ Len(led) \in Nat
  BY DEF LedgerOK
<1>2. /\ x \in Seq(Row) /\ Len(x) = n - 1
      /\ \A i \in 1..(n - 1) : x[i] = led[i]
  BY <1>1, SubSeqProperties
<1>3. /\ y \in Seq(Row) /\ Len(y) = Len(led) - n
      /\ \A i \in 1..(Len(led) - n) : y[i] = led[n + i]
  BY <1>1, SubSeqProperties
<1>4. new = x \o y
  BY DEF RemoveAt
<1> HIDE DEF x, y, new
<1>5. /\ new \in Seq(Row) /\ Len(new) = Len(led) - 1
      /\ \A i \in 1..Len(new) : new[i] = IF i <= n - 1 THEN x[i] ELSE y[i - (n - 1)]
  BY <1>1, <1>2, <1>3, <1>4, ConcatProperties
<1>6. \A i \in DOMAIN new : from[i] \in DOMAIN led \ {n} /\ new[i] = led[from[i]]
  <2> TAKE i \in DOMAIN new
  <2>1. i \in 1..(Len(led) - 1) /\ i \in Int /\ n \in Int
    BY <1>1, <1>5
  <2>2. CASE i < n
    <3>1. i \in 1..(n - 1) /\ i <= n - 1 /\ i \in 1..Len(new)
      BY <1>1, <1>5, <2>1, <2>2
    <3>2. new[i] = x[i] /\ x[i] = led[i]
      BY <1>2, <1>5, <3>1
    <3>3. from[i] = i
      BY <2>1, <2>2
    <3> QED BY <1>1, <2>1, <2>2, <3>2, <3>3
  <2>3. CASE ~(i < n)
    <3>1. from[i] = i + 1 /\ new[i] = y[i - (n - 1)]
      BY <1>1, <1>5, <2>1, <2>3
    <3>2. i - (n - 1) \in 1..(Len(led) - n) /\ n + (i - (n - 1)) = i + 1
      BY <1>1, <2>1, <2>3
    <3>3. y[i - (n - 1)] = led[i + 1]
      BY <1>3, <3>2
    <3> QED BY <1>1, <2>1, <2>3, <3>1, <3>3
  <2> QED BY <2>2, <2>3
<1>7. \A j \in DOMAIN led \ {n} : \E i \in DOMAIN new : from[i] = j
  <2> TAKE j \in DOMAIN led \ {n}
  <2>1. CASE j < n
    <3>1. j \in DOMAIN new /\ from[j] = j
      BY <1>1, <1>5, <2>1
    <3> QED BY <3>1
  <2>2. CASE j > n
    <3>1. j - 1 \in DOMAIN new /\ from[j - 1] = j
      BY <1>1, <1>5, <2>2
    <3> QED BY <3>1
  <2> QED BY <1>1, <2>1, <2>2
<1>8. \A i, j \in DOMAIN new : from[i] = from[j] => i = j
  BY <1>1, <1>5
<1> HIDE DEF from
<1>9. \A j \in DOMAIN led \ {n} : led[j] # led[n]
  BY DEF LedgerOK
<1>10. Rows(new) = Rows(led) \ {led[n]}
  <2>1. \A r \in Rows(new) : r \in Rows(led) /\ r # led[n]
    BY <1>6, <1>9 DEF Rows
  <2>2. \A r \in Rows(led) : r # led[n] => r \in Rows(new)
    <3> SUFFICES ASSUME NEW j \in DOMAIN led, led[j] # led[n]
                 PROVE  led[j] \in Rows(new)
      BY DEF Rows
    <3>1. PICK i \in DOMAIN new : from[i] = j
      BY <1>7
    <3>2. new[i] = led[j]
      BY <1>6, <3>1
    <3> QED BY <3>2 DEF Rows
  <2> QED BY <2>1, <2>2
<1>11. \A i, j \in DOMAIN new : new[i].key = new[j].key => i = j
  BY <1>6, <1>8 DEF LedgerOK
<1>12. \A r \in Rows(new) : IsAuto(r.key)
  BY <1>10 DEF LedgerOK
<1>13. LedgerOK(new)
  BY <1>5, <1>11, <1>12 DEF LedgerOK
<1> QED BY <1>5, <1>10, <1>13 DEF new

\* What IsPending says of the ledger's rows, and what withdrawing does.
LEMMA PendingRows ==
    /\ \A k : IsPending(k) <=> HasPending(ledger, k)
    /\ Pending = {} <=> \A k : ~HasPending(ledger, k)
  BY DEF IsPending, Pending, HasPending, Rows

LEMMA WithdrawRow ==
    ASSUME LedgerOK(ledger), NEW k
    PROVE  /\ LedgerOK(Withdrawn(k))
           /\ Len(Withdrawn(k)) <= Len(ledger)
           /\ Rows(Withdrawn(k)) \subseteq Rows(ledger)
           /\ \A r \in Rows(ledger) : r.key # k => r \in Rows(Withdrawn(k))
<1>0. Len(ledger) \in Nat
  BY DEF LedgerOK
<1>1. CASE ~IsPending(k)
  BY <1>0, <1>1 DEF Withdrawn
<1>2. CASE IsPending(k)
  <2> DEFINE n == CHOOSE i \in Pending : ledger[i].key = k
  <2>1. n \in Pending /\ ledger[n].key = k
    BY <1>2 DEF IsPending
  <2>2. n \in DOMAIN ledger
    BY <2>1 DEF Pending
  <2>3. Withdrawn(k) = RemoveAt(ledger, n)
    BY <1>2 DEF Withdrawn
  <2> HIDE DEF n
  <2> QED BY <1>0, <2>1, <2>2, <2>3, RemoveRow
<1> QED BY <1>1, <1>2

-----------------------------------------------------------------------------
(* The tick *)

LEMMA InitIsSound == Init => IInv
<1> SUFFICES ASSUME Init PROVE IInv
  OBVIOUS
<1>1. Rows(ledger) = {} /\ LedgerOK(ledger)
  BY DEF Init, Rows, LedgerOK
<1>2. Spent = {} /\ AutoSpent = {}
  BY DEF Init, Spent, AutoSpent
<1>3. Counted
  BY DEF Init, Counted, NoObs, Observation, Channel
<1>4. Typed
  <2>1. on \in [Cause -> BOOLEAN] /\ cooling \in BOOLEAN
    BY DEF Init
  <2>2. spentBy \in [Credit -> Key \cup {None}] /\ level \in 0..2
    BY DEF Init
  <2>3. late \subseteq sent /\ sent \subseteq Key /\ seen \subseteq Credit
    BY DEF Init
  <2>4. usage \in Reading \cup {None}
    BY DEF Init
  <2> QED BY <1>1, <1>3, <2>1, <2>2, <2>3, <2>4 DEF Typed
<1>5. CallOK
  BY DEF Init, CallOK, NoCall, Call
<1>6. TickOK
  BY DEF Init, TickOK, NoTick, NoCall, Tick
<1>7. Remembered
  BY <1>1, <1>2 DEF Init, Remembered
<1>8. Fenced /\ Overtaken
  BY <1>2 DEF Init, Fenced, Overtaken, Covers, Current, NoObs, Announced, Channel
<1> QED BY <1>4, <1>5, <1>6, <1>7, <1>8 DEF IInv

\* A step of the tick that only reads leaves everybody else alone.
LEMMA TickMoves ==
    ASSUME IInv, UNCHANGED <<tickOnly, ledger>>, seen' \subseteq Credit, TickOK'
    PROVE  IInv'
<1>1. /\ UNCHANGED <<level, spentBy, late, sent, on, cooling, usage, issuedSeq>>
      /\ UNCHANGED <<appliedSeq, epoch, obs, acked, issued, call, ledger>>
  BY DEF tickOnly, upstream, fences
<1>2. Spent' = Spent /\ AutoSpent' = AutoSpent
  BY <1>1 DEF Spent, AutoSpent
<1>3. Typed'
  BY <1>1 DEF IInv, Typed, Counted
<1>4. CallOK'
  BY <1>1, <1>2 DEF IInv, CallOK
<1>5. Remembered'
  BY <1>1, <1>2 DEF IInv, Remembered
<1>6. Fenced'
  BY <1>1, <1>2 DEF IInv, Fenced
<1>7. Overtaken'
  BY <1>1, <1>2 DEF IInv, Overtaken, Announced
<1> QED BY <1>3, <1>4, <1>5, <1>6, <1>7 DEF IInv

\* findPendingForAccount finds a pending row, if there is any.
LEMMA OldestPending ==
    ASSUME LedgerOK(ledger), findPendingForAccount # None
    PROVE  /\ findPendingForAccount \in Row
           /\ HasPending(ledger, findPendingForAccount.key)
<1> DEFINE n == CHOOSE i \in Pending : \A j \in Pending : i <= j
<1>1. Pending # {} /\ findPendingForAccount = ledger[n]
  BY DEF findPendingForAccount
<1>2. Pending \in SUBSET Nat /\ \A i \in Pending : ledger[i] \in Row
  BY DEF Pending, LedgerOK
<1>3. n \in Pending
  BY <1>1, <1>2, LeastNumber
<1> HIDE DEF n
<1> QED BY <1>1, <1>2, <1>3 DEF HasPending, Pending, Rows

\* The decisions are about credits of the account, and a weekly one is only
\* taken outside the cooldown.
LEMMA DecisionsAreSound ==
    ASSUME NEW credits \in SUBSET Credit, NEW skip,
           NEW d \in Decisions(credits, skip), d # None
    PROVE  d \in [credit : Credit, cause : Cause] /\ (d.cause = "weekly" => ~cooling)
  BY DEF Decisions, ExpiryPlans, WeeklyPlans, Usable, SoonestOf, Cause

LEMMA AvailableIsCredit == Available \in SUBSET Credit
  BY DEF Available

\* The tick is not waiting for a call, so no call of its own is in progress.
LEMMA NotAwaiting ==
    ASSUME IInv, tick.pc # "awaiting", UNCHANGED call
    PROVE  ~(call'.pc # "idle" /\ IsAuto(call'.key))
  BY DEF IInv, TickOK

LEMMA TickStartIsSound == IInv /\ TickStart => IInv'
<1> SUFFICES ASSUME IInv, TickStart PROVE IInv'
  OBVIOUS
<1> DEFINE p == findPendingForAccount
<1>1. p \in Row \cup {None} /\ (p # None => p \in Row /\ HasPending(ledger, p.key))
  BY OldestPending DEF IInv, Typed
<1>2. tick' = [pc |-> IF p = None THEN "discover" ELSE "reconcile", pending |-> p,
               skip |-> None, plan |-> None, reused |-> FALSE, replay |-> FALSE]
  BY DEF TickStart, NoTick
<1> HIDE DEF p
<1>3. UNCHANGED <<tickOnly, ledger, seen, call>> /\ tick.pc # "awaiting"
  BY DEF TickStart, tickOnly
<1>4. ~(call'.pc # "idle" /\ IsAuto(call'.key))
  BY <1>3, NotAwaiting
<1>5. tick' \in Tick
  BY <1>1, <1>2 DEF Tick
<1>6. TickOK'
  BY <1>1, <1>2, <1>3, <1>4, <1>5 DEF TickOK
<1> QED BY <1>3, <1>6, TickMoves DEF IInv, Typed

LEMMA ReconcileIsSound == IInv /\ Reconcile => IInv'
<1> SUFFICES ASSUME IInv, Reconcile PROVE IInv'
  OBVIOUS
<1>1. /\ UNCHANGED <<tickOnly, ledger, call, sent, cooling>>
      /\ tick.pc = "reconcile" /\ tick \in Tick
      /\ tick.pending \in Row /\ HasPending(ledger, tick.pending.key)
      /\ seen' \in SUBSET Credit
  BY AvailableIsCredit DEF Reconcile, tickOnly, upstream, IInv, TickOK, Typed
<1>2. ~(call'.pc # "idle" /\ IsAuto(call'.key))
  BY <1>1, NotAwaiting
<1>3. /\ tick.pending.key \in Key /\ tick.pending.cause \in Cause
      /\ CreditOf(tick.pending.key) \in Credit
  BY <1>1, KeyParts DEF Row
<1>4. TickOK'
  <2>1. ASSUME tick' = [tick EXCEPT !.pc = "dispatch",
                           !.skip = CreditOf(tick.pending.key),
                           !.plan = [key |-> tick.pending.key, cause |-> tick.pending.cause],
                           !.reused = TRUE, !.replay = TRUE]
        PROVE  TickOK'
    <3> DEFINE q == [key |-> tick.pending.key, cause |-> tick.pending.cause]
    <3>1. q \in [key : Key, cause : Cause] /\ q.key = tick.pending.key
      BY <1>3
    <3> HIDE DEF q
    <3>2. /\ tick' \in Tick /\ tick'.pc = "dispatch" /\ tick'.plan = q /\ tick'.reused
      BY <1>1, <1>3, <2>1, <3>1 DEF Tick, q
    <3> QED BY <1>1, <1>2, <3>1, <3>2 DEF TickOK
  <2>2. ASSUME tick' = [tick EXCEPT !.pc = "discover"]
        PROVE  TickOK'
    <3>1. tick' \in Tick /\ tick'.pc = "discover"
      BY <1>1, <2>2 DEF Tick
    <3> QED BY <1>2, <3>1 DEF TickOK
  <2>3. ASSUME tick' = [tick EXCEPT !.pc = "discover", !.skip = CreditOf(tick.pending.key)]
        PROVE  TickOK'
    <3>1. tick' \in Tick /\ tick'.pc = "discover"
      BY <1>1, <1>3, <2>3 DEF Tick
    <3> QED BY <1>2, <3>1 DEF TickOK
  <2> QED BY <2>1, <2>2, <2>3 DEF Reconcile
<1> QED BY <1>1, <1>4, TickMoves

LEMMA NoTickIsSound ==
    ASSUME ~(call'.pc # "idle" /\ IsAuto(call'.key)), tick' = NoTick
    PROVE  TickOK'
<1>1. tick' \in Tick /\ tick'.pc = "idle"
  BY DEF NoTick, Tick
<1> QED BY <1>1 DEF TickOK

LEMMA DiscoverIsSound == IInv /\ Discover => IInv'
<1> SUFFICES ASSUME IInv, Discover PROVE IInv'
  OBVIOUS
<1>1. /\ UNCHANGED <<tickOnly, ledger, call>> /\ tick.pc # "awaiting"
      /\ tick \in Tick /\ seen' \in SUBSET Credit
  BY AvailableIsCredit DEF Discover, tickOnly, IInv, TickOK, Typed
<1>2. ~(call'.pc # "idle" /\ IsAuto(call'.key))
  BY <1>1, NotAwaiting
<1>3. ASSUME tick' = [tick EXCEPT !.pc = "confirm"]
      PROVE  TickOK'
  <2>1. tick' \in Tick /\ tick'.pc = "confirm"
    BY <1>1, <1>3 DEF Tick
  <2> QED BY <1>2, <2>1 DEF TickOK
<1>4. TickOK'
  BY <1>2, <1>3, NoTickIsSound DEF Discover
<1> QED BY <1>1, <1>4, TickMoves

LEMMA ConfirmIsSound == IInv /\ Confirm => IInv'
<1> SUFFICES ASSUME IInv, Confirm PROVE IInv'
  OBVIOUS
<1>1. /\ UNCHANGED <<tickOnly, ledger, call, cooling>> /\ tick.pc # "awaiting"
      /\ tick \in Tick /\ seen' \in SUBSET Credit
  BY AvailableIsCredit DEF Confirm, tickOnly, IInv, TickOK, Typed
<1>2. ~(call'.pc # "idle" /\ IsAuto(call'.key))
  BY <1>1, NotAwaiting
<1>3. ASSUME NEW d \in Decisions(Available, tick.skip), d # None,
             tick' = [tick EXCEPT !.pc = "claim", !.plan = d]
      PROVE  TickOK'
  <2>1. d \in [credit : Credit, cause : Cause] /\ (d.cause = "weekly" => ~cooling)
    BY <1>3, AvailableIsCredit, DecisionsAreSound
  <2>2. tick' \in Tick /\ tick'.pc = "claim" /\ tick'.plan = d
    BY <1>1, <1>3, <2>1 DEF Tick
  <2> QED BY <1>1, <1>2, <2>1, <2>2 DEF TickOK
<1>4. TickOK'
  BY <1>2, <1>3, NoTickIsSound DEF Confirm
<1> QED BY <1>1, <1>4, TickMoves

\* A reading that covers a set of credits covers every part of it.
LEMMA CoversLess ==
    ASSUME NEW S, NEW T, S \subseteq T, NEW u, NEW os, NEW a, NEW e,
           Covers(T, u, os, a, e)
    PROVE  Covers(S, u, os, a, e)
  BY DEF Covers

\* What the rows of a ledger are.
LEMMA LedgerRows ==
    ASSUME NEW led, LedgerOK(led)
    PROVE  /\ \A i \in DOMAIN led : led[i] \in Row /\ led[i].key \in Key
           /\ \A r \in Rows(led) : r \in Row /\ r.key \in Key /\ IsAuto(r.key)
<1>1. \A r \in Row : r.key \in Key
  BY DEF Row
<1>2. \A i \in DOMAIN led : led[i] \in Row
  BY DEF LedgerOK
<1>3. \A r \in Rows(led) : r \in Row
  BY <1>2 DEF Rows
<1> QED BY <1>1, <1>2, <1>3 DEF LedgerOK

\* latestAutoRow finds the row with the highest attempt of a credit.
LEMMA LatestRow ==
    ASSUME LedgerOK(ledger), NEW c \in Credit
    PROVE  \/ /\ LatestAttempt(c) = None
              /\ \A r \in Rows(ledger) : CreditOf(r.key) # c
           \/ /\ LatestAttempt(c) # None
              /\ LatestAttempt(c) \in Rows(ledger) /\ LatestAttempt(c) \in Row
              /\ CreditOf(LatestAttempt(c).key) = c
              /\ \A r \in Rows(ledger) : CreditOf(r.key) = c =>
                     r.key[2] <= LatestAttempt(c).key[2]
<1>1. CASE RowsOf(c) = {}
  BY <1>1 DEF LatestAttempt, RowsOf, Rows
<1>2. CASE RowsOf(c) # {}
  <2> DEFINE Top(i) == \A j \in RowsOf(c) : ledger[j].key[2] <= ledger[i].key[2]
             n == CHOOSE i \in RowsOf(c) : Top(i)
             S == {ledger[j].key[2] : j \in RowsOf(c)}
  <2>1. \A i \in DOMAIN ledger : ledger[i] \in Row /\ ledger[i].key \in Key
    BY LedgerRows
  <2>2. S \in SUBSET (0..MaxAttempt) /\ S # {}
    BY <1>2, <2>1, KeyParts DEF RowsOf
  <2>3. PICK m \in S : \A j \in S : j <= m
    BY <2>2, GreatestNumber, BoundsAssumption
  <2>4. PICK i \in RowsOf(c) : m = ledger[i].key[2]
    BY <2>3
  <2>5. Top(i)
    BY <2>3, <2>4
  <2>6. n \in RowsOf(c) /\ Top(n)
    BY <2>4, <2>5
  <2>7. LatestAttempt(c) = ledger[n]
    BY <1>2 DEF LatestAttempt
  <2> HIDE DEF n
  <2>8. ledger[n] \in Row /\ ledger[n] \in Rows(ledger) /\ CreditOf(ledger[n].key) = c
    BY <2>1, <2>6 DEF RowsOf, Rows
  <2>9. \A r \in Rows(ledger) : CreditOf(r.key) = c => r.key[2] <= ledger[n].key[2]
    BY <2>6 DEF RowsOf, Rows
  <2> QED BY <2>7, <2>8, <2>9, NoneAssumption
<1> QED BY <1>1, <1>2

\* The key of a claim is that of a pending attempt or of a new one.
LEMMA ClaimKeyIsSound ==
    ASSUME LedgerOK(ledger), NEW c \in Credit, ClaimKey(c) \in Key
    PROVE  /\ IsAuto(ClaimKey(c))
           /\ HasPending(ledger, ClaimKey(c)) \/ ~HasRow(ledger, ClaimKey(c))
<1> DEFINE l == LatestAttempt(c)
           k == ClaimKey(c)
<1>1. k # None
  BY NoneAssumption
<1>2. \A r \in Rows(ledger) : r \in Row /\ r.key \in Key /\ IsAuto(r.key)
  BY LedgerRows
<1>3. CASE l = None
  <2>1. k = <<c, 1>> /\ \A r \in Rows(ledger) : CreditOf(r.key) # c
    BY <1>3, LatestRow, NoneAssumption DEF ClaimKey
  <2>2. IsAuto(k) /\ CreditOf(k) = c
    BY <2>1 DEF IsAuto, CreditOf
  <2> QED BY <2>1, <2>2 DEF HasRow
<1>4. CASE l # None
  <2>1. /\ l \in Rows(ledger) /\ l \in Row /\ CreditOf(l.key) = c
        /\ \A r \in Rows(ledger) : CreditOf(r.key) = c => r.key[2] <= l.key[2]
    BY <1>4, LatestRow
  <2>2. CASE l.status = "pending"
    <3>1. k = l.key
      BY <1>4, <2>2 DEF ClaimKey
    <3> QED BY <1>2, <2>1, <2>2, <3>1 DEF HasPending
  <2>3. CASE l.status = "nothingToReset"
    <3>1. k = <<c, l.key[2] + 1>>
      BY <1>4, <2>3 DEF ClaimKey
    <3>2. CreditOf(k) = c /\ k[2] = l.key[2] + 1 /\ l.key[2] \in Nat
      BY <2>1, <3>1, <1>2, KeyParts DEF CreditOf
    <3>3. IsAuto(k)
      BY <3>2 DEF IsAuto
    <3>4. \A r \in Rows(ledger) : r.key # k
      BY <1>2, <2>1, <3>2, KeyParts
    <3> QED BY <3>3, <3>4 DEF HasRow
  <2>4. CASE l.status # "pending" /\ l.status # "nothingToReset"
    <3>1. k = None
      BY <1>4, <2>4 DEF ClaimKey
    <3> QED BY <1>1, <3>1
  <2> QED BY <2>2, <2>3, <2>4
<1> HIDE DEF l, k
<1>5. QED BY <1>3, <1>4 DEF k

LEMMA ClaimIsSound == IInv /\ Claim => IInv'
<1> SUFFICES ASSUME IInv, Claim PROVE IInv'
  OBVIOUS
<1> DEFINE d == tick.plan
           k == ClaimKey(d.credit)
           plan == [key |-> k, cause |-> d.cause]
           r == [key |-> k, cause |-> d.cause, status |-> "pending"]
<1>1. /\ UNCHANGED <<tickOnly, seen, call, sent, cooling>> /\ tick.pc # "awaiting"
      /\ tick \in Tick /\ d \in [credit : Credit, cause : Cause]
      /\ LedgerOK(ledger) /\ seen \subseteq Credit
  BY DEF Claim, tickOnly, upstream, IInv, TickOK, Typed
<1>2. ~(call'.pc # "idle" /\ IsAuto(call'.key))
  BY <1>1, NotAwaiting
<1>3. k \in Key => IsAuto(k) /\ (HasPending(ledger, k) \/ ~HasRow(ledger, k))
  BY <1>1, ClaimKeyIsSound
<1>4. \/ tick' = NoTick /\ ledger' = ledger
      \/ /\ k \in Key /\ IsPending(k) /\ ledger' = ledger
         /\ tick' = [[tick EXCEPT !.pc = "dispatch", !.plan = plan, !.replay = FALSE]
                        EXCEPT !.reused = TRUE]
      \/ /\ k \in Key /\ ~IsPending(k) /\ ledger' = Append(ledger, r)
         /\ tick' = [[tick EXCEPT !.pc = "dispatch", !.plan = plan, !.replay = FALSE]
                        EXCEPT !.reused = FALSE]
  BY DEF Claim
<1>5. k \in Key => /\ plan \in [key : Key, cause : Cause] /\ plan.key = k
                   /\ r \in Row /\ r.key = k /\ r.status = "pending"
  BY <1>1 DEF Row
<1> HIDE DEF plan, r, k
<1>6. ASSUME tick' = NoTick, ledger' = ledger
      PROVE  IInv'
  BY <1>1, <1>2, <1>6, NoTickIsSound, TickMoves
<1>7. ASSUME k \in Key, IsPending(k), ledger' = ledger,
             tick' = [[tick EXCEPT !.pc = "dispatch", !.plan = plan, !.replay = FALSE]
                        EXCEPT !.reused = TRUE]
      PROVE  IInv'
  <2>1. tick' \in Tick /\ tick'.pc = "dispatch" /\ tick'.plan = plan /\ tick'.reused
    BY <1>1, <1>5, <1>7 DEF Tick
  <2>2. HasPending(ledger', tick'.plan.key)
    BY <1>5, <1>7, <2>1, PendingRows
  <2>3. TickOK'
    BY <1>2, <1>5, <1>7, <2>1, <2>2 DEF TickOK
  <2> QED BY <1>1, <1>7, <2>3, TickMoves
<1>8. ASSUME k \in Key, ~IsPending(k), ledger' = Append(ledger, r),
             tick' = [[tick EXCEPT !.pc = "dispatch", !.plan = plan, !.replay = FALSE]
                        EXCEPT !.reused = FALSE]
      PROVE  IInv'
  <2>1. IsAuto(k) /\ ~HasRow(ledger, k)
    BY <1>3, <1>8, PendingRows
  <2>2. LedgerOK(ledger') /\ Rows(ledger') = Rows(ledger) \cup {r}
    BY <1>1, <1>5, <1>8, <2>1, AppendRow
  <2>3. k \notin sent
    BY <2>1 DEF IInv, Remembered
  <2>4. tick' \in Tick /\ tick'.pc = "dispatch" /\ tick'.plan = plan
    BY <1>1, <1>5, <1>8 DEF Tick
  <2>5. HasPending(ledger', k)
    BY <1>5, <1>8, <2>2 DEF HasPending
  <2>6. TickOK'
    BY <1>1, <1>2, <1>5, <1>8, <2>3, <2>4, <2>5 DEF TickOK
  <2>7. \A q : /\ HasRow(ledger, q) => HasRow(ledger', q)
               /\ HasPending(ledger, q) => HasPending(ledger', q)
    BY <2>2 DEF HasRow, HasPending
  <2>8. /\ UNCHANGED <<level, spentBy, late, sent, on, cooling, usage, issuedSeq>>
        /\ UNCHANGED <<appliedSeq, epoch, obs, acked, issued, call>>
    BY <1>1 DEF tickOnly, upstream, fences
  <2>9. Spent' = Spent /\ AutoSpent' = AutoSpent
    BY <2>8 DEF Spent, AutoSpent
  <2>10. Typed'
    BY <1>1, <2>2, <2>8 DEF IInv, Typed, Counted
  <2>11. CallOK'
    BY <2>8, <2>9 DEF IInv, CallOK
  <2>12. Remembered'
    BY <1>5, <1>8, <2>2, <2>7, <2>8, <2>9 DEF IInv, Remembered, Resolution
  <2>13. Fenced'
    BY <2>8, <2>9 DEF IInv, Fenced
  <2>14. Overtaken'
    <3>1. Announced' \subseteq Announced
      BY <2>7, <2>8, <2>9 DEF Announced
    <3>2. ~cooling => Covers(Announced', usage, obs, appliedSeq, epoch)
      BY <3>1, CoversLess DEF IInv, Overtaken
    <3> QED BY <2>7, <2>8, <2>9, <3>2 DEF IInv, Overtaken
  <2> QED BY <2>6, <2>10, <2>11, <2>12, <2>13, <2>14 DEF IInv
<1> QED BY <1>4, <1>6, <1>7, <1>8

\* The tick goes on after a dispatch.
LEMMA AfterDispatchIsSound ==
    ASSUME tick \in Tick, ~(call'.pc # "idle" /\ IsAuto(call'.key)),
           tick' = AfterDispatch
    PROVE  TickOK'
<1>1. CASE tick.replay
  <2>1. tick' \in Tick /\ tick'.pc = "discover"
    BY <1>1 DEF AfterDispatch, Tick
  <2> QED BY <2>1 DEF TickOK
<1>2. CASE ~tick.replay
  BY <1>2, NoTickIsSound DEF AfterDispatch
<1> QED BY <1>1, <1>2

LEMMA DispatchRefusedIsSound == IInv /\ DispatchRefused => IInv'
<1> SUFFICES ASSUME IInv, DispatchRefused PROVE IInv'
  OBVIOUS
<1>1. /\ UNCHANGED <<tickOnly, seen, call>> /\ tick.pc = "dispatch"
      /\ tick \in Tick /\ tick' = AfterDispatch
      /\ LedgerOK(ledger) /\ seen \subseteq Credit
  BY DEF DispatchRefused, tickOnly, IInv, TickOK, Typed
<1>2. ~(call'.pc # "idle" /\ IsAuto(call'.key))
  BY <1>1, NotAwaiting
<1>3. TickOK'
  BY <1>1, <1>2, AfterDispatchIsSound
<1>4. ASSUME ledger' = ledger
      PROVE  IInv'
  BY <1>1, <1>3, <1>4, TickMoves
<1>5. ASSUME MayWithdraw, ledger' = Withdrawn(tick.plan.key)
      PROVE  IInv'
  <2> DEFINE k == tick.plan.key
  <2>1. k \notin sent
    BY <1>1, <1>5 DEF IInv, TickOK, MayWithdraw
  <2>2. /\ LedgerOK(ledger') /\ Rows(ledger') \subseteq Rows(ledger)
        /\ \A r \in Rows(ledger) : r.key # k => r \in Rows(ledger')
    BY <1>1, <1>5, WithdrawRow
  <2>3. /\ UNCHANGED <<level, spentBy, late, sent, on, cooling, usage, issuedSeq>>
        /\ UNCHANGED <<appliedSeq, epoch, obs, acked, issued, call>>
    BY <1>1 DEF tickOnly, upstream, fences
  <2>4. Spent' = Spent /\ AutoSpent' = AutoSpent
    BY <2>3 DEF Spent, AutoSpent
  <2> HIDE DEF k
  <2>5. \A q \in sent : /\ HasRow(ledger, q) => HasRow(ledger', q)
                        /\ HasPending(ledger, q) => HasPending(ledger', q)
    BY <2>1, <2>2 DEF HasRow, HasPending
  <2>6. Typed'
    BY <1>1, <2>2, <2>3 DEF IInv, Typed, Counted
  <2>7. CallOK'
    BY <2>3, <2>4 DEF IInv, CallOK
  <2>8. Remembered'
    BY <2>2, <2>3, <2>4, <2>5 DEF IInv, Remembered
  <2>9. Fenced'
    BY <2>3, <2>4 DEF IInv, Fenced
  <2>10. Overtaken'
    <3>1. Announced' \subseteq Announced
      BY <2>3, <2>4, <2>5 DEF Announced, AutoSpent, IInv, Remembered
    <3>2. ~cooling => Covers(Announced', usage, obs, appliedSeq, epoch)
      BY <3>1, CoversLess DEF IInv, Overtaken
    <3>3. \A q \in late : HasPending(ledger, q) => HasPending(ledger', q)
      BY <2>5 DEF IInv, Typed
    <3> QED BY <2>3, <2>4, <3>2, <3>3 DEF IInv, Overtaken
  <2> QED BY <1>3, <2>6, <2>7, <2>8, <2>9, <2>10 DEF IInv
<1> QED BY <1>4, <1>5 DEF DispatchRefused

-----------------------------------------------------------------------------
(* The redemption *)

\* A request goes out while no call is in progress.
LEMMA SendMoves ==
    ASSUME IInv, NEW k \in Key, Send(k), TickOK', IsAuto(k) => HasRow(ledger, k),
           UNCHANGED <<level, spentBy, late, ledger, on, cooling, seen, fences>>
    PROVE  IInv'
<1>1. /\ UNCHANGED <<level, spentBy, late, ledger, on, cooling, seen, usage>>
      /\ UNCHANGED <<issuedSeq, appliedSeq, epoch, obs, acked, issued>>
      /\ sent' = sent \cup {k}
  BY DEF fences, Send
<1>2. call' = [pc |-> "waiting", key |-> k, outcome |-> None]
  BY DEF Send, NoCall
<1>3. Spent' = Spent /\ AutoSpent' = AutoSpent
  BY <1>1 DEF Spent, AutoSpent
<1>4. Typed'
  BY <1>1 DEF IInv, Typed, Counted
<1>5. CallOK'
  BY <1>1, <1>2 DEF CallOK, Call
<1>6. Remembered'
  BY <1>1, <1>3 DEF IInv, Remembered
<1>7. Fenced' /\ Overtaken'
  BY <1>1, <1>3 DEF IInv, Fenced, Overtaken, Announced
<1> QED BY <1>4, <1>5, <1>6, <1>7 DEF IInv

LEMMA DispatchIsSound == IInv /\ Dispatch => IInv'
<1> SUFFICES ASSUME IInv, Dispatch PROVE IInv'
  OBVIOUS
<1>1. /\ tick.pc = "dispatch" /\ tick \in Tick /\ call.pc = "idle"
      /\ UNCHANGED <<level, spentBy, late, ledger, on, cooling, seen, fences>>
      /\ tick.plan \in [key : Key, cause : Cause]
      /\ HasPending(ledger, tick.plan.key)
      /\ LedgerOK(ledger) /\ seen \subseteq Credit
  BY DEF Dispatch, IInv, TickOK, Typed
<1>2. /\ tick.plan.key \in Key /\ HasRow(ledger, tick.plan.key)
      /\ IsAuto(tick.plan.key)
  BY <1>1, LedgerRows DEF HasPending, HasRow
<1>3. ASSUME Send(tick.plan.key), tick' = [tick EXCEPT !.pc = "awaiting"]
      PROVE  IInv'
  <2>1. tick' \in Tick /\ tick'.pc = "awaiting" /\ tick'.plan = tick.plan
    BY <1>1, <1>3 DEF Tick
  <2>2. call'.pc = "waiting" /\ call'.key = tick.plan.key
    BY <1>3 DEF Send, NoCall
  <2>3. TickOK'
    BY <1>1, <2>1, <2>2 DEF TickOK
  <2> QED BY <1>1, <1>2, <1>3, <2>3, SendMoves
<1>4. ASSUME tick' = AfterDispatch, UNCHANGED <<sent, call>>
      PROVE  IInv'
  <2>1. ~(call'.pc # "idle" /\ IsAuto(call'.key))
    BY <1>1, <1>4
  <2>2. TickOK'
    BY <1>1, <1>4, <2>1, AfterDispatchIsSound
  <2>3. UNCHANGED <<tickOnly, ledger>> /\ seen' \subseteq Credit
    BY <1>1, <1>4 DEF tickOnly, upstream
  <2> QED BY <2>2, <2>3, TickMoves
<1> QED BY <1>3, <1>4 DEF Dispatch

LEMMA OperatorRedeemsIsSound ==
    ASSUME NEW c \in Credit PROVE IInv /\ OperatorRedeems(c) => IInv'
<1> SUFFICES ASSUME IInv, OperatorRedeems(c) PROVE IInv'
  OBVIOUS
<1> DEFINE k == <<c, 0>>
<1>1. k \in Key /\ ~IsAuto(k)
  BY BoundsAssumption, KeyParts DEF IsAuto
<1>2. /\ call.pc = "idle" /\ Send(k) /\ tick' = tick /\ LedgerOK(ledger)
      /\ UNCHANGED <<level, spentBy, late, ledger, on, cooling, seen, fences>>
  BY DEF OperatorRedeems, IInv, Typed
<1> HIDE DEF k
<1>3. call'.pc = "waiting" /\ call'.key = k /\ sent' = sent \cup {k}
  BY <1>2 DEF Send, NoCall
<1>4. tick.pc = "dispatch" => IsAuto(tick.plan.key)
  BY <1>2, LedgerRows DEF IInv, TickOK, HasPending
<1>5. tick.pc # "awaiting"
  BY <1>2 DEF IInv, TickOK
<1>6. TickOK'
  BY <1>1, <1>2, <1>3, <1>4, <1>5 DEF IInv, TickOK
<1> QED BY <1>1, <1>2, <1>6, SendMoves

\* What upstream's handling of a key changes.
LEMMA LandEffect ==
    ASSUME Typed, NEW k \in Key, NEW a \in Resolution, Land(k, a)
    PROVE  /\ level' \in 0..2 /\ spentBy' \in [Credit -> Key \cup {None}]
           /\ Spent \subseteq Spent'
           /\ \A c \in Spent : spentBy'[c] = spentBy[c]
           /\ \A c \in Spent' \ Spent : c = CreditOf(k) /\ spentBy'[c] = k
           /\ a # "nothingToReset" => CreditOf(k) \in Spent'
           /\ a = "noCredit" => spentBy'[CreditOf(k)] # k
<1> DEFINE c == CreditOf(k)
<1>1. c \in Credit /\ k # None
  BY KeyParts, NoneAssumption
<1>2. /\ spentBy \in [Credit -> Key \cup {None}] /\ level \in 0..2
  BY DEF Typed
<1>3. CASE a = "reset"
  <2>1. spentBy' = [spentBy EXCEPT ![c] = k] /\ level' = 0
    BY <1>3 DEF Land
  <2>2. c \notin Spent
    <3> SUFFICES ASSUME c \in Spent PROVE FALSE
      OBVIOUS
    <3>1. Answers(k) \subseteq {"alreadyRedeemed", "noCredit"}
      BY DEF Answers
    <3> QED BY <1>3, <3>1 DEF Land
  <2> HIDE DEF c
  <2>3. Spent' = Spent \cup {c} /\ spentBy'[c] = k
    BY <1>1, <1>2, <2>1 DEF Spent
  <2>4. \A b \in Spent : spentBy'[b] = spentBy[b]
    BY <1>2, <2>1, <2>2 DEF Spent
  <2>5. spentBy' \in [Credit -> Key \cup {None}]
    BY <1>1, <1>2, <2>1
  <2> QED BY <1>3, <2>1, <2>3, <2>4, <2>5 DEF c
<1>4. CASE a # "reset"
  <2>1. UNCHANGED <<spentBy, level>>
    BY <1>4 DEF Land
  <2>2. Spent' = Spent
    BY <2>1 DEF Spent
  <2>3. a # "nothingToReset" => c \in Spent
    <3> SUFFICES ASSUME c \notin Spent PROVE a = "nothingToReset"
      OBVIOUS
    <3>1. spentBy[c] # k
      BY <1>1 DEF Spent
    <3>2. Answers(k) \subseteq {"nothingToReset", "reset"}
      BY <3>1 DEF Answers
    <3> QED BY <1>4, <3>2 DEF Land
  <2>4. a = "noCredit" => spentBy[c] # k
    <3> SUFFICES ASSUME spentBy[c] = k PROVE a # "noCredit"
      OBVIOUS
    <3>1. c \in Spent
      BY <1>1 DEF Spent
    <3>2. Answers(k) = {"alreadyRedeemed"}
      BY <3>1 DEF Answers
    <3> QED BY <3>2 DEF Land
  <2> QED BY <1>2, <2>1, <2>2, <2>3, <2>4
<1> QED BY <1>3, <1>4

\* Upstream handles a key whose attempt is open, or that cannot matter to a
\* reading any more.
LEMMA LandMoves ==
    ASSUME IInv, NEW k \in Key, NEW a \in Resolution, Land(k, a), k \in sent,
           IsAuto(k) => \/ HasPending(ledger, k) \/ cooling
                        \/ CreditOf(k) \in Spent,
           late' \subseteq late, CallOK', TickOK',
           UNCHANGED <<sent, ledger, on, cooling, seen, fences>>
    PROVE  IInv'
<1>1. /\ UNCHANGED <<sent, ledger, on, cooling, seen, usage>>
      /\ UNCHANGED <<issuedSeq, appliedSeq, epoch, obs, acked, issued>>
  BY DEF fences
<1>2. /\ level' \in 0..2 /\ spentBy' \in [Credit -> Key \cup {None}]
      /\ Spent \subseteq Spent'
      /\ \A c \in Spent : spentBy'[c] = spentBy[c]
      /\ \A c \in Spent' \ Spent : c = CreditOf(k) /\ spentBy'[c] = k
  BY LandEffect DEF IInv
<1>3. Typed'
  BY <1>1, <1>2 DEF IInv, Typed, Counted
<1>4. Remembered'
  BY <1>1, <1>2 DEF IInv, Remembered
<1>5. Fenced'
  BY <1>1, <1>2 DEF IInv, Fenced
<1>6. Overtaken'
  <2>1. ~cooling => Announced' \subseteq Announced
    BY <1>1, <1>2 DEF Announced, AutoSpent
  <2>2. ~cooling => Covers(Announced', usage, obs, appliedSeq, epoch)
    BY <2>1, CoversLess DEF IInv, Overtaken
  <2> QED BY <1>1, <1>2, <2>2 DEF IInv, Overtaken
<1> QED BY <1>3, <1>4, <1>5, <1>6 DEF IInv

LEMMA UpstreamAnswersIsSound == IInv /\ UpstreamAnswers => IInv'
<1> SUFFICES ASSUME IInv, UpstreamAnswers PROVE IInv'
  OBVIOUS
<1>1. /\ UNCHANGED <<late, sent, ledger, on, cooling, seen, fences, tick>>
      /\ call.pc = "waiting" /\ call \in Call /\ call.key \in sent
      /\ call.key \in Key
  BY DEF UpstreamAnswers, IInv, CallOK, Typed
<1>2. PICK a \in Resolution : /\ Land(call.key, a)
                              /\ call' = [call EXCEPT !.pc = "answered", !.outcome = a]
  BY DEF UpstreamAnswers
<1>3. call' \in Call /\ call'.pc = "answered" /\ call'.outcome = a /\ call'.key = call.key
  BY <1>1, <1>2 DEF Call
<1>4. /\ a # "nothingToReset" => CreditOf(call.key) \in Spent'
      /\ a = "noCredit" => spentBy'[CreditOf(call.key)] # call.key
  BY <1>1, <1>2, LandEffect DEF IInv
<1>5. CallOK'
  BY <1>1, <1>2, <1>3, <1>4 DEF CallOK
<1>6. TickOK'
  BY <1>1, <1>3 DEF IInv, TickOK
<1>7. IsAuto(call.key) => HasPending(ledger, call.key)
  BY <1>1 DEF IInv, TickOK
<1> QED BY <1>1, <1>2, <1>5, <1>6, <1>7, LandMoves

LEMMA LandLateIsSound ==
    ASSUME NEW k \in Key PROVE IInv /\ LandLate(k) => IInv'
<1> SUFFICES ASSUME IInv, LandLate(k) PROVE IInv'
  OBVIOUS
<1>1. /\ UNCHANGED <<sent, ledger, on, cooling, seen, fences, tick, call, acked>>
      /\ k \in late /\ k \in sent /\ late' = late \ {k}
  BY DEF LandLate, IInv, Typed, fences
<1>2. TickOK'
  BY <1>1 DEF IInv, TickOK
<1>3. ASSUME NEW a \in Resolution, Land(k, a) PROVE IInv'
  <2>1. Spent \subseteq Spent' /\ \A c \in Spent : spentBy'[c] = spentBy[c]
    BY <1>3, LandEffect DEF IInv
  <2>2. CallOK'
    BY <1>1, <2>1 DEF IInv, CallOK
  <2>3. IsAuto(k) => HasPending(ledger, k) \/ cooling \/ CreditOf(k) \in Spent
    BY <1>1 DEF IInv, Overtaken
  <2> QED BY <1>1, <1>2, <1>3, <2>2, <2>3, LandMoves
<1>4. ASSUME UNCHANGED <<level, spentBy>> PROVE IInv'
  <2>1. UNCHANGED <<usage, issuedSeq, appliedSeq, epoch, obs, issued>>
    BY <1>1 DEF fences
  <2>2. Spent' = Spent /\ AutoSpent' = AutoSpent
    BY <1>4 DEF Spent, AutoSpent
  <2>3. Typed'
    BY <1>1, <1>4, <2>1 DEF IInv, Typed, Counted
  <2>4. CallOK'
    BY <1>1, <1>4, <2>2 DEF IInv, CallOK
  <2>5. Remembered' /\ Fenced'
    BY <1>1, <1>4, <2>1, <2>2 DEF IInv, Remembered, Fenced
  <2>6. Overtaken'
    BY <1>1, <1>4, <2>1, <2>2 DEF IInv, Overtaken, Announced
  <2> QED BY <1>2, <2>3, <2>4, <2>5, <2>6 DEF IInv
<1> QED BY <1>3, <1>4 DEF LandLate

\* The call ends, and with it the wait of the tick that made it.
LEMMA CallEndsWell ==
    ASSUME IInv, CallEnds, call.pc # "idle", sent' = sent,
           \A q : q # call.key /\ HasPending(ledger, q) => HasPending(ledger', q),
           ~IsAuto(call.key) => cooling' = cooling
    PROVE  CallOK' /\ TickOK'
<1>1. call' = NoCall /\ NoCall \in Call /\ NoCall.pc = "idle"
  BY DEF CallEnds, NoCall, Call
<1>2. CallOK'
  BY <1>1 DEF CallOK
<1>3. LedgerOK(ledger) /\ tick \in Tick
  BY DEF IInv, Typed, TickOK
<1>4. CASE tick.pc = "awaiting"
  <2>1. IsAuto(call.key)
    BY <1>3, <1>4, LedgerRows DEF IInv, TickOK, HasPending
  <2>2. tick' = AfterDispatch
    BY <1>4, <2>1 DEF CallEnds
  <2> QED BY <1>1, <1>2, <1>3, <2>2, AfterDispatchIsSound
<1>5. CASE tick.pc # "awaiting"
  <2>1. ~IsAuto(call.key) /\ tick' = tick
    BY <1>5 DEF IInv, TickOK, CallEnds
  <2>2. \A q : HasPending(ledger, q) => q # call.key
    BY <1>3, <2>1, LedgerRows DEF HasPending
  <2>3. \A q : HasPending(ledger, q) => HasPending(ledger', q)
    BY <2>2
  <2>4. TickOK'
    BY <1>1, <1>5, <2>1, <2>3 DEF IInv, TickOK
  <2> QED BY <1>2, <2>4
<1> QED BY <1>4, <1>5

LEMMA AnswerLostIsSound == IInv /\ AnswerLost => IInv'
<1> SUFFICES ASSUME IInv, AnswerLost PROVE IInv'
  OBVIOUS
<1>1. /\ UNCHANGED <<level, spentBy, sent, ledger, on, cooling, seen, usage>>
      /\ UNCHANGED <<issuedSeq, appliedSeq, epoch, obs, acked, issued>>
      /\ call.pc # "idle"
      /\ late' = late \/ late' = late \cup {call.key}
  BY DEF AnswerLost, fences
<1>2. CallOK' /\ TickOK'
  <2>1. CASE CallEnds
    BY <1>1, <2>1, CallEndsWell
  <2>2. CASE call' = [NoCall EXCEPT !.pc = "waiting", !.key = call.key] /\ UNCHANGED tick
    <3>1. call' = [pc |-> "waiting", key |-> call.key, outcome |-> None]
      BY <2>2 DEF NoCall
    <3>2. CallOK'
      BY <1>1, <3>1 DEF IInv, CallOK, Call
    <3>3. TickOK'
      BY <1>1, <2>2, <3>1 DEF IInv, TickOK
    <3> QED BY <3>2, <3>3
  <2> QED BY <2>1, <2>2 DEF AnswerLost
<1>3. call.key \in sent /\ (IsAuto(call.key) => HasPending(ledger, call.key))
  BY <1>1 DEF IInv, CallOK, TickOK
<1>4. Spent' = Spent /\ AutoSpent' = AutoSpent
  BY <1>1 DEF Spent, AutoSpent
<1>5. Typed'
  BY <1>1, <1>3 DEF IInv, Typed, Counted
<1>6. Remembered' /\ Fenced'
  BY <1>1, <1>4 DEF IInv, Remembered, Fenced
<1>7. Overtaken'
  BY <1>1, <1>3, <1>4 DEF IInv, Overtaken, Announced
<1> QED BY <1>2, <1>5, <1>6, <1>7 DEF IInv

LEMMA RecordOutcomeIsSound == IInv /\ RecordOutcome => IInv'
<1> SUFFICES ASSUME IInv, RecordOutcome PROVE IInv'
  OBVIOUS
<1> DEFINE k == call.key
           a == call.outcome
<1>1. /\ UNCHANGED <<level, spentBy, late, sent, on, usage>>
      /\ UNCHANGED <<issuedSeq, appliedSeq, epoch, obs, acked, issued>>
      /\ call.pc = "recording" /\ CallEnds
      /\ seen' \subseteq Credit
      /\ LedgerOK(ledger)
  BY AvailableIsCredit DEF RecordOutcome, fences, upstream, IInv, Typed
<1>2. /\ a \in Resolution
      /\ a # "nothingToReset" => CreditOf(k) \in Spent
      /\ a = "noCredit" => spentBy[CreditOf(k)] # k
  BY <1>1 DEF IInv, CallOK
<1>3. Spent' = Spent /\ AutoSpent' = AutoSpent
  BY <1>1 DEF Spent, AutoSpent
<1>4. \A q : HasPending(ledger, q) => IsAuto(q)
  BY <1>1, LedgerRows DEF HasPending
<1>5. ASSUME UNCHANGED <<ledger, cooling>>
      PROVE  IInv'
  <2>1. CallOK' /\ TickOK'
    BY <1>1, <1>5, CallEndsWell
  <2>2. Typed'
    BY <1>1, <1>5 DEF IInv, Typed, Counted
  <2>3. Remembered' /\ Fenced' /\ Overtaken'
    BY <1>1, <1>3, <1>5 DEF IInv, Remembered, Fenced, Overtaken, Announced
  <2> QED BY <2>1, <2>2, <2>3 DEF IInv
<1>6. ASSUME ledger' = Resolved(k, a),
             cooling' = (cooling \/ (IsPending(k) /\ a # "noCredit"))
      PROVE  IInv'
  <2>1. /\ LedgerOK(ledger')
        /\ \A q : HasRow(ledger', q) <=> HasRow(ledger, q)
        /\ \A q : HasPending(ledger', q) <=> q # k /\ HasPending(ledger, q)
        /\ \A r \in Rows(ledger') : r \in Rows(ledger) \/ (r.key = k /\ r.status = a)
    BY <1>1, <1>2, <1>6, ResolveRow
  <2>2. IsPending(k) <=> HasPending(ledger, k)
    BY PendingRows
  <2>3. cooling \in BOOLEAN
    BY DEF IInv, Typed
  <2> HIDE DEF k, a
  <2>4. /\ cooling' \in BOOLEAN
        /\ ~cooling' => ~cooling /\ (HasPending(ledger, k) => a = "noCredit")
        /\ ~IsAuto(k) => cooling' = cooling
    BY <1>4, <1>6, <2>2, <2>3
  <2>5. CallOK' /\ TickOK'
    BY <1>1, <2>1, <2>4, CallEndsWell DEF k
  <2>6. Typed'
    BY <1>1, <2>1, <2>4 DEF IInv, Typed, Counted
  <2>7. Remembered'
    BY <1>1, <1>2, <1>3, <2>1 DEF IInv, Remembered
  <2>8. Fenced'
    BY <1>1, <1>3 DEF IInv, Fenced
  <2>9. Overtaken'
    <3> SUFFICES ASSUME ~cooling' PROVE Overtaken'
      BY DEF Overtaken
    <3>1. ~cooling /\ (HasPending(ledger, k) => a = "noCredit")
      BY <2>4
    <3>2. \A c \in Spent : CreditOf(spentBy[c]) = c
      BY DEF IInv, Remembered
    <3>3. \A c \in AutoSpent : spentBy[c] = k => ~HasPending(ledger, k)
      BY <1>2, <3>1, <3>2 DEF AutoSpent
    <3>4. Announced' \subseteq Announced
      BY <1>1, <1>3, <2>1, <3>3 DEF Announced
    <3>5. Covers(Announced', usage, obs, appliedSeq, epoch)
      BY <3>1, <3>4, CoversLess DEF IInv, Overtaken
    <3>6. \A q \in late : IsAuto(q) /\ ~HasPending(ledger', q) => CreditOf(q) \in Spent
      BY <1>2, <2>1, <3>1 DEF IInv, Overtaken
    <3> QED BY <1>1, <1>3, <3>5, <3>6 DEF Overtaken
  <2> QED BY <2>5, <2>6, <2>7, <2>8, <2>9 DEF IInv
<1> QED BY <1>5, <1>6 DEF RecordOutcome

\* The fences: afterwards no reading is held and no observation is current.
LEMMA FenceCovers ==
    ASSUME Counted, FenceOff
    PROVE  /\ Counted' /\ usage' = None
           /\ \A S : Covers(S, usage', obs', appliedSeq', epoch')
<1>1. /\ issuedSeq' = issuedSeq + 1 /\ appliedSeq' = issuedSeq + 1
      /\ epoch' = epoch + 1 /\ usage' = None
      /\ obs' = [obs EXCEPT !["read"].over = FALSE]
  BY DEF FenceOff
<1>2. /\ issuedSeq \in Nat /\ epoch \in Nat /\ appliedSeq \in Nat
      /\ appliedSeq <= issuedSeq /\ obs \in [Channel -> Observation]
  BY DEF Counted
<1>3. \A ch \in Channel :
         /\ obs'[ch] \in Observation /\ obs'[ch].pc = obs[ch].pc
         /\ obs'[ch].seq = obs[ch].seq /\ obs'[ch].epoch = obs[ch].epoch
         /\ obs'[ch].snap = obs[ch].snap
  <2>1. \A o \in Observation : LET q == [o EXCEPT !.over = FALSE]
                               IN /\ q \in Observation /\ q.pc = o.pc /\ q.seq = o.seq
                                  /\ q.epoch = o.epoch /\ q.snap = o.snap
    BY DEF Observation
  <2>2. obs'["read"] = [obs["read"] EXCEPT !.over = FALSE]
    BY <1>1, <1>2 DEF Channel
  <2>3. \A ch \in Channel : ch # "read" => obs'[ch] = obs[ch]
    BY <1>1, <1>2
  <2>4. obs["read"] \in Observation
    BY <1>2 DEF Channel
  <2>5. LET q == obs'["read"]  o == obs["read"]
        IN /\ q \in Observation /\ q.pc = o.pc /\ q.seq = o.seq
           /\ q.epoch = o.epoch /\ q.snap = o.snap
    BY <2>1, <2>2, <2>4
  <2> QED BY <1>2, <2>3, <2>5
<1>4. obs' \in [Channel -> Observation]
  <2>1. DOMAIN obs' = Channel /\ obs' = [ch \in DOMAIN obs' |-> obs'[ch]]
    BY <1>1, <1>2
  <2> QED BY <1>3, <2>1
<1>5. \A ch \in Channel : /\ obs[ch].seq \in Nat /\ obs[ch].epoch \in Nat
                          /\ obs[ch].seq <= issuedSeq /\ obs[ch].epoch <= epoch
  BY <1>2 DEF Counted, Observation
<1>6. Counted'
  BY <1>1, <1>2, <1>3, <1>4, <1>5 DEF Counted
<1>7. \A ch \in Channel : ~Current(ch, obs'[ch], appliedSeq', epoch')
  BY <1>1, <1>2, <1>3, <1>5 DEF Current
<1> QED BY <1>1, <1>6, <1>7 DEF Covers

LEMMA HandleAnswerIsSound == IInv /\ HandleAnswer => IInv'
<1> SUFFICES ASSUME IInv, HandleAnswer PROVE IInv'
  OBVIOUS
<1>1. /\ UNCHANGED <<level, spentBy, late, sent, ledger, on, cooling, seen, tick>>
      /\ call.pc = "answered" /\ call \in Call
      /\ call' = [call EXCEPT !.pc = "recording"]
  BY DEF HandleAnswer, upstream, IInv, CallOK
<1>2. /\ call' \in Call /\ call'.pc = "recording" /\ call'.key = call.key
      /\ call'.outcome = call.outcome
  BY <1>1 DEF Call
<1>3. Spent' = Spent /\ AutoSpent' = AutoSpent
  BY <1>1 DEF Spent, AutoSpent
<1>4. CallOK'
  BY <1>1, <1>2, <1>3 DEF IInv, CallOK
<1>5. TickOK'
  BY <1>1, <1>2 DEF IInv, TickOK
<1>6. Remembered'
  BY <1>1, <1>3 DEF IInv, Remembered
<1>7. ASSUME call.outcome \in Restoring, FenceOff
      PROVE  Typed' /\ Fenced' /\ Overtaken'
  <2>1. /\ Counted' /\ usage' = None
        /\ \A S : Covers(S, usage', obs', appliedSeq', epoch')
    BY <1>7, FenceCovers DEF IInv, Typed
  <2>2. Typed'
    BY <1>1, <2>1 DEF IInv, Typed
  <2>3. acked' = acked \cup {CreditOf(call.key)}
    BY <1>7 DEF FenceOff
  <2>4. CreditOf(call.key) \in Spent
    BY <1>1, <1>7 DEF IInv, CallOK, Restoring
  <2>5. Fenced'
    BY <1>3, <2>1, <2>3, <2>4 DEF IInv, Fenced
  <2>6. Overtaken'
    BY <1>1, <1>3, <2>1 DEF IInv, Overtaken
  <2> QED BY <2>2, <2>5, <2>6
<1>8. ASSUME UNCHANGED fences
      PROVE  Typed' /\ Fenced' /\ Overtaken'
  BY <1>1, <1>3, <1>8 DEF IInv, Typed, Counted, Fenced, Overtaken, Announced, fences
<1> QED BY <1>4, <1>5, <1>6, <1>7, <1>8 DEF HandleAnswer, IInv

-----------------------------------------------------------------------------
(* Observations *)

\* An observation step is sound when the fences stay in order and readings
\* still cover what they covered.
LEMMA ObservationMoves ==
    ASSUME IInv, UNCHANGED <<acked, otherThanFences>>, Counted',
           usage' \in Reading \cup {None},
           \A S \in SUBSET Spent : Covers(S, usage, obs, appliedSeq, epoch) =>
                                   Covers(S, usage', obs', appliedSeq', epoch')
    PROVE  IInv'
<1>1. /\ UNCHANGED <<level, spentBy, late, sent, ledger, on, cooling, seen, tick>>
      /\ UNCHANGED <<call, acked>>
  BY DEF otherThanFences, upstream
<1>2. Spent' = Spent /\ AutoSpent' = AutoSpent /\ Announced' = Announced
  BY <1>1 DEF Spent, AutoSpent, Announced
<1>3. Typed'
  BY <1>1 DEF IInv, Typed
<1>4. CallOK' /\ TickOK' /\ Remembered'
  BY <1>1, <1>2 DEF IInv, CallOK, TickOK, Remembered
<1>5. Fenced'
  BY <1>1, <1>2 DEF IInv, Fenced
<1>6. Announced \in SUBSET Spent
  BY DEF Announced, AutoSpent
<1>7. Overtaken'
  <2>1. ~cooling => Covers(Announced, usage', obs', appliedSeq', epoch')
    BY <1>6 DEF IInv, Overtaken
  <2> QED BY <1>1, <1>2, <2>1 DEF IInv, Overtaken
<1> QED BY <1>3, <1>4, <1>5, <1>7 DEF IInv

\* One observation is replaced; the mark of an overtaken status read aside,
\* all others stay.
Same(o, q) == o.pc = q.pc /\ o.seq = q.seq /\ o.epoch = q.epoch /\ o.snap = q.snap
Replaced(ch, o) ==
    /\ obs' \in [Channel -> Observation]
    /\ Same(obs'[ch], o)
    /\ \A d \in Channel \ {ch} : Same(obs'[d], obs[d])

LEMMA ReplaceOne ==
    ASSUME obs \in [Channel -> Observation], NEW ch \in Channel,
           NEW o \in Observation, obs' = [obs EXCEPT ![ch] = o]
    PROVE  Replaced(ch, o)
  BY DEF Replaced, Same

LEMMA NoObsIsIdle == NoObs \in Observation /\ NoObs.pc = "idle"
                     /\ NoObs.seq = 0 /\ NoObs.epoch = 0
  BY DEF NoObs, Observation

\* An observation is given up.
LEMMA DropReplaces ==
    ASSUME obs \in [Channel -> Observation], NEW ch \in Channel, Drop(ch)
    PROVE  Replaced(ch, NoObs) /\ usage' = usage
  BY ReplaceOne, NoObsIsIdle DEF Drop

\* An observation is stored.
LEMMA StoreReplaces ==
    ASSUME obs \in [Channel -> Observation], NEW ch \in Channel, StoreReading(ch)
    PROVE  Replaced(ch, NoObs) /\ usage' = obs[ch].snap
<1> DEFINE b == obs["read"].pc # "idle" /\ ch # "read"
           mid == [obs EXCEPT ![ch] = NoObs]
<1>1. mid \in [Channel -> Observation]
  BY NoObsIsIdle
<1>2. b \in BOOLEAN
  OBVIOUS
<1>3. obs' = [mid EXCEPT !["read"].over = b] /\ usage' = obs[ch].snap
  BY DEF StoreReading
<1>4. \A d \in Channel : mid[d] = IF d = ch THEN NoObs ELSE obs[d]
  OBVIOUS
<1> HIDE DEF mid, b
<1>5. obs' = [mid EXCEPT !["read"] = [mid["read"] EXCEPT !.over = b]]
  BY <1>3
<1>6. \A o \in Observation : /\ [o EXCEPT !.over = b] \in Observation
                             /\ Same([o EXCEPT !.over = b], o)
  BY <1>2 DEF Observation, Same
<1>7. obs' \in [Channel -> Observation]
  BY <1>1, <1>5, <1>6 DEF Channel
<1>8. \A d \in Channel : Same(obs'[d], mid[d])
  <2> TAKE d \in Channel
  <2>1. CASE d = "read"
    <3>1. obs'["read"] = [mid["read"] EXCEPT !.over = b] /\ mid["read"] \in Observation
      BY <1>1, <1>5 DEF Channel
    <3> QED BY <1>6, <2>1, <3>1
  <2>2. CASE d # "read"
    <3>1. obs'[d] = mid[d]
      BY <1>1, <1>5, <2>2
    <3> QED BY <3>1 DEF Same
  <2> QED BY <2>1, <2>2
<1> QED BY <1>3, <1>4, <1>7, <1>8 DEF Replaced

\* The observations of the other channels stay as current as they were at most.
LEMMA OthersStayCovered ==
    ASSUME Counted, NEW ch \in Channel, NEW o, Replaced(ch, o),
           appliedSeq' \in Nat, appliedSeq' >= appliedSeq, epoch' = epoch,
           NEW d \in Channel \ {ch}, Current(d, obs'[d], appliedSeq', epoch')
    PROVE  Current(d, obs[d], appliedSeq, epoch) /\ obs'[d].snap = obs[d].snap
<1>1. Same(obs'[d], obs[d])
  BY DEF Replaced
<1>2. /\ obs[d].seq \in Nat /\ appliedSeq \in Nat
      /\ obs[d].pc = "claimed" => d = "read" /\ obs[d].seq <= appliedSeq
  BY DEF Counted, Observation
<1>3. Current(d, obs[d], appliedSeq', epoch)
  BY <1>1 DEF Current, Same
<1>4. Current(d, obs[d], appliedSeq, epoch)
  <2>1. CASE d = "traffic"
    BY <1>3, <2>1 DEF Current
  <2>2. CASE d # "traffic" /\ obs[d].pc = "claimed"
    <3>1. obs[d].seq = appliedSeq'
      BY <1>3, <2>2 DEF Current
    <3>2. obs[d].seq = appliedSeq
      BY <1>2, <2>2, <3>1
    <3> QED BY <2>2, <3>2 DEF Current
  <2>3. CASE d # "traffic" /\ obs[d].pc # "claimed"
    <3>1. obs[d].seq > appliedSeq'
      BY <1>3, <2>3 DEF Current
    <3>2. obs[d].seq > appliedSeq
      BY <1>2, <3>1
    <3> QED BY <1>3, <2>3, <3>2 DEF Current
  <2> QED BY <2>1, <2>2, <2>3
<1> QED BY <1>1, <1>4 DEF Same

\* A step that replaces the observation of one channel and stores a reading.
LEMMA ReplaceMoves ==
    ASSUME IInv, UNCHANGED <<acked, otherThanFences>>,
           NEW ch \in Channel, NEW o \in Observation, Replaced(ch, o),
           issuedSeq' \in Nat, issuedSeq' >= issuedSeq,
           appliedSeq' \in Nat, appliedSeq' >= appliedSeq, appliedSeq' <= issuedSeq',
           epoch' = epoch, o.seq <= issuedSeq', o.epoch <= epoch,
           o.pc \in {"reported", "claimed"} => o.snap \in Reading,
           o.pc = "claimed" => ch = "read" /\ o.seq <= appliedSeq',
           usage' \in Reading \cup {None},
           \A S \in SUBSET Spent : Covers(S, usage, obs, appliedSeq, epoch) =>
               /\ usage' # None => S \subseteq usage'.at
               /\ Current(ch, o, appliedSeq', epoch) => S \subseteq o.snap.at
    PROVE  IInv'
<1>1. Counted
  BY DEF IInv, Typed
<1>2. /\ Same(obs'[ch], o) /\ obs' \in [Channel -> Observation]
      /\ \A d \in Channel \ {ch} : Same(obs'[d], obs[d])
  BY DEF Replaced
<1>3. Counted'
  <2>1. epoch' \in Nat
    BY <1>1 DEF Counted
  <2>2. ASSUME NEW d \in Channel
        PROVE  /\ obs'[d].seq <= issuedSeq' /\ obs'[d].epoch <= epoch'
               /\ obs'[d].pc \in {"reported", "claimed"} => obs'[d].snap \in Reading
               /\ obs'[d].pc = "claimed" => d = "read" /\ obs'[d].seq <= appliedSeq'
    <3>1. CASE d = ch
      BY <1>2, <3>1 DEF Same
    <3>2. CASE d # ch
      <4>1. Same(obs'[d], obs[d])
        BY <1>2, <3>2
      <4>2. /\ obs[d].seq \in Nat /\ issuedSeq \in Nat /\ appliedSeq \in Nat
            /\ obs[d].seq <= issuedSeq /\ obs[d].epoch <= epoch
            /\ obs[d].pc \in {"reported", "claimed"} => obs[d].snap \in Reading
            /\ obs[d].pc = "claimed" => d = "read" /\ obs[d].seq <= appliedSeq
        BY <1>1 DEF Counted, Observation
      <4> QED BY <4>1, <4>2 DEF Same
    <3> QED BY <3>1, <3>2
  <2> QED BY <1>2, <2>1, <2>2 DEF Counted
<1>4. ASSUME NEW S \in SUBSET Spent, Covers(S, usage, obs, appliedSeq, epoch)
      PROVE  Covers(S, usage', obs', appliedSeq', epoch')
  <2>1. ASSUME NEW d \in Channel, Current(d, obs'[d], appliedSeq', epoch')
        PROVE  S \subseteq obs'[d].snap.at
    <3>1. CASE d = ch
      <4>1. Current(ch, o, appliedSeq', epoch) /\ obs'[ch].snap = o.snap
        BY <1>2, <2>1, <3>1 DEF Same, Current
      <4> QED BY <1>4, <3>1, <4>1
    <3>2. CASE d # ch
      <4>1. Current(d, obs[d], appliedSeq, epoch) /\ obs'[d].snap = obs[d].snap
        BY <1>1, <2>1, <3>2, OthersStayCovered
      <4> QED BY <1>4, <4>1 DEF Covers
    <3> QED BY <3>1, <3>2
  <2>2. usage' # None => S \subseteq usage'.at
    BY <1>4
  <2> QED BY <2>1, <2>2 DEF Covers
<1> QED BY <1>3, <1>4, ObservationMoves

LEMMA IssueIsSound ==
    ASSUME NEW ch \in Channel PROVE IInv /\ Issue(ch) => IInv'
<1> SUFFICES ASSUME IInv, Issue(ch) PROVE IInv'
  OBVIOUS
<1> DEFINE numbered == ch # "traffic"
           o == [NoObs EXCEPT !.pc = "issued",
                    !.seq = IF numbered THEN issuedSeq + 1 ELSE 0,
                    !.epoch = IF numbered THEN 0 ELSE epoch]
<1>1. /\ issuedSeq \in Nat /\ epoch \in Nat /\ appliedSeq \in Nat
      /\ appliedSeq <= issuedSeq /\ obs \in [Channel -> Observation]
  BY DEF IInv, Typed, Counted
<1>2. /\ UNCHANGED <<usage, appliedSeq, epoch, acked, otherThanFences>>
      /\ issuedSeq' = IF numbered THEN issuedSeq + 1 ELSE issuedSeq
      /\ obs' = [obs EXCEPT ![ch] = o]
  BY DEF Issue
<1>3. /\ o \in Observation /\ o.pc = "issued"
      /\ o.seq = IF numbered THEN issuedSeq + 1 ELSE 0
      /\ o.epoch = IF numbered THEN 0 ELSE epoch
  <2> DEFINE q == IF numbered THEN issuedSeq + 1 ELSE 0
             e == IF numbered THEN 0 ELSE epoch
  <2>1. q \in Nat /\ e \in Nat
    BY <1>1
  <2>2. o = [NoObs EXCEPT !.pc = "issued", !.seq = q, !.epoch = e]
    OBVIOUS
  <2> HIDE DEF q, e, o
  <2>3. o \in Observation /\ o.pc = "issued" /\ o.seq = q /\ o.epoch = e
    BY <2>1, <2>2, NoObsIsIdle DEF Observation
  <2> QED BY <2>3 DEF q, e
<1> HIDE DEF o
<1>4. Replaced(ch, o)
  BY <1>1, <1>2, <1>3, ReplaceOne
<1>5. ~Current(ch, o, appliedSeq', epoch)
  BY <1>3 DEF Current
<1>6. usage' \in Reading \cup {None}
  BY <1>2 DEF IInv, Typed
<1>7. \A S \in SUBSET Spent : Covers(S, usage, obs, appliedSeq, epoch) =>
         (usage' # None => S \subseteq usage'.at)
  BY <1>2 DEF Covers
<1> QED BY <1>1, <1>2, <1>3, <1>4, <1>5, <1>6, <1>7, ReplaceMoves

LEMMA UpstreamReportsIsSound ==
    ASSUME NEW ch \in Channel PROVE IInv /\ UpstreamReports(ch) => IInv'
<1> SUFFICES ASSUME IInv, UpstreamReports(ch) PROVE IInv'
  OBVIOUS
<1> DEFINE r == [exhausted |-> level = 2, at |-> Spent]
           o == [obs[ch] EXCEPT !.pc = "reported", !.snap = r]
<1>1. /\ issuedSeq \in Nat /\ epoch \in Nat /\ appliedSeq \in Nat
      /\ appliedSeq <= issuedSeq /\ obs \in [Channel -> Observation]
      /\ obs[ch].seq <= issuedSeq /\ obs[ch].epoch <= epoch
  BY DEF IInv, Typed, Counted
<1>2. /\ UNCHANGED <<usage, issuedSeq, appliedSeq, epoch, acked, otherThanFences>>
      /\ obs' = [obs EXCEPT ![ch].pc = "reported", ![ch].snap = r]
  BY DEF UpstreamReports
<1>3. r \in Reading /\ r.at = Spent
  BY DEF Reading, Spent
<1> HIDE DEF r
<1>4. /\ o \in Observation /\ o.pc = "reported" /\ o.snap = r
      /\ o.seq = obs[ch].seq /\ o.epoch = obs[ch].epoch
  BY <1>1, <1>3 DEF Observation
<1>5. obs' = [obs EXCEPT ![ch] = o]
  BY <1>1, <1>2
<1> HIDE DEF o
<1>6. Replaced(ch, o)
  BY <1>1, <1>4, <1>5, ReplaceOne
<1>7. usage' \in Reading \cup {None}
  BY <1>2 DEF IInv, Typed
<1>8. \A S \in SUBSET Spent : Covers(S, usage, obs, appliedSeq, epoch) =>
         /\ usage' # None => S \subseteq usage'.at
         /\ S \subseteq o.snap.at
  BY <1>2, <1>3, <1>4 DEF Covers
<1> QED BY <1>1, <1>2, <1>3, <1>4, <1>6, <1>7, <1>8, ReplaceMoves

\* An observation is given up, or stored if it is current.
LEMMA EndMoves ==
    ASSUME IInv, UNCHANGED <<issuedSeq, epoch, acked, otherThanFences>>,
           NEW ch \in Channel,
           appliedSeq' \in Nat, appliedSeq' >= appliedSeq, appliedSeq' <= issuedSeq,
           \/ Drop(ch)
           \/ StoreReading(ch) /\ Current(ch, obs[ch], appliedSeq, epoch)
    PROVE  IInv'
<1>1. /\ issuedSeq \in Nat /\ epoch \in Nat /\ obs \in [Channel -> Observation]
      /\ obs[ch].pc \in {"reported", "claimed"} => obs[ch].snap \in Reading
      /\ usage \in Reading \cup {None}
  BY DEF IInv, Typed, Counted
<1>2. /\ NoObs \in Observation /\ NoObs.seq <= issuedSeq' /\ NoObs.epoch <= epoch
      /\ NoObs.pc = "idle" /\ ~Current(ch, NoObs, appliedSeq', epoch)
  BY <1>1, NoObsIsIdle DEF Current
<1>3. /\ Replaced(ch, NoObs) /\ usage' \in Reading \cup {None}
      /\ \A S \in SUBSET Spent : Covers(S, usage, obs, appliedSeq, epoch) =>
            (usage' # None => S \subseteq usage'.at)
  <2>1. CASE Drop(ch)
    <3>1. Replaced(ch, NoObs) /\ usage' = usage
      BY <1>1, <2>1, DropReplaces
    <3> QED BY <1>1, <3>1 DEF Covers
  <2>2. CASE StoreReading(ch) /\ Current(ch, obs[ch], appliedSeq, epoch)
    <3>1. Replaced(ch, NoObs) /\ usage' = obs[ch].snap
      BY <1>1, <2>2, StoreReplaces
    <3>2. obs[ch].snap \in Reading
      BY <1>1, <2>2 DEF Current
    <3> QED BY <2>2, <3>1, <3>2 DEF Covers
  <2> QED BY <2>1, <2>2
<1> QED BY <1>1, <1>2, <1>3, ReplaceMoves

LEMMA ObservationEnds ==
    IInv /\ ((\E ch \in Channel : ObservationFails(ch)) \/ ReadApplies
               \/ PingApplies \/ TrafficApplies)
      => IInv'
<1> SUFFICES ASSUME IInv PROVE ((\E ch \in Channel : ObservationFails(ch))
                 \/ ReadApplies \/ PingApplies \/ TrafficApplies) => IInv'
  OBVIOUS
<1>1. /\ appliedSeq \in Nat /\ appliedSeq <= issuedSeq /\ issuedSeq \in Nat
      /\ obs \in [Channel -> Observation]
      /\ \A ch \in Channel : obs[ch].seq <= issuedSeq /\ obs[ch].seq \in Nat
  BY DEF IInv, Typed, Counted, Observation
<1>2. "read" \in Channel /\ "ping" \in Channel /\ "traffic" \in Channel
  BY DEF Channel
<1>3. ASSUME NEW ch \in Channel, ObservationFails(ch) PROVE IInv'
  <2>1. UNCHANGED <<issuedSeq, appliedSeq, epoch, acked, otherThanFences>> /\ Drop(ch)
    BY <1>3 DEF ObservationFails
  <2> QED BY <1>1, <2>1, EndMoves
<1>4. ASSUME ReadApplies PROVE IInv'
  <2>1. /\ UNCHANGED <<issuedSeq, appliedSeq, epoch, acked, otherThanFences>>
        /\ \/ Drop("read")
           \/ StoreReading("read") /\ obs["read"].pc = "claimed"
              /\ appliedSeq = obs["read"].seq
    BY <1>4 DEF ReadApplies, StillNewest
  <2>2. \/ Drop("read")
        \/ StoreReading("read") /\ Current("read", obs["read"], appliedSeq, epoch)
    BY <2>1 DEF Current
  <2> QED BY <1>1, <1>2, <2>1, <2>2, EndMoves
<1>5. ASSUME PingApplies PROVE IInv'
  <2>1. /\ UNCHANGED <<issuedSeq, epoch, acked, otherThanFences>>
        /\ \/ Drop("ping") /\ appliedSeq' = appliedSeq
           \/ /\ StoreReading("ping") /\ obs["ping"].pc = "reported"
              /\ obs["ping"].seq > appliedSeq /\ appliedSeq' = obs["ping"].seq
    BY <1>5 DEF PingApplies, claimApplication
  <2>2. \/ Drop("ping")
        \/ StoreReading("ping") /\ Current("ping", obs["ping"], appliedSeq, epoch)
    BY <2>1 DEF Current
  <2>3. appliedSeq' \in Nat /\ appliedSeq' >= appliedSeq /\ appliedSeq' <= issuedSeq
    BY <1>1, <1>2, <2>1
  <2> QED BY <1>1, <1>2, <2>1, <2>2, <2>3, EndMoves
<1>6. ASSUME TrafficApplies PROVE IInv'
  <2>1. /\ UNCHANGED <<issuedSeq, appliedSeq, epoch, acked, otherThanFences>>
        /\ \/ Drop("traffic")
           \/ StoreReading("traffic") /\ obs["traffic"].pc = "reported"
              /\ obs["traffic"].epoch = epoch
    BY <1>6 DEF TrafficApplies, isCodexObservationCurrent
  <2>2. \/ Drop("traffic")
        \/ StoreReading("traffic") /\ Current("traffic", obs["traffic"], appliedSeq, epoch)
    BY <2>1 DEF Current
  <2> QED BY <1>1, <1>2, <2>1, <2>2, EndMoves
<1> QED BY <1>3, <1>4, <1>5, <1>6

LEMMA ReadClaimsIsSound == IInv /\ ReadClaims => IInv'
<1> SUFFICES ASSUME IInv, ReadClaims PROVE IInv'
  OBVIOUS
<1> DEFINE o == [obs["read"] EXCEPT !.pc = "claimed"]
<1>1. /\ issuedSeq \in Nat /\ epoch \in Nat /\ appliedSeq \in Nat
      /\ appliedSeq <= issuedSeq /\ obs \in [Channel -> Observation]
      /\ "read" \in Channel
      /\ obs["read"].seq \in Nat
      /\ obs["read"].seq <= issuedSeq /\ obs["read"].epoch <= epoch
  BY DEF IInv, Typed, Counted, Observation, Channel
<1>2. /\ UNCHANGED <<issuedSeq, epoch, acked, otherThanFences>>
      /\ obs["read"].pc = "reported"
  BY DEF ReadClaims
<1>3. ASSUME Drop("read"), UNCHANGED appliedSeq PROVE IInv'
  BY <1>1, <1>2, <1>3, EndMoves
<1>4. ASSUME obs["read"].seq > appliedSeq, UNCHANGED usage,
             appliedSeq' = obs["read"].seq, obs' = [obs EXCEPT !["read"].pc = "claimed"]
      PROVE  IInv'
  <2>1. /\ o \in Observation /\ o.pc = "claimed" /\ o.seq = obs["read"].seq
        /\ o.epoch = obs["read"].epoch /\ o.snap = obs["read"].snap
    BY <1>1 DEF Observation
  <2>2. obs' = [obs EXCEPT !["read"] = o]
    BY <1>4
  <2> HIDE DEF o
  <2>3. Replaced("read", o)
    BY <1>1, <2>1, <2>2, ReplaceOne
  <2>4. Current("read", obs["read"], appliedSeq, epoch)
    BY <1>2, <1>4 DEF Current
  <2>5. o.snap \in Reading
    BY <1>1, <1>2, <2>1 DEF IInv, Typed, Counted
  <2>6. usage' \in Reading \cup {None}
    BY <1>4 DEF IInv, Typed
  <2>7. \A S \in SUBSET Spent : Covers(S, usage, obs, appliedSeq, epoch) =>
           /\ usage' # None => S \subseteq usage'.at
           /\ S \subseteq o.snap.at
    BY <1>1, <1>4, <2>1, <2>4 DEF Covers
  <2> QED BY <1>1, <1>2, <1>4, <2>1, <2>3, <2>5, <2>6, <2>7, ReplaceMoves
<1> QED BY <1>3, <1>4 DEF ReadClaims, claimApplication

-----------------------------------------------------------------------------
(* The operator, the clock and crashes *)

LEMMA UseQuotaIsSound == IInv /\ UseQuota => IInv'
<1> SUFFICES ASSUME IInv, UseQuota PROVE IInv'
  OBVIOUS
<1>1. /\ UNCHANGED <<spentBy, late, sent, ledger, on, cooling, seen, tick, call>>
      /\ UNCHANGED <<usage, issuedSeq, appliedSeq, epoch, obs, acked, issued>>
      /\ level' \in 0..2
  BY DEF UseQuota, fences, IInv, Typed
<1>2. Spent' = Spent /\ AutoSpent' = AutoSpent
  BY <1>1 DEF Spent, AutoSpent
<1>3. Typed'
  BY <1>1 DEF IInv, Typed, Counted
<1>4. CallOK' /\ TickOK' /\ Remembered'
  BY <1>1, <1>2 DEF IInv, CallOK, TickOK, Remembered
<1>5. Fenced' /\ Overtaken'
  BY <1>1, <1>2 DEF IInv, Fenced, Overtaken, Announced
<1> QED BY <1>3, <1>4, <1>5 DEF IInv

LEMMA ToggleIsSound == ASSUME NEW c \in Cause PROVE IInv /\ Toggle(c) => IInv'
<1> SUFFICES ASSUME IInv, Toggle(c) PROVE IInv'
  OBVIOUS
<1>1. /\ UNCHANGED <<level, spentBy, late, sent, ledger, cooling, seen, tick, call>>
      /\ UNCHANGED <<usage, issuedSeq, appliedSeq, epoch, obs, acked, issued>>
      /\ on' = [on EXCEPT ![c] = ~on[c]]
  BY DEF Toggle, upstream, fences
<1>2. on \in [Cause -> BOOLEAN]
  BY DEF IInv, Typed
<1>3. on' \in [Cause -> BOOLEAN]
  BY <1>1, <1>2
<1>4. Spent' = Spent /\ AutoSpent' = AutoSpent
  BY <1>1 DEF Spent, AutoSpent
<1>5. Typed'
  BY <1>1, <1>3 DEF IInv, Typed, Counted
<1>6. CallOK' /\ TickOK' /\ Remembered'
  BY <1>1, <1>4 DEF IInv, CallOK, TickOK, Remembered
<1>7. Fenced' /\ Overtaken'
  BY <1>1, <1>4 DEF IInv, Fenced, Overtaken, Announced
<1> QED BY <1>5, <1>6, <1>7 DEF IInv

\* With no reading and no observation there is nothing to be stale.
LEMMA IdleCovers ==
    ASSUME NEW os, \A ch \in Channel : os[ch].pc = "idle", NEW a, NEW e, NEW S
    PROVE  Covers(S, None, os, a, e)
  BY DEF Covers, Current

LEMMA CooldownElapsesIsSound == IInv /\ CooldownElapses => IInv'
<1> SUFFICES ASSUME IInv, CooldownElapses PROVE IInv'
  OBVIOUS
<1>1. /\ UNCHANGED <<level, spentBy, late, sent, ledger, on, seen, tick, call>>
      /\ UNCHANGED <<issuedSeq, appliedSeq, epoch, obs, acked, issued>>
      /\ usage' = None /\ cooling' = FALSE /\ late = {} /\ tick.pc = "idle"
      /\ \A ch \in Channel : obs[ch].pc = "idle"
  BY DEF CooldownElapses, upstream
<1>2. Spent' = Spent
  BY <1>1 DEF Spent
<1>3. Typed'
  BY <1>1 DEF IInv, Typed, Counted
<1>4. CallOK' /\ TickOK' /\ Remembered'
  BY <1>1, <1>2 DEF IInv, CallOK, TickOK, Remembered
<1>5. \A S : Covers(S, usage', obs', appliedSeq', epoch')
  BY <1>1, IdleCovers
<1>6. Fenced' /\ Overtaken'
  BY <1>1, <1>2, <1>5 DEF IInv, Fenced, Overtaken
<1> QED BY <1>3, <1>4, <1>6 DEF IInv

LEMMA CrashIsSound == IInv /\ Crash => IInv'
<1> SUFFICES ASSUME IInv, Crash PROVE IInv'
  OBVIOUS
<1>1. /\ UNCHANGED <<level, spentBy, sent, ledger, on, cooling>>
      /\ seen' = {} /\ usage' = None /\ acked' = {}
      /\ issuedSeq' = 0 /\ appliedSeq' = 0 /\ epoch' = 0
      /\ obs' = [ch \in Channel |-> NoObs]
      /\ tick' = NoTick /\ call' = NoCall
      /\ late' = IF call.pc = "waiting" THEN late \cup {call.key} ELSE late
  BY DEF Crash
<1>2. Spent' = Spent /\ AutoSpent' = AutoSpent
  BY <1>1 DEF Spent, AutoSpent
<1>3. call.pc = "waiting" =>
         call.key \in sent /\ (IsAuto(call.key) => HasPending(ledger, call.key))
  BY DEF IInv, CallOK, TickOK
<1>4. \A ch \in Channel : obs'[ch] = NoObs
  BY <1>1
<1>5. obs' \in [Channel -> Observation]
  BY <1>1, NoObsIsIdle
<1>6. Counted'
  BY <1>1, <1>4, <1>5, NoObsIsIdle DEF Counted
<1>7. Typed'
  BY <1>1, <1>3, <1>6 DEF IInv, Typed
<1>8. call' \in Call /\ call'.pc = "idle"
  BY <1>1 DEF NoCall, Call
<1>9. CallOK' /\ TickOK'
  BY <1>1, <1>8, NoTickIsSound DEF CallOK
<1>10. Remembered'
  BY <1>1, <1>2 DEF IInv, Remembered
<1>11. \A S : Covers(S, usage', obs', appliedSeq', epoch')
  BY <1>1, <1>4, NoObsIsIdle, IdleCovers
<1>12. Fenced' /\ Overtaken'
  BY <1>1, <1>2, <1>3, <1>11 DEF IInv, Fenced, Overtaken
<1> QED BY <1>7, <1>9, <1>10, <1>12 DEF IInv

-----------------------------------------------------------------------------
(* The theorems *)

LEMMA StutterIsSound == IInv /\ UNCHANGED vars => IInv'
<1> SUFFICES ASSUME IInv, UNCHANGED vars PROVE IInv'
  OBVIOUS
<1>1. /\ UNCHANGED <<level, spentBy, late, sent, ledger, on, cooling, seen, tick>>
      /\ UNCHANGED <<usage, issuedSeq, appliedSeq, epoch, obs, acked, issued, call>>
  BY DEF vars, upstream, fences
<1>2. Spent' = Spent /\ AutoSpent' = AutoSpent
  BY <1>1 DEF Spent, AutoSpent
<1>3. Typed' /\ CallOK' /\ TickOK' /\ Remembered'
  BY <1>1, <1>2 DEF IInv, Typed, Counted, CallOK, TickOK, Remembered
<1>4. Fenced' /\ Overtaken'
  BY <1>1, <1>2 DEF IInv, Fenced, Overtaken, Announced
<1> QED BY <1>3, <1>4 DEF IInv

LEMMA NextIsSound == IInv /\ [Next]_vars => IInv'
<1> SUFFICES ASSUME IInv, [Next]_vars PROVE IInv'
  OBVIOUS
<1>1. CASE TickStep
  BY <1>1, TickStartIsSound, ReconcileIsSound, DiscoverIsSound, ConfirmIsSound,
     ClaimIsSound, DispatchRefusedIsSound, DispatchIsSound DEF TickStep
<1>2. CASE CallStep
  BY <1>2, UpstreamAnswersIsSound, HandleAnswerIsSound, RecordOutcomeIsSound
     DEF CallStep
<1>3. CASE AnswerLost
  BY <1>3, AnswerLostIsSound
<1>4. CASE ObservationStep
  BY <1>4, IssueIsSound, UpstreamReportsIsSound, ObservationEnds, ReadClaimsIsSound
     DEF ObservationStep
<1>5. CASE \E k \in Key : LandLate(k)
  BY <1>5, LandLateIsSound
<1>6. CASE UseQuota
  BY <1>6, UseQuotaIsSound
<1>7. CASE \E c \in Credit : OperatorRedeems(c)
  BY <1>7, OperatorRedeemsIsSound
<1>8. CASE \E c \in Cause : Toggle(c)
  BY <1>8, ToggleIsSound
<1>9. CASE CooldownElapses \/ Crash
  BY <1>9, CooldownElapsesIsSound, CrashIsSound
<1>10. CASE UNCHANGED vars
  BY <1>10, StutterIsSound
<1> QED BY <1>1, <1>2, <1>3, <1>4, <1>5, <1>6, <1>7, <1>8, <1>9, <1>10 DEF Next

\* The inductive invariant holds throughout, whatever the ledger, the tick, the
\* call and the three observation channels do.
THEOREM Invariance == Spec => []IInv
<1> QED BY InitIsSound, NextIsSound, PTL DEF Spec

\* The types of all the ledger, wire, tick and fence states.
LEMMA SoundIsTyped == IInv => TypeOK
<1> SUFFICES ASSUME IInv PROVE TypeOK
  OBVIOUS
<1>1. ledger \in Seq(Row)
  BY DEF IInv, Typed, LedgerOK
<1>2. \A i, j \in DOMAIN ledger : ledger[i].key = ledger[j].key => i = j
  BY DEF IInv, Typed, LedgerOK
<1>3. acked \subseteq Credit
  BY DEF IInv, Fenced, Spent
<1>4. /\ appliedSeq <= issuedSeq
      /\ \A ch \in Channel : obs[ch].seq <= issuedSeq /\ obs[ch].epoch <= epoch
  BY DEF IInv, Typed, Counted
<1>5. call.pc = "idle" \/ call.key \in Key
  BY DEF IInv, CallOK, Typed
<1>6. tick.pc = "awaiting" => call.pc # "idle" /\ call.key = tick.plan.key
  BY DEF IInv, TickOK
<1> QED BY <1>1, <1>2, <1>3, <1>4, <1>5, <1>6 DEF IInv, Typed, TypeOK

\* A usage reading in the cache is never older than a reset whose answer this
\* process has handled: the sequence and the epoch fence off every status read,
\* ping and response that consumeResetCredit overtook.
THEOREM ReadingsAreFresh == Spec => []NoStaleReading
<1>1. IInv => NoStaleReading
  BY DEF IInv, Fenced, Covers, NoStaleReading
<1> QED BY <1>1, Invariance, PTL

\* The ledger never forgets an automatic redemption that went out, and never
\* says that a credit is gone while upstream still holds it.
THEOREM LedgerRemembersSends == Spec => []SendsAreRemembered
<1>1. IInv => SendsAreRemembered
  <2> SUFFICES ASSUME IInv PROVE SendsAreRemembered
    OBVIOUS
  <2>1. TypeOK
    BY SoundIsTyped
  <2>2. \A k \in sent : IsAuto(k) => \E i \in DOMAIN ledger : ledger[i].key = k
    BY DEF IInv, Remembered, HasRow, Rows
  <2>3. TerminalCredits \subseteq Spent
    BY DEF IInv, Remembered, TerminalCredits, Rows
  <2> QED BY <2>1, <2>2, <2>3 DEF SendsAreRemembered
<1> QED BY <1>1, Invariance, PTL

\* A step that adds a weekly row is a claim, made while no attempt is open.
LEMMA WeeklyClaims ==
    ASSUME IInv, [Next]_vars, FreshWeeklyClaim
    PROVE  Pending = {} /\ ~cooling
<1>1. LedgerOK(ledger) /\ ledger \in Seq(Row) /\ Len(ledger) \in Nat
  BY DEF IInv, Typed, LedgerOK
<1>2. Len(ledger') > Len(ledger) /\ Last(ledger').cause = "weekly"
  BY DEF FreshWeeklyClaim
<1>3. ledger' # ledger
  BY <1>1, <1>2
<1>4. ASSUME DispatchRefused PROVE FALSE
  <2>1. ledger' = Withdrawn(tick.plan.key)
    BY <1>3, <1>4 DEF DispatchRefused
  <2>2. Len(Withdrawn(tick.plan.key)) <= Len(ledger)
       /\ Withdrawn(tick.plan.key) \in Seq(Row)
    BY <1>1, WithdrawRow DEF LedgerOK
  <2> QED BY <1>1, <1>2, <2>1, <2>2
<1>5. ASSUME RecordOutcome PROVE FALSE
  <2>1. ledger' = Resolved(call.key, call.outcome)
    BY <1>3, <1>5 DEF RecordOutcome
  <2>2. call.outcome \in Resolution
    BY <1>5 DEF RecordOutcome, IInv, CallOK
  <2>3. Len(ledger') = Len(ledger)
    BY <1>1, <2>1, <2>2, ResolveRow
  <2> QED BY <1>1, <1>2, <2>3
<1>6. Claim
  <2>1. \A ch \in Channel : ~Issue(ch) /\ ~UpstreamReports(ch) /\ ~ObservationFails(ch)
    BY <1>3 DEF Issue, UpstreamReports, ObservationFails, otherThanFences
  <2>2. ~ReadClaims /\ ~ReadApplies /\ ~PingApplies /\ ~TrafficApplies
    BY <1>3 DEF ReadClaims, ReadApplies, PingApplies, TrafficApplies, otherThanFences
  <2>3. ~ObservationStep
    BY <2>1, <2>2 DEF ObservationStep
  <2>4. ~CallStep /\ ~AnswerLost
    BY <1>3, <1>5 DEF CallStep, UpstreamAnswers, HandleAnswer, AnswerLost
  <2>5. ~UNCHANGED vars /\ ~UseQuota /\ ~CooldownElapses /\ ~Crash
    BY <1>3 DEF vars, UseQuota, CooldownElapses, Crash
  <2>6. /\ \A k \in Key : ~LandLate(k)
        /\ \A c \in Credit : ~OperatorRedeems(c)
        /\ \A c \in Cause : ~Toggle(c)
    BY <1>3 DEF LandLate, OperatorRedeems, Toggle
  <2>7. TickStep
    BY <2>3, <2>4, <2>5, <2>6 DEF Next
  <2> QED BY <1>3, <1>4, <2>7
          DEF TickStep, TickStart, Reconcile, Discover, Confirm, Dispatch
<1>7. PICK r : ledger' = Append(ledger, r) /\ r.cause = tick.plan.cause
               /\ MayInsert(tick.plan.cause) /\ r \in Row
  <2> DEFINE k == ClaimKey(tick.plan.credit)
             r == [key |-> k, cause |-> tick.plan.cause, status |-> "pending"]
  <2>1. k \in Key /\ MayInsert(tick.plan.cause) /\ ledger' = Append(ledger, r)
    BY <1>3, <1>6 DEF Claim
  <2>2. tick.plan.cause \in Cause
    BY <1>6 DEF Claim, IInv, TickOK
  <2>3. r.cause = tick.plan.cause /\ r \in Row
    BY <2>1, <2>2 DEF Row
  <2> HIDE DEF r
  <2> QED BY <2>1, <2>3
<1>8. Last(ledger') = r
  <2>1. /\ Len(ledger') = Len(ledger) + 1 /\ ledger'[Len(ledger) + 1] = r
    BY <1>1, <1>7, AppendProperties
  <2> QED BY <2>1 DEF Last
<1>9. tick.plan.cause = "weekly"
  BY <1>2, <1>7, <1>8
<1> QED BY <1>6, <1>7, <1>9 DEF MayInsert, Claim, IInv, TickOK

\* When the weekly trigger claims a new attempt, every automatic redemption so
\* far was known to the exhausted reading it acts on, lost answers included.
THEOREM WeeklyClaimsAreJustified == Spec => WeeklyClaimIsJustified
<1>1. IInv /\ [Next]_vars =>
         [FreshWeeklyClaim /\ usage # None => AutoSpent \subseteq usage.at]_vars
  <2> SUFFICES ASSUME IInv, [Next]_vars, FreshWeeklyClaim, usage # None
               PROVE  AutoSpent \subseteq usage.at
    OBVIOUS
  <2>1. Pending = {} /\ ~cooling
    BY WeeklyClaims
  <2>2. Announced = AutoSpent
    BY <2>1, PendingRows DEF Announced
  <2> QED BY <2>1, <2>2 DEF IInv, Overtaken, Covers
<1> QED BY <1>1, Invariance, PTL DEF Spec, WeeklyClaimIsJustified
===============================================================================
