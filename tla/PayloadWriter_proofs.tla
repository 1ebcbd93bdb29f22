------------------------- MODULE PayloadWriter_proofs -------------------------
(****************************************************************************)
(* Proofs about PayloadWriter, for any payloads, number of generations,     *)
(* rotation budget and number of faults: it implements PayloadLedger, its   *)
(* types are right, no row is in the hands of two workers, nothing is       *)
(* stranded, and what has expired is not replayed.                          *)
(****************************************************************************)
EXTENDS PayloadWriter, FiniteSetTheorems, SequenceTheorems, TLAPS

(* The registry *)

OpenEntry == [state : {"none", "buffered", "sent", "retry_wait"},
              gen : Gen \cup {NoGen}, outcome : {"none"}]
SettledEntry == [state : {"settled"}, gen : {NoGen},
                 outcome : {"committed", "dropped", "expired", "abandoned"}]
Table == [Payload -> OpenEntry \cup SettledEntry]

Reported == {"committed", "dropped", "expired"}

\* From the table es to fs no payload is accepted, and one that is settled
\* stays so; what becomes settled has an outcome that is reported as such.
Moved(es, fs) ==
    /\ fs \in Table
    /\ \A e \in Payload :
         /\ fs[e].state = "none" <=> es[e].state = "none"
         /\ es[e].state = "settled" => fs[e] = es[e]
         /\ fs[e].state = "settled" /\ es[e].state # "settled" => fs[e].outcome \in Reported

\* The same, and nothing becomes settled.
Kept(es, fs) ==
    /\ Moved(es, fs)
    /\ \A e \in Payload : fs[e].state = "settled" => es[e].state = "settled"

\* What the members of a table look like.
LEMMA EntryFields ==
    ASSUME NEW es \in Table, NEW e \in Payload
    PROVE  /\ es[e].state \in {"none", "buffered", "sent", "retry_wait", "settled"}
           /\ es[e].gen \in Gen \cup {NoGen}
           /\ es[e].state = "settled" => es[e] \in SettledEntry
           /\ es[e].state # "settled" => es[e] \in OpenEntry
<1>1. es[e] \in OpenEntry \cup SettledEntry
  BY DEF Table
<1> QED BY <1>1 DEF OpenEntry, SettledEntry

\* Moves compose.
LEMMA MovedCompose ==
    ASSUME NEW es, NEW fs, NEW hs
    PROVE  /\ es \in Table => Kept(es, es)
           /\ Moved(es, fs) /\ Moved(fs, hs) => Moved(es, hs)
           /\ Kept(es, fs) /\ Kept(fs, hs) => Kept(es, hs)
           /\ Kept(es, fs) => Moved(es, fs)
           /\ Moved(es, fs) => fs \in Table
  BY DEF Moved, Kept

\* settle on entries of the registry
LEMMA SettleMoves ==
    ASSUME NEW es \in Table, NEW S, S \subseteq Unacked(es), NEW oc \in Reported
    PROVE  Moved(es, Settle(es, S, oc))
<1> DEFINE rec == [state |-> "settled", gen |-> NoGen, outcome |-> oc]
<1>1. rec \in SettledEntry /\ rec.state = "settled" /\ rec.outcome = oc
  BY DEF SettledEntry, Reported
<1>2. \A e \in Payload : Settle(es, S, oc)[e] = IF e \in S THEN rec ELSE es[e]
  BY DEF Settle
<1>3. \A e \in S : e \in Payload /\ es[e].state \notin {"none", "settled"}
  BY DEF Unacked
<1> HIDE DEF rec
<1>4. Settle(es, S, oc) \in Table
  <2>1. \A e \in Payload : Settle(es, S, oc)[e] \in OpenEntry \cup SettledEntry
    BY <1>1, <1>2 DEF Table
  <2> QED BY <2>1 DEF Table, Settle
<1> QED BY <1>1, <1>2, <1>3, <1>4 DEF Moved

\* Buffer on entries of the registry
LEMMA BufferKeeps ==
    ASSUME NEW es \in Table, NEW S, S \subseteq Unacked(es)
    PROVE  Kept(es, Buffer(es, S)) /\ Unacked(Buffer(es, S)) = Unacked(es)
<1>1. \A e \in Payload : Buffer(es, S)[e] = IF e \in S THEN [es[e] EXCEPT !.state = "buffered"]
                                            ELSE es[e]
  BY DEF Buffer
<1>2. ASSUME NEW e \in S
      PROVE  /\ e \in Payload /\ es[e].state \notin {"none", "settled"}
             /\ Buffer(es, S)[e] \in OpenEntry /\ Buffer(es, S)[e].state = "buffered"
  <2>1. e \in Payload /\ es[e].state \notin {"none", "settled"}
    BY DEF Unacked
  <2>2. es[e] \in OpenEntry
    BY <2>1, EntryFields
  <2> QED BY <1>1, <2>1, <2>2 DEF OpenEntry
<1>3. Buffer(es, S) \in Table
  <2>1. \A e \in Payload : Buffer(es, S)[e] \in OpenEntry \cup SettledEntry
    BY <1>1, <1>2 DEF Table
  <2> QED BY <2>1 DEF Table, Buffer
<1> QED BY <1>1, <1>2, <1>3 DEF Kept, Moved, Unacked

\* Detach on entries of the registry that may have been settled before
LEMMA DetachKeeps ==
    ASSUME NEW es \in Table, NEW S
    PROVE  Kept(es, Detach(es, S)) /\ Unacked(Detach(es, S)) = Unacked(es)
<1>1. \A e \in Payload : Detach(es, S)[e] = IF e \in S THEN [es[e] EXCEPT !.gen = NoGen]
                                            ELSE es[e]
  BY DEF Detach
<1>2. ASSUME NEW e \in Payload
      PROVE  /\ Detach(es, S)[e] \in OpenEntry \cup SettledEntry
             /\ Detach(es, S)[e].state = es[e].state
             /\ es[e].state = "settled" => Detach(es, S)[e] = es[e]
  <2>1. CASE es[e].state = "settled"
    <3>1. es[e] \in SettledEntry
      BY <2>1, EntryFields
    <3>2. es[e].gen = NoGen
      BY <3>1 DEF SettledEntry
    <3>3. [es[e] EXCEPT !.gen = NoGen] = es[e]
      BY <3>1, <3>2 DEF SettledEntry
    <3> QED BY <1>1, <2>1, <3>1, <3>3
  <2>2. CASE es[e].state # "settled"
    <3>1. es[e] \in OpenEntry
      BY <2>2, EntryFields
    <3> QED BY <1>1, <2>2, <3>1 DEF OpenEntry
  <2> QED BY <2>1, <2>2
<1>3. Detach(es, S) \in Table
  BY <1>2 DEF Table, Detach
<1> QED BY <1>2, <1>3 DEF Kept, Moved, Unacked

\* Handing entries of the registry to a generation
LEMMA SentKeeps ==
    ASSUME NEW es \in Table, NEW S, S \subseteq Unacked(es), NEW g \in Gen
    PROVE  Kept(es, Sent(es, S, g)) /\ Unacked(Sent(es, S, g)) = Unacked(es)
<1>1. \A e \in Payload :
        Sent(es, S, g)[e] = IF e \in S THEN [es[e] EXCEPT !.state = "sent", !.gen = g]
                            ELSE es[e]
  BY DEF Sent
<1>2. ASSUME NEW e \in S
      PROVE  /\ e \in Payload /\ es[e].state \notin {"none", "settled"}
             /\ Sent(es, S, g)[e] \in OpenEntry /\ Sent(es, S, g)[e].state = "sent"
  <2>1. e \in Payload /\ es[e].state \notin {"none", "settled"}
    BY DEF Unacked
  <2>2. es[e] \in OpenEntry
    BY <2>1, EntryFields
  <2> QED BY <1>1, <2>1, <2>2 DEF OpenEntry
<1>3. Sent(es, S, g) \in Table
  <2>1. \A e \in Payload : Sent(es, S, g)[e] \in OpenEntry \cup SettledEntry
    BY <1>1, <1>2 DEF Table
  <2> QED BY <2>1 DEF Table, Sent
<1> QED BY <1>1, <1>2, <1>3 DEF Kept, Moved, Unacked

-----------------------------------------------------------------------------
(* The generations *)

Status == {"starting", "ready", "closing", "dead"}
GenRec == [status : Status, bytes : 0..RotationBudget, fatal : BOOLEAN, stalled : BOOLEAN]
Gens == [Gen -> GenRec]

SentOn(es, e, g) == es[e].state = "sent" /\ es[e].gen = g

Rotations == [phase : {"none", "spawn", "close"}, out : Gen \cup {NoGen}, rep : Gen \cup {NoGen}]

\* A generation that is ready, all others dead.
OnlyLive(gs, a) == gs[a].status = "ready" /\ \A g \in Gen \ {a} : gs[g].status = "dead"

\* Which generations are alive: the active one alone; or one that is starting,
\* alone or next to the one it is going to replace; or that pair when the old
\* one closes.
Structure(gs, a, rot, disp) ==
    /\ a \in Gen \cup {NoGen}
    /\ rot \in Rotations
    /\ rot.phase = "none" => rot = NoRotation
    /\ rot.phase # "none" =>
         /\ rot.out \in Gen /\ rot.rep \in Gen /\ rot.out # rot.rep
         /\ a = NoGen
         /\ \A g \in Gen : gs[g].status # "dead" => g \in {rot.out, rot.rep}
    /\ rot.phase = "spawn" => /\ gs[rot.rep].status = "starting"
                              /\ gs[rot.out].status \in {"ready", "dead"}
    /\ rot.phase = "close" => /\ gs[rot.rep].status \in {"ready", "dead"}
                              /\ gs[rot.out].status \in {"closing", "dead"}
    /\ a # NoGen =>
         /\ gs[a].status = "ready" \/ (gs[a].status = "closing" /\ disp = "close")
         /\ \A g \in Gen \ {a} : gs[g].status = "dead"
    /\ rot.phase = "none" /\ a = NoGen =>
         \E s \in Gen : /\ gs[s].status \in {"starting", "dead"}
                        /\ \A g \in Gen \ {s} : gs[g].status = "dead"
    /\ disp \in {"close", "done"} =>
         rot.phase = "none" /\ \A g \in Gen : gs[g].status # "starting"

\* Whatever a worker has to write, or has written and not been heard of, is in
\* the registry as sent to it, and a row is there once.
InHands(es, gs, ib, ob) ==
    \A g \in Gen :
        /\ gs[g].status \in {"dead", "starting"} => ib[g] = {}
        /\ gs[g].status = "starting" => ob[g] = <<>>
        /\ \A e \in ib[g] : e \in Payload /\ SentOn(es, e, g)
        /\ gs[g].status # "dead" =>
             \A i \in 1..Len(ob[g]) : \A e \in DOMAIN ob[g][i] :
                /\ e \in Payload /\ SentOn(es, e, g) /\ e \notin ib[g]
                /\ \A j \in 1..Len(ob[g]) : e \in DOMAIN ob[g][j] => j = i

\* The status of each generation is all that either depends on.
LEMMA StatusOnly ==
    ASSUME NEW gs, NEW hs, \A g \in Gen : hs[g].status = gs[g].status
    PROVE  /\ \A a, rot, disp : Structure(gs, a, rot, disp) => Structure(hs, a, rot, disp)
           /\ \A es, ib, ob : InHands(es, gs, ib, ob) => InHands(es, hs, ib, ob)
  BY DEF Structure, InHands

\* No rotation, and one that begins.
LEMMA RotationType ==
    /\ NoRotation \in Rotations /\ NoRotation.phase = "none"
    /\ \A a, s \in Gen : /\ [phase |-> "spawn", out |-> a, rep |-> s] \in Rotations
                        /\ [phase |-> "spawn", out |-> a, rep |-> s].phase = "spawn"
                        /\ [phase |-> "spawn", out |-> a, rep |-> s].out = a
                        /\ [phase |-> "spawn", out |-> a, rep |-> s].rep = s
  BY DEF NoRotation, Rotations

\* One live generation is a sound structure.
LEMMA OnlyLiveStructure ==
    ASSUME NEW gs, NEW a \in Gen, OnlyLive(gs, a), NEW disp
    PROVE  Structure(gs, a, NoRotation, disp)
<1>1. a # NoGen
  BY DEF Gen, NoGen
<1> QED BY <1>1, RotationType DEF OnlyLive, Structure

\* So is none.
LEMMA NoneLiveStructure ==
    ASSUME NEW gs, NEW disp, \A g \in Gen : gs[g].status = "dead"
    PROVE  Structure(gs, NoGen, NoRotation, disp)
<1>1. 1 \in Gen
  BY Bounds DEF Gen
<1> QED BY <1>1, RotationType DEF Structure

\* One that is starting.
LEMMA StartingStructure ==
    ASSUME NEW gs, NEW s \in Gen, gs[s].status = "starting", NEW disp,
           \A g \in Gen \ {s} : gs[g].status = "dead", disp \notin {"close", "done"}
    PROVE  Structure(gs, NoGen, NoRotation, disp)
  BY RotationType DEF Structure

\* And the one that is retired with its replacement.
LEMMA RotationStructure ==
    ASSUME NEW gs, NEW a \in Gen, NEW s \in Gen, a # s, gs[a].status = "ready",
           gs[s].status = "starting", \A g \in Gen \ {a, s} : gs[g].status = "dead",
           NEW disp, disp \notin {"close", "done"}
    PROVE  Structure(gs, NoGen, [phase |-> "spawn", out |-> a, rep |-> s], disp)
<1> DEFINE rot == [phase |-> "spawn", out |-> a, rep |-> s]
<1>1. rot \in Rotations /\ rot.phase = "spawn" /\ rot.out = a /\ rot.rep = s
  BY RotationType
<1> HIDE DEF rot
<1>2. Structure(gs, NoGen, rot, disp)
  BY <1>1 DEF Structure
<1> QED BY <1>2 DEF rot

\* Generations die or become ready, and what they held is forgotten when they
\* die; the registry keeps what is sent to the others.
LEMMA HandsShrink ==
    ASSUME NEW es, NEW gs, NEW ib, NEW ob, InHands(es, gs, ib, ob),
           NEW fs, NEW hs, NEW jb,
           \A g \in Gen : \/ hs[g].status = "dead" /\ jb[g] = {}
                          \/ /\ jb[g] = ib[g] /\ gs[g].status # "dead"
                             /\ \/ hs[g].status = gs[g].status
                                \/ hs[g].status \in {"ready", "closing"}
                             /\ \A e \in Payload : SentOn(es, e, g) => fs[e] = es[e]
    PROVE  InHands(fs, hs, jb, ob)
<1> SUFFICES ASSUME NEW g \in Gen
             PROVE  /\ hs[g].status \in {"dead", "starting"} => jb[g] = {}
                    /\ hs[g].status = "starting" => ob[g] = <<>>
                    /\ \A e \in jb[g] : e \in Payload /\ SentOn(fs, e, g)
                    /\ hs[g].status # "dead" =>
                         \A i \in 1..Len(ob[g]) : \A e \in DOMAIN ob[g][i] :
                            /\ e \in Payload /\ SentOn(fs, e, g) /\ e \notin jb[g]
                            /\ \A j \in 1..Len(ob[g]) : e \in DOMAIN ob[g][j] => j = i
  BY DEF InHands
<1>1. CASE hs[g].status = "dead" /\ jb[g] = {}
  BY <1>1
<1>2. CASE /\ jb[g] = ib[g] /\ gs[g].status # "dead"
           /\ \/ hs[g].status = gs[g].status
              \/ hs[g].status \in {"ready", "closing"}
           /\ \A e \in Payload : SentOn(es, e, g) => fs[e] = es[e]
  <2>1. \A e \in Payload : SentOn(es, e, g) => SentOn(fs, e, g)
    BY <1>2 DEF SentOn
  <2> QED BY <1>2, <2>1 DEF InHands
<1> QED BY <1>1, <1>2

\* Entries that are not sent to the one live generation are handed to it.
LEMMA HandsDeliver ==
    ASSUME NEW es \in Table, NEW gs, NEW ib \in [Gen -> SUBSET Payload], NEW ob,
           InHands(es, gs, ib, ob), NEW a \in Gen, OnlyLive(gs, a), NEW S \in SUBSET Payload,
           \A e \in S : ~SentOn(es, e, a)
    PROVE  InHands(Sent(es, S, a), gs, [ib EXCEPT ![a] = @ \cup S], ob)
<1> DEFINE fs == Sent(es, S, a)
<1> DEFINE jb == [ib EXCEPT ![a] = @ \cup S]
<1>1. /\ jb[a] = ib[a] \cup S
      /\ \A g \in Gen \ {a} : jb[g] = ib[g] /\ gs[g].status = "dead" /\ jb[g] = {}
  BY DEF OnlyLive, InHands
<1>2. /\ \A e \in S : fs[e].state = "sent" /\ fs[e].gen = a
      /\ \A e \in Payload \ S : fs[e] = es[e]
  <2>1. ASSUME NEW e \in S
        PROVE  [es[e] EXCEPT !.state = "sent", !.gen = a].state = "sent" /\
               [es[e] EXCEPT !.state = "sent", !.gen = a].gen = a
    <3>1. es[e] \in OpenEntry \cup SettledEntry
      BY DEF Table
    <3> QED BY <3>1 DEF OpenEntry, SettledEntry
  <2> QED BY <2>1 DEF Sent
<1>3. \A e \in Payload : SentOn(es, e, a) => SentOn(fs, e, a)
  BY <1>2 DEF SentOn
<1>4. gs[a].status = "ready"
  BY DEF OnlyLive
<1> HIDE DEF fs, jb
<1>5. \A e \in jb[a] : e \in Payload /\ SentOn(fs, e, a)
  BY <1>1, <1>2, <1>3 DEF InHands, SentOn
<1>6. ASSUME NEW i \in 1..Len(ob[a]), NEW e \in DOMAIN ob[a][i]
      PROVE  /\ e \in Payload /\ SentOn(fs, e, a) /\ e \notin jb[a]
             /\ \A j \in 1..Len(ob[a]) : e \in DOMAIN ob[a][j] => j = i
  <2>1. /\ e \in Payload /\ SentOn(es, e, a) /\ e \notin ib[a]
        /\ \A j \in 1..Len(ob[a]) : e \in DOMAIN ob[a][j] => j = i
    BY <1>4 DEF InHands
  <2>2. e \notin S
    BY <2>1
  <2>3. SentOn(fs, e, a)
    BY <1>3, <2>1
  <2> QED BY <1>1, <2>1, <2>2, <2>3
<1>7. InHands(fs, gs, jb, ob)
  BY <1>1, <1>4, <1>5, <1>6 DEF InHands
<1> QED BY <1>7 DEF fs, jb

-----------------------------------------------------------------------------
(* Sending *)

\* The bytes of a generation that is charged for what it is sent.
Charged(gs, a, sent) ==
    [gs EXCEPT ![a].bytes = IF Cardinality(sent) > RotationBudget - gs[a].bytes
                            THEN RotationBudget ELSE @ + Cardinality(sent)]

\* It stays well typed, its status as it was.
LEMMA ChargedType ==
    ASSUME NEW gs \in Gens, NEW a \in Gen, NEW sent, IsFiniteSet(sent)
    PROVE  /\ Charged(gs, a, sent) \in Gens
           /\ \A g \in Gen : Charged(gs, a, sent)[g].status = gs[g].status
<1>1. Cardinality(sent) \in Nat
  BY FS_CardinalityType
<1>2. gs[a] \in GenRec
  BY DEF Gens
<1>3. gs[a].bytes \in 0..RotationBudget /\ RotationBudget \in Nat
  BY <1>2, Bounds DEF GenRec
<1> DEFINE b == IF Cardinality(sent) > RotationBudget - gs[a].bytes
                THEN RotationBudget ELSE gs[a].bytes + Cardinality(sent)
<1>4. b \in 0..RotationBudget
  BY <1>1, <1>3
<1>5. Charged(gs, a, sent) = [gs EXCEPT ![a] = [gs[a] EXCEPT !.bytes = b]]
  BY DEF Charged, Gens
<1> HIDE DEF b
<1> DEFINE rec == [gs[a] EXCEPT !.bytes = b]
<1>6. rec \in GenRec /\ rec.status = gs[a].status
  BY <1>2, <1>4 DEF GenRec
<1> HIDE DEF rec
<1>7. Charged(gs, a, sent) = [gs EXCEPT ![a] = rec]
  BY <1>5 DEF rec
<1> QED BY <1>6, <1>7 DEF Gens

\* A new generation.
LEMMA SpawnType ==
    ASSUME NEW gs \in Gens, NEW g \in Gen
    PROVE  /\ Spawn(gs, g) \in Gens /\ Spawn(gs, g)[g].status = "starting"
           /\ \A h \in Gen \ {g} : Spawn(gs, g)[h] = gs[h]
<1> DEFINE rec == [status |-> "starting", bytes |-> 0, fatal |-> FALSE, stalled |-> FALSE]
<1>1. rec \in GenRec /\ rec.status = "starting"
  BY Bounds DEF GenRec, Status
<1>2. Spawn(gs, g) = [gs EXCEPT ![g] = rec]
  BY DEF Spawn
<1> HIDE DEF rec
<1> QED BY <1>1, <1>2 DEF Gens

\* Generations that are terminated.
LEMMA KillType ==
    ASSUME NEW gs \in Gens, NEW K
    PROVE  /\ Kill(gs, K) \in Gens
           /\ \A g \in Gen : /\ g \in K => Kill(gs, K)[g].status = "dead"
                             /\ g \notin K => Kill(gs, K)[g] = gs[g]
<1>1. ASSUME NEW g \in Gen
      PROVE  [gs[g] EXCEPT !.status = "dead"] \in GenRec
             /\ [gs[g] EXCEPT !.status = "dead"].status = "dead"
  <2>1. gs[g] \in GenRec
    BY DEF Gens
  <2> QED BY <2>1 DEF GenRec, Status
<1>2. \A g \in Gen : Kill(gs, K)[g] = IF g \in K THEN [gs[g] EXCEPT !.status = "dead"]
                                      ELSE gs[g]
  BY DEF Kill
<1>3. Kill(gs, K) \in Gens
  <2>1. \A g \in Gen : Kill(gs, K)[g] \in GenRec
    BY <1>1, <1>2 DEF Gens
  <2> QED BY <2>1 DEF Kill, Gens
<1> QED BY <1>1, <1>2, <1>3

\* A change of status.
LEMMA StatusType ==
    ASSUME NEW gs \in Gens, NEW g \in Gen, NEW st \in Status
    PROVE  /\ [gs EXCEPT ![g].status = st] \in Gens
           /\ [gs EXCEPT ![g].status = st][g].status = st
           /\ \A h \in Gen \ {g} : [gs EXCEPT ![g].status = st][h] = gs[h]
<1>1. gs[g] \in GenRec
  BY DEF Gens
<1> DEFINE rec == [gs[g] EXCEPT !.status = st]
<1>2. rec \in GenRec /\ rec.status = st
  BY <1>1 DEF GenRec, Status
<1>3. [gs EXCEPT ![g].status = st] = [gs EXCEPT ![g] = rec]
  BY DEF Gens
<1> HIDE DEF rec
<1> QED BY <1>2, <1>3 DEF Gens

\* What the dead have not written is gone.
LEMMA UndoneType ==
    ASSUME NEW gs, inbox \in [Gen -> SUBSET Payload]
    PROVE  /\ Undone(gs) \in [Gen -> SUBSET Payload]
           /\ \A g \in Gen : Undone(gs)[g] = IF gs[g].status = "dead" THEN {} ELSE inbox[g]
  BY DEF Undone

\* The three ways in which the loop over the entries ends.
LEMMA HandOverEffect ==
    ASSUME NEW S, IsFiniteSet(S), NEW es, NEW gs \in Gens, NEW a \in Gen, NEW timer, NEW n,
           HandOver(S, es, gs, a, timer, n)
    PROVE  \E sent \in SUBSET S :
             /\ entry' = Sent(es, sent, a)
             /\ \/ /\ gen' = Charged(gs, a, sent)
                   /\ inbox' = [Undone(gs) EXCEPT ![a] = @ \cup sent]
                   /\ active' = a /\ rotation' = NoRotation /\ respawn' = timer
                \/ /\ ~disposed
                   /\ \E g \in Fresh(entry') :
                        /\ gen' = Spawn(Charged(gs, a, sent), g)
                        /\ rotation' = [phase |-> "spawn", out |-> a, rep |-> g]
                   /\ inbox' = [Undone(gs) EXCEPT ![a] = @ \cup sent]
                   /\ active' = NoGen /\ respawn' = FALSE
                \/ /\ gen' = Kill(gs, {a})
                   /\ inbox' = [Undone(gs) EXCEPT ![a] = {}]
                   /\ active' = NoGen /\ rotation' = NoRotation /\ respawn' = TRUE
<1>1. CASE /\ entry' = Sent(es, S, a)
           /\ gen' = Charged(gs, a, S)
           /\ inbox' = [Undone(gs) EXCEPT ![a] = @ \cup S]
           /\ active' = a /\ rotation' = NoRotation /\ respawn' = timer
  BY <1>1
<1>2. CASE /\ ~disposed
           /\ \E sent \in SUBSET S, g \in Gen :
                /\ entry' = Sent(es, sent, a)
                /\ g \in Fresh(entry')
                /\ gen' = Spawn(Charged(gs, a, sent), g)
                /\ inbox' = [Undone(gs) EXCEPT ![a] = @ \cup sent]
                /\ rotation' = [phase |-> "spawn", out |-> a, rep |-> g]
           /\ active' = NoGen /\ respawn' = FALSE
  BY <1>2
<1>3. CASE /\ \E sent \in SUBSET S : entry' = Sent(es, sent, a)
           /\ gen' = Kill(gs, {a})
           /\ inbox' = [Undone(gs) EXCEPT ![a] = {}]
           /\ active' = NoGen /\ rotation' = NoRotation /\ respawn' = TRUE
  BY <1>3
<1> QED BY <1>1, <1>2, <1>3 DEF HandOver, Charged

\* The state after entries were handed to the one live generation is sound,
\* and there is a generation to send to, or one is coming.
LEMMA HandOverSafe ==
    ASSUME NEW es \in Table, NEW S, S \subseteq Unacked(es), IsFiniteSet(Unacked(es)),
           NEW gs \in Gens, NEW a \in Gen, OnlyLive(gs, a), Live(a),
           NEW timer \in BOOLEAN, NEW n, HandOver(S, es, gs, a, timer, n),
           \A e \in S : ~SentOn(es, e, a),
           inbox \in [Gen -> SUBSET Payload],
           InHands(es, gs, Undone(gs), outbox'),
           \A g \in Gen : outbox[g] = <<>> => outbox'[g] = <<>>,
           ~disposed, disposal' = disposal
    PROVE  /\ Kept(es, entry') /\ Unacked(entry') = Unacked(es)
           /\ \A e \in Payload \ S : entry'[e] = es[e]
           /\ gen' \in Gens /\ inbox' \in [Gen -> SUBSET Payload]
           /\ Structure(gen', active', rotation', disposal')
           /\ InHands(entry', gen', inbox', outbox')
           /\ respawn' \in BOOLEAN
           /\ active' # NoGen \/ rotation'.phase # "none" \/ respawn'
<1>0. a # NoGen /\ disposal' = "no" /\ S \subseteq Payload /\ IsFiniteSet(S)
  <2>1. S \subseteq Payload
    BY DEF Unacked
  <2> QED BY <2>1, FS_Subset DEF Gen, NoGen, disposed
<1>1. PICK sent \in SUBSET S :
             /\ entry' = Sent(es, sent, a)
             /\ \/ /\ gen' = Charged(gs, a, sent)
                   /\ inbox' = [Undone(gs) EXCEPT ![a] = @ \cup sent]
                   /\ active' = a /\ rotation' = NoRotation /\ respawn' = timer
                \/ /\ ~disposed
                   /\ \E g \in Fresh(entry') :
                        /\ gen' = Spawn(Charged(gs, a, sent), g)
                        /\ rotation' = [phase |-> "spawn", out |-> a, rep |-> g]
                   /\ inbox' = [Undone(gs) EXCEPT ![a] = @ \cup sent]
                   /\ active' = NoGen /\ respawn' = FALSE
                \/ /\ gen' = Kill(gs, {a})
                   /\ inbox' = [Undone(gs) EXCEPT ![a] = {}]
                   /\ active' = NoGen /\ rotation' = NoRotation /\ respawn' = TRUE
  BY <1>0, HandOverEffect
<1>2. /\ Kept(es, entry') /\ Unacked(entry') = Unacked(es)
      /\ \A e \in Payload \ S : entry'[e] = es[e]
  <2>1. \A e \in Payload \ S : Sent(es, sent, a)[e] = es[e]
    BY DEF Sent
  <2> QED BY <1>1, <2>1, SentKeeps
<1>3. IsFiniteSet(sent) /\ sent \in SUBSET Payload
  BY <1>0, FS_Subset
<1>4. Undone(gs) \in [Gen -> SUBSET Payload]
  BY UndoneType
<1>5. /\ Charged(gs, a, sent) \in Gens
      /\ \A g \in Gen : Charged(gs, a, sent)[g].status = gs[g].status
  BY <1>3, ChargedType
<1>6. /\ [Undone(gs) EXCEPT ![a] = @ \cup sent] \in [Gen -> SUBSET Payload]
      /\ [Undone(gs) EXCEPT ![a] = {}] \in [Gen -> SUBSET Payload]
  BY <1>3, <1>4
<1>7. InHands(entry', gs, [Undone(gs) EXCEPT ![a] = @ \cup sent], outbox')
  BY <1>1, <1>3, <1>4, HandsDeliver
<1>8. CASE /\ gen' = Charged(gs, a, sent)
           /\ inbox' = [Undone(gs) EXCEPT ![a] = @ \cup sent]
           /\ active' = a /\ rotation' = NoRotation /\ respawn' = timer
  <2>1. InHands(entry', gen', inbox', outbox')
    BY <1>5, <1>7, <1>8, StatusOnly
  <2>2. Structure(gen', active', rotation', disposal')
    <3>1. OnlyLive(gen', a)
      BY <1>5, <1>8 DEF OnlyLive
    <3> QED BY <1>8, <3>1, OnlyLiveStructure
  <2> QED BY <1>0, <1>2, <1>5, <1>6, <1>8, <2>1, <2>2
<1>9. CASE /\ \E g \in Fresh(entry') :
                /\ gen' = Spawn(Charged(gs, a, sent), g)
                /\ rotation' = [phase |-> "spawn", out |-> a, rep |-> g]
           /\ inbox' = [Undone(gs) EXCEPT ![a] = @ \cup sent]
           /\ active' = NoGen /\ respawn' = FALSE
  <2>1. PICK g \in Fresh(entry') :
                /\ gen' = Spawn(Charged(gs, a, sent), g)
                /\ rotation' = [phase |-> "spawn", out |-> a, rep |-> g]
    BY <1>9
  <2>2. g \in Gen /\ g # a /\ outbox'[g] = <<>>
    BY DEF Fresh
  <2>3. /\ gen' \in Gens /\ gen'[g].status = "starting"
        /\ \A h \in Gen \ {g} : gen'[h].status = gs[h].status
    BY <1>5, <2>1, <2>2, SpawnType
  <2>4. Structure(gen', active', rotation', disposal')
    BY <1>0, <1>9, <2>1, <2>2, <2>3, RotationStructure DEF OnlyLive
  <2>5. InHands(entry', gen', inbox', outbox')
    <3>1. gs[g].status = "dead"
      BY <2>2 DEF OnlyLive
    <3>2. InHands(entry', gs, inbox', outbox')
      BY <1>7, <1>9
    <3>3. inbox'[g] = {} /\ Len(<<>>) = 0
      BY <2>2, <3>1, <3>2 DEF InHands
    <3> QED BY <2>2, <2>3, <3>2, <3>3 DEF InHands
  <2>6. rotation'.phase # "none"
    BY <2>1
  <2> QED BY <1>2, <1>6, <1>9, <2>3, <2>4, <2>5, <2>6
<1>10. CASE /\ gen' = Kill(gs, {a})
            /\ inbox' = [Undone(gs) EXCEPT ![a] = {}]
            /\ active' = NoGen /\ rotation' = NoRotation /\ respawn' = TRUE
  <2>1. gen' \in Gens /\ \A g \in Gen : gen'[g].status = "dead"
    BY <1>10, KillType DEF OnlyLive
  <2>2. \A g \in Gen : inbox'[g] = {}
    BY <1>4, <1>10, UndoneType DEF OnlyLive
  <2>3. InHands(entry', gen', inbox', outbox')
    BY <2>1, <2>2 DEF InHands
  <2>4. Structure(gen', active', rotation', disposal')
    BY <1>10, <2>1, NoneLiveStructure
  <2> QED BY <1>2, <1>6, <1>10, <2>1, <2>3, <2>4
<1> QED BY <1>1, <1>8, <1>9, <1>10

\* Entries without a generation: those not published yet or waiting for their
\* retry.
Unassigned(es) == \A e \in Payload : es[e].state \in {"none", "retry_wait"} => es[e].gen = NoGen

\* flushBuffered and replayToActive, up to the loop that sends: which entries
\* are considered, which are left once the expired are dropped, and the table.
FlushTodo(es, a) == {e \in Unacked(es) : ~SentOn(es, e, a) /\ es[e].state # "retry_wait"}
FlushRest(es, a) == FlushTodo(es, a) \ DropIfExpired(FlushTodo(es, a))
FlushTable(es, a) == Buffer(DropExpired(es, FlushTodo(es, a)), FlushRest(es, a))

ReplayTodo(es, a) == {e \in Unacked(es) : ~SentOn(es, e, a)}
ReplayRest(es, a) == ReplayTodo(es, a) \ DropIfExpired(ReplayTodo(es, a))
ReplayTable(es, a) ==
    Detach(Buffer(DropExpired(es, ReplayTodo(es, a)), ReplayRest(es, a)), ReplayTodo(es, a))

\* Dropping what has expired and buffering the rest leaves other entries alone.
LEMMA DropAndBuffer ==
    ASSUME NEW es \in Table, NEW todo, todo \subseteq Unacked(es)
    PROVE  LET rest == todo \ DropIfExpired(todo)
               fs == Buffer(DropExpired(es, todo), rest)
           IN  /\ Moved(es, fs) /\ rest \subseteq Unacked(fs) /\ Unacked(fs) \subseteq Unacked(es)
               /\ \A e \in Payload \ todo : fs[e] = es[e]
               /\ \A e \in rest : fs[e].state = "buffered"
               /\ \A e \in todo \ rest : fs[e].state = "settled"
<1> DEFINE drop == DropIfExpired(todo)
<1> DEFINE rest == todo \ drop
<1> DEFINE ds == Settle(es, drop, "expired")
<1> DEFINE fs == Buffer(ds, rest)
<1>1. drop \subseteq todo
  BY DEF DropIfExpired
<1>2. Moved(es, ds) /\ ds \in Table
  <2>1. drop \subseteq Unacked(es) /\ "expired" \in Reported
    BY <1>1 DEF Reported
  <2>2. Moved(es, ds)
    BY <2>1, SettleMoves
  <2> QED BY <2>2 DEF Moved
<1>3. /\ \A e \in Payload \ drop : ds[e] = es[e]
      /\ \A e \in Payload \cap drop : ds[e].state = "settled"
  BY DEF Settle
<1>4. rest \subseteq Unacked(ds) /\ Unacked(ds) \subseteq Unacked(es)
  BY <1>1, <1>3 DEF Unacked
<1>5. Kept(ds, fs) /\ Unacked(fs) = Unacked(ds)
  BY <1>2, <1>4, BufferKeeps
<1>6. Moved(es, fs)
  BY <1>2, <1>5, MovedCompose
<1>7. \A e \in Payload \ rest : fs[e] = ds[e]
  BY DEF Buffer
<1>8. ASSUME NEW e \in rest PROVE fs[e].state = "buffered"
  <2>1. e \in Payload /\ ds[e] \in OpenEntry \cup SettledEntry
    BY <1>2, <1>4 DEF Unacked, Table
  <2> QED BY <2>1 DEF Buffer, OpenEntry, SettledEntry
<1>9. /\ \A e \in Payload \ todo : fs[e] = es[e]
      /\ \A e \in todo \ rest : fs[e].state = "settled"
  <2>1. todo \subseteq Payload
    BY DEF Unacked
  <2> HIDE DEF fs, ds, drop
  <2> QED BY <1>1, <1>3, <1>7, <2>1
<1>10. DropExpired(es, todo) = ds
  BY DEF DropExpired
<1> QED BY <1>4, <1>5, <1>6, <1>8, <1>9, <1>10

\* The table with which flushBuffered's loop begins.
LEMMA FlushPrep ==
    ASSUME NEW es \in Table, Unassigned(es), NEW a
    PROVE  /\ Moved(es, FlushTable(es, a))
           /\ FlushRest(es, a) \subseteq Unacked(FlushTable(es, a))
           /\ Unacked(FlushTable(es, a)) \subseteq Unacked(es)
           /\ \A e \in FlushRest(es, a) : ~SentOn(FlushTable(es, a), e, a)
           /\ \A e \in Payload : SentOn(es, e, a) \/ es[e].state = "retry_wait"
                => FlushTable(es, a)[e] = es[e] /\ e \notin FlushRest(es, a)
           /\ Unassigned(FlushTable(es, a))
<1> DEFINE todo == FlushTodo(es, a)
<1> DEFINE rest == FlushRest(es, a)
<1> DEFINE fs == FlushTable(es, a)
<1>1. todo \subseteq Unacked(es)
  BY DEF FlushTodo
<1>2. /\ Moved(es, fs) /\ rest \subseteq Unacked(fs) /\ Unacked(fs) \subseteq Unacked(es)
      /\ \A e \in Payload \ todo : fs[e] = es[e]
      /\ \A e \in rest : fs[e].state = "buffered"
      /\ \A e \in todo \ rest : fs[e].state = "settled"
  BY <1>1, DropAndBuffer DEF FlushRest, FlushTable
<1>3. rest \subseteq todo
  BY DEF FlushRest
<1>4. \A e \in Payload : SentOn(es, e, a) \/ es[e].state = "retry_wait" => e \notin todo
  BY DEF FlushTodo
<1> HIDE DEF todo, rest, fs
<1>5. Unassigned(fs)
  BY <1>2 DEF Unassigned
<1>6. \A e \in rest : ~SentOn(fs, e, a)
  BY <1>2 DEF SentOn
<1>7. \A e \in Payload : SentOn(es, e, a) \/ es[e].state = "retry_wait"
                => fs[e] = es[e] /\ e \notin rest
  BY <1>2, <1>3, <1>4
<1>8. /\ Moved(es, fs) /\ rest \subseteq Unacked(fs) /\ Unacked(fs) \subseteq Unacked(es)
      /\ \A e \in rest : ~SentOn(fs, e, a)
      /\ \A e \in Payload : SentOn(es, e, a) \/ es[e].state = "retry_wait"
                => fs[e] = es[e] /\ e \notin rest
      /\ Unassigned(fs)
  BY <1>2, <1>5, <1>6, <1>7
<1> QED BY <1>8 DEF rest, fs

\* The table with which replayToActive's loop begins: the entries that wait
\* for a retry are in it as well.
LEMMA ReplayPrep ==
    ASSUME NEW es \in Table, Unassigned(es), NEW a
    PROVE  /\ Moved(es, ReplayTable(es, a))
           /\ ReplayRest(es, a) \subseteq Unacked(ReplayTable(es, a))
           /\ Unacked(ReplayTable(es, a)) \subseteq Unacked(es)
           /\ \A e \in ReplayRest(es, a) : ~SentOn(ReplayTable(es, a), e, a)
           /\ \A e \in Payload : SentOn(es, e, a)
                => ReplayTable(es, a)[e] = es[e] /\ e \notin ReplayRest(es, a)
           /\ Unassigned(ReplayTable(es, a))
           /\ \A e \in Unacked(es) \ ReplayTodo(es, a) : es[e].state = "sent"
<1> DEFINE todo == ReplayTodo(es, a)
<1> DEFINE rest == ReplayRest(es, a)
<1> DEFINE bs == Buffer(DropExpired(es, todo), rest)
<1> DEFINE fs == Detach(bs, todo)
<1>1. todo \subseteq Unacked(es)
  BY DEF ReplayTodo
<1>2. /\ Moved(es, bs) /\ rest \subseteq Unacked(bs) /\ Unacked(bs) \subseteq Unacked(es)
      /\ \A e \in Payload \ todo : bs[e] = es[e]
      /\ \A e \in rest : bs[e].state = "buffered"
      /\ \A e \in todo \ rest : bs[e].state = "settled"
  BY <1>1, DropAndBuffer DEF ReplayRest
<1>3. rest \subseteq todo /\ \A e \in Payload : SentOn(es, e, a) => e \notin todo
  BY DEF ReplayRest, ReplayTodo
<1>4. \A e \in Unacked(es) \ todo : es[e].state = "sent"
  BY DEF ReplayTodo, SentOn
<1>5. fs = ReplayTable(es, a)
  BY DEF ReplayTable
<1>6. /\ \A e \in Payload \ todo : fs[e] = bs[e]
      /\ \A e \in Payload : fs[e].state = bs[e].state
  <2>1. bs \in Table
    BY <1>2 DEF Moved
  <2> HIDE DEF bs
  <2>2. \A e \in Payload : [bs[e] EXCEPT !.gen = NoGen].state = bs[e].state
    BY <2>1 DEF Table, OpenEntry, SettledEntry
  <2> QED BY <2>2 DEF Detach
<1> HIDE DEF todo, rest, bs
<1>7. Moved(es, fs) /\ Unacked(fs) = Unacked(bs)
  <2>1. bs \in Table
    BY <1>2 DEF Moved
  <2> QED BY <1>2, <2>1, DetachKeeps, MovedCompose
<1> HIDE DEF fs
<1>8. \A e \in rest : ~SentOn(fs, e, a)
  <2>1. rest \subseteq Payload
    BY <1>2 DEF Unacked
  <2> QED BY <1>2, <1>6, <2>1 DEF SentOn
<1>9. \A e \in Payload : SentOn(es, e, a) => fs[e] = es[e] /\ e \notin rest
  BY <1>2, <1>3, <1>6
<1>10. Unassigned(fs)
  BY <1>2, <1>3, <1>6 DEF Unassigned
<1>11. /\ Moved(es, fs) /\ rest \subseteq Unacked(fs) /\ Unacked(fs) \subseteq Unacked(es)
       /\ \A e \in rest : ~SentOn(fs, e, a)
       /\ \A e \in Payload : SentOn(es, e, a) => fs[e] = es[e] /\ e \notin rest
       /\ Unassigned(fs)
       /\ \A e \in Unacked(es) \ todo : es[e].state = "sent"
  BY <1>2, <1>4, <1>7, <1>8, <1>9, <1>10
<1> QED BY <1>5, <1>11 DEF todo, rest

-----------------------------------------------------------------------------
(* The inductive invariant *)

Batches == UNION {[B -> Result] : B \in SUBSET Payload}

\* The registry, the generations and what the workers hold fit together; while
\* disposal waits for the last close, entries may have been given away twice.
Sound ==
    /\ entry \in Table /\ IsFiniteSet(Unacked(entry)) /\ Unassigned(entry)
    /\ gen \in Gens /\ Structure(gen, active, rotation, disposal)
    /\ inbox \in [Gen -> SUBSET Payload]
    /\ \A g \in Gen : gen[g].status = "dead" => inbox[g] = {}
    /\ outbox \in [Gen -> Seq(Batches)]
    /\ disposal # "close" => InHands(entry, gen, inbox, outbox)

\* Only entries of the registry have a retry timer, those that wait for it.
Timers ==
    /\ retryTimers \subseteq Unacked(entry)
    /\ disposal # "close" => \A e \in retryTimers : entry[e].state = "retry_wait"

Flags ==
    /\ respawn \in BOOLEAN /\ suspended \in BOOLEAN /\ unhealthy \in BOOLEAN
    /\ fatal \in BOOLEAN /\ suppressed \in BOOLEAN
    /\ disposal \in {"no", "spawn", "rotation", "close", "done"}
    /\ disposed => ~respawn
    /\ expired \subseteq Payload
    /\ faults \in 0..MaxFaults

\* There is a generation to send to, or one is coming.
Coming(gs, a, rot, timer) ==
    a # NoGen \/ (\E g \in Gen : gs[g].status = "starting") \/ timer \/ rot.phase # "none"

\* So it is from the first payload on; and before the first, admission is open.
Attended ==
    ~disposed /\ ~fatal =>
        \/ Coming(gen, active, rotation, respawn)
        \/ ~suspended /\ \A e \in Payload : entry[e].state = "none"

IInv == Sound /\ Timers /\ Flags /\ Attended

\* What the operations that end a handler make of the registry es: nothing is
\* lost, the parts fit together, and there is a generation or one is coming.
Placed(es) ==
    /\ Moved(es, entry') /\ Unacked(entry') \subseteq Unacked(es) /\ Unassigned(entry')
    /\ gen' \in Gens /\ Structure(gen', active', rotation', disposal')
    /\ inbox' \in [Gen -> SUBSET Payload]
    /\ \A g \in Gen : gen'[g].status = "dead" => inbox'[g] = {}
    /\ disposal' # "close" => InHands(entry', gen', inbox', outbox')
    /\ respawn' \in BOOLEAN /\ (disposed => ~respawn')
    /\ faults' \in 0..MaxFaults
    /\ ~disposed /\ ~fatal' =>
          \/ Coming(gen', active', rotation', respawn')
          \/ ~suspended' /\ \A e \in Payload : entry'[e].state = "none"

\* Every fault is counted.
LEMMA FaultsType ==
    ASSUME NEW n \in Nat, faults \in 0..MaxFaults, Faults(n)
    PROVE  faults' \in 0..MaxFaults
  BY Bounds DEF Faults

\* What is placed is sound.
LEMMA PlacedSound ==
    ASSUME NEW es, IsFiniteSet(Unacked(es)), Placed(es), outbox' \in [Gen -> Seq(Batches)]
    PROVE  Sound'
<1>1. IsFiniteSet(Unacked(entry'))
  BY FS_Subset DEF Placed
<1>2. entry' \in Table
  BY DEF Placed, Moved
<1> QED BY <1>1, <1>2 DEF Placed, Sound

\* Nothing is sent and the generations are left alone.
LEMMA StaySafe ==
    ASSUME IInv, NEW es \in Table, Stay(es), Unassigned(es), disposal' = disposal,
           disposal # "close" => InHands(es, gen, inbox, outbox'),
           ~disposed /\ ~fatal' =>
               \/ Coming(gen, active, rotation, respawn)
               \/ ~suspended' /\ \A e \in Payload : es[e].state = "none"
    PROVE  Placed(es)
<1>1. /\ entry' = es /\ gen' = gen /\ inbox' = inbox /\ active' = active /\ rotation' = rotation
      /\ respawn' = respawn /\ faults' = faults
  BY DEF Stay
<1>2. Moved(es, es)
  BY MovedCompose
<1> QED BY <1>1, <1>2 DEF Placed, IInv, Sound, Flags

\* Nothing is sent, and there is no rotation any more.
LEMMA HoldSafe ==
    ASSUME NEW es \in Table, Unassigned(es), NEW gs \in Gens, NEW a, NEW timer \in BOOLEAN,
           NEW n \in Nat, faults \in 0..MaxFaults,
           Hold(es, gs, a, timer, n), Structure(gs, a, NoRotation, disposal),
           inbox \in [Gen -> SUBSET Payload], disposal' = disposal,
           disposal # "close" => InHands(es, gs, Undone(gs), outbox'),
           disposed => ~timer, ~disposed /\ ~fatal' => Coming(gs, a, NoRotation, timer)
    PROVE  Placed(es)
<1>1. /\ entry' = es /\ gen' = gs /\ inbox' = Undone(gs) /\ active' = a
      /\ rotation' = NoRotation /\ respawn' = timer /\ faults' \in 0..MaxFaults
  BY FaultsType DEF Hold
<1>2. Moved(es, es)
  BY MovedCompose
<1> QED BY <1>1, <1>2, UndoneType DEF Placed

\* Sending ends a handler as it should.
LEMMA HandOverPlaced ==
    ASSUME NEW es \in Table, Unassigned(es), NEW S, S \subseteq Unacked(es),
           IsFiniteSet(Unacked(es)),
           NEW gs \in Gens, NEW a \in Gen, OnlyLive(gs, a), Live(a),
           NEW timer \in BOOLEAN, NEW n \in Nat, faults \in 0..MaxFaults,
           HandOver(S, es, gs, a, timer, n),
           \A e \in S : ~SentOn(es, e, a),
           inbox \in [Gen -> SUBSET Payload],
           InHands(es, gs, Undone(gs), outbox'),
           \A g \in Gen : outbox[g] = <<>> => outbox'[g] = <<>>,
           ~disposed, disposal' = disposal
    PROVE  Placed(es) /\ Kept(es, entry') /\ \A e \in Payload \ S : entry'[e] = es[e]
<1>1. /\ Kept(es, entry') /\ Unacked(entry') = Unacked(es)
      /\ \A e \in Payload \ S : entry'[e] = es[e]
      /\ gen' \in Gens /\ inbox' \in [Gen -> SUBSET Payload]
      /\ Structure(gen', active', rotation', disposal')
      /\ InHands(entry', gen', inbox', outbox')
      /\ respawn' \in BOOLEAN
      /\ active' # NoGen \/ rotation'.phase # "none" \/ respawn'
  BY HandOverSafe
<1>2. Unassigned(entry')
  <2>1. PICK sent \in SUBSET S : entry' = Sent(es, sent, a)
    <3>1. IsFiniteSet(S)
      BY FS_Subset
    <3> QED BY <3>1, HandOverEffect
  <2>2. ASSUME NEW e \in Payload, entry'[e].state \in {"none", "retry_wait"}
        PROVE  entry'[e].gen = NoGen
    <3>1. CASE e \in sent
      <4>1. es[e] \in OpenEntry \cup SettledEntry
        BY DEF Table
      <4>2. entry'[e] = [es[e] EXCEPT !.state = "sent", !.gen = a]
        BY <2>1, <3>1 DEF Sent
      <4>3. entry'[e].state = "sent"
        BY <4>1, <4>2 DEF OpenEntry, SettledEntry
      <4> QED BY <2>2, <4>3
    <3>2. CASE e \notin sent
      BY <2>1, <2>2, <3>2 DEF Sent, Unassigned
    <3> QED BY <3>1, <3>2
  <2> QED BY <2>2 DEF Unassigned
<1>3. Moved(es, entry')
  BY <1>1, MovedCompose
<1>4. \A g \in Gen : gen'[g].status = "dead" => inbox'[g] = {}
  BY <1>1 DEF InHands
<1>5. faults' \in 0..MaxFaults
  <2>1. Faults(n) \/ Faults(n + 1)
    BY DEF HandOver
  <2> QED BY <2>1, FaultsType
<1> QED BY <1>1, <1>2, <1>3, <1>4, <1>5 DEF Placed, Coming

\* flushBuffered onto the one live generation.  Entries that wait for a retry
\* go on waiting.
LEMMA FlushSafe ==
    ASSUME NEW es \in Table, Unassigned(es), IsFiniteSet(Unacked(es)),
           NEW gs \in Gens, NEW a \in Gen, OnlyLive(gs, a), Live(a), FlushTo(es, gs, a),
           respawn \in BOOLEAN, faults \in 0..MaxFaults, inbox \in [Gen -> SUBSET Payload],
           InHands(es, gs, Undone(gs), outbox'),
           \A g \in Gen : outbox[g] = <<>> => outbox'[g] = <<>>,
           ~disposed, disposal' = disposal
    PROVE  /\ Placed(es)
           /\ \A e \in Payload : es[e].state = "retry_wait" => entry'[e] = es[e]
<1> DEFINE fs == FlushTable(es, a)
<1> DEFINE S == FlushRest(es, a)
<1>1. /\ Moved(es, fs) /\ S \subseteq Unacked(fs) /\ Unacked(fs) \subseteq Unacked(es)
      /\ \A e \in S : ~SentOn(fs, e, a)
      /\ \A e \in Payload : SentOn(es, e, a) \/ es[e].state = "retry_wait"
                => fs[e] = es[e] /\ e \notin S
      /\ Unassigned(fs)
  BY FlushPrep
<1>2. HandOver(S, fs, gs, a, respawn, 0)
  BY DEF FlushTo, FlushTable, FlushRest, FlushTodo, SentOn
<1> HIDE DEF fs, S
<1>3. fs \in Table /\ IsFiniteSet(Unacked(fs))
  BY <1>1, FS_Subset DEF Moved
<1>4. InHands(fs, gs, Undone(gs), outbox')
  <2>1. \A g \in Gen : \/ gs[g].status = "dead" /\ Undone(gs)[g] = {}
                       \/ /\ Undone(gs)[g] = Undone(gs)[g] /\ gs[g].status # "dead"
                          /\ gs[g].status = gs[g].status
                          /\ \A e \in Payload : SentOn(es, e, g) => fs[e] = es[e]
    BY <1>1, UndoneType DEF OnlyLive
  <2> QED BY <2>1, HandsShrink
<1>5. Placed(fs) /\ \A e \in Payload \ S : entry'[e] = fs[e]
  BY <1>1, <1>2, <1>3, <1>4, HandOverPlaced
<1>6. Placed(es)
  BY <1>1, <1>5, MovedCompose DEF Placed
<1> QED BY <1>1, <1>5, <1>6

\* replayToActive on the one live generation.  No retry timer is left.
LEMMA ReplaySafe ==
    ASSUME IInv, NEW gs \in Gens, NEW a \in Gen, OnlyLive(gs, a), Live(a),
           NEW timer \in BOOLEAN, NEW nowFatal, NEW n \in Nat, Replay(gs, a, timer, nowFatal, n),
           InHands(entry, gs, Undone(gs), outbox), outbox' = outbox,
           disposal # "close", disposal' = disposal, disposed => ~timer
    PROVE  Placed(entry) /\ Timers'
<1> DEFINE fs == ReplayTable(entry, a)
<1> DEFINE S == ReplayRest(entry, a)
<1> DEFINE todo == ReplayTodo(entry, a)
<1>0. /\ entry \in Table /\ Unassigned(entry) /\ IsFiniteSet(Unacked(entry))
      /\ inbox \in [Gen -> SUBSET Payload] /\ faults \in 0..MaxFaults
      /\ retryTimers \subseteq Unacked(entry)
      /\ \A e \in retryTimers : entry[e].state = "retry_wait"
  BY DEF IInv, Sound, Timers, Flags
<1>1. /\ Moved(entry, fs) /\ S \subseteq Unacked(fs) /\ Unacked(fs) \subseteq Unacked(entry)
      /\ \A e \in S : ~SentOn(fs, e, a)
      /\ \A e \in Payload : SentOn(entry, e, a) => fs[e] = entry[e] /\ e \notin S
      /\ Unassigned(fs)
      /\ \A e \in Unacked(entry) \ todo : entry[e].state = "sent"
  BY <1>0, ReplayPrep
<1>2. /\ retryTimers' = retryTimers \ todo
      /\ IF disposed \/ nowFatal THEN Hold(fs, gs, a, timer, n)
         ELSE HandOver(S, fs, gs, a, timer, n)
  BY DEF Replay, ReplayTable, ReplayRest, ReplayTodo, SentOn
<1> HIDE DEF fs, S, todo
<1>3. fs \in Table /\ IsFiniteSet(Unacked(fs))
  BY <1>0, <1>1, FS_Subset DEF Moved
<1>4. InHands(fs, gs, Undone(gs), outbox')
  <2>1. \A g \in Gen : \/ gs[g].status = "dead" /\ Undone(gs)[g] = {}
                       \/ /\ Undone(gs)[g] = Undone(gs)[g] /\ gs[g].status # "dead"
                          /\ gs[g].status = gs[g].status
                          /\ \A e \in Payload : SentOn(entry, e, g) => fs[e] = entry[e]
    BY <1>0, <1>1, UndoneType DEF OnlyLive
  <2> QED BY <2>1, HandsShrink
<1>5. Placed(fs)
  <2>1. CASE disposed \/ nowFatal
    <3>1. Structure(gs, a, NoRotation, disposal) /\ a # NoGen
      BY OnlyLiveStructure DEF Gen, NoGen
    <3>2. Coming(gs, a, NoRotation, timer)
      BY <3>1 DEF Coming
    <3> QED BY <1>0, <1>1, <1>2, <1>3, <1>4, <2>1, <3>1, <3>2, HoldSafe
  <2>2. CASE ~(disposed \/ nowFatal)
    BY <1>0, <1>1, <1>2, <1>3, <1>4, <2>2, HandOverPlaced
  <2> QED BY <2>1, <2>2
<1>6. Placed(entry)
  BY <1>1, <1>5, MovedCompose DEF Placed
<1>7. retryTimers' = {}
  BY <1>0, <1>1, <1>2
<1> QED BY <1>6, <1>7 DEF Timers

\* The end of rotate(): the replacement is the only one left, or none is.
LEMMA CutoverSafe ==
    ASSUME IInv, NEW gs \in Gens, NEW n \in Nat, Cutover(gs, n), rotation.rep \in Gen,
           \A g \in Gen \ {rotation.rep} : gs[g].status = "dead",
           gs[rotation.rep].status \in {"ready", "dead"},
           gs[rotation.rep].status = "ready" => Live(rotation.rep),
           InHands(entry, gs, Undone(gs), outbox), outbox' = outbox,
           disposal # "close", disposal' = disposal, fatal' = fatal
    PROVE  Placed(entry) /\ Timers'
<1>0. /\ entry \in Table /\ Unassigned(entry) /\ inbox \in [Gen -> SUBSET Payload]
      /\ respawn \in BOOLEAN /\ (disposed => ~respawn) /\ Timers /\ faults \in 0..MaxFaults
  BY DEF IInv, Sound, Flags
<1>1. CASE gs[rotation.rep].status = "ready"
  <2>1. OnlyLive(gs, rotation.rep)
    BY <1>1 DEF OnlyLive
  <2>2. Replay(gs, rotation.rep, respawn, fatal, n)
    BY <1>1 DEF Cutover
  <2> QED BY <1>0, <1>1, <2>1, <2>2, ReplaySafe
<1>2. CASE gs[rotation.rep].status # "ready"
  <2> DEFINE timer == respawn \/ (~disposed /\ ~fatal)
  <2>1. Hold(entry, gs, NoGen, timer, n) /\ retryTimers' = retryTimers
    BY <1>2 DEF Cutover
  <2>2. Structure(gs, NoGen, NoRotation, disposal)
    BY <1>2, NoneLiveStructure
  <2>3. timer \in BOOLEAN /\ (disposed => ~timer)
    BY <1>0
  <2>4. ~disposed /\ ~fatal' => Coming(gs, NoGen, NoRotation, timer)
    BY DEF Coming
  <2>5. entry' = entry
    BY <2>1 DEF Hold
  <2> HIDE DEF timer
  <2>6. Placed(entry)
    BY <1>0, <2>1, <2>2, <2>3, <2>4, HoldSafe
  <2> QED BY <1>0, <2>1, <2>5, <2>6 DEF Timers
<1> QED BY <1>1, <1>2

\* The dead hold nothing.
LEMMA UndoneSame ==
    ASSUME Sound PROVE Undone(gen) = inbox
<1>1. \A g \in Gen : Undone(gen)[g] = inbox[g]
  BY UndoneType DEF Sound
<1> QED BY <1>1 DEF Undone, Sound

\* A new generation holds nothing.
LEMMA SpawnHands ==
    ASSUME Sound, NEW es, InHands(es, gen, inbox, outbox), NEW fs, NEW g \in Fresh(fs)
    PROVE  /\ InHands(es, Spawn(gen, g), inbox, outbox)
           /\ g \in Gen /\ gen[g].status = "dead" /\ inbox[g] = {}
<1>1. g \in Gen /\ gen[g].status = "dead" /\ outbox[g] = <<>> /\ inbox[g] = {} /\ gen \in Gens
  BY DEF Fresh, Live, Sound
<1>2. /\ Spawn(gen, g)[g].status = "starting"
      /\ \A h \in Gen \ {g} : Spawn(gen, g)[h] = gen[h]
  BY <1>1, SpawnType
<1>3. Len(outbox[g]) = 0
  BY <1>1
<1> QED BY <1>1, <1>2, <1>3 DEF InHands

\* When there is none, and none is coming, a generation is started.
LEMMA SpawnSafe ==
    ASSUME Sound, active = NoGen, rotation.phase = "none", Starting = {},
           NEW fs, NEW g \in Fresh(fs), disposal \notin {"close", "done"}
    PROVE  /\ Spawn(gen, g) \in Gens /\ Spawn(gen, g)[g].status = "starting" /\ g \in Gen
           /\ rotation = NoRotation
           /\ Structure(Spawn(gen, g), NoGen, NoRotation, disposal)
           /\ \A h \in Gen : Spawn(gen, g)[h].status = "dead" => inbox[h] = {}
<1>1. \A h \in Gen : gen[h].status = "dead"
  BY DEF Sound, Structure, Starting
<1>2. g \in Gen /\ gen \in Gens
  BY DEF Fresh, Sound
<1>3. /\ Spawn(gen, g) \in Gens /\ Spawn(gen, g)[g].status = "starting"
      /\ \A h \in Gen \ {g} : Spawn(gen, g)[h] = gen[h]
  BY <1>2, SpawnType
<1>4. Structure(Spawn(gen, g), NoGen, NoRotation, disposal)
  BY <1>1, <1>2, <1>3, StartingStructure
<1>5. rotation = NoRotation /\ \A h \in Gen : inbox[h] = {}
  BY <1>1 DEF Sound, Structure
<1> QED BY <1>2, <1>3, <1>4, <1>5

\* ensureActiveGeneration and trySend, for an entry that waits to be sent
LEMMA EnsureSafe ==
    ASSUME IInv, NEW es \in Table, Unassigned(es), IsFiniteSet(Unacked(es)),
           NEW e \in Unacked(es), es[e].state = "buffered",
           InHands(es, gen, inbox, outbox), outbox' = outbox,
           ~disposed, disposal' = disposal, EnsureAndSend(es, e)
    PROVE  /\ Placed(es) /\ Kept(es, entry')
           /\ \A x \in Payload \ {e} : entry'[x] = es[x]
<1>0. /\ Sound /\ gen \in Gens /\ inbox \in [Gen -> SUBSET Payload] /\ respawn \in BOOLEAN
      /\ Structure(gen, active, rotation, disposal) /\ disposal = "no"
      /\ faults \in 0..MaxFaults
  BY DEF IInv, Sound, Flags, disposed
<1>s. Kept(es, es)
  BY MovedCompose
<1>1. CASE active # NoGen
  <2>1. active \in Gen /\ gen[active].status = "ready" /\ OnlyLive(gen, active)
    BY <1>0, <1>1 DEF Structure, OnlyLive
  <2>2. HandOver({e}, es, gen, active, respawn, 0)
    BY <1>1, <2>1 DEF EnsureAndSend
  <2>3. Live(active) /\ Undone(gen) = inbox /\ ~SentOn(es, e, active)
    BY <1>0, <2>1, UndoneSame DEF Live, SentOn
  <2>4. {e} \subseteq Unacked(es) /\ \A x \in {e} : ~SentOn(es, x, active)
    BY <2>3
  <2>5. \A g \in Gen : outbox[g] = <<>> => outbox'[g] = <<>>
    OBVIOUS
  <2>6. InHands(es, gen, Undone(gen), outbox')
    BY <2>3
  <2> QED BY <1>0, <2>1, <2>2, <2>3, <2>4, <2>5, <2>6, HandOverPlaced
<1>2. CASE active = NoGen /\ (Starting # {} \/ rotation.phase # "none" \/ respawn)
  <2>1. Stay(es)
    BY <1>2 DEF EnsureAndSend
  <2>2. Coming(gen, active, rotation, respawn)
    BY <1>2 DEF Coming, Starting
  <2>3. Placed(es)
    BY <2>1, <2>2, StaySafe
  <2> QED BY <1>s, <2>1, <2>3 DEF Stay
<1>3. CASE active = NoGen /\ Starting = {} /\ rotation.phase = "none" /\ ~respawn
  <2>1. PICK g \in Fresh(es) : gen' = Spawn(gen, g)
    BY <1>3 DEF EnsureAndSend
  <2>2. entry' = es /\ inbox' = inbox /\ active' = NoGen /\ rotation' = rotation
        /\ respawn' = FALSE /\ faults' = faults
    BY <1>0, <1>3 DEF EnsureAndSend
  <2>3. /\ gen' \in Gens /\ gen'[g].status = "starting" /\ g \in Gen
        /\ rotation' = NoRotation
        /\ Structure(gen', active', rotation', disposal')
        /\ \A h \in Gen : gen'[h].status = "dead" => inbox'[h] = {}
    BY <1>0, <1>3, <2>1, <2>2, SpawnSafe
  <2>4. InHands(entry', gen', inbox', outbox')
    BY <1>0, <2>1, <2>2, SpawnHands
  <2>5. Coming(gen', active', rotation', respawn')
    BY <2>3 DEF Coming
  <2>6. Placed(es)
    BY <1>0, <1>s, <2>2, <2>3, <2>4, <2>5, MovedCompose DEF Placed
  <2> QED BY <1>s, <2>2, <2>6
<1> QED BY <1>1, <1>2, <1>3

-----------------------------------------------------------------------------
(* Every step preserves the invariant *)

\* A step that accepts no payload and neither begins nor ends disposal.
Quiet ==
    /\ Moved(entry, entry')
    /\ disposal' = "no" <=> disposal = "no"
    /\ disposal' = "done" <=> disposal = "done"

\* A registry in which what was sent is as it was
LEMMA HandsSame ==
    ASSUME Sound, InHands(entry, gen, inbox, outbox), NEW fs,
           \A x \in Payload : entry[x].state = "sent" => fs[x] = entry[x]
    PROVE  InHands(fs, gen, inbox, outbox)
<1>1. \A g \in Gen : \/ gen[g].status = "dead" /\ inbox[g] = {}
                     \/ /\ inbox[g] = inbox[g] /\ gen[g].status # "dead"
                        /\ gen[g].status = gen[g].status
                        /\ \A x \in Payload : SentOn(entry, x, g) => fs[x] = entry[x]
  BY DEF Sound, SentOn
<1> QED BY <1>1, HandsShrink

\* The registry is not empty, or admission is closed: a generation is coming.
LEMMA AttendedNow ==
    ASSUME IInv, ~disposed, ~fatal, suspended \/ Unacked(entry) # {}
    PROVE  Coming(gen, active, rotation, respawn)
  BY DEF IInv, Attended, Unacked

\* A handler that moves entries and ends with one of the operations above
LEMMA Finish ==
    ASSUME IInv, NEW es, Moved(entry, es), Unacked(es) \subseteq Unacked(entry), Placed(es),
           disposal' = disposal, outbox' \in [Gen -> Seq(Batches)], Timers', Flags'
    PROVE  IInv' /\ Quiet
<1>1. IsFiniteSet(Unacked(es))
  BY FS_Subset DEF IInv, Sound
<1>2. Sound'
  BY <1>1, PlacedSound
<1>3. Attended'
  BY DEF Attended, Placed, disposed
<1>4. Moved(entry, entry')
  BY MovedCompose DEF Placed
<1> QED BY <1>2, <1>3, <1>4 DEF IInv, Quiet

\* The registry with a new payload
LEMMA PublishTable ==
    ASSUME Sound, NEW e \in Payload, entry[e].state = "none"
    PROVE  LET es == Buffer(entry, {e}) IN
           /\ es \in Table /\ Unassigned(es) /\ Unacked(es) = Unacked(entry) \cup {e}
           /\ IsFiniteSet(Unacked(es)) /\ es[e].state = "buffered"
           /\ \A x \in Payload \ {e} : es[x] = entry[x]
<1> DEFINE rec == [entry[e] EXCEPT !.state = "buffered"]
<1>0. entry \in Table /\ Unassigned(entry) /\ IsFiniteSet(Unacked(entry))
  BY DEF Sound
<1>1. entry[e] \in OpenEntry
  BY <1>0, EntryFields
<1>2. rec \in OpenEntry /\ rec.state = "buffered"
  BY <1>1 DEF OpenEntry
<1>3. Buffer(entry, {e}) = [x \in Payload |-> IF x = e THEN rec ELSE entry[x]]
  BY DEF Buffer
<1> HIDE DEF rec
<1>4. Buffer(entry, {e}) \in Table
  BY <1>0, <1>2, <1>3 DEF Table
<1>5. /\ Buffer(entry, {e})[e] = rec
      /\ \A x \in Payload \ {e} : Buffer(entry, {e})[x] = entry[x]
  BY <1>3
<1>6. Unassigned(Buffer(entry, {e}))
  BY <1>0, <1>2, <1>5 DEF Unassigned
<1>7. Unacked(Buffer(entry, {e})) = Unacked(entry) \cup {e}
  BY <1>2, <1>5 DEF Unacked
<1>8. IsFiniteSet(Unacked(entry) \cup {e})
  BY <1>0, FS_AddElement
<1> QED BY <1>2, <1>4, <1>5, <1>6, <1>7, <1>8

\* What a step that accepts a payload does to the registry
Accepts(e) ==
    /\ entry[e].state = "none" /\ disposal = "no" /\ disposal' = "no"
    /\ entry' \in Table
    /\ entry'[e].state \notin {"none", "settled"}
    /\ \A x \in Payload \ {e} : entry'[x] = entry[x]
    /\ suspended' = suspended /\ fatal' = fatal

LEMMA PublishStep ==
    ASSUME IInv, NEW e \in Payload, Publish(e)
    PROVE  IInv' /\ Accepts(e)
<1> DEFINE es == Buffer(entry, {e})
<1>0. /\ entry[e].state = "none" /\ ~disposed /\ disposal = "no"
      /\ outbox' = outbox /\ expired' = expired /\ retryTimers' = retryTimers
      /\ suspended' = suspended /\ unhealthy' = unhealthy /\ fatal' = fatal
      /\ suppressed' = suppressed /\ disposal' = disposal
      /\ IF suspended \/ fatal THEN Stay(es) ELSE EnsureAndSend(es, e)
  BY DEF Publish, disposed
<1>1. /\ es \in Table /\ Unassigned(es) /\ Unacked(es) = Unacked(entry) \cup {e}
      /\ IsFiniteSet(Unacked(es)) /\ es[e].state = "buffered"
      /\ \A x \in Payload \ {e} : es[x] = entry[x]
  BY <1>0, PublishTable DEF IInv
<1> HIDE DEF es
<1>2. InHands(es, gen, inbox, outbox)
  <2>1. \A x \in Payload : entry[x].state = "sent" => es[x] = entry[x]
    BY <1>0, <1>1
  <2>2. Sound /\ InHands(entry, gen, inbox, outbox)
    BY <1>0 DEF IInv, Sound
  <2> QED BY <2>1, <2>2, HandsSame
<1>3. Placed(es) /\ Kept(es, entry') /\ \A x \in Payload \ {e} : entry'[x] = es[x]
  <2>1. CASE suspended \/ fatal
    <3>1. ~disposed /\ ~fatal' => Coming(gen, active, rotation, respawn)
      BY <1>0, <2>1, AttendedNow
    <3>2. Stay(es) /\ entry' = es
      BY <1>0, <2>1 DEF Stay
    <3>3. Placed(es)
      BY <1>0, <1>1, <1>2, <3>1, <3>2, StaySafe
    <3> QED BY <1>1, <3>2, <3>3, MovedCompose
  <2>2. CASE ~(suspended \/ fatal)
    <3>1. e \in Unacked(es)
      BY <1>1
    <3> QED BY <1>0, <1>1, <1>2, <2>2, <3>1, EnsureSafe
  <2> QED BY <2>1, <2>2
<1>4. entry' \in Table /\ entry'[e].state \notin {"none", "settled"}
  BY <1>1, <1>3 DEF Kept, Moved
<1>5. Accepts(e)
  BY <1>0, <1>1, <1>3, <1>4 DEF Accepts
<1>6. Sound'
  <2>1. outbox' \in [Gen -> Seq(Batches)]
    BY <1>0 DEF IInv, Sound
  <2> QED BY <1>1, <1>3, <2>1, PlacedSound
<1>7. Attended'
  BY <1>0, <1>3 DEF Attended, Placed, disposed
<1>8. Flags'
  BY <1>0, <1>3 DEF IInv, Flags, Placed, disposed
<1>9. Timers'
  <2>1. /\ retryTimers \subseteq Unacked(entry)
        /\ \A x \in retryTimers : entry[x].state = "retry_wait"
    BY <1>0 DEF IInv, Timers
  <2>2. \A x \in retryTimers : x \in Payload /\ x # e /\ entry'[x] = entry[x]
    BY <1>0, <1>1, <1>3, <2>1 DEF Unacked
  <2> QED BY <1>0, <2>1, <2>2 DEF Timers, Unacked
<1> QED BY <1>5, <1>6, <1>7, <1>8, <1>9 DEF IInv

\* The retry timer's callback
LEMMA RetryTimerStep ==
    ASSUME IInv, NEW e \in Payload, RetryTimer(e)
    PROVE  IInv' /\ Quiet
<1> DEFINE es == Buffer(entry, {e})
<1> DEFINE ds == Settle(entry, {e}, "expired")
<1>0. /\ e \in retryTimers /\ retryTimers' = retryTimers \ {e}
      /\ outbox' = outbox /\ expired' = expired
      /\ suspended' = suspended /\ unhealthy' = unhealthy /\ fatal' = fatal
      /\ suppressed' = suppressed /\ disposal' = disposal
      /\ IF DropIfExpired({e}) # {} THEN Stay(ds)
         ELSE IF disposed \/ fatal THEN Stay(es) ELSE EnsureAndSend(es, e)
  BY DEF RetryTimer
<1>1. /\ entry \in Table /\ Unassigned(entry) /\ IsFiniteSet(Unacked(entry))
      /\ e \in Unacked(entry) /\ retryTimers \subseteq Unacked(entry)
      /\ disposal # "close" => \A x \in retryTimers : entry[x].state = "retry_wait"
      /\ outbox' \in [Gen -> Seq(Batches)] /\ Sound
      /\ disposal # "close" => InHands(entry, gen, inbox, outbox)
  BY <1>0 DEF IInv, Sound, Timers
<1>2. /\ Moved(entry, ds) /\ ds \in Table
      /\ \A x \in Payload \ {e} : ds[x] = entry[x]
      /\ ds[e].state = "settled"
  <2>1. {e} \subseteq Unacked(entry) /\ "expired" \in Reported
    BY <1>1 DEF Reported
  <2>2. Moved(entry, ds)
    BY <1>1, <2>1, SettleMoves
  <2>3. ds \in Table
    BY <2>2 DEF Moved
  <2> QED BY <2>2, <2>3 DEF Settle
<1>3. /\ Moved(entry, es) /\ es \in Table /\ Unacked(es) = Unacked(entry)
      /\ \A x \in Payload \ {e} : es[x] = entry[x]
      /\ es[e].state = "buffered"
  <2>1. {e} \subseteq Unacked(entry)
    BY <1>1
  <2>2. Kept(entry, es) /\ Unacked(es) = Unacked(entry)
    BY <1>1, <2>1, BufferKeeps
  <2>3. \A x \in Payload \ {e} : es[x] = entry[x]
    BY DEF Buffer
  <2>4. entry[e] \in OpenEntry \cup SettledEntry
    BY <1>1 DEF Table
  <2>5. es[e].state = "buffered"
    BY <2>4 DEF Buffer, OpenEntry, SettledEntry
  <2> QED BY <2>2, <2>3, <2>5, MovedCompose
<1> HIDE DEF es, ds
<1>4. /\ Unassigned(ds) /\ Unassigned(es) /\ Unacked(ds) \subseteq Unacked(entry)
      /\ IsFiniteSet(Unacked(es)) /\ e \in Unacked(es)
  BY <1>1, <1>2, <1>3 DEF Unassigned, Unacked
<1>5. disposal # "close" => /\ InHands(es, gen, inbox, outbox)
                            /\ InHands(ds, gen, inbox, outbox)
  <2>1. disposal # "close" =>
          \A x \in Payload : entry[x].state = "sent" => es[x] = entry[x] /\ ds[x] = entry[x]
    BY <1>0, <1>1, <1>2, <1>3
  <2> QED BY <1>1, <2>1, HandsSame
<1>6. ~disposed /\ ~fatal' => Coming(gen, active, rotation, respawn)
  BY <1>0, <1>1, AttendedNow
<1>7. \E fs : /\ Moved(entry, fs) /\ Unacked(fs) \subseteq Unacked(entry) /\ Placed(fs)
              /\ \A x \in Payload \ {e} : entry'[x] = entry[x]
  <2>1. CASE DropIfExpired({e}) # {}
    <3>1. Stay(ds) /\ entry' = ds
      BY <1>0, <2>1 DEF Stay
    <3>2. Placed(ds)
      BY <1>0, <1>2, <1>4, <1>5, <1>6, <3>1, StaySafe
    <3> QED BY <1>2, <1>4, <3>1, <3>2
  <2>2. CASE DropIfExpired({e}) = {} /\ (disposed \/ fatal)
    <3>1. Stay(es) /\ entry' = es
      BY <1>0, <2>2 DEF Stay
    <3>2. Placed(es)
      BY <1>0, <1>3, <1>4, <1>5, <1>6, <3>1, StaySafe
    <3> QED BY <1>3, <1>4, <3>1, <3>2
  <2>3. CASE DropIfExpired({e}) = {} /\ ~(disposed \/ fatal)
    <3>1. EnsureAndSend(es, e) /\ ~disposed /\ disposal # "close"
      BY <1>0, <2>3 DEF disposed
    <3>2. Placed(es) /\ \A x \in Payload \ {e} : entry'[x] = es[x]
      BY <1>0, <1>3, <1>4, <1>5, <3>1, EnsureSafe
    <3> QED BY <1>3, <1>4, <3>2
  <2> QED BY <2>1, <2>2, <2>3
<1>8. PICK fs : /\ Moved(entry, fs) /\ Unacked(fs) \subseteq Unacked(entry) /\ Placed(fs)
                /\ \A x \in Payload \ {e} : entry'[x] = entry[x]
  BY <1>7
<1>9. Timers'
  <2>1. \A x \in retryTimers' : x \in Payload \ {e} /\ entry'[x] = entry[x]
    BY <1>0, <1>1, <1>8 DEF Unacked
  <2> QED BY <1>0, <1>1, <2>1 DEF Timers, Unacked
<1>10. Flags'
  BY <1>0, <1>8 DEF IInv, Flags, Placed, disposed
<1> QED BY <1>0, <1>1, <1>8, <1>9, <1>10, Finish

\* Generations die, become ready or are asked to close; the dead hold nothing.
LEMMA HandsUndone ==
    ASSUME Sound, disposal # "close", NEW gs,
           \A h \in Gen : \/ gs[h].status = "dead" \/ gs[h].status = gen[h].status
                          \/ gen[h].status # "dead" /\ gs[h].status \in {"ready", "closing"}
    PROVE  InHands(entry, gs, Undone(gs), outbox)
<1>1. /\ InHands(entry, gen, inbox, outbox)
      /\ \A h \in Gen : Undone(gs)[h] = IF gs[h].status = "dead" THEN {} ELSE inbox[h]
  BY UndoneType DEF Sound
<1>2. ASSUME NEW h \in Gen
      PROVE  \/ gs[h].status = "dead" /\ Undone(gs)[h] = {}
             \/ /\ Undone(gs)[h] = inbox[h] /\ gen[h].status # "dead"
                /\ \/ gs[h].status = gen[h].status
                   \/ gs[h].status \in {"ready", "closing"}
                /\ \A e \in Payload : SentOn(entry, e, h) => entry[e] = entry[e]
  BY <1>1
<1> QED BY <1>1, <1>2, HandsShrink

\* While a generation is starting nothing else is alive but, in a rotation,
\* the one that it is going to replace.
LEMMA StartingAlone ==
    ASSUME Sound, NEW g \in Gen, gen[g].status = "starting"
    PROVE  /\ active = NoGen /\ disposal \notin {"close", "done"}
           /\ rotation.phase \in {"none", "spawn"}
           /\ rotation.phase = "none" => \A h \in Gen \ {g} : gen[h].status = "dead"
           /\ rotation.phase = "spawn" =>
                /\ g = rotation.rep /\ rotation.out \in Gen /\ rotation.out # g
                /\ gen[rotation.out].status \in {"ready", "dead"}
                /\ \A h \in Gen \ {g, rotation.out} : gen[h].status = "dead"
<1>1. Structure(gen, active, rotation, disposal)
  BY DEF Sound
<1>2. rotation.phase \in {"none", "spawn", "close"}
  BY <1>1 DEF Structure, Rotations
<1> QED BY <1>1, <1>2 DEF Structure

\* A generation reports ready.
LEMMA ReadyStep ==
    ASSUME IInv, NEW g \in Gen, Ready(g)
    PROVE  IInv' /\ Quiet
<1> DEFINE gs == [gen EXCEPT ![g].status = "ready"]
<1>0. /\ gen[g].status = "starting"
      /\ outbox' = outbox /\ expired' = expired
      /\ suspended' = suspended /\ unhealthy' = unhealthy /\ fatal' = fatal
      /\ suppressed' = suppressed /\ disposal' = disposal
  BY DEF Ready
<1>1. /\ Sound /\ entry \in Table /\ Unassigned(entry) /\ IsFiniteSet(Unacked(entry))
      /\ gen \in Gens /\ inbox \in [Gen -> SUBSET Payload] /\ outbox \in [Gen -> Seq(Batches)]
      /\ Structure(gen, active, rotation, disposal)
      /\ respawn \in BOOLEAN /\ faults \in 0..MaxFaults /\ (disposed => ~respawn)
  BY DEF IInv, Sound, Flags
<1>2. /\ active = NoGen /\ disposal \notin {"close", "done"}
      /\ rotation.phase \in {"none", "spawn"}
      /\ rotation.phase = "none" => \A h \in Gen \ {g} : gen[h].status = "dead"
      /\ rotation.phase = "spawn" =>
                /\ g = rotation.rep /\ rotation.out \in Gen /\ rotation.out # g
                /\ gen[rotation.out].status \in {"ready", "dead"}
                /\ \A h \in Gen \ {g, rotation.out} : gen[h].status = "dead"
  BY <1>0, <1>1, StartingAlone
<1>3. /\ gs \in Gens /\ gs[g].status = "ready"
      /\ \A h \in Gen \ {g} : gs[h] = gen[h]
  BY <1>1, StatusType DEF Status
<1> HIDE DEF gs
<1>4. InHands(entry, gs, Undone(gs), outbox)
  <2>1. \A h \in Gen : \/ gs[h].status = "dead" \/ gs[h].status = gen[h].status
                       \/ gen[h].status # "dead" /\ gs[h].status \in {"ready", "closing"}
    BY <1>0, <1>3
  <2> QED BY <1>1, <1>2, <2>1, HandsUndone
<1>5. Live(g)
  BY <1>0 DEF Live
<1>6. Placed(entry) /\ Timers'
  <2>1. CASE rotation.phase = "none"
    <3>1. OnlyLive(gs, g) /\ g # NoGen
      BY <1>2, <1>3, <2>1 DEF OnlyLive, Gen, NoGen
    <3>2. /\ IF disposed \/ fatal THEN Hold(entry, gs, g, respawn, 0) ELSE FlushTo(entry, gs, g)
          /\ retryTimers' = retryTimers
      BY <2>1 DEF Ready, gs
    <3>3. Placed(entry) /\ \A e \in Payload : entry[e].state = "retry_wait" => entry'[e] = entry[e]
      <4>1. CASE disposed \/ fatal
        <5>1. Structure(gs, g, NoRotation, disposal) /\ Coming(gs, g, NoRotation, respawn)
          BY <3>1, OnlyLiveStructure DEF Coming
        <5>2. entry' = entry
          BY <3>2, <4>1 DEF Hold
        <5> QED BY <1>0, <1>1, <1>3, <1>4, <3>2, <4>1, <5>1, <5>2, HoldSafe
      <4>2. CASE ~(disposed \/ fatal)
        BY <1>0, <1>1, <1>3, <1>4, <1>5, <3>1, <3>2, <4>2, FlushSafe
      <4> QED BY <4>1, <4>2
    <3>4. /\ retryTimers \subseteq Unacked(entry)
          /\ \A e \in retryTimers : entry[e].state = "retry_wait"
      BY <1>2 DEF IInv, Timers
    <3> QED BY <3>2, <3>3, <3>4 DEF Timers, Unacked
  <2>2. CASE rotation.phase = "spawn" /\ Live(rotation.out)
    <3>1. /\ gen' = [gs EXCEPT ![rotation.out].status = "closing"]
          /\ rotation' = [rotation EXCEPT !.phase = "close"]
          /\ entry' = entry /\ inbox' = inbox /\ active' = active /\ respawn' = respawn
          /\ retryTimers' = retryTimers /\ faults' = faults
      BY <2>2 DEF Ready, gs
    <3>2. /\ gen' \in Gens /\ gen'[rotation.out].status = "closing"
          /\ \A h \in Gen \ {rotation.out} : gen'[h] = gs[h]
      <4>1. "closing" \in Status /\ rotation.out \in Gen
        BY <1>2, <2>2 DEF Status
      <4>2. PICK o \in Gen : o = rotation.out
        BY <4>1
      <4>3. gen' = [gs EXCEPT ![o].status = "closing"]
        BY <3>1, <4>2
      <4>4. /\ [gs EXCEPT ![o].status = "closing"] \in Gens
            /\ [gs EXCEPT ![o].status = "closing"][o].status = "closing"
            /\ \A h \in Gen \ {o} : [gs EXCEPT ![o].status = "closing"][h] = gs[h]
        BY <1>3, <4>1, StatusType
      <4> QED BY <4>2, <4>3, <4>4
    <3>3. rotation \in Rotations
      BY <1>1 DEF Structure
    <3>4. /\ rotation' \in Rotations /\ rotation'.phase = "close"
          /\ rotation'.out = rotation.out /\ rotation'.rep = rotation.rep
      BY <3>1, <3>3 DEF Rotations
    <3>5. Structure(gen', active', rotation', disposal')
      BY <1>0, <1>2, <1>3, <2>2, <3>1, <3>2, <3>4 DEF Structure
    <3>6. \A h \in Gen : gen'[h].status = "dead" => inbox'[h] = {}
      BY <1>0, <1>1, <1>2, <1>3, <2>2, <3>1, <3>2 DEF Sound, Live
    <3>7. InHands(entry', gen', inbox', outbox')
      <4>1. InHands(entry, gen, inbox, outbox)
        BY <1>1, <1>2 DEF Sound
      <4>2. ASSUME NEW h \in Gen
            PROVE  \/ gen'[h].status = "dead" /\ inbox[h] = {}
                   \/ /\ inbox[h] = inbox[h] /\ gen[h].status # "dead"
                      /\ \/ gen'[h].status = gen[h].status
                         \/ gen'[h].status \in {"ready", "closing"}
                      /\ \A e \in Payload : SentOn(entry, e, h) => entry[e] = entry[e]
        <5>1. CASE h = g
          BY <1>0, <1>2, <1>3, <2>2, <3>2, <5>1
        <5>2. CASE h = rotation.out
          BY <2>2, <3>2, <5>2 DEF Live
        <5>3. CASE h \notin {g, rotation.out}
          BY <1>2, <1>3, <2>2, <3>1, <3>2, <3>6, <5>3
        <5> QED BY <5>1, <5>2, <5>3
      <4>3. InHands(entry, gen', inbox, outbox)
        BY <4>1, <4>2, HandsShrink
      <4> QED BY <1>0, <3>1, <4>3
    <3>8. Coming(gen', active', rotation', respawn')
      BY <3>4 DEF Coming
    <3>9. Placed(entry)
      BY <1>1, <3>1, <3>2, <3>5, <3>6, <3>7, <3>8, MovedCompose DEF Placed
    <3> QED BY <1>0, <3>1, <3>9 DEF IInv, Timers
  <2>3. CASE rotation.phase = "spawn" /\ ~Live(rotation.out)
    <3>1. Cutover(gs, 0)
      BY <2>3 DEF Ready, gs
    <3>2. \A h \in Gen \ {rotation.rep} : gs[h].status = "dead"
      BY <1>2, <1>3, <2>3 DEF Live
    <3> QED BY <1>0, <1>2, <1>3, <1>4, <1>5, <2>3, <3>1, <3>2, CutoverSafe
  <2> QED BY <1>2, <2>1, <2>2, <2>3
<1>7. Flags'
  BY <1>0, <1>6 DEF IInv, Flags, Placed, disposed
<1>8. Moved(entry, entry)
  BY <1>1, MovedCompose
<1> QED BY <1>0, <1>1, <1>6, <1>7, <1>8, Finish

\* A spawn fails.
LEMMA SpawnFailsStep ==
    ASSUME IInv, NEW g \in Gen, NEW isFatal \in BOOLEAN, SpawnFails(g, isFatal)
    PROVE  IInv' /\ Quiet
<1> DEFINE gs == Kill(gen, {g})
<1> DEFINE nowFatal == fatal \/ isFatal
<1> DEFINE timer == respawn \/ ~(nowFatal \/ disposed)
<1>0. /\ gen[g].status = "starting"
      /\ fatal' = nowFatal /\ suspended' = (suspended \/ isFatal)
      /\ outbox' = outbox /\ expired' = expired /\ unhealthy' = unhealthy
      /\ suppressed' = suppressed /\ disposal' = disposal
      /\ IF rotation.phase = "spawn" /\ Live(rotation.out)
         THEN Replay(gs, rotation.out, timer, nowFatal, 1)
         ELSE Hold(entry, gs, active, timer, 1) /\ UNCHANGED retryTimers
  BY DEF SpawnFails
<1>1. /\ Sound /\ entry \in Table /\ Unassigned(entry) /\ gen \in Gens
      /\ inbox \in [Gen -> SUBSET Payload] /\ outbox \in [Gen -> Seq(Batches)]
      /\ respawn \in BOOLEAN /\ fatal \in BOOLEAN /\ faults \in 0..MaxFaults
      /\ (disposed => ~respawn)
  BY DEF IInv, Sound, Flags
<1>2. /\ active = NoGen /\ disposal \notin {"close", "done"}
      /\ rotation.phase \in {"none", "spawn"}
      /\ rotation.phase = "none" => \A h \in Gen \ {g} : gen[h].status = "dead"
      /\ rotation.phase = "spawn" =>
                /\ g = rotation.rep /\ rotation.out \in Gen /\ rotation.out # g
                /\ gen[rotation.out].status \in {"ready", "dead"}
                /\ \A h \in Gen \ {g, rotation.out} : gen[h].status = "dead"
  BY <1>0, <1>1, StartingAlone
<1>3. /\ gs \in Gens /\ gs[g].status = "dead" /\ \A h \in Gen \ {g} : gs[h] = gen[h]
  BY <1>1, KillType
<1>4. timer \in BOOLEAN /\ (disposed => ~timer) /\ (~disposed /\ ~fatal' => timer)
  BY <1>0, <1>1
<1> HIDE DEF gs, timer, nowFatal
<1>5. InHands(entry, gs, Undone(gs), outbox)
  <2>1. \A h \in Gen : \/ gs[h].status = "dead" \/ gs[h].status = gen[h].status
                       \/ gen[h].status # "dead" /\ gs[h].status \in {"ready", "closing"}
    BY <1>3
  <2> QED BY <1>1, <1>2, <2>1, HandsUndone
<1>6. Placed(entry) /\ Timers'
  <2>1. CASE rotation.phase = "spawn" /\ Live(rotation.out)
    <3>1. OnlyLive(gs, rotation.out)
      BY <1>2, <1>3, <2>1 DEF OnlyLive, Live
    <3> QED BY <1>0, <1>2, <1>3, <1>4, <1>5, <2>1, <3>1, ReplaySafe
  <2>2. CASE ~(rotation.phase = "spawn" /\ Live(rotation.out))
    <3>1. \A h \in Gen : gs[h].status = "dead"
      BY <1>2, <1>3, <2>2 DEF Live
    <3>2. Structure(gs, active, NoRotation, disposal)
      BY <1>2, <3>1, NoneLiveStructure
    <3>3. Hold(entry, gs, active, timer, 1) /\ retryTimers' = retryTimers
      BY <1>0, <2>2
    <3>4. ~disposed /\ ~fatal' => Coming(gs, active, NoRotation, timer)
      BY <1>4 DEF Coming
    <3>5. Placed(entry)
      BY <1>0, <1>1, <1>2, <1>3, <1>4, <1>5, <3>2, <3>3, <3>4, HoldSafe
    <3>6. entry' = entry
      BY <3>3 DEF Hold
    <3> QED BY <1>0, <3>3, <3>5, <3>6 DEF IInv, Timers
  <2> QED BY <2>1, <2>2
<1>7. Flags'
  <2>1. fatal' \in BOOLEAN
    BY <1>0, <1>1 DEF nowFatal
  <2> QED BY <1>0, <1>6, <2>1 DEF IInv, Flags, Placed, disposed
<1>8. Moved(entry, entry)
  BY <1>1, MovedCompose
<1> QED BY <1>0, <1>1, <1>6, <1>7, <1>8, Finish

\* The outgoing generation is gone.
LEMMA OutgoingClosesStep ==
    ASSUME IInv, OutgoingCloses
    PROVE  IInv' /\ Quiet
<1> DEFINE gs == Kill(gen, {rotation.out})
<1>0. /\ rotation.phase = "close" /\ gen[rotation.out].status = "closing"
      /\ outbox' = outbox /\ expired' = expired /\ suspended' = suspended
      /\ unhealthy' = unhealthy /\ fatal' = fatal
      /\ suppressed' = suppressed /\ disposal' = disposal
      /\ \E n \in Nat : Cutover(gs, n)
  BY DEF OutgoingCloses, Late
<1>1. /\ Sound /\ entry \in Table /\ gen \in Gens /\ outbox \in [Gen -> Seq(Batches)]
      /\ Structure(gen, active, rotation, disposal)
  BY DEF IInv, Sound
<1>2. /\ disposal \notin {"close", "done"} /\ rotation.rep \in Gen /\ rotation.out \in Gen
      /\ rotation.rep # rotation.out /\ gen[rotation.rep].status \in {"ready", "dead"}
      /\ \A h \in Gen \ {rotation.rep, rotation.out} : gen[h].status = "dead"
  BY <1>0, <1>1 DEF Structure
<1>3. /\ gs \in Gens /\ gs[rotation.out].status = "dead"
      /\ \A h \in Gen \ {rotation.out} : gs[h] = gen[h]
  BY <1>1, <1>2, KillType
<1> HIDE DEF gs
<1>4. InHands(entry, gs, Undone(gs), outbox)
  <2>1. \A h \in Gen : \/ gs[h].status = "dead" \/ gs[h].status = gen[h].status
                       \/ gen[h].status # "dead" /\ gs[h].status \in {"ready", "closing"}
    BY <1>3
  <2> QED BY <1>1, <1>2, <2>1, HandsUndone
<1>5. Placed(entry) /\ Timers'
  <2>1. PICK n \in Nat : Cutover(gs, n)
    BY <1>0
  <2>2. /\ \A h \in Gen \ {rotation.rep} : gs[h].status = "dead"
        /\ gs[rotation.rep].status \in {"ready", "dead"}
        /\ gs[rotation.rep].status = "ready" => Live(rotation.rep)
    BY <1>2, <1>3 DEF Live
  <2> QED BY <1>0, <1>2, <1>3, <1>4, <2>1, <2>2, CutoverSafe
<1>6. Flags'
  BY <1>0, <1>5 DEF IInv, Flags, Placed, disposed
<1>7. Moved(entry, entry)
  BY <1>1, MovedCompose
<1> QED BY <1>0, <1>1, <1>5, <1>6, <1>7, Finish

\* A worker dies.
LEMMA DiesStep ==
    ASSUME IInv, NEW g \in Gen, Dies(g)
    PROVE  IInv' /\ Quiet
<1>0. /\ gen[g].status \in {"ready", "closing"}
      /\ gen' = Kill(gen, {g}) /\ inbox' = [inbox EXCEPT ![g] = {}]
      /\ active' = IF active = g THEN NoGen ELSE active
      /\ respawn' = (respawn \/ (active = g /\ ~disposed /\ ~fatal))
      /\ Faults(1)
      /\ entry' = entry /\ outbox' = outbox /\ expired' = expired
      /\ retryTimers' = retryTimers /\ rotation' = rotation /\ suspended' = suspended
      /\ unhealthy' = unhealthy /\ fatal' = fatal
      /\ suppressed' = suppressed /\ disposal' = disposal
  BY DEF Dies
<1>1. /\ Sound /\ entry \in Table /\ Unassigned(entry) /\ gen \in Gens
      /\ inbox \in [Gen -> SUBSET Payload] /\ outbox \in [Gen -> Seq(Batches)]
      /\ \A h \in Gen : gen[h].status = "dead" => inbox[h] = {}
      /\ Structure(gen, active, rotation, disposal)
      /\ respawn \in BOOLEAN /\ fatal \in BOOLEAN /\ faults \in 0..MaxFaults
      /\ (disposed => ~respawn)
  BY DEF IInv, Sound, Flags
<1>2. /\ gen' \in Gens /\ gen'[g].status = "dead" /\ \A h \in Gen \ {g} : gen'[h] = gen[h]
  BY <1>0, <1>1, KillType
<1>3. /\ inbox' \in [Gen -> SUBSET Payload] /\ inbox'[g] = {}
      /\ \A h \in Gen \ {g} : inbox'[h] = inbox[h]
  BY <1>0, <1>1
<1>4. /\ Structure(gen', active', rotation', disposal')
      /\ ~disposed /\ ~fatal' => Coming(gen', active', rotation', respawn')
  <2>1. CASE active = g
    <3>1. \A h \in Gen : gen'[h].status = "dead"
      BY <1>1, <1>2, <2>1 DEF Structure, Gen, NoGen
    <3>2. rotation' = NoRotation
      BY <1>0, <1>1, <2>1 DEF Structure, Gen, NoGen
    <3>3. Structure(gen', active', rotation', disposal')
      BY <1>0, <2>1, <3>1, <3>2, NoneLiveStructure
    <3> QED BY <1>0, <2>1, <3>3 DEF Coming
  <2>2. CASE active # g
    <3>1. active = NoGen /\ rotation.phase # "none"
      BY <1>0, <1>1, <2>2 DEF Structure
    <3>2. Structure(gen', active', rotation', disposal')
      BY <1>0, <1>1, <1>2, <2>2, <3>1 DEF Structure
    <3> QED BY <1>0, <3>1, <3>2 DEF Coming
  <2> QED BY <2>1, <2>2
<1>5. \A h \in Gen : gen'[h].status = "dead" => inbox'[h] = {}
  BY <1>1, <1>2, <1>3
<1>6. disposal' # "close" => InHands(entry', gen', inbox', outbox')
  <2>1. ASSUME NEW h \in Gen
        PROVE  \/ gen'[h].status = "dead" /\ inbox'[h] = {}
               \/ /\ inbox'[h] = inbox[h] /\ gen[h].status # "dead"
                  /\ \/ gen'[h].status = gen[h].status
                     \/ gen'[h].status \in {"ready", "closing"}
                  /\ \A e \in Payload : SentOn(entry, e, h) => entry[e] = entry[e]
    BY <1>1, <1>2, <1>3, <1>5
  <2>2. disposal # "close" => InHands(entry, gen', inbox', outbox)
    BY <1>1, <2>1, HandsShrink DEF Sound
  <2> QED BY <1>0, <2>2
<1>7. Moved(entry, entry)
  BY <1>1, MovedCompose
<1>8. respawn' \in BOOLEAN /\ (disposed => ~respawn')
  BY <1>0, <1>1
<1>9. faults' \in 0..MaxFaults
  BY <1>0, <1>1, FaultsType
<1>10. Placed(entry)
  BY <1>0, <1>1, <1>2, <1>3, <1>4, <1>5, <1>6, <1>7, <1>8, <1>9 DEF Placed
<1>11. Flags' /\ Timers'
  BY <1>0, <1>8, <1>9 DEF IInv, Flags, Timers, disposed
<1> QED BY <1>0, <1>1, <1>7, <1>10, <1>11, Finish

\* The respawn timer fires.
LEMMA RespawnTimerStep ==
    ASSUME IInv, RespawnTimer
    PROVE  IInv' /\ Quiet
<1>0. /\ respawn /\ respawn' = FALSE
      /\ entry' = entry /\ inbox' = inbox /\ outbox' = outbox /\ expired' = expired
      /\ faults' = faults /\ retryTimers' = retryTimers /\ suspended' = suspended
      /\ unhealthy' = unhealthy /\ fatal' = fatal
      /\ suppressed' = suppressed /\ disposal' = disposal
  BY DEF RespawnTimer
<1>1. /\ Sound /\ entry \in Table /\ Unassigned(entry) /\ gen \in Gens
      /\ inbox \in [Gen -> SUBSET Payload] /\ outbox \in [Gen -> Seq(Batches)]
      /\ \A h \in Gen : gen[h].status = "dead" => inbox[h] = {}
      /\ Structure(gen, active, rotation, disposal)
      /\ ~disposed /\ disposal = "no" /\ faults \in 0..MaxFaults
      /\ InHands(entry, gen, inbox, outbox)
  BY <1>0 DEF IInv, Sound, Flags, disposed
<1>2. /\ gen' \in Gens /\ Structure(gen', active', rotation', disposal')
      /\ \A h \in Gen : gen'[h].status = "dead" => inbox'[h] = {}
      /\ InHands(entry', gen', inbox', outbox')
      /\ ~fatal' => Coming(gen', active', rotation', respawn')
  <2>1. CASE /\ active # NoGen
             /\ \E g \in Fresh(entry) :
                  /\ gen' = Spawn(gen, g)
                  /\ rotation' = [phase |-> "spawn", out |-> active, rep |-> g]
             /\ active' = NoGen
    <3>1. PICK g \in Fresh(entry) :
                  /\ gen' = Spawn(gen, g)
                  /\ rotation' = [phase |-> "spawn", out |-> active, rep |-> g]
      BY <2>1
    <3>2. /\ InHands(entry, gen', inbox, outbox) /\ g \in Gen /\ gen[g].status = "dead"
      BY <1>1, <3>1, SpawnHands
    <3>3. /\ active \in Gen /\ gen[active].status = "ready" /\ active # g
          /\ \A h \in Gen \ {active} : gen[h].status = "dead"
      BY <1>1, <2>1, <3>2 DEF Structure
    <3>4. /\ gen' \in Gens /\ gen'[g].status = "starting"
          /\ \A h \in Gen \ {g} : gen'[h] = gen[h]
      BY <1>1, <3>1, <3>2, SpawnType
    <3>5. Structure(gen', active', rotation', disposal')
      BY <1>0, <1>1, <2>1, <3>1, <3>2, <3>3, <3>4, RotationStructure
    <3>6. Coming(gen', active', rotation', respawn')
      BY <3>2, <3>4 DEF Coming
    <3> QED BY <1>0, <1>1, <3>2, <3>4, <3>5, <3>6
  <2>2. CASE /\ gen' = gen /\ rotation' = rotation /\ active' = active
             /\ active # NoGen \/ fatal \/ Starting # {} \/ rotation.phase # "none"
    <3>1. ~fatal' => Coming(gen', active', rotation', respawn')
      BY <1>0, <2>2 DEF Coming, Starting
    <3> QED BY <1>0, <1>1, <2>2, <3>1
  <2>3. CASE /\ active = NoGen /\ Starting = {} /\ rotation.phase = "none"
             /\ \E g \in Fresh(entry) : gen' = Spawn(gen, g)
             /\ rotation' = rotation /\ active' = active
    <3>1. PICK g \in Fresh(entry) : gen' = Spawn(gen, g)
      BY <2>3
    <3>2. InHands(entry, gen', inbox, outbox)
      BY <1>1, <3>1, SpawnHands
    <3>3. /\ gen' \in Gens /\ gen'[g].status = "starting" /\ g \in Gen
          /\ rotation = NoRotation
          /\ Structure(gen', NoGen, NoRotation, disposal)
          /\ \A h \in Gen : gen'[h].status = "dead" => inbox[h] = {}
      BY <1>1, <2>3, <3>1, SpawnSafe
    <3>4. Coming(gen', active', rotation', respawn')
      BY <3>3 DEF Coming
    <3> QED BY <1>0, <1>1, <2>3, <3>2, <3>3, <3>4
  <2> QED BY <2>1, <2>2, <2>3 DEF RespawnTimer
<1>3. Moved(entry, entry)
  BY <1>1, MovedCompose
<1>4. Placed(entry)
  BY <1>0, <1>1, <1>2, <1>3 DEF Placed
<1>5. Flags' /\ Timers'
  BY <1>0 DEF IInv, Flags, Timers, disposed
<1> QED BY <1>0, <1>1, <1>3, <1>4, <1>5, Finish

\* A step that leaves the registry, the client's timers and the life of the
\* generations alone
LEMMA Aside ==
    ASSUME IInv, entry' = entry, retryTimers' = retryTimers, active' = active,
           rotation' = rotation, respawn' = respawn, fatal' = fatal, disposal' = disposal,
           gen' \in Gens, \A g \in Gen : gen'[g].status = gen[g].status,
           inbox' \in [Gen -> SUBSET Payload], outbox' \in [Gen -> Seq(Batches)],
           \A g \in Gen : gen[g].status = "dead" => inbox'[g] = {},
           disposal # "close" => InHands(entry, gen, inbox', outbox'),
           suspended' => suspended \/ Unacked(entry) # {}, Flags'
    PROVE  IInv' /\ Quiet
<1>1. Structure(gen', active', rotation', disposal')
  BY StatusOnly DEF IInv, Sound
<1>2. disposal' # "close" => InHands(entry', gen', inbox', outbox')
  BY StatusOnly
<1>3. Sound'
  BY <1>1, <1>2 DEF IInv, Sound
<1>4. Attended'
  <2>1. ASSUME ~disposed', ~fatal'
        PROVE  \/ Coming(gen', active', rotation', respawn')
               \/ ~suspended' /\ \A e \in Payload : entry'[e].state = "none"
    <3>1. ~disposed /\ ~fatal
      BY <2>1 DEF disposed
    <3>2. CASE Coming(gen, active, rotation, respawn)
      BY <3>2 DEF Coming
    <3>3. CASE ~suspended /\ \A e \in Payload : entry[e].state = "none"
      BY <3>3 DEF Unacked
    <3> QED BY <3>1, <3>2, <3>3 DEF IInv, Attended
  <2> QED BY <2>1 DEF Attended
<1>5. Timers'
  BY DEF IInv, Timers
<1>6. Quiet
  BY MovedCompose DEF IInv, Sound, Quiet
<1> QED BY <1>3, <1>4, <1>5, <1>6 DEF IInv

\* A worker posts the ack of a batch.
LEMMA BatchPosted ==
    ASSUME Sound, NEW g \in Gen, gen[g].status # "dead", NEW batch \in SUBSET inbox[g],
           batch # {}, NEW f \in [batch -> Result],
           outbox' = [outbox EXCEPT ![g] = Append(@, f)],
           inbox' = [inbox EXCEPT ![g] = @ \ batch]
    PROVE  /\ inbox' \in [Gen -> SUBSET Payload] /\ outbox' \in [Gen -> Seq(Batches)]
           /\ \A h \in Gen : gen[h].status = "dead" => inbox'[h] = {}
           /\ disposal # "close" => InHands(entry, gen, inbox', outbox')
<1>0. /\ inbox \in [Gen -> SUBSET Payload] /\ outbox \in [Gen -> Seq(Batches)]
      /\ \A h \in Gen : gen[h].status = "dead" => inbox[h] = {}
  BY DEF Sound
<1>1. /\ inbox' \in [Gen -> SUBSET Payload] /\ inbox'[g] = inbox[g] \ batch
      /\ \A h \in Gen \ {g} : inbox'[h] = inbox[h]
  BY <1>0
<1>2. f \in Batches /\ DOMAIN f = batch /\ outbox[g] \in Seq(Batches)
  BY <1>0 DEF Batches
<1>3. Append(outbox[g], f) \in Seq(Batches)
  BY <1>2
<1>4. /\ outbox' \in [Gen -> Seq(Batches)] /\ outbox'[g] = Append(outbox[g], f)
      /\ \A h \in Gen \ {g} : outbox'[h] = outbox[h]
  BY <1>0, <1>3
<1> DEFINE n == Len(outbox[g])
<1>5. /\ n \in Nat /\ Len(outbox'[g]) = n + 1 /\ outbox'[g][n + 1] = f
      /\ \A i \in 1..n : outbox'[g][i] = outbox[g][i]
  BY <1>2, <1>4
<1>6. ASSUME disposal # "close" PROVE InHands(entry, gen, inbox', outbox')
  <2>0. InHands(entry, gen, inbox, outbox)
    BY <1>6 DEF Sound
  <2> HIDE DEF n
  <2>1. /\ gen[g].status # "starting"
        /\ \A e \in inbox[g] : e \in Payload /\ SentOn(entry, e, g)
        /\ \A i \in 1..n : \A e \in DOMAIN outbox[g][i] :
                /\ e \in Payload /\ SentOn(entry, e, g) /\ e \notin inbox[g]
                /\ \A j \in 1..n : e \in DOMAIN outbox[g][j] => j = i
    BY <1>0, <2>0 DEF InHands, n
  <2>2. ASSUME NEW i \in 1..(n + 1), NEW e \in DOMAIN outbox'[g][i]
        PROVE  /\ e \in Payload /\ SentOn(entry, e, g) /\ e \notin inbox'[g]
               /\ \A j \in 1..(n + 1) : e \in DOMAIN outbox'[g][j] => j = i
    <3>1. CASE i = n + 1
      <4>1. e \in batch
        BY <1>2, <1>5, <3>1
      <4>2. \A j \in 1..n : e \notin DOMAIN outbox'[g][j]
        BY <1>5, <2>1, <4>1
      <4>3. \A j \in 1..(n + 1) : j \in 1..n \/ j = n + 1
        BY <1>5
      <4> QED BY <1>1, <2>1, <3>1, <4>1, <4>2, <4>3
    <3>2. CASE i # n + 1
      <4>1. i \in 1..n
        BY <1>5, <3>2
      <4>2. e \in DOMAIN outbox[g][i]
        BY <1>5, <4>1
      <4>3. e \notin batch
        BY <2>1, <4>1, <4>2
      <4>4. \A j \in 1..(n + 1) : j \in 1..n \/ (j = n + 1 /\ e \notin DOMAIN outbox'[g][j])
        BY <1>2, <1>5, <4>3
      <4> QED BY <1>1, <1>5, <2>1, <4>1, <4>2, <4>4
    <3> QED BY <3>1, <3>2
  <2>3. \A i \in 1..Len(outbox'[g]) : \A e \in DOMAIN outbox'[g][i] :
          /\ e \in Payload /\ SentOn(entry, e, g) /\ e \notin inbox'[g]
          /\ \A j \in 1..Len(outbox'[g]) : e \in DOMAIN outbox'[g][j] => j = i
    BY <1>5, <2>2
  <2>4. \A e \in inbox'[g] : e \in Payload /\ SentOn(entry, e, g)
    BY <1>1, <2>1
  <2> QED BY <1>1, <1>4, <2>0, <2>1, <2>3, <2>4 DEF InHands
<1> QED BY <1>0, <1>1, <1>4, <1>6

\* A batch is written.
LEMMA WriteBatchStep ==
    ASSUME IInv, NEW g \in Gen, WriteBatch(g)
    PROVE  IInv' /\ Quiet
<1>0. /\ gen[g].status # "dead"
      /\ entry' = entry /\ gen' = gen /\ active' = active /\ expired' = expired
      /\ retryTimers' = retryTimers /\ rotation' = rotation /\ respawn' = respawn
      /\ suspended' = suspended /\ unhealthy' = unhealthy /\ fatal' = fatal
      /\ suppressed' = suppressed /\ disposal' = disposal
      /\ \E n \in {0, 1} : Faults(n)
  BY DEF WriteBatch, Live, clientVars
<1>1. PICK batch \in (SUBSET inbox[g]) \ {{}} :
         \E f \in [batch -> {"committed", "permanent", "retryable"}] :
           /\ outbox' = [outbox EXCEPT ![g] = Append(@, f)]
           /\ inbox' = [inbox EXCEPT ![g] = @ \ batch]
  BY DEF WriteBatch
<1>2. PICK f \in [batch -> {"committed", "permanent", "retryable"}] :
           /\ outbox' = [outbox EXCEPT ![g] = Append(@, f)]
           /\ inbox' = [inbox EXCEPT ![g] = @ \ batch]
  BY <1>1
<1>3. f \in [batch -> Result] /\ batch # {} /\ batch \in SUBSET inbox[g]
  <2>1. batch # {} /\ batch \in SUBSET inbox[g]
    BY <1>1
  <2>2. f \in [batch -> {"committed", "permanent", "retryable"}]
    BY <1>2
  <2>3. {"committed", "permanent", "retryable"} \subseteq Result
    BY DEF Result
  <2> QED BY <2>1, <2>2, <2>3
<1>4. Sound /\ gen \in Gens
  BY DEF IInv, Sound
<1>5. /\ inbox' \in [Gen -> SUBSET Payload] /\ outbox' \in [Gen -> Seq(Batches)]
      /\ \A h \in Gen : gen[h].status = "dead" => inbox'[h] = {}
      /\ disposal # "close" => InHands(entry, gen, inbox', outbox')
  BY <1>0, <1>2, <1>3, <1>4, BatchPosted
<1>6. Flags'
  <2>1. faults' \in 0..MaxFaults
    BY <1>0, FaultsType DEF IInv, Flags
  <2> QED BY <1>0, <2>1 DEF IInv, Flags, disposed
<1> QED BY <1>0, <1>4, <1>5, <1>6, Aside

\* What a worker is like, apart from its life, may change.
LEMMA FatalType ==
    ASSUME NEW gs \in Gens, NEW g \in Gen
    PROVE  /\ [gs EXCEPT ![g].fatal = TRUE] \in Gens
           /\ \A h \in Gen : [gs EXCEPT ![g].fatal = TRUE][h].status = gs[h].status
<1>1. gs[g] \in GenRec
  BY DEF Gens
<1> DEFINE rec == [gs[g] EXCEPT !.fatal = TRUE]
<1>2. rec \in GenRec /\ rec.status = gs[g].status
  BY <1>1 DEF GenRec
<1>3. [gs EXCEPT ![g].fatal = TRUE] = [gs EXCEPT ![g] = rec]
  BY DEF Gens
<1> HIDE DEF rec
<1> QED BY <1>2, <1>3 DEF Gens

LEMMA StalledType ==
    ASSUME NEW gs \in Gens, NEW g \in Gen
    PROVE  /\ [gs EXCEPT ![g].stalled = TRUE] \in Gens
           /\ \A h \in Gen : [gs EXCEPT ![g].stalled = TRUE][h].status = gs[h].status
<1>1. gs[g] \in GenRec
  BY DEF Gens
<1> DEFINE rec == [gs[g] EXCEPT !.stalled = TRUE]
<1>2. rec \in GenRec /\ rec.status = gs[g].status
  BY <1>1 DEF GenRec
<1>3. [gs EXCEPT ![g].stalled = TRUE] = [gs EXCEPT ![g] = rec]
  BY DEF Gens
<1> HIDE DEF rec
<1> QED BY <1>2, <1>3 DEF Gens

\* A batch is refused.
LEMMA BatchIsFatalStep ==
    ASSUME IInv, NEW g \in Gen, BatchIsFatal(g)
    PROVE  IInv' /\ Quiet
<1>0. /\ gen[g].status # "dead"
      /\ gen' = [gen EXCEPT ![g].fatal = TRUE]
      /\ entry' = entry /\ active' = active /\ expired' = expired
      /\ retryTimers' = retryTimers /\ rotation' = rotation /\ respawn' = respawn
      /\ suspended' = suspended /\ unhealthy' = unhealthy /\ fatal' = fatal
      /\ suppressed' = suppressed /\ disposal' = disposal
      /\ \E n \in {0, 1} : Faults(n)
  BY DEF BatchIsFatal, Live, clientVars
<1>1. PICK batch \in (SUBSET inbox[g]) \ {{}} :
         /\ outbox' = [outbox EXCEPT ![g] = Append(@, [e \in batch |-> "fatal"])]
         /\ inbox' = [inbox EXCEPT ![g] = @ \ batch]
  BY DEF BatchIsFatal
<1> DEFINE f == [e \in batch |-> "fatal"]
<1>3. f \in [batch -> Result] /\ batch # {} /\ batch \in SUBSET inbox[g]
  <2>1. batch # {} /\ batch \in SUBSET inbox[g]
    BY <1>1
  <2> QED BY <2>1 DEF Result
<1>4. Sound /\ gen \in Gens
  BY DEF IInv, Sound
<1> HIDE DEF f
<1>5. /\ inbox' \in [Gen -> SUBSET Payload] /\ outbox' \in [Gen -> Seq(Batches)]
      /\ \A h \in Gen : gen[h].status = "dead" => inbox'[h] = {}
      /\ disposal # "close" => InHands(entry, gen, inbox', outbox')
  <2>1. outbox' = [outbox EXCEPT ![g] = Append(@, f)]
    BY <1>1 DEF f
  <2> QED BY <1>0, <1>1, <1>3, <1>4, <2>1, BatchPosted
<1>6. Flags'
  <2>1. faults' \in 0..MaxFaults
    BY <1>0, FaultsType DEF IInv, Flags
  <2> QED BY <1>0, <2>1 DEF IInv, Flags, disposed
<1>7. gen' \in Gens /\ \A h \in Gen : gen'[h].status = gen[h].status
  <2>1. /\ [gen EXCEPT ![g].fatal = TRUE] \in Gens
        /\ \A h \in Gen : [gen EXCEPT ![g].fatal = TRUE][h].status = gen[h].status
    BY <1>4, FatalType
  <2> QED BY <1>0, <2>1
<1> QED BY <1>0, <1>5, <1>6, <1>7, Aside

\* A worker hangs.
LEMMA StallStep ==
    ASSUME IInv, NEW g \in Gen, Stall(g)
    PROVE  IInv' /\ Quiet
<1>0. /\ gen' = [gen EXCEPT ![g].stalled = TRUE] /\ Faults(1)
      /\ entry' = entry /\ active' = active /\ expired' = expired /\ inbox' = inbox
      /\ outbox' = outbox
      /\ retryTimers' = retryTimers /\ rotation' = rotation /\ respawn' = respawn
      /\ suspended' = suspended /\ unhealthy' = unhealthy /\ fatal' = fatal
      /\ suppressed' = suppressed /\ disposal' = disposal
  BY DEF Stall, clientVars
<1>1. gen \in Gens
  BY DEF IInv, Sound
<1>2. gen' \in Gens /\ \A h \in Gen : gen'[h].status = gen[h].status
  <2>1. /\ [gen EXCEPT ![g].stalled = TRUE] \in Gens
        /\ \A h \in Gen : [gen EXCEPT ![g].stalled = TRUE][h].status = gen[h].status
    BY <1>1, StalledType
  <2> QED BY <1>0, <2>1
<1>3. Flags'
  <2>1. faults' \in 0..MaxFaults
    BY <1>0, FaultsType DEF IInv, Flags
  <2> QED BY <1>0, <2>1 DEF IInv, Flags, disposed
<1>4. /\ inbox' \in [Gen -> SUBSET Payload] /\ outbox' \in [Gen -> Seq(Batches)]
      /\ \A h \in Gen : gen[h].status = "dead" => inbox'[h] = {}
      /\ disposal # "close" => InHands(entry, gen, inbox', outbox')
  BY <1>0 DEF IInv, Sound
<1> QED BY <1>0, <1>2, <1>3, <1>4, Aside

\* Acks of a terminated generation are lost.
LEMMA AcksLostStep ==
    ASSUME IInv, NEW g \in Gen, AcksLost(g)
    PROVE  IInv' /\ Quiet
<1>0. /\ outbox' = [outbox EXCEPT ![g] = <<>>] /\ gen[g].status = "dead"
      /\ entry' = entry /\ gen' = gen /\ active' = active /\ expired' = expired
      /\ inbox' = inbox /\ faults' = faults
      /\ retryTimers' = retryTimers /\ rotation' = rotation /\ respawn' = respawn
      /\ suspended' = suspended /\ unhealthy' = unhealthy /\ fatal' = fatal
      /\ suppressed' = suppressed /\ disposal' = disposal
  BY DEF AcksLost, Live, clientVars
<1>1. /\ gen \in Gens /\ inbox \in [Gen -> SUBSET Payload] /\ outbox \in [Gen -> Seq(Batches)]
      /\ \A h \in Gen : gen[h].status = "dead" => inbox[h] = {}
      /\ disposal # "close" => InHands(entry, gen, inbox, outbox)
  BY DEF IInv, Sound
<1>2. /\ outbox' \in [Gen -> Seq(Batches)]
      /\ \A h \in Gen \ {g} : outbox'[h] = outbox[h]
  <2>1. <<>> \in Seq(Batches)
    OBVIOUS
  <2> QED BY <1>0, <1>1, <2>1
<1>3. disposal # "close" => InHands(entry, gen, inbox', outbox')
  BY <1>0, <1>1, <1>2 DEF InHands
<1>4. Flags'
  BY <1>0 DEF IInv, Flags, disposed
<1> QED BY <1>0, <1>1, <1>2, <1>3, <1>4, Aside

\* A payload outlives its retention, the watchdog closes admission, or the
\* drain before disposal begins.
LEMMA FlagSteps ==
    ASSUME IInv, (\E e \in Payload : Expire(e)) \/ WatchdogUnhealthy \/ BeginDisposeDrain
    PROVE  IInv' /\ Quiet
<1>0. /\ entry' = entry /\ gen' = gen /\ active' = active /\ inbox' = inbox /\ outbox' = outbox
      /\ retryTimers' = retryTimers /\ rotation' = rotation /\ respawn' = respawn
      /\ fatal' = fatal /\ disposal' = disposal
      /\ suspended' \in BOOLEAN /\ unhealthy' \in BOOLEAN /\ suppressed' \in BOOLEAN
      /\ expired' \subseteq Payload
  BY DEF Expire, WatchdogUnhealthy, BeginDisposeDrain, clientVars, IInv, Flags
<1>1. suspended' => suspended \/ Unacked(entry) # {}
  BY DEF Expire, WatchdogUnhealthy, BeginDisposeDrain, clientVars, InFlight
<1>2. faults' \in 0..MaxFaults
  <2>1. faults' = faults \/ \E n \in {0, 1} : Faults(n)
    BY DEF Expire, WatchdogUnhealthy, BeginDisposeDrain, NoProgress, Late
  <2> QED BY <2>1, FaultsType DEF IInv, Flags
<1>3. Flags'
  BY <1>0, <1>2 DEF IInv, Flags, disposed
<1>4. /\ gen' \in Gens
      /\ inbox' \in [Gen -> SUBSET Payload] /\ outbox' \in [Gen -> Seq(Batches)]
      /\ \A h \in Gen : gen[h].status = "dead" => inbox'[h] = {}
      /\ disposal # "close" => InHands(entry, gen, inbox', outbox')
  BY <1>0 DEF IInv, Sound
<1> QED BY <1>0, <1>1, <1>3, <1>4, Aside

\* flushBuffered at the end of a handler that has made es of the registry
LEMMA FlushPlaced ==
    ASSUME IInv, NEW es, Flush(es), Moved(entry, es), Unacked(es) \subseteq Unacked(entry),
           Unassigned(es), disposal' = disposal,
           disposal # "close" => InHands(es, gen, inbox, outbox'),
           \A g \in Gen : outbox[g] = <<>> => outbox'[g] = <<>>,
           ~disposed /\ ~fatal' =>
               \/ Coming(gen, active, rotation, respawn)
               \/ ~suspended' /\ \A e \in Payload : es[e].state = "none"
    PROVE  /\ Placed(es)
           /\ \A e \in Payload : es[e].state = "retry_wait" => entry'[e] = es[e]
           /\ disposed => entry' = es
<1>0. /\ es \in Table /\ IsFiniteSet(Unacked(es)) /\ Sound
      /\ gen \in Gens /\ inbox \in [Gen -> SUBSET Payload]
      /\ Structure(gen, active, rotation, disposal)
      /\ respawn \in BOOLEAN /\ faults \in 0..MaxFaults
  BY FS_Subset DEF IInv, Sound, Flags, Moved
<1>1. CASE active # NoGen /\ gen[active].status = "ready" /\ ~disposed
  <2>1. FlushTo(es, gen, active)
    BY <1>1 DEF Flush
  <2>2. active \in Gen /\ OnlyLive(gen, active) /\ Live(active) /\ disposal # "close"
    BY <1>0, <1>1 DEF Structure, OnlyLive, Live, disposed
  <2>3. InHands(es, gen, Undone(gen), outbox')
    BY <1>0, <2>2, UndoneSame
  <2> QED BY <1>0, <1>1, <2>1, <2>2, <2>3, FlushSafe
<1>2. CASE ~(active # NoGen /\ gen[active].status = "ready" /\ ~disposed)
  <2>1. Stay(es) /\ entry' = es
    BY <1>2 DEF Flush, Stay
  <2> QED BY <1>0, <2>1, StaySafe
<1> QED BY <1>1, <1>2

\* What an ack makes of the entries it concerns: R are to be retried, F failed
\* with the database, C are committed, P are dropped.
Retried(es, R) ==
    [e \in Payload |-> IF e \in R THEN [es[e] EXCEPT !.state = "retry_wait", !.gen = NoGen]
                       ELSE es[e]]
AckTable(es, R, F, C, P) ==
    Settle(Settle(Detach(Buffer(Retried(es, R), F), F), C, "committed"), P, "dropped")

LEMMA RetriedKeeps ==
    ASSUME NEW es \in Table, NEW R, R \subseteq Unacked(es)
    PROVE  /\ Kept(es, Retried(es, R)) /\ Unacked(Retried(es, R)) = Unacked(es)
           /\ \A e \in R : Retried(es, R)[e].state = "retry_wait" /\ Retried(es, R)[e].gen = NoGen
           /\ \A e \in Payload \ R : Retried(es, R)[e] = es[e]
<1> DEFINE fs == Retried(es, R)
<1>1. ASSUME NEW e \in R
      PROVE  /\ e \in Payload /\ es[e].state \notin {"none", "settled"}
             /\ fs[e] \in OpenEntry /\ fs[e].state = "retry_wait" /\ fs[e].gen = NoGen
  <2>1. e \in Payload /\ es[e].state \notin {"none", "settled"}
    BY DEF Unacked
  <2>2. es[e] \in OpenEntry
    BY <2>1, EntryFields
  <2>3. fs[e] = [es[e] EXCEPT !.state = "retry_wait", !.gen = NoGen]
    BY <2>1 DEF Retried
  <2> QED BY <2>1, <2>2, <2>3 DEF OpenEntry
<1>2. \A e \in Payload \ R : fs[e] = es[e]
  BY DEF Retried
<1>3. fs \in Table
  <2>1. \A e \in Payload : fs[e] \in OpenEntry \cup SettledEntry
    BY <1>1, <1>2 DEF Table
  <2> QED BY <2>1 DEF Table, Retried
<1> QED BY <1>1, <1>2, <1>3 DEF Kept, Moved, Unacked

LEMMA AckMoves ==
    ASSUME NEW es \in Table, Unassigned(es), NEW R, NEW F, NEW C, NEW P,
           R \cup F \cup C \cup P \subseteq Unacked(es),
           R \cap (F \cup C \cup P) = {}, F \cap (C \cup P) = {}, C \cap P = {}
    PROVE  LET fs == AckTable(es, R, F, C, P) IN
           /\ Moved(es, fs) /\ Unacked(fs) \subseteq Unacked(es) /\ Unassigned(fs)
           /\ \A e \in Payload \ (R \cup F \cup C \cup P) : fs[e] = es[e]
           /\ \A e \in R : fs[e].state = "retry_wait"
           /\ Unacked(es) \ (C \cup P) \subseteq Unacked(fs)
<1> DEFINE t1 == Retried(es, R)
<1> DEFINE t2 == Buffer(t1, F)
<1> DEFINE t3 == Detach(t2, F)
<1> DEFINE t4 == Settle(t3, C, "committed")
<1> DEFINE t5 == Settle(t4, P, "dropped")
<1>0. AckTable(es, R, F, C, P) = t5
  BY DEF AckTable
<1>1. /\ Kept(es, t1) /\ Unacked(t1) = Unacked(es) /\ t1 \in Table
      /\ \A e \in R : t1[e].state = "retry_wait" /\ t1[e].gen = NoGen
      /\ \A e \in Payload \ R : t1[e] = es[e]
  BY RetriedKeeps, MovedCompose
<1> HIDE DEF t1
<1>2. /\ Kept(t1, t2) /\ Unacked(t2) = Unacked(es) /\ t2 \in Table
      /\ \A e \in Payload \ F : t2[e] = t1[e]
      /\ \A e \in F : t2[e].state = "buffered"
  <2>1. F \subseteq Unacked(t1)
    BY <1>1
  <2>2. Kept(t1, t2) /\ Unacked(t2) = Unacked(t1)
    BY <1>1, <2>1, BufferKeeps
  <2>3. \A e \in Payload \ F : t2[e] = t1[e]
    BY DEF Buffer
  <2>4. ASSUME NEW e \in F PROVE t2[e].state = "buffered"
    <3>1. e \in Payload /\ t1[e] \in OpenEntry \cup SettledEntry
      BY <1>1, <2>1 DEF Unacked, Table
    <3> QED BY <3>1 DEF Buffer, OpenEntry, SettledEntry
  <2>5. t2 \in Table
    BY <2>2, MovedCompose
  <2> QED BY <1>1, <2>2, <2>3, <2>4, <2>5
<1> HIDE DEF t2
<1>3. /\ Kept(t2, t3) /\ Unacked(t3) = Unacked(es) /\ t3 \in Table
      /\ \A e \in Payload \ F : t3[e] = t2[e]
      /\ \A e \in F : t3[e].state = "buffered"
  <2>1. Kept(t2, t3) /\ Unacked(t3) = Unacked(t2)
    BY <1>2, DetachKeeps
  <2>2. \A e \in Payload \ F : t3[e] = t2[e]
    BY DEF Detach
  <2>3. ASSUME NEW e \in F PROVE t3[e].state = "buffered"
    <3>1. e \in Payload /\ t2[e] \in OpenEntry \cup SettledEntry /\ t2[e].state = "buffered"
      BY <1>2 DEF Unacked, Table
    <3> QED BY <3>1 DEF Detach, OpenEntry, SettledEntry
  <2>4. t3 \in Table
    BY <2>1, MovedCompose
  <2> QED BY <1>2, <2>1, <2>2, <2>3, <2>4
<1> HIDE DEF t3
<1>4. /\ Moved(t3, t4) /\ t4 \in Table /\ \A e \in Payload \ C : t4[e] = t3[e]
      /\ \A e \in C : t4[e].state = "settled"
  <2>1. C \subseteq Unacked(t3) /\ C \subseteq Payload /\ "committed" \in Reported
    BY <1>3 DEF Reported, Unacked
  <2>2. Moved(t3, t4)
    BY <1>3, <2>1, SettleMoves
  <2>3. /\ \A e \in Payload \ C : t4[e] = t3[e]
        /\ \A e \in C : t4[e].state = "settled"
    BY <2>1 DEF Settle
  <2> QED BY <2>2, <2>3, MovedCompose
<1> HIDE DEF t4
<1>5. /\ Moved(t4, t5) /\ t5 \in Table /\ \A e \in Payload \ P : t5[e] = t4[e]
      /\ \A e \in P : t5[e].state = "settled"
  <2>1. P \subseteq Payload /\ "dropped" \in Reported
    BY DEF Reported, Unacked
  <2>2. P \subseteq Unacked(t4)
    BY <1>3, <1>4 DEF Unacked
  <2>3. Moved(t4, t5)
    BY <1>4, <2>1, <2>2, SettleMoves
  <2>4. /\ \A e \in Payload \ P : t5[e] = t4[e]
        /\ \A e \in P : t5[e].state = "settled"
    BY <2>1 DEF Settle
  <2> QED BY <2>3, <2>4, MovedCompose
<1> HIDE DEF t5
<1>6. Moved(es, t5)
  <2>1. Kept(es, t3)
    BY <1>1, <1>2, <1>3, MovedCompose
  <2> QED BY <1>4, <1>5, <2>1, MovedCompose
<1>7. R \cup F \cup C \cup P \subseteq Payload
  BY DEF Unacked
<1>8. /\ \A e \in Payload \ (R \cup F \cup C \cup P) : t5[e] = es[e]
      /\ \A e \in R : t5[e].state = "retry_wait" /\ t5[e].gen = NoGen
      /\ \A e \in F : t5[e].state = "buffered"
      /\ \A e \in C \cup P : t5[e].state = "settled"
  BY <1>1, <1>2, <1>3, <1>4, <1>5, <1>7
<1>9. Unassigned(t5)
  BY <1>7, <1>8 DEF Unassigned
<1>10. /\ Unacked(t5) \subseteq Unacked(es)
       /\ Unacked(es) \ (C \cup P) \subseteq Unacked(t5)
  <2>1. Unacked(t5) \subseteq Unacked(es)
    BY <1>6 DEF Moved, Unacked
  <2>2. Unacked(es) \ (C \cup P) \subseteq Unacked(t5)
    BY <1>7, <1>8 DEF Unacked
  <2> QED BY <2>1, <2>2
<1> QED BY <1>0, <1>6, <1>8, <1>9, <1>10

\* The first ack of a generation is taken from its queue.
LEMMA AckHands ==
    ASSUME Sound, InHands(entry, gen, inbox, outbox), NEW g \in Gen, outbox[g] # <<>>,
           outbox' = [outbox EXCEPT ![g] = Tail(@)], NEW fs,
           \A e \in Payload : ~Concerns(Head(outbox[g]), g, e) => fs[e] = entry[e]
    PROVE  InHands(fs, gen, inbox, outbox')
<1>0. outbox \in [Gen -> Seq(Batches)] /\ \A h \in Gen : gen[h].status = "dead" => inbox[h] = {}
  BY DEF Sound
<1>1. outbox'[g] = Tail(outbox[g]) /\ \A h \in Gen \ {g} : outbox'[h] = outbox[h]
  BY <1>0
<1> DEFINE q == outbox[g]
<1> DEFINE n == Len(Tail(q))
<1>2. /\ q \in Seq(Batches) /\ Len(q) \in Nat /\ n \in Nat /\ n + 1 = Len(q) /\ Head(q) = q[1]
      /\ \A i \in 1..n : i + 1 \in 1..Len(q) /\ Tail(q)[i] = q[i + 1]
      /\ 1 \in 1..Len(q)
  <2>1. q \in Seq(Batches) /\ q # <<>>
    BY <1>0
  <2> HIDE DEF q
  <2>2. Len(q) \in Nat /\ Len(q) # 0
    BY <2>1
  <2> QED BY <2>1, <2>2
<1>3. ASSUME NEW h \in Gen, h # g, NEW e \in Payload, SentOn(entry, e, h)
      PROVE  SentOn(fs, e, h)
  BY <1>3 DEF SentOn, Concerns
<1>4. ASSUME NEW e \in Payload, SentOn(entry, e, g), e \notin DOMAIN q[1]
      PROVE  SentOn(fs, e, g)
  BY <1>2, <1>4 DEF SentOn, Concerns
<1>5. ASSUME gen[g].status # "dead", NEW i \in 1..Len(q), NEW e \in DOMAIN q[i]
      PROVE  /\ e \in Payload /\ SentOn(entry, e, g) /\ e \notin inbox[g]
             /\ \A j \in 1..Len(q) : e \in DOMAIN q[j] => j = i
  BY <1>5 DEF InHands
<1>6. ASSUME NEW h \in Gen, h # g
      PROVE  /\ gen[h].status \in {"dead", "starting"} => inbox[h] = {}
             /\ gen[h].status = "starting" => outbox'[h] = <<>>
             /\ \A e \in inbox[h] : e \in Payload /\ SentOn(fs, e, h)
             /\ gen[h].status # "dead" =>
                  \A i \in 1..Len(outbox'[h]) : \A e \in DOMAIN outbox'[h][i] :
                     /\ e \in Payload /\ SentOn(fs, e, h) /\ e \notin inbox[h]
                     /\ \A j \in 1..Len(outbox'[h]) : e \in DOMAIN outbox'[h][j] => j = i
  <2>1. outbox'[h] = outbox[h]
    BY <1>1, <1>6
  <2> QED BY <1>3, <1>6, <2>1 DEF InHands
<1>7. gen[g].status \in {"dead", "starting"} => inbox[g] = {}
  BY DEF InHands
<1>8. gen[g].status # "starting"
  BY DEF InHands
<1>9. ASSUME NEW e \in inbox[g] PROVE e \in Payload /\ SentOn(fs, e, g)
  <2>1. e \in Payload /\ SentOn(entry, e, g) /\ gen[g].status # "dead"
    BY <1>0 DEF InHands
  <2>2. e \notin DOMAIN q[1]
    BY <1>2, <1>5, <2>1
  <2> QED BY <1>4, <2>1, <2>2
<1>10. ASSUME gen[g].status # "dead", NEW i \in 1..n, NEW e \in DOMAIN Tail(q)[i]
       PROVE  /\ e \in Payload /\ SentOn(fs, e, g) /\ e \notin inbox[g]
              /\ \A j \in 1..n : e \in DOMAIN Tail(q)[j] => j = i
  <2> HIDE DEF q, n
  <2>1. i + 1 \in 1..Len(q) /\ e \in DOMAIN q[i + 1] /\ i + 1 # 1
    BY <1>2
  <2>2. /\ e \in Payload /\ SentOn(entry, e, g) /\ e \notin inbox[g]
        /\ \A j \in 1..Len(q) : e \in DOMAIN q[j] => j = i + 1
    BY <1>5, <1>10, <2>1
  <2>3. e \notin DOMAIN q[1]
    BY <1>2, <2>1, <2>2
  <2>4. ASSUME NEW j \in 1..n, e \in DOMAIN Tail(q)[j] PROVE j = i
    <3>1. j + 1 \in 1..Len(q) /\ e \in DOMAIN q[j + 1]
      BY <1>2, <2>4
    <3>2. j + 1 = i + 1
      BY <2>2, <3>1
    <3> QED BY <1>2, <3>2
  <2> QED BY <1>4, <2>2, <2>3, <2>4
<1> HIDE DEF q
<1>11. gen[g].status # "dead" =>
          \A i \in 1..Len(outbox'[g]) : \A e \in DOMAIN outbox'[g][i] :
             /\ e \in Payload /\ SentOn(fs, e, g) /\ e \notin inbox[g]
             /\ \A j \in 1..Len(outbox'[g]) : e \in DOMAIN outbox'[g][j] => j = i
  BY <1>1, <1>10 DEF q
<1> QED BY <1>6, <1>7, <1>8, <1>9, <1>11 DEF InHands

\* handleAck
LEMMA HandleAckStep ==
    ASSUME IInv, NEW g \in Gen, HandleAck(g)
    PROVE  IInv' /\ Quiet
<1> DEFINE f == Head(outbox[g])
<1> DEFINE With(r) == {e \in Payload : Concerns(f, g, e) /\ f[e] = r}
<1> DEFINE R == With("retryable")
<1> DEFINE F == With("fatal")
<1> DEFINE C == With("committed")
<1> DEFINE P == With("permanent")
<1> DEFINE es == AckTable(entry, R, F, C, P)
<1> DEFINE resumed == unhealthy /\ ~fatal
<1> DEFINE nowFatal == fatal \/ F # {}
<1>0. /\ outbox[g] # <<>> /\ outbox' = [outbox EXCEPT ![g] = Tail(@)]
      /\ retryTimers' = (retryTimers \ (C \cup P)) \cup R
      /\ unhealthy' = FALSE /\ fatal' = nowFatal
      /\ suspended' = ((suspended /\ ~resumed) \/ (nowFatal /\ ~fatal))
      /\ expired' = expired /\ suppressed' = suppressed /\ disposal' = disposal
      /\ IF resumed /\ ~nowFatal THEN Flush(es) ELSE Stay(es)
  BY DEF HandleAck, AckTable, Retried
<1>1. /\ Sound /\ Timers /\ entry \in Table /\ Unassigned(entry)
      /\ gen \in Gens /\ inbox \in [Gen -> SUBSET Payload] /\ outbox \in [Gen -> Seq(Batches)]
      /\ retryTimers \subseteq Unacked(entry)
      /\ disposal # "close" => \A e \in retryTimers : entry[e].state = "retry_wait"
      /\ disposal # "close" => InHands(entry, gen, inbox, outbox)
      /\ suspended \in BOOLEAN /\ fatal \in BOOLEAN
  BY DEF IInv, Sound, Timers, Flags
<1>2. /\ R \cup F \cup C \cup P \subseteq Unacked(entry)
      /\ R \cap (F \cup C \cup P) = {} /\ F \cap (C \cup P) = {} /\ C \cap P = {}
      /\ \A e \in R \cup F \cup C \cup P : entry[e].gen = g
      /\ \A e \in R \cup F \cup C \cup P : Concerns(f, g, e)
  BY DEF Concerns
<1>3. nowFatal \in BOOLEAN
  BY <1>1
<1> HIDE DEF R, F, C, P, With
<1>4. /\ Moved(entry, es) /\ Unacked(es) \subseteq Unacked(entry) /\ Unassigned(es)
      /\ \A e \in Payload \ (R \cup F \cup C \cup P) : es[e] = entry[e]
      /\ \A e \in R : es[e].state = "retry_wait"
      /\ Unacked(entry) \ (C \cup P) \subseteq Unacked(es)
  BY <1>1, <1>2, AckMoves
<1> HIDE DEF es
<1>5. /\ outbox' \in [Gen -> Seq(Batches)]
      /\ \A h \in Gen : outbox[h] = <<>> => outbox'[h] = <<>>
  <2>1. Tail(outbox[g]) \in Seq(Batches)
    BY <1>0, <1>1
  <2> QED BY <1>0, <1>1, <2>1
<1>6. disposal # "close" => InHands(es, gen, inbox, outbox')
  <2>1. \A e \in Payload : ~Concerns(f, g, e) => es[e] = entry[e]
    BY <1>2, <1>4
  <2> QED BY <1>0, <1>1, <2>1, AckHands
<1>7. ASSUME ~disposed, ~fatal'
      PROVE  \/ Coming(gen, active, rotation, respawn)
             \/ ~suspended' /\ \A e \in Payload : es[e].state = "none"
  <2>1. ~fatal /\ ~nowFatal
    BY <1>0, <1>7
  <2>2. CASE Coming(gen, active, rotation, respawn)
    BY <2>2
  <2>3. CASE ~suspended /\ \A e \in Payload : entry[e].state = "none"
    BY <1>0, <1>4, <2>1, <2>3 DEF Moved
  <2> QED BY <1>7, <2>1, <2>2, <2>3 DEF IInv, Attended
<1>8. /\ Placed(es)
      /\ \A e \in Payload : es[e].state = "retry_wait" => entry'[e] = es[e]
      /\ disposed => entry' = es
  <2>1. CASE resumed /\ ~nowFatal
    BY <1>0, <1>4, <1>5, <1>6, <1>7, <2>1, FlushPlaced
  <2>2. CASE ~(resumed /\ ~nowFatal)
    <3>1. Stay(es) /\ entry' = es
      BY <1>0, <2>2 DEF Stay
    <3>2. es \in Table
      BY <1>4 DEF Moved
    <3>3. Placed(es)
      BY <1>0, <1>4, <1>6, <1>7, <3>1, <3>2, StaySafe
    <3> QED BY <3>1, <3>3
  <2> QED BY <2>1, <2>2
<1>9. Timers'
  <2>1. CASE disposal = "close"
    <3>1. entry' = es
      BY <1>8, <2>1 DEF disposed
    <3>2. retryTimers' \subseteq Unacked(es)
      BY <1>0, <1>1, <1>2, <1>4
    <3> QED BY <1>0, <2>1, <3>1, <3>2 DEF Timers
  <2>2. CASE disposal # "close"
    <3>1. \A e \in retryTimers : e \in Payload /\ e \notin R \cup F \cup C \cup P
      <4>1. \A e \in retryTimers : e \in Payload /\ entry[e].gen = NoGen
        BY <1>1, <2>2 DEF Unassigned, Unacked
      <4>2. NoGen # g
        BY DEF Gen, NoGen
      <4> QED BY <1>2, <4>1, <4>2
    <3>2. \A e \in retryTimers' : e \in Payload /\ es[e].state = "retry_wait"
      BY <1>0, <1>1, <1>2, <1>4, <2>2, <3>1 DEF Unacked
    <3>3. \A e \in retryTimers' : e \in Payload /\ entry'[e].state = "retry_wait"
      BY <1>8, <3>2
    <3> QED BY <3>3 DEF Timers, Unacked
  <2> QED BY <2>1, <2>2
<1>10. Flags'
  <2>1. suspended' \in BOOLEAN /\ fatal' \in BOOLEAN /\ unhealthy' \in BOOLEAN
    BY <1>0, <1>1, <1>3
  <2> QED BY <1>0, <1>8, <2>1 DEF IInv, Flags, Placed, disposed
<1> QED BY <1>0, <1>4, <1>5, <1>8, <1>9, <1>10, Finish

\* The watchdog finds nothing in flight.
LEMMA WatchdogIdleStep ==
    ASSUME IInv, WatchdogIdle
    PROVE  IInv' /\ Quiet
<1>0. /\ Flush(entry) /\ suspended' = FALSE /\ unhealthy' = FALSE /\ ~disposed /\ ~fatal
      /\ outbox' = outbox /\ expired' = expired /\ retryTimers' = retryTimers
      /\ fatal' = fatal /\ suppressed' = suppressed /\ disposal' = disposal
  BY DEF WatchdogIdle, Watching
<1>1. /\ entry \in Table /\ Unassigned(entry) /\ outbox \in [Gen -> Seq(Batches)]
      /\ disposal # "close" => InHands(entry, gen, inbox, outbox)
      /\ retryTimers \subseteq Unacked(entry) /\ disposal # "close"
      /\ \A e \in retryTimers : entry[e].state = "retry_wait"
      /\ Moved(entry, entry)
  BY <1>0, MovedCompose DEF IInv, Sound, Timers, disposed
<1>2. \/ Coming(gen, active, rotation, respawn)
      \/ ~suspended' /\ \A e \in Payload : entry[e].state = "none"
  BY <1>0 DEF IInv, Attended
<1>3. /\ Placed(entry)
      /\ \A e \in Payload : entry[e].state = "retry_wait" => entry'[e] = entry[e]
  BY <1>0, <1>1, <1>2, FlushPlaced
<1>4. Timers'
  BY <1>0, <1>1, <1>3 DEF Timers, Unacked
<1>5. Flags'
  BY <1>0, <1>3 DEF IInv, Flags, Placed, disposed
<1> QED BY <1>0, <1>1, <1>3, <1>4, <1>5, Finish

\* The watchdog fences the active generation.
LEMMA FenceStep ==
    ASSUME IInv, Fence
    PROVE  IInv' /\ Quiet
<1> DEFINE bs == Buffer(entry, InFlight)
<1> DEFINE es == Detach(bs, InFlight)
<1>0. /\ ~disposed /\ ~fatal /\ active # NoGen
      /\ entry' = es /\ gen' = Kill(gen, {active}) /\ inbox' = [inbox EXCEPT ![active] = {}]
      /\ active' = NoGen /\ unhealthy' = TRUE /\ suspended' = TRUE /\ respawn' = TRUE
      /\ \E n \in {0, 1} : Faults(n)
      /\ outbox' = outbox /\ expired' = expired /\ retryTimers' = retryTimers
      /\ rotation' = rotation /\ fatal' = fatal /\ suppressed' = suppressed
      /\ disposal' = disposal
  BY DEF Fence, Watching, NoProgress, Late
<1>1. /\ entry \in Table /\ Unassigned(entry) /\ outbox \in [Gen -> Seq(Batches)]
      /\ gen \in Gens /\ inbox \in [Gen -> SUBSET Payload]
      /\ \A h \in Gen : gen[h].status = "dead" => inbox[h] = {}
      /\ Structure(gen, active, rotation, disposal)
      /\ retryTimers \subseteq Unacked(entry) /\ disposal # "close"
      /\ \A e \in retryTimers : entry[e].state = "retry_wait"
  BY <1>0 DEF IInv, Sound, Timers, disposed
<1>2. /\ active \in Gen /\ rotation' = NoRotation
      /\ \A h \in Gen \ {active} : gen[h].status = "dead" /\ inbox[h] = {}
  BY <1>0, <1>1 DEF Structure
<1>3. gen' \in Gens /\ \A h \in Gen : gen'[h].status = "dead"
  BY <1>0, <1>1, <1>2, KillType
<1>4. inbox' \in [Gen -> SUBSET Payload] /\ \A h \in Gen : inbox'[h] = {}
  BY <1>0, <1>1, <1>2
<1>5. Structure(gen', active', rotation', disposal')
  BY <1>0, <1>2, <1>3, NoneLiveStructure
<1>6. InHands(entry', gen', inbox', outbox')
  BY <1>3, <1>4 DEF InHands
<1>7. /\ Moved(entry, es) /\ Unacked(es) = Unacked(entry) /\ es \in Table
      /\ \A e \in Payload \ InFlight : es[e] = entry[e]
      /\ \A e \in InFlight : es[e].state = "buffered"
  <2>1. InFlight \subseteq Unacked(entry)
    BY DEF InFlight
  <2>2. Kept(entry, bs) /\ Unacked(bs) = Unacked(entry) /\ bs \in Table
    BY <1>1, <2>1, BufferKeeps, MovedCompose
  <2>3. ASSUME NEW e \in InFlight PROVE e \in Payload /\ bs[e].state = "buffered"
    <3>1. e \in Payload /\ entry[e] \in OpenEntry \cup SettledEntry
      BY <1>1, <2>1 DEF Unacked, Table
    <3> QED BY <3>1 DEF Buffer, OpenEntry, SettledEntry
  <2>4. \A e \in Payload \ InFlight : bs[e] = entry[e]
    BY DEF Buffer
  <2> HIDE DEF bs
  <2>5. Kept(bs, es) /\ Unacked(es) = Unacked(bs)
    BY <2>2, DetachKeeps
  <2>6. \A e \in Payload \ InFlight : es[e] = bs[e]
    BY DEF Detach
  <2>7. ASSUME NEW e \in InFlight PROVE es[e].state = "buffered"
    <3>1. e \in Payload /\ bs[e] \in OpenEntry \cup SettledEntry
      BY <2>2, <2>3 DEF Table
    <3> QED BY <2>3, <3>1 DEF Detach, OpenEntry, SettledEntry
  <2> QED BY <2>2, <2>4, <2>5, <2>6, <2>7, MovedCompose
<1> HIDE DEF es
<1>8. Unassigned(es)
  BY <1>1, <1>7 DEF Unassigned
<1>9. faults' \in 0..MaxFaults
  BY <1>0, FaultsType DEF IInv, Flags
<1>10. Moved(es, entry')
  BY <1>0, <1>7, MovedCompose
<1>11. Placed(es)
  BY <1>0, <1>3, <1>4, <1>5, <1>6, <1>7, <1>8, <1>9, <1>10 DEF Placed, Coming
<1>12. Timers'
  <2>1. \A e \in retryTimers : e \notin InFlight /\ e \in Payload
    BY <1>1 DEF InFlight, Unacked
  <2> QED BY <1>0, <1>1, <1>7, <2>1 DEF Timers
<1>13. Flags'
  BY <1>0, <1>9 DEF IInv, Flags, disposed
<1> QED BY <1>0, <1>1, <1>7, <1>11, <1>12, <1>13, Finish

\* A step that begins disposal, and one that ends it
BeginsClose ==
    /\ disposal = "no" /\ disposal' \in {"spawn", "rotation", "close"}
    /\ Kept(entry, entry')
Closes ==
    /\ disposal # "done" /\ disposal' = "done"
    /\ entry' = Settle(entry, Unacked(entry), "abandoned")

\* The end of disposal
LEMMA AbandonSafe ==
    ASSUME IInv, NEW n \in Nat, Abandon(n), disposal # "done", outbox' = outbox
    PROVE  Sound' /\ Closes /\ faults' \in 0..MaxFaults
<1> DEFINE rec == [state |-> "settled", gen |-> NoGen, outcome |-> "abandoned"]
<1> DEFINE es == Settle(entry, Unacked(entry), "abandoned")
<1>0. /\ entry' = es /\ gen' = Kill(gen, Gen) /\ inbox' = [g \in Gen |-> {}]
      /\ active' = NoGen /\ rotation' = NoRotation /\ disposal' = "done" /\ Faults(n)
  BY DEF Abandon
<1>1. /\ entry \in Table /\ Unassigned(entry) /\ gen \in Gens /\ outbox \in [Gen -> Seq(Batches)]
      /\ faults \in 0..MaxFaults
  BY DEF IInv, Sound, Flags
<1>2. rec \in SettledEntry /\ rec.state = "settled"
  BY DEF SettledEntry
<1>3. \A e \in Payload : es[e] = IF e \in Unacked(entry) THEN rec ELSE entry[e]
  BY DEF Settle
<1> HIDE DEF rec
<1>4. es \in Table
  <2>1. \A e \in Payload : es[e] \in OpenEntry \cup SettledEntry
    BY <1>1, <1>2, <1>3 DEF Table
  <2> QED BY <2>1 DEF Table, Settle
<1> HIDE DEF es
<1>5. Unacked(es) = {} /\ Unassigned(es)
  BY <1>1, <1>2, <1>3 DEF Unacked, Unassigned
<1>6. IsFiniteSet(Unacked(es))
  BY <1>5, FS_EmptySet
<1>7. gen' \in Gens /\ \A g \in Gen : gen'[g].status = "dead" /\ inbox'[g] = {}
  BY <1>0, <1>1, KillType
<1>8. inbox' \in [Gen -> SUBSET Payload]
  BY <1>0
<1>9. Structure(gen', active', rotation', disposal')
  BY <1>0, <1>7, NoneLiveStructure
<1>10. InHands(entry', gen', inbox', outbox')
  BY <1>7 DEF InHands
<1>11. faults' \in 0..MaxFaults
  BY <1>0, <1>1, FaultsType
<1> QED BY <1>0, <1>1, <1>4, <1>5, <1>6, <1>7, <1>8, <1>9, <1>10, <1>11 DEF Sound, Closes, es

\* Everything is handed to the active generation, or disposal ends.
LEMMA LastHandOverSafe ==
    ASSUME IInv, NEW n \in Nat, LastHandOver(n), disposal \notin {"close", "done"},
           outbox' = outbox
    PROVE  /\ Sound' /\ faults' \in 0..MaxFaults
           /\ \/ Closes
              \/ disposal' = "close" /\ Kept(entry, entry') /\ Unacked(entry') = Unacked(entry)
<1>0. /\ entry \in Table /\ Unassigned(entry) /\ IsFiniteSet(Unacked(entry))
      /\ gen \in Gens /\ outbox \in [Gen -> Seq(Batches)]
      /\ inbox \in [Gen -> SUBSET Payload]
      /\ \A h \in Gen : gen[h].status = "dead" => inbox[h] = {}
      /\ Structure(gen, active, rotation, disposal) /\ faults \in 0..MaxFaults
  BY DEF IInv, Sound, Flags
<1>1. CASE active # NoGen /\ gen[active].status = "ready" /\ ~fatal
  <2> DEFINE todo == {e \in Unacked(entry) : ~(entry[e].state = "sent" /\ entry[e].gen = active)}
  <2> DEFINE bs == Buffer(entry, todo)
  <2> DEFINE ds == Detach(bs, todo)
  <2>1. /\ \E sent \in SUBSET todo :
             /\ entry' = Sent(ds, sent, active)
             /\ inbox' = [inbox EXCEPT ![active] = @ \cup sent]
             /\ Faults(n) \/ Faults(n + 1)
        /\ gen' = [gen EXCEPT ![active].status = "closing"]
        /\ disposal' = "close" /\ active' = active /\ rotation' = rotation
    BY <1>1 DEF LastHandOver
  <2>2. /\ active \in Gen /\ rotation = NoRotation /\ active # NoGen
        /\ \A h \in Gen \ {active} : gen[h].status = "dead"
    BY <1>0, <1>1 DEF Structure
  <2>3. PICK sent \in SUBSET todo :
             /\ entry' = Sent(ds, sent, active)
             /\ inbox' = [inbox EXCEPT ![active] = @ \cup sent]
             /\ Faults(n) \/ Faults(n + 1)
    BY <2>1
  <2>4. /\ Kept(entry, bs) /\ Unacked(bs) = Unacked(entry) /\ bs \in Table
        /\ \A e \in todo : bs[e].state = "buffered"
        /\ \A e \in Payload \ todo : bs[e] = entry[e]
    <3>1. todo \subseteq Unacked(entry)
      OBVIOUS
    <3> HIDE DEF todo
    <3>2. Kept(entry, bs) /\ Unacked(bs) = Unacked(entry) /\ bs \in Table
      BY <1>0, <3>1, BufferKeeps, MovedCompose
    <3>3. ASSUME NEW e \in todo PROVE bs[e].state = "buffered"
      <4>1. e \in Payload /\ entry[e] \in OpenEntry \cup SettledEntry
        BY <1>0, <3>1 DEF Unacked, Table
      <4> QED BY <4>1 DEF Buffer, OpenEntry, SettledEntry
    <3>4. \A e \in Payload \ todo : bs[e] = entry[e]
      BY DEF Buffer
    <3> QED BY <3>2, <3>3, <3>4
  <2>s. todo \subseteq Unacked(entry) /\ sent \subseteq todo /\ todo \subseteq Payload
    BY DEF Unacked
  <2> HIDE DEF bs, todo
  <2>5. /\ Kept(bs, ds) /\ Unacked(ds) = Unacked(bs) /\ ds \in Table
        /\ \A e \in Payload \ todo : ds[e] = bs[e]
        /\ \A e \in todo : ds[e].state = "buffered"
    <3>1. Kept(bs, ds) /\ Unacked(ds) = Unacked(bs) /\ ds \in Table
      BY <2>4, DetachKeeps, MovedCompose
    <3>2. \A e \in Payload \ todo : ds[e] = bs[e]
      BY DEF Detach
    <3>3. ASSUME NEW e \in todo PROVE ds[e].state = "buffered"
      <4>1. e \in Payload /\ bs[e] \in OpenEntry \cup SettledEntry /\ bs[e].state = "buffered"
        BY <2>4, <2>s DEF Table
      <4> QED BY <4>1 DEF Detach, OpenEntry, SettledEntry
    <3> QED BY <3>1, <3>2, <3>3
  <2> HIDE DEF ds
  <2>6. sent \subseteq Unacked(ds)
    BY <2>4, <2>5, <2>s
  <2>7. Kept(ds, entry') /\ Unacked(entry') = Unacked(ds)
    BY <2>2, <2>3, <2>5, <2>6, SentKeeps
  <2>8. Kept(entry, entry') /\ Unacked(entry') = Unacked(entry) /\ entry' \in Table
    BY <2>4, <2>5, <2>7, MovedCompose
  <2>9. Unassigned(entry')
    <3>1. ASSUME NEW e \in sent PROVE entry'[e].state = "sent"
      <4>1. e \in Payload /\ ds[e] \in OpenEntry \cup SettledEntry
        BY <2>5, <2>s DEF Table
      <4> QED BY <2>3, <4>1 DEF Sent, OpenEntry, SettledEntry
    <3>2. \A e \in Payload \ sent : entry'[e] = ds[e]
      BY <2>3 DEF Sent
    <3> QED BY <1>0, <2>4, <2>5, <2>s, <3>1, <3>2 DEF Unassigned
  <2>10. /\ gen' \in Gens /\ gen'[active].status = "closing"
         /\ \A h \in Gen \ {active} : gen'[h] = gen[h]
    <3>1. "closing" \in Status
      BY DEF Status
    <3>2. /\ [gen EXCEPT ![active].status = "closing"] \in Gens
          /\ [gen EXCEPT ![active].status = "closing"][active].status = "closing"
          /\ \A h \in Gen \ {active} : [gen EXCEPT ![active].status = "closing"][h] = gen[h]
      BY <1>0, <2>2, <3>1, StatusType
    <3> QED BY <2>1, <3>2
  <2>11. Structure(gen', active', rotation', disposal')
    BY <2>1, <2>2, <2>10, RotationType DEF Structure
  <2>12. /\ inbox' \in [Gen -> SUBSET Payload]
         /\ \A h \in Gen : gen'[h].status = "dead" => inbox'[h] = {}
    BY <1>0, <2>2, <2>3, <2>10, <2>s
  <2>13. faults' \in 0..MaxFaults
    BY <1>0, <2>3, FaultsType
  <2> QED BY <1>0, <2>1, <2>8, <2>9, <2>10, <2>11, <2>12, <2>13 DEF Sound
<1>2. CASE ~(active # NoGen /\ gen[active].status = "ready" /\ ~fatal)
  <2>1. Abandon(n)
    BY <1>2 DEF LastHandOver
  <2> QED BY <2>1, AbandonSafe
<1> QED BY <1>1, <1>2

\* The rotation is waited for, or not.
LEMMA AfterSpawnSafe ==
    ASSUME IInv, NEW n \in Nat, AfterSpawn(n), disposal \notin {"close", "done"},
           outbox' = outbox
    PROVE  /\ Sound' /\ faults' \in 0..MaxFaults
           /\ \/ Closes
              \/ /\ disposal' \in {"rotation", "close"} /\ Kept(entry, entry')
                 /\ Unacked(entry') = Unacked(entry)
                 /\ disposal' = "rotation" => entry' = entry
<1>1. CASE rotation.phase # "none"
  <2>1. /\ disposal' = "rotation" /\ Faults(n) /\ entry' = entry /\ gen' = gen
        /\ active' = active /\ inbox' = inbox /\ rotation' = rotation
    BY <1>1 DEF AfterSpawn
  <2>2. Sound /\ Structure(gen, active, rotation, disposal) /\ InHands(entry, gen, inbox, outbox)
    BY DEF IInv, Sound
  <2>3. Structure(gen', active', rotation', disposal')
    BY <2>1, <2>2 DEF Structure
  <2>4. Sound'
    BY <2>1, <2>2, <2>3 DEF Sound
  <2>5. faults' \in 0..MaxFaults
    BY <2>1, FaultsType DEF IInv, Flags
  <2> QED BY <2>1, <2>2, <2>4, <2>5, MovedCompose DEF Sound
<1>2. CASE rotation.phase = "none"
  <2>1. LastHandOver(n)
    BY <1>2 DEF AfterSpawn
  <2> QED BY <2>1, LastHandOverSafe
<1> QED BY <1>1, <1>2

\* dispose is called.
LEMMA DisposeStep ==
    ASSUME IInv, Dispose
    PROVE  IInv' /\ (BeginsClose \/ Closes)
<1>0. /\ disposal = "no" /\ suspended' = TRUE /\ respawn' = FALSE /\ retryTimers' = {}
      /\ outbox' = outbox /\ expired' = expired /\ unhealthy' = unhealthy /\ fatal' = fatal
      /\ suppressed' = suppressed
      /\ \/ /\ disposal' = "spawn" /\ entry' = entry /\ gen' = gen /\ active' = active
            /\ inbox' = inbox /\ rotation' = rotation /\ faults' = faults
         \/ AfterSpawn(0)
  BY DEF Dispose, disposed
<1>1. Sound' /\ faults' \in 0..MaxFaults /\ (BeginsClose \/ Closes)
  <2>1. CASE /\ disposal' = "spawn" /\ entry' = entry /\ gen' = gen /\ active' = active
             /\ inbox' = inbox /\ rotation' = rotation /\ faults' = faults
    <3>1. Sound /\ Structure(gen, active, rotation, disposal)
      BY DEF IInv, Sound
    <3>2. Structure(gen', active', rotation', disposal')
      BY <1>0, <2>1, <3>1 DEF Structure
    <3>3. Sound'
      BY <1>0, <2>1, <3>1, <3>2 DEF Sound
    <3>4. BeginsClose
      BY <1>0, <2>1, <3>1, MovedCompose DEF Sound, BeginsClose
    <3> QED BY <2>1, <3>3, <3>4 DEF IInv, Flags
  <2>2. CASE AfterSpawn(0)
    BY <1>0, <2>2, AfterSpawnSafe DEF BeginsClose
  <2> QED BY <1>0, <2>1, <2>2
<1>2. disposal' \in {"spawn", "rotation", "close", "done"}
  BY <1>1 DEF BeginsClose, Closes
<1>3. Timers'
  BY <1>0 DEF Timers
<1>4. Flags'
  BY <1>0, <1>1, <1>2 DEF IInv, Flags, disposed
<1>5. Attended'
  BY <1>2 DEF Attended, disposed
<1> QED BY <1>1, <1>3, <1>4, <1>5 DEF IInv

\* Disposal goes on.
LEMMA DisposeContinuesStep ==
    ASSUME IInv, DisposeContinues
    PROVE  IInv' /\ (Quiet \/ Closes)
<1>0. /\ disposal \in {"spawn", "rotation", "close"}
      /\ retryTimers' = IF disposal' = "done" THEN {} ELSE retryTimers
      /\ outbox' = outbox /\ expired' = expired /\ respawn' = respawn
      /\ suspended' = suspended /\ unhealthy' = unhealthy /\ fatal' = fatal
      /\ suppressed' = suppressed
      /\ \/ disposal = "spawn" /\ \E n \in {0, 1} : AfterSpawn(n)
         \/ disposal = "rotation" /\ \E n \in {0, 1} : LastHandOver(n)
         \/ disposal = "close" /\ \E n \in {0, 1} : Abandon(n)
  BY DEF DisposeContinues, Late
<1>1. /\ Sound' /\ faults' \in 0..MaxFaults
      /\ \/ Closes
         \/ /\ disposal # "close" /\ disposal' \in {"rotation", "close"} /\ Kept(entry, entry')
            /\ Unacked(entry') = Unacked(entry)
            /\ disposal' = "rotation" => entry' = entry
  <2>1. CASE disposal = "spawn" /\ \E n \in {0, 1} : AfterSpawn(n)
    BY <1>0, <2>1, AfterSpawnSafe
  <2>2. CASE disposal = "rotation" /\ \E n \in {0, 1} : LastHandOver(n)
    BY <1>0, <2>2, LastHandOverSafe
  <2>3. CASE disposal = "close" /\ \E n \in {0, 1} : Abandon(n)
    BY <1>0, <2>3, AbandonSafe
  <2> QED BY <1>0, <2>1, <2>2, <2>3
<1>2. disposal' \in {"rotation", "close", "done"}
  BY <1>1 DEF Closes
<1>3. Timers'
  <2>1. CASE disposal' = "done"
    BY <1>0, <2>1 DEF Timers
  <2>2. CASE disposal' # "done"
    BY <1>0, <1>1, <1>2, <2>2 DEF IInv, Timers, Closes
  <2> QED BY <2>1, <2>2
<1>4. Flags'
  BY <1>0, <1>1, <1>2 DEF IInv, Flags, disposed
<1>5. Attended'
  BY <1>2 DEF Attended, disposed
<1>6. Quiet \/ Closes
  BY <1>0, <1>1, MovedCompose DEF Quiet
<1> QED BY <1>1, <1>3, <1>4, <1>5, <1>6 DEF IInv

-----------------------------------------------------------------------------
(* The theorems *)

LEMMA InitIInv ==
    ASSUME Init PROVE IInv
<1>0. /\ entry = [e \in Payload |-> [state |-> "none", gen |-> NoGen, outcome |-> "none"]]
      /\ retryTimers = {} /\ active = NoGen /\ rotation = NoRotation
      /\ gen = [g \in Gen |-> [status |-> "dead", bytes |-> 0, fatal |-> FALSE, stalled |-> FALSE]]
      /\ respawn = FALSE /\ suspended = FALSE /\ unhealthy = FALSE /\ fatal = FALSE
      /\ suppressed = FALSE /\ disposal = "no" /\ expired = {} /\ faults = 0
      /\ inbox = [g \in Gen |-> {}] /\ outbox = [g \in Gen |-> <<>>]
  BY DEF Init
<1>1. /\ entry \in Table /\ \A e \in Payload : entry[e].state = "none" /\ entry[e].gen = NoGen
  <2> DEFINE rec == [state |-> "none", gen |-> NoGen, outcome |-> "none"]
  <2>1. rec \in OpenEntry /\ rec.state = "none" /\ rec.gen = NoGen
    BY DEF OpenEntry
  <2>2. entry = [e \in Payload |-> rec]
    BY <1>0
  <2> HIDE DEF rec
  <2> QED BY <2>1, <2>2 DEF Table
<1>2. gen \in Gens /\ \A g \in Gen : gen[g].status = "dead"
  <2> DEFINE rec == [status |-> "dead", bytes |-> 0, fatal |-> FALSE, stalled |-> FALSE]
  <2>1. rec \in GenRec /\ rec.status = "dead"
    BY Bounds DEF GenRec, Status
  <2>2. gen = [g \in Gen |-> rec]
    BY <1>0
  <2> HIDE DEF rec
  <2> QED BY <2>1, <2>2 DEF Gens
<1>3. Unacked(entry) = {} /\ Unassigned(entry)
  BY <1>1 DEF Unacked, Unassigned
<1>4. IsFiniteSet(Unacked(entry))
  BY <1>3, FS_EmptySet
<1>5. Structure(gen, active, rotation, disposal)
  BY <1>0, <1>2, NoneLiveStructure
<1>6. /\ inbox \in [Gen -> SUBSET Payload] /\ \A g \in Gen : inbox[g] = {}
      /\ outbox \in [Gen -> Seq(Batches)]
  BY <1>0
<1>7. InHands(entry, gen, inbox, outbox)
  BY <1>2, <1>6 DEF InHands
<1>8. Sound
  BY <1>1, <1>2, <1>3, <1>4, <1>5, <1>6, <1>7 DEF Sound
<1>9. Timers /\ Attended
  BY <1>0, <1>1 DEF Timers, Attended
<1>10. Flags
  <2>1. faults \in 0..MaxFaults
    BY <1>0, Bounds
  <2>2. ~disposed
    BY <1>0 DEF disposed
  <2> QED BY <1>0, <2>1, <2>2 DEF Flags
<1> QED BY <1>8, <1>9, <1>10 DEF IInv

\* Every step accepts one payload, begins or ends disposal, or does neither;
\* and it preserves the invariant.
LEMMA NextStep ==
    ASSUME IInv, Next
    PROVE  /\ IInv'
           /\ Quiet \/ BeginsClose \/ Closes \/ \E e \in Payload : Accepts(e)
<1>1. CASE \E e \in Payload : Publish(e)
  BY <1>1, PublishStep
<1>2. CASE (\E e \in Payload : Expire(e)) \/ WatchdogUnhealthy \/ BeginDisposeDrain
  BY <1>2, FlagSteps
<1>3. CASE \E g \in Gen : WriteBatch(g)
  BY <1>3, WriteBatchStep
<1>4. CASE \E e \in Payload : RetryTimer(e)
  BY <1>4, RetryTimerStep
<1>5. CASE \E g \in Gen : Ready(g)
  BY <1>5, ReadyStep
<1>6. CASE OutgoingCloses
  BY <1>6, OutgoingClosesStep
<1>7. CASE RespawnTimer
  BY <1>7, RespawnTimerStep
<1>8. CASE WatchdogIdle
  BY <1>8, WatchdogIdleStep
<1>9. CASE \E g \in Gen : HandleAck(g)
  BY <1>9, HandleAckStep
<1>10. CASE DisposeContinues
  BY <1>10, DisposeContinuesStep
<1>11. CASE \E g \in Gen, isFatal \in BOOLEAN : SpawnFails(g, isFatal)
  BY <1>11, SpawnFailsStep
<1>12. CASE \E g \in Gen : Dies(g)
  BY <1>12, DiesStep
<1>13. CASE \E g \in Gen : Stall(g)
  BY <1>13, StallStep
<1>14. CASE \E g \in Gen : BatchIsFatal(g)
  BY <1>14, BatchIsFatalStep
<1>15. CASE \E g \in Gen : AcksLost(g)
  BY <1>15, AcksLostStep
<1>16. CASE Fence
  BY <1>16, FenceStep
<1>17. CASE Dispose
  BY <1>17, DisposeStep
<1> QED BY <1>1, <1>2, <1>3, <1>4, <1>5, <1>6, <1>7, <1>8, <1>9, <1>10, <1>11, <1>12, <1>13,
           <1>14, <1>15, <1>16, <1>17 DEF Next, ClientStep, FaultStep

\* A step that changes nothing preserves the invariant.
LEMMA StutterIInv ==
    ASSUME IInv, UNCHANGED vars
    PROVE  IInv' /\ Quiet
<1>0. /\ entry' = entry /\ gen' = gen /\ active' = active /\ inbox' = inbox /\ outbox' = outbox
      /\ expired' = expired /\ faults' = faults /\ retryTimers' = retryTimers
      /\ rotation' = rotation /\ respawn' = respawn /\ suspended' = suspended
      /\ unhealthy' = unhealthy /\ fatal' = fatal /\ suppressed' = suppressed
      /\ disposal' = disposal
  BY DEF vars, clientVars
<1>1. Sound'
  BY <1>0 DEF IInv, Sound
<1>2. Timers' /\ Flags' /\ Attended'
  BY <1>0 DEF IInv, Timers, Flags, Attended, disposed
<1>3. Quiet
  BY <1>0, MovedCompose DEF IInv, Sound, Quiet
<1> QED BY <1>1, <1>2, <1>3 DEF IInv

LEMMA Invariance == Spec => []IInv
<1>1. Init => IInv
  BY InitIInv
<1>2. IInv /\ [Next]_vars => IInv'
  BY NextStep, StutterIInv
<1> QED BY <1>1, <1>2, PTL DEF Spec

\* THEOREM: the types are right.
THEOREM TypesAreRight == Spec => []TypeOK
<1>1. IInv => TypeOK
  <2> SUFFICES ASSUME IInv PROVE TypeOK
    OBVIOUS
  <2>1. /\ entry \in Table /\ gen \in Gens /\ active \in Gen \cup {NoGen} /\ rotation \in Rotations
        /\ inbox \in [Gen -> SUBSET Payload] /\ outbox \in [Gen -> Seq(Batches)]
    BY DEF IInv, Sound, Structure
  <2>2. \A g \in Gen : \A i \in 1..Len(outbox[g]) : DOMAIN outbox[g][i] \subseteq Payload
    <3> SUFFICES ASSUME NEW g \in Gen, NEW i \in 1..Len(outbox[g])
                 PROVE  DOMAIN outbox[g][i] \subseteq Payload
      OBVIOUS
    <3>1. outbox[g] \in Seq(Batches)
      BY <2>1
    <3>2. outbox[g][i] \in Batches
      BY <3>1
    <3> QED BY <3>2 DEF Batches
  <2>3. retryTimers \subseteq Payload
    BY DEF IInv, Timers, Unacked
  <2>4. gen \in [Gen -> [status : {"starting", "ready", "closing", "dead"},
                         bytes : 0..RotationBudget, fatal : BOOLEAN, stalled : BOOLEAN]]
    BY <2>1 DEF Gens, GenRec, Status
  <2>5. entry \in [Payload ->
           [state : {"none", "buffered", "sent", "retry_wait"},
            gen : Gen \cup {NoGen}, outcome : {"none"}]
           \cup [state : {"settled"}, gen : {NoGen},
                 outcome : {"committed", "dropped", "expired", "abandoned"}]]
    BY <2>1 DEF Table, OpenEntry, SettledEntry
  <2>6. rotation \in [phase : {"none", "spawn", "close"},
                      out : Gen \cup {NoGen}, rep : Gen \cup {NoGen}]
    BY <2>1 DEF Rotations
  <2> QED BY <2>1, <2>2, <2>3, <2>4, <2>5, <2>6 DEF IInv, Flags, TypeOK
<1> QED BY <1>1, Invariance, PTL

\* Only one generation can hold a row: what is in a worker's hands is sent to
\* it, and while disposal waits for the last close only one is alive.
LEMMA OneHand ==
    ASSUME IInv, NEW e \in Payload, NEW g \in Gen, NEW h \in Gen, e \in inbox[g], e \in inbox[h]
    PROVE  g = h
<1>1. Sound
  BY DEF IInv
<1>2. CASE disposal # "close"
  <2>1. InHands(entry, gen, inbox, outbox)
    BY <1>1, <1>2 DEF Sound
  <2>2. SentOn(entry, e, g) /\ SentOn(entry, e, h)
    BY <2>1 DEF InHands
  <2> QED BY <2>2 DEF SentOn
<1>3. CASE disposal = "close"
  <2>1. gen[g].status # "dead" /\ gen[h].status # "dead"
    BY <1>1 DEF Sound
  <2> QED BY <1>1, <1>3, <2>1 DEF Sound, Structure
<1> QED BY <1>2, <1>3

\* THEOREM: whatever is replayed, no row is in the hands of two workers, and
\* none is written after it has left the registry.
THEOREM NoRowHasTwoWriters == Spec => []OneWriterPerRow
<1>1. IInv => OneWriterPerRow
  <2> SUFFICES ASSUME IInv, NEW e \in Payload
               PROVE  /\ Cardinality({g \in Gen : e \in inbox[g]}) <= 1
                      /\ SettledIsNotWritten(e)
    BY DEF OneWriterPerRow
  <2> DEFINE H == {g \in Gen : e \in inbox[g]}
  <2>1. Cardinality(H) <= 1
    <3>1. CASE H = {}
      BY <3>1, FS_EmptySet
    <3>2. CASE H # {}
      <4>1. PICK g \in H : TRUE
        BY <3>2
      <4>2. H = {g}
        BY <4>1, OneHand
      <4>3. Cardinality({g}) = 1
        BY FS_Singleton
      <4> QED BY <4>2, <4>3
    <3> QED BY <3>1, <3>2
  <2>2. SettledIsNotWritten(e)
    <3>1. ASSUME entry[e].state = "settled", ~disposed, NEW g \in Gen, e \in inbox[g]
          PROVE  FALSE
      BY <3>1 DEF IInv, Sound, InHands, SentOn, disposed
    <3> QED BY <3>1 DEF SettledIsNotWritten
  <2> QED BY <2>1, <2>2
<1> QED BY <1>1, Invariance, PTL

\* THEOREM: while the registry holds an entry there is a generation to send it
\* to, or one is coming, and the active generation can be sent to.
THEOREM NoEntryIsStranded == Spec => []NothingIsStranded
<1>1. IInv => NothingIsStranded
  <2> SUFFICES ASSUME IInv PROVE NothingIsStranded
    OBVIOUS
  <2>1. ActiveIsReady
    BY DEF IInv, Sound, Structure, ActiveIsReady
  <2>2. (~disposed /\ ~fatal /\ Unacked(entry) # {}) =>
          active # NoGen \/ Starting # {} \/ respawn \/ rotation.phase # "none"
    BY AttendedNow DEF Coming, Starting
  <2> QED BY <2>1, <2>2 DEF NothingIsStranded
<1> QED BY <1>1, Invariance, PTL

-----------------------------------------------------------------------------
(* The refinement *)

\* What the owner sees of a registry, and of disposal
Outcome(es) ==
    [e \in Payload |-> CASE es[e].state = "none" -> "none"
                         [] es[e].state = "settled" -> es[e].outcome
                         [] OTHER -> "held"]
Stage(disp) == CASE disp = "no" -> "open" [] disp = "done" -> "closed" [] OTHER -> "closing"

LEMMA OutcomeCases ==
    ASSUME NEW es \in Table, NEW e \in Payload
    PROVE  /\ es[e].state = "none" => Outcome(es)[e] = "none"
           /\ es[e].state = "settled" => /\ Outcome(es)[e] = es[e].outcome
                                         /\ es[e].outcome \in Reported \cup {"abandoned"}
           /\ es[e].state \notin {"none", "settled"} => Outcome(es)[e] = "held"
           /\ Outcome(es)[e] = "held" <=> e \in Unacked(es)
<1>1. es[e].state = "settled" => es[e].outcome \in Reported \cup {"abandoned"}
  BY EntryFields DEF SettledEntry, Reported
<1>2. /\ es[e].state = "none" => Outcome(es)[e] = "none"
      /\ es[e].state = "settled" => Outcome(es)[e] = es[e].outcome
      /\ es[e].state \notin {"none", "settled"} => Outcome(es)[e] = "held"
  BY DEF Outcome
<1> QED BY <1>1, <1>2 DEF Reported, Unacked

\* A quiet step settles the payloads that leave the registry with it.
LEMMA QuietSettles ==
    ASSUME IInv, IInv', Quiet
    PROVE  \E T \in SUBSET Payload : Ledger!Settle(T)
<1> DEFINE S == {e \in Unacked(entry) : entry'[e].state = "settled"}
<1> DEFINE f == [e \in S |-> entry'[e].outcome]
<1>0. entry \in Table /\ entry' \in Table
  BY DEF IInv, Sound
<1>1. S \in SUBSET Payload /\ S \subseteq {e \in Payload : Outcome(entry)[e] = "held"}
  BY <1>0, OutcomeCases DEF Unacked
<1>2. f \in [S -> Reported]
  BY DEF Quiet, Moved, Unacked
<1>3. Outcome(entry') = [e \in Payload |-> IF e \in S THEN f[e] ELSE Outcome(entry)[e]]
  <2>1. ASSUME NEW e \in Payload
        PROVE  Outcome(entry')[e] = IF e \in S THEN f[e] ELSE Outcome(entry)[e]
    <3>1. CASE e \in S
      BY <1>0, <3>1, OutcomeCases
    <3>2. CASE e \notin S
      <4>1. /\ entry'[e].state = "none" <=> entry[e].state = "none"
            /\ entry[e].state = "settled" => entry'[e] = entry[e]
            /\ entry'[e].state = "settled" => entry[e].state \in {"none", "settled"}
        BY <3>2 DEF Quiet, Moved, Unacked
      <4> QED BY <1>0, <3>2, <4>1, OutcomeCases
    <3> QED BY <3>1, <3>2
  <2> QED BY <2>1 DEF Outcome
<1>4. Stage(disposal') = Stage(disposal)
  BY DEF Quiet, Stage
<1>5. /\ (~disposed' /\ ~suspended' /\ ~fatal') \in BOOLEAN
      /\ (~disposed' /\ ~suspended' /\ ~fatal') => Stage(disposal) = "open"
  BY DEF Quiet, Stage, disposed
<1> HIDE DEF S, f
<1>6. PICK T \in SUBSET Payload : T = S
  BY <1>1
<1>7. Ledger!Settle(T)
  BY <1>1, <1>2, <1>3, <1>4, <1>5, <1>6
     DEF Ledger!Settle, Ledger!Held, Ledger!Terminal, Outcome, Stage, Reported
<1> QED BY <1>7

\* A payload is accepted.
LEMMA AcceptsPublishes ==
    ASSUME IInv, NEW e \in Payload, Accepts(e)
    PROVE  Ledger!Publish(e)
<1>0. entry \in Table /\ entry' \in Table
  BY DEF IInv, Sound, Accepts
<1>1. Outcome(entry)[e] = "none" /\ Outcome(entry')[e] = "held"
  BY <1>0, OutcomeCases DEF Accepts
<1>2. Outcome(entry') = [Outcome(entry) EXCEPT ![e] = "held"]
  <2>1. ASSUME NEW x \in Payload, x # e
        PROVE  Outcome(entry')[x] = Outcome(entry)[x]
    BY <2>1 DEF Accepts, Outcome
  <2> QED BY <1>1, <2>1 DEF Outcome
<1>3. /\ Stage(disposal) = "open" /\ Stage(disposal') = "open"
      /\ (~disposed' /\ ~suspended' /\ ~fatal') = (~disposed /\ ~suspended /\ ~fatal)
  BY DEF Accepts, Stage, disposed
<1> QED BY <1>1, <1>2, <1>3 DEF Ledger!Publish, Outcome, Stage

\* Disposal begins.
LEMMA BeginsCloseCloses ==
    ASSUME IInv, BeginsClose
    PROVE  Ledger!BeginClose
<1>0. entry \in Table /\ entry' \in Table
  BY MovedCompose DEF IInv, Sound, BeginsClose
<1>1. Outcome(entry') = Outcome(entry)
  <2>1. ASSUME NEW e \in Payload PROVE Outcome(entry')[e] = Outcome(entry)[e]
    <3>1. /\ entry'[e].state = "none" <=> entry[e].state = "none"
          /\ entry[e].state = "settled" => entry'[e] = entry[e]
          /\ entry'[e].state = "settled" => entry[e].state = "settled"
      BY DEF BeginsClose, Kept, Moved
    <3> QED BY <1>0, <3>1, OutcomeCases
  <2> QED BY <2>1 DEF Outcome
<1>2. /\ Stage(disposal) = "open" /\ Stage(disposal') = "closing"
      /\ (~disposed' /\ ~suspended' /\ ~fatal') = FALSE
  BY DEF BeginsClose, Stage, disposed
<1> QED BY <1>1, <1>2 DEF Ledger!BeginClose, Outcome, Stage

\* Disposal ends.
LEMMA ClosesCloses ==
    ASSUME IInv, IInv', Closes
    PROVE  Ledger!Close
<1>0. entry \in Table /\ entry' \in Table
  BY DEF IInv, Sound
<1>1. Outcome(entry') = [e \in Payload |-> IF Outcome(entry)[e] = "held" THEN "abandoned"
                                           ELSE Outcome(entry)[e]]
  <2>1. ASSUME NEW e \in Payload
        PROVE  Outcome(entry')[e] = IF Outcome(entry)[e] = "held" THEN "abandoned"
                                    ELSE Outcome(entry)[e]
    <3>1. CASE e \in Unacked(entry)
      <4>1. entry'[e].state = "settled" /\ entry'[e].outcome = "abandoned"
        BY <3>1 DEF Closes, Settle
      <4> QED BY <1>0, <3>1, <4>1, OutcomeCases
    <3>2. CASE e \notin Unacked(entry)
      <4>1. entry'[e] = entry[e]
        BY <3>2 DEF Closes, Settle
      <4>2. Outcome(entry')[e] = Outcome(entry)[e]
        BY <4>1 DEF Outcome
      <4> QED BY <1>0, <3>2, <4>2, OutcomeCases
    <3> QED BY <3>1, <3>2
  <2> QED BY <2>1 DEF Outcome
<1>2. /\ Stage(disposal) \in {"open", "closing"} /\ Stage(disposal') = "closed"
      /\ (~disposed' /\ ~suspended' /\ ~fatal') = FALSE
  BY DEF Closes, Stage, disposed
<1> QED BY <1>1, <1>2 DEF Ledger!Close, Outcome, Stage

\* THEOREM: the writer with its generations implements the ledger.  Every
\* payload that is published is reported settled once, with one outcome; none
\* is accepted by a disposed client, and none is left when it is closed.
THEOREM WriterImplementsLedger == Spec => ImplementsLedger
<1>1. Init => Ledger!Init
  <2> SUFFICES ASSUME Init PROVE Ledger!Init
    OBVIOUS
  <2>1. \A e \in Payload : entry[e].state = "none"
    BY DEF Init
  <2>2. Outcome(entry) = [e \in Payload |-> "none"]
    BY <2>1 DEF Outcome
  <2>3. (~disposed /\ ~suspended /\ ~fatal) = TRUE /\ Stage(disposal) = "open"
    BY DEF Init, disposed, Stage
  <2> QED BY <2>2, <2>3 DEF Ledger!Init, Outcome, Stage
<1>2. IInv /\ [Next]_vars => [Ledger!Next]_(Ledger!vars)
  <2> SUFFICES ASSUME IInv, [Next]_vars PROVE Ledger!Next
    OBVIOUS
  <2>1. /\ IInv'
        /\ Quiet \/ BeginsClose \/ Closes \/ \E e \in Payload : Accepts(e)
    BY NextStep, StutterIInv
  <2>2. CASE Quiet
    BY <2>1, <2>2, QuietSettles DEF Ledger!Next
  <2>3. CASE BeginsClose
    BY <2>3, BeginsCloseCloses DEF Ledger!Next
  <2>4. CASE Closes
    BY <2>1, <2>4, ClosesCloses DEF Ledger!Next
  <2>5. CASE \E e \in Payload : Accepts(e)
    BY <2>5, AcceptsPublishes DEF Ledger!Next
  <2> QED BY <2>1, <2>2, <2>3, <2>4, <2>5
<1> QED BY <1>1, <1>2, Invariance, PTL DEF Spec, ImplementsLedger, Ledger!Spec

-----------------------------------------------------------------------------
(* Retention *)

\* Only payloads that were published can have outlived their retention.
Past == \A e \in expired : entry[e].state # "none"

\* No worker is given an expired payload.
NothingExpiredIsGiven == \A e \in expired, g \in Gen : e \in inbox'[g] => e \in inbox[g]

LEMMA HandOverGives ==
    ASSUME inbox \in [Gen -> SUBSET Payload], NEW S, IsFiniteSet(S), S \cap expired = {},
           NEW es, NEW gs \in Gens, NEW a \in Gen, NEW timer, NEW n,
           HandOver(S, es, gs, a, timer, n)
    PROVE  NothingExpiredIsGiven
<1>1. PICK sent \in SUBSET S : \/ inbox' = [Undone(gs) EXCEPT ![a] = @ \cup sent]
                               \/ inbox' = [Undone(gs) EXCEPT ![a] = {}]
  <2>1. CASE inbox' = [Undone(gs) EXCEPT ![a] = @ \cup S]
    BY <2>1
  <2>2. CASE \E sent \in SUBSET S : inbox' = [Undone(gs) EXCEPT ![a] = @ \cup sent]
    BY <2>2
  <2>3. CASE inbox' = [Undone(gs) EXCEPT ![a] = {}]
    BY <2>3
  <2> QED BY <2>1, <2>2, <2>3 DEF HandOver
<1>2. /\ Undone(gs) \in [Gen -> SUBSET Payload]
      /\ \A g \in Gen : Undone(gs)[g] \subseteq inbox[g]
  BY UndoneType
<1>3. \A g \in Gen : inbox'[g] \subseteq inbox[g] \cup sent
  BY <1>1, <1>2
<1> QED BY <1>3 DEF NothingExpiredIsGiven

LEMMA HoldGives ==
    ASSUME inbox \in [Gen -> SUBSET Payload], NEW es, NEW gs, NEW a, NEW timer, NEW n,
           Hold(es, gs, a, timer, n)
    PROVE  NothingExpiredIsGiven
<1>1. \A g \in Gen : inbox'[g] \subseteq inbox[g]
  BY UndoneType DEF Hold
<1> QED BY <1>1 DEF NothingExpiredIsGiven

LEMMA FlushToGives ==
    ASSUME inbox \in [Gen -> SUBSET Payload], NEW es, IsFiniteSet(Unacked(es)),
           NEW gs \in Gens, NEW a \in Gen, FlushTo(es, gs, a)
    PROVE  NothingExpiredIsGiven
<1> DEFINE S == FlushRest(es, a)
<1>1. HandOver(S, FlushTable(es, a), gs, a, respawn, 0)
  BY DEF FlushTo, FlushTable, FlushRest, FlushTodo, SentOn
<1>2. S \subseteq Unacked(es) /\ S \cap expired = {}
  BY DEF FlushRest, FlushTodo, DropIfExpired
<1>3. IsFiniteSet(S)
  BY <1>2, FS_Subset
<1> HIDE DEF S
<1> QED BY <1>1, <1>2, <1>3, HandOverGives

LEMMA FlushGives ==
    ASSUME IInv, NEW es, Unacked(es) \subseteq Unacked(entry), Flush(es) \/ Stay(es)
    PROVE  NothingExpiredIsGiven
<1>0. /\ inbox \in [Gen -> SUBSET Payload] /\ gen \in Gens /\ IsFiniteSet(Unacked(es))
      /\ active \in Gen \cup {NoGen}
  BY FS_Subset DEF IInv, Sound, Structure
<1>1. CASE Stay(es)
  BY <1>1 DEF Stay, NothingExpiredIsGiven
<1>2. CASE active # NoGen /\ FlushTo(es, gen, active)
  BY <1>0, <1>2, FlushToGives
<1> QED BY <1>1, <1>2 DEF Flush

LEMMA EnsureGives ==
    ASSUME IInv, NEW es, NEW e, e \notin expired, EnsureAndSend(es, e)
    PROVE  NothingExpiredIsGiven
<1>0. /\ inbox \in [Gen -> SUBSET Payload] /\ gen \in Gens /\ active \in Gen \cup {NoGen}
  BY DEF IInv, Sound, Structure
<1>1. CASE active # NoGen /\ HandOver({e}, es, gen, active, respawn, 0)
  <2>1. IsFiniteSet({e}) /\ {e} \cap expired = {}
    BY FS_Singleton
  <2> QED BY <1>0, <1>1, <2>1, HandOverGives
<1>2. CASE inbox' = inbox
  BY <1>2 DEF NothingExpiredIsGiven
<1> QED BY <1>1, <1>2 DEF EnsureAndSend, Stay

LEMMA ReplayGives ==
    ASSUME IInv, NEW gs \in Gens, NEW a \in Gen, NEW timer, NEW nowFatal, NEW n,
           Replay(gs, a, timer, nowFatal, n)
    PROVE  NothingExpiredIsGiven
<1> DEFINE S == ReplayRest(entry, a)
<1>0. inbox \in [Gen -> SUBSET Payload] /\ IsFiniteSet(Unacked(entry))
  BY DEF IInv, Sound
<1>1. \/ Hold(ReplayTable(entry, a), gs, a, timer, n)
      \/ HandOver(S, ReplayTable(entry, a), gs, a, timer, n)
  BY DEF Replay, ReplayTable, ReplayRest, ReplayTodo, SentOn
<1>2. S \subseteq Unacked(entry) /\ S \cap expired = {}
  BY DEF ReplayRest, ReplayTodo, DropIfExpired
<1>3. IsFiniteSet(S)
  BY <1>0, <1>2, FS_Subset
<1> HIDE DEF S
<1>4. CASE Hold(ReplayTable(entry, a), gs, a, timer, n)
  BY <1>0, <1>4, HoldGives
<1>5. CASE HandOver(S, ReplayTable(entry, a), gs, a, timer, n)
  BY <1>0, <1>2, <1>3, <1>5, HandOverGives
<1> QED BY <1>1, <1>4, <1>5

LEMMA CutoverGives ==
    ASSUME IInv, NEW gs \in Gens, NEW n, Cutover(gs, n), rotation.rep \in Gen
    PROVE  NothingExpiredIsGiven
<1>0. inbox \in [Gen -> SUBSET Payload]
  BY DEF IInv, Sound
<1>1. CASE Replay(gs, rotation.rep, respawn, fatal, n)
  BY <1>1, ReplayGives
<1>2. CASE Hold(entry, gs, NoGen, respawn \/ (~disposed /\ ~fatal), n)
  BY <1>0, <1>2, HoldGives
<1> QED BY <1>1, <1>2 DEF Cutover

\* The steps that give work to a worker do not give it an expired payload.
LEMMA StepGives ==
    ASSUME IInv, Past, Next, ~disposed'
    PROVE  NothingExpiredIsGiven
<1>0. /\ inbox \in [Gen -> SUBSET Payload] /\ gen \in Gens /\ entry \in Table
      /\ Structure(gen, active, rotation, disposal) /\ Sound
  BY DEF IInv, Sound
<1>1. ASSUME NEW e \in Payload, Publish(e) PROVE NothingExpiredIsGiven
  <2>1. e \notin expired
    BY <1>1 DEF Publish, Past
  <2>2. EnsureAndSend(Buffer(entry, {e}), e) \/ inbox' = inbox
    BY <1>1 DEF Publish, Stay
  <2> QED BY <2>1, <2>2, EnsureGives DEF NothingExpiredIsGiven
<1>2. ASSUME NEW e \in Payload, RetryTimer(e) PROVE NothingExpiredIsGiven
  <2>1. (e \notin expired /\ EnsureAndSend(Buffer(entry, {e}), e)) \/ inbox' = inbox
    BY <1>2 DEF RetryTimer, Stay, DropIfExpired
  <2> QED BY <2>1, EnsureGives DEF NothingExpiredIsGiven
<1>3. ASSUME NEW g \in Gen, Ready(g) PROVE NothingExpiredIsGiven
  <2> DEFINE gs == [gen EXCEPT ![g].status = "ready"]
  <2>1. gs \in Gens
    <3>1. "ready" \in Status
      BY DEF Status
    <3> QED BY <1>0, <3>1, StatusType
  <2>2. IsFiniteSet(Unacked(entry))
    BY DEF IInv, Sound
  <2>3. \/ Hold(entry, gs, g, respawn, 0) \/ FlushTo(entry, gs, g)
        \/ inbox' = inbox
        \/ rotation.phase = "spawn" /\ Cutover(gs, 0)
    BY <1>3 DEF Ready
  <2> HIDE DEF gs
  <2>4. rotation.phase = "spawn" => rotation.rep \in Gen
    BY <1>0 DEF Structure
  <2>5. CASE Hold(entry, gs, g, respawn, 0)
    BY <1>0, <2>5, HoldGives
  <2>6. CASE FlushTo(entry, gs, g)
    BY <1>0, <2>1, <2>2, <2>6, FlushToGives
  <2>7. CASE inbox' = inbox
    BY <2>7 DEF NothingExpiredIsGiven
  <2>8. CASE rotation.phase = "spawn" /\ Cutover(gs, 0)
    BY <2>1, <2>4, <2>8, CutoverGives
  <2> QED BY <2>3, <2>5, <2>6, <2>7, <2>8
<1>4. ASSUME NEW g \in Gen, NEW isFatal \in BOOLEAN, SpawnFails(g, isFatal)
      PROVE  NothingExpiredIsGiven
  <2> DEFINE gs == Kill(gen, {g})
  <2> DEFINE nowFatal == fatal \/ isFatal
  <2> DEFINE timer == respawn \/ ~(nowFatal \/ disposed)
  <2>1. gs \in Gens
    BY <1>0, KillType
  <2>2. \/ rotation.phase = "spawn" /\ Replay(gs, rotation.out, timer, nowFatal, 1)
        \/ Hold(entry, gs, active, timer, 1)
    BY <1>4 DEF SpawnFails
  <2> HIDE DEF gs, timer, nowFatal
  <2>3. rotation.phase = "spawn" => rotation.out \in Gen
    BY <1>0 DEF Structure
  <2>4. CASE rotation.phase = "spawn" /\ Replay(gs, rotation.out, timer, nowFatal, 1)
    BY <2>1, <2>3, <2>4, ReplayGives
  <2>5. CASE Hold(entry, gs, active, timer, 1)
    BY <1>0, <2>5, HoldGives
  <2> QED BY <2>2, <2>4, <2>5
<1>5. ASSUME OutgoingCloses PROVE NothingExpiredIsGiven
  <2> DEFINE gs == Kill(gen, {rotation.out})
  <2>1. gs \in Gens /\ rotation.phase = "close" /\ \E n : Cutover(gs, n)
    BY <1>0, <1>5, KillType DEF OutgoingCloses
  <2> HIDE DEF gs
  <2>2. rotation.rep \in Gen
    BY <1>0, <2>1 DEF Structure
  <2> QED BY <2>1, <2>2, CutoverGives
<1>6. ASSUME NEW g \in Gen, HandleAck(g) PROVE NothingExpiredIsGiven
  <2> DEFINE f == Head(outbox[g])
  <2> DEFINE With(r) == {e \in Payload : Concerns(f, g, e) /\ f[e] = r}
  <2> DEFINE es == AckTable(entry, With("retryable"), With("fatal"), With("committed"),
                            With("permanent"))
  <2>1. Flush(es) \/ Stay(es)
    BY <1>6 DEF HandleAck, AckTable, Retried
  <2>2. Unacked(es) \subseteq Unacked(entry)
    <3>1. ASSUME NEW r \in Result PROVE With(r) \subseteq Unacked(entry)
      BY DEF Concerns
    <3>2. ASSUME NEW r \in Result, NEW s \in Result, r # s PROVE With(r) \cap With(s) = {}
      BY <3>2
    <3>3. /\ "retryable" \in Result /\ "fatal" \in Result /\ "committed" \in Result
          /\ "permanent" \in Result
      BY DEF Result
    <3> HIDE DEF With
    <3>4. /\ With("retryable") \cap (With("fatal") \cup With("committed") \cup With("permanent")) = {}
          /\ With("fatal") \cap (With("committed") \cup With("permanent")) = {}
          /\ With("committed") \cap With("permanent") = {}
      BY <3>2, <3>3
    <3>5. Unassigned(entry)
      BY DEF IInv, Sound
    <3> QED BY <1>0, <3>1, <3>3, <3>4, <3>5, AckMoves
  <2> HIDE DEF es
  <2> QED BY <2>1, <2>2, FlushGives
<1>7. ASSUME WatchdogIdle PROVE NothingExpiredIsGiven
  BY <1>7, FlushGives DEF WatchdogIdle
<1>8. ASSUME Dispose \/ DisposeContinues PROVE FALSE
  BY <1>8, DisposeStep, DisposeContinuesStep DEF BeginsClose, Closes, Quiet, disposed,
     DisposeContinues
<1>9. ASSUME NEW g \in Gen,
             WriteBatch(g) \/ BatchIsFatal(g) \/ Dies(g) \/ Stall(g) \/ AcksLost(g)
      PROVE  NothingExpiredIsGiven
  <2>1. \/ inbox' = inbox \/ inbox' = [inbox EXCEPT ![g] = {}]
        \/ \E batch : inbox' = [inbox EXCEPT ![g] = @ \ batch]
    BY <1>9 DEF WriteBatch, BatchIsFatal, Dies, Stall, AcksLost
  <2> QED BY <1>0, <2>1 DEF NothingExpiredIsGiven
<1>10. ASSUME \/ \E e \in Payload : Expire(e)
              \/ WatchdogUnhealthy \/ BeginDisposeDrain \/ RespawnTimer
       PROVE  NothingExpiredIsGiven
  BY <1>10 DEF Expire, WatchdogUnhealthy, BeginDisposeDrain, RespawnTimer, NothingExpiredIsGiven
<1>11. ASSUME Fence PROVE NothingExpiredIsGiven
  BY <1>0, <1>11 DEF Fence, NothingExpiredIsGiven
<1> QED BY <1>1, <1>2, <1>3, <1>4, <1>5, <1>6, <1>7, <1>8, <1>9, <1>10, <1>11
        DEF Next, ClientStep, FaultStep

\* What has expired stays in the books.
LEMMA PastStep ==
    ASSUME IInv, Past, Next
    PROVE  Past'
<1>1. \A e \in Payload : entry[e].state # "none" => entry'[e].state # "none"
  <2>1. Quiet \/ BeginsClose \/ Closes \/ \E e \in Payload : Accepts(e)
    BY NextStep
  <2>2. CASE Quiet \/ BeginsClose
    BY <2>2 DEF Quiet, BeginsClose, Kept, Moved
  <2>3. CASE Closes
    BY <2>3 DEF Closes, Settle
  <2>4. CASE \E e \in Payload : Accepts(e)
    BY <2>4 DEF Accepts
  <2> QED BY <2>1, <2>2, <2>3, <2>4
<1>2. \A e \in expired' : e \in expired \/ entry[e].state # "none"
  BY DEF Next, ClientStep, FaultStep, Publish, Expire, WriteBatch, RetryTimer, Ready,
     OutgoingCloses, RespawnTimer, WatchdogIdle, HandleAck, DisposeContinues, SpawnFails, Dies,
     Stall, BatchIsFatal, AcksLost, WatchdogUnhealthy, Fence, BeginDisposeDrain, Dispose
<1>3. expired' \subseteq Payload
  BY NextStep DEF IInv, Flags
<1> QED BY <1>1, <1>2, <1>3 DEF Past

\* THEOREM: a payload that has outlived its retention is not handed to a worker
\* any more, as long as the writer is not being disposed of.
THEOREM NoExpiredReplay == Spec => ExpiredIsNotReplayed
<1>1. Init => Past
  BY DEF Init, Past
<1>2. IInv /\ Past /\ [Next]_vars => Past'
  BY PastStep DEF Past, vars
<1>3. IInv /\ Past /\ [Next]_vars =>
        [~disposed' => \A e \in expired, g \in Gen : e \in inbox'[g] => e \in inbox[g]]_vars
  BY StepGives DEF NothingExpiredIsGiven
<1> QED BY <1>1, <1>2, <1>3, Invariance, PTL DEF Spec, ExpiredIsNotReplayed
=============================================================================
