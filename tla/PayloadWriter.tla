---------------------------- MODULE PayloadWriter ----------------------------
(****************************************************************************)
(* The off-thread writer of request payloads: the main-thread client        *)
(* (payload-write-client.ts), which keeps every payload in a registry until *)
(* a worker has acknowledged its commit, and the worker threads, called     *)
(* generations (payload-write-worker.ts), which it spawns, rotates, fences  *)
(* and closes.                                                              *)
(*                                                                          *)
(* A generation is identified by a number; a number is used again once      *)
(* nothing refers to the dead generation that had it.  Bytes are counted in *)
(* payloads.  In which order a loop over the registry meets its entries is  *)
(* left open where only the first of them fit.  Messages that a generation  *)
(* posted before it was terminated may still be delivered, or may be lost.  *)
(*                                                                          *)
(* A fault is a worker that dies, stalls, misses a deadline, fails to start *)
(* or cannot write; the number of faults is bounded.                        *)
(****************************************************************************)
EXTENDS Integers, Sequences, FiniteSets

CONSTANTS
    Payload,        \* the payloads that may be published
    MaxGen,         \* bound: generations that are live or referred to
    RotationBudget, \* payloads after which a generation is retired
    MaxFaults,      \* bound: faults
    MayExpire,      \* whether payloads may outlive their retention
    MayDispose,     \* whether the client may be disposed
    MayBeFatal,     \* whether the database may become unusable
    MayDieClosing   \* whether a worker may die while it is closing

ASSUME Bounds ==
    /\ MaxGen \in Nat \ {0}
    /\ RotationBudget \in Nat \ {0}
    /\ MaxFaults \in Nat
    /\ {MayExpire, MayDispose, MayBeFatal, MayDieClosing} \subseteq BOOLEAN

Gen == 1..MaxGen
NoGen == 0

VARIABLES
    entry,      \* the registry: state, generation last sent to, outcome
    retryTimers,\* entries whose retry timer is armed
    gen,        \* generations: status, published bytes, and of the worker:
                \* whether its connection is broken, whether it hangs
    active,     \* the active generation
    rotation,   \* rotate(): what it waits for, outgoing and replacement
    respawn,    \* the respawn timer is armed
    suspended, unhealthy, fatal, \* admission, watchdog, writer-fatal
    suppressed, \* no new rotation
    disposal,   \* doDispose(): what it waits for
    inbox,      \* per generation: rows handed to the worker, not written yet
    outbox,     \* per generation: acks under way to the client
    expired,    \* entries past the retention window
    faults

clientVars == <<retryTimers, rotation, respawn, suspended, unhealthy, fatal,
                suppressed, disposal>>
vars == <<entry, gen, active, inbox, outbox, expired, faults, clientVars>>

Result == {"committed", "permanent", "retryable", "fatal"}
NoRotation == [phase |-> "none", out |-> NoGen, rep |-> NoGen]

TypeOK ==
    /\ entry \in [Payload ->
         [state : {"none", "buffered", "sent", "retry_wait"},
          gen : Gen \cup {NoGen}, outcome : {"none"}]
         \cup [state : {"settled"}, gen : {NoGen},
               outcome : {"committed", "dropped", "expired", "abandoned"}]]
    /\ retryTimers \subseteq Payload
    /\ gen \in [Gen -> [status : {"starting", "ready", "closing", "dead"},
                        bytes : 0..RotationBudget,
                        fatal : BOOLEAN, stalled : BOOLEAN]]
    /\ active \in Gen \cup {NoGen}
    /\ rotation \in [phase : {"none", "spawn", "close"},
                     out : Gen \cup {NoGen}, rep : Gen \cup {NoGen}]
    /\ {respawn, suspended, unhealthy, fatal, suppressed} \subseteq BOOLEAN
    /\ disposal \in {"no", "spawn", "rotation", "close", "done"}
    /\ inbox \in [Gen -> SUBSET Payload]
    /\ \A g \in Gen : \A i \in 1..Len(outbox[g]) :
         DOMAIN outbox[g][i] \subseteq Payload
    /\ expired \subseteq Payload
    /\ faults \in 0..MaxFaults

Init ==
    /\ entry = [e \in Payload |->
                 [state |-> "none", gen |-> NoGen, outcome |-> "none"]]
    /\ retryTimers = {}
    /\ gen = [g \in Gen |-> [status |-> "dead", bytes |-> 0, fatal |-> FALSE,
                             stalled |-> FALSE]]
    /\ active = NoGen
    /\ rotation = NoRotation
    /\ respawn = FALSE
    /\ suspended = FALSE /\ unhealthy = FALSE /\ fatal = FALSE
    /\ suppressed = FALSE
    /\ disposal = "no"
    /\ inbox = [g \in Gen |-> {}]
    /\ outbox = [g \in Gen |-> <<>>]
    /\ expired = {}
    /\ faults = 0

-----------------------------------------------------------------------------
disposed == disposal # "no"
Faults(n) == faults + n <= MaxFaults /\ faults' = faults + n

Starting == {g \in Gen : gen[g].status = "starting"}
Live(g) == gen[g].status # "dead"

\* The registry's entries in the table es
Unacked(es) == {e \in Payload : es[e].state \notin {"none", "settled"}}

\* Mutant: the outcome is reported, the entry stays in the registry.
SettleKeepsEntry(es, S, outcome) ==
    [e \in Payload |-> IF e \in S THEN [es[e] EXCEPT !.outcome = outcome] ELSE es[e]]

Settle(es, S, outcome) ==
    [e \in Payload |->
       IF e \in S THEN [state |-> "settled", gen |-> NoGen, outcome |-> outcome]
       ELSE es[e]]
Buffer(es, S) ==
    [e \in Payload |-> IF e \in S THEN [es[e] EXCEPT !.state = "buffered"] ELSE es[e]]
Detach(es, S) ==
    [e \in Payload |-> IF e \in S THEN [es[e] EXCEPT !.gen = NoGen] ELSE es[e]]
Sent(es, S, g) ==
    [e \in Payload |-> IF e \in S THEN [es[e] EXCEPT !.state = "sent", !.gen = g]
                       ELSE es[e]]

\* Mutant: the retention window is not consulted.
ReplaysAnyway(S) == {}

\* dropIfExpired on the set S: what has outlived its retention is settled.
DropIfExpired(S) == S \cap expired
DropExpired(es, S) == Settle(es, DropIfExpired(S), "expired")

\* killGeneration on the set K: the threads are gone, with what they had not
\* written.
Kill(gs, K) == [g \in Gen |-> IF g \in K THEN [gs[g] EXCEPT !.status = "dead"]
                              ELSE gs[g]]
Undone(gs) == [g \in Gen |-> IF gs[g].status = "dead" THEN {} ELSE inbox[g]]

\* A number for a new generation
Fresh(es) == {g \in Gen : /\ ~Live(g)
                          /\ outbox[g] = <<>>
                          /\ \A e \in Payload : es[e].gen # g
                          /\ rotation.out # g /\ rotation.rep # g}

\* spawnGeneration: a transport is created and told to initialise.
Spawn(gs, g) ==
    [gs EXCEPT ![g] = [status |-> "starting", bytes |-> 0, fatal |-> FALSE,
                       stalled |-> FALSE]]

-----------------------------------------------------------------------------
(* Sending *)

\* The entries in S are handed one by one to the generation a, which is ready:
\* trySend, in the loops of flushBuffered and replayToActive or for a single
\* entry.  es and gs are the registry and the generations by now, timer tells
\* whether the respawn timer is armed, n is the number of faults so far.
\*   - All are sent, and the budget is not used up, or not acted on.
\*   - The budget is used up: the generation is retired at once (maybeRotate,
\*     and rotate up to its first await); the rest stays buffered.
\*   - postMessage throws: the generation is torn down, a respawn scheduled.
HandOver(S, es, gs, a, timer, n) ==
    LET mayRotate == ~disposed /\ ~suppressed /\ ~timer
        left == RotationBudget - gs[a].bytes
        room == IF left > 0 THEN left ELSE 1
        Charge(sent) == [gs EXCEPT ![a].bytes =
                           IF Cardinality(sent) > left THEN RotationBudget
                           ELSE @ + Cardinality(sent)]
        Deliver(sent) == [Undone(gs) EXCEPT ![a] = @ \cup sent]
    IN \/ /\ Cardinality(S) < room \/ ~mayRotate
          /\ entry' = Sent(es, S, a)
          /\ gen' = Charge(S)
          /\ inbox' = Deliver(S)
          /\ active' = a
          /\ rotation' = NoRotation
          /\ respawn' = timer
          /\ Faults(n)
       \/ /\ Cardinality(S) >= room /\ mayRotate
          /\ \E sent \in SUBSET S, g \in Gen :
               /\ Cardinality(sent) = room
               /\ entry' = Sent(es, sent, a)
               /\ g \in Fresh(entry')
               /\ gen' = Spawn(Charge(sent), g)
               /\ inbox' = Deliver(sent)
               /\ rotation' = [phase |-> "spawn", out |-> a, rep |-> g]
          /\ active' = NoGen
          /\ respawn' = FALSE
          /\ Faults(n)
       \/ /\ \E sent \in SUBSET S :
               /\ sent # S
               /\ Cardinality(sent) < room \/ ~mayRotate
               /\ entry' = Sent(es, sent, a)
          /\ gen' = Kill(gs, {a})
          /\ inbox' = [Undone(gs) EXCEPT ![a] = {}]
          /\ active' = NoGen
          /\ rotation' = NoRotation
          /\ respawn' = TRUE
          /\ Faults(n + 1)

\* Nothing is sent.
Hold(es, gs, a, timer, n) ==
    /\ entry' = es
    /\ gen' = gs
    /\ inbox' = Undone(gs)
    /\ active' = a
    /\ rotation' = NoRotation
    /\ respawn' = timer
    /\ Faults(n)
Stay(es) == entry' = es /\ UNCHANGED <<gen, inbox, active, rotation, respawn, faults>>

\* flushBuffered onto a: everything not in flight on a, except what waits for
\* its retry timer; what has outlived its retention is dropped.
FlushTo(es, gs, a) ==
    LET todo == {e \in Unacked(es) : /\ ~(es[e].state = "sent" /\ es[e].gen = a)
                                     /\ es[e].state # "retry_wait"}
        rest == todo \ DropIfExpired(todo)
    IN HandOver(rest, Buffer(DropExpired(es, todo), rest), gs, a, respawn, 0)

\* Mutant: what was held back waits for the next publish.
FlushLater(es) == Stay(es)

Flush(es) ==
    IF active # NoGen /\ gen[active].status = "ready" /\ ~disposed
    THEN FlushTo(es, gen, active) ELSE Stay(es)

\* ensureActiveGeneration, then trySend of the entry e
EnsureAndSend(es, e) ==
    \/ /\ active # NoGen
       /\ IF gen[active].status = "ready"
          THEN HandOver({e}, es, gen, active, respawn, 0)
          ELSE Stay(es)
    \/ /\ active = NoGen
       /\ Starting # {} \/ rotation.phase # "none" \/ respawn
       /\ Stay(es)
    \/ /\ active = NoGen
       /\ Starting = {} /\ rotation.phase = "none" /\ ~respawn
       /\ \E g \in Fresh(es) : gen' = Spawn(gen, g)
       /\ entry' = es
       /\ UNCHANGED <<inbox, active, rotation, respawn, faults>>

\* Mutant: a disposed client takes payloads.
PublishWhenever(e) ==
    /\ entry[e].state = "none"
    /\ IF disposed \/ suspended \/ fatal THEN Stay(Buffer(entry, {e}))
       ELSE EnsureAndSend(Buffer(entry, {e}), e)
    /\ UNCHANGED <<outbox, expired, retryTimers, suspended, unhealthy, fatal,
                   suppressed, disposal>>

\* publishReserved: only a disposed client refuses; a suspended one holds the
\* entry back.
Publish(e) ==
    LET es == Buffer(entry, {e})
    IN /\ entry[e].state = "none"
       /\ ~disposed
       /\ IF suspended \/ fatal THEN Stay(es) ELSE EnsureAndSend(es, e)
       /\ UNCHANGED <<outbox, expired, retryTimers, suspended, unhealthy, fatal,
                      suppressed, disposal>>

\* The retry timer of an entry fires.
RetryTimer(e) ==
    LET es == Buffer(entry, {e})
    IN /\ e \in retryTimers
       /\ retryTimers' = retryTimers \ {e}
       /\ IF DropIfExpired({e}) # {} THEN Stay(Settle(entry, {e}, "expired"))
          ELSE IF disposed \/ fatal THEN Stay(es)
          ELSE EnsureAndSend(es, e)
       /\ UNCHANGED <<outbox, expired, suspended, unhealthy, fatal, suppressed,
                      disposal>>

-----------------------------------------------------------------------------
(* The life of a generation *)

\* The end of rotate(): a becomes active, and replayToActive sends it all that
\* is not in flight on it.
Replay(gs, a, timer, nowFatal, n) ==
    LET todo == {e \in Unacked(entry) : ~(entry[e].state = "sent" /\ entry[e].gen = a)}
        rest == todo \ DropIfExpired(todo)
        es == Detach(Buffer(DropExpired(entry, todo), rest), todo)
    IN /\ retryTimers' = retryTimers \ todo
       /\ IF disposed \/ nowFatal THEN Hold(es, gs, a, timer, n)
          ELSE HandOver(rest, es, gs, a, timer, n)

\* rotate(), once the outgoing generation is gone: the replacement takes over,
\* unless it has died meanwhile.
Cutover(gs, n) ==
    IF gs[rotation.rep].status = "ready"
    THEN Replay(gs, rotation.rep, respawn, fatal, n)
    ELSE /\ Hold(entry, gs, NoGen, respawn \/ (~disposed /\ ~fatal), n)
         /\ UNCHANGED retryTimers

\* A generation reports ready.  It becomes active and is given what waits; in
\* a rotation the outgoing generation is now asked to close.
Ready(g) ==
    LET gs == [gen EXCEPT ![g].status = "ready"]
    IN /\ gen[g].status = "starting"
       /\ \/ /\ rotation.phase = "none"
             /\ IF disposed \/ fatal THEN Hold(entry, gs, g, respawn, 0)
                ELSE FlushTo(entry, gs, g)
             /\ UNCHANGED retryTimers
          \/ /\ rotation.phase = "spawn"
             /\ Live(rotation.out)
             /\ gen' = [gs EXCEPT ![rotation.out].status = "closing"]
             /\ rotation' = [rotation EXCEPT !.phase = "close"]
             /\ UNCHANGED <<entry, inbox, active, respawn, retryTimers, faults>>
          \/ /\ rotation.phase = "spawn"
             /\ ~Live(rotation.out)
             /\ Cutover(gs, 0)
       /\ UNCHANGED <<outbox, expired, suspended, unhealthy, fatal, suppressed,
                      disposal>>

\* A spawn fails: it threw, timed out or reported an error.  A respawn is
\* scheduled, unless the database itself is unusable; a rotation goes back to
\* the outgoing generation.
SpawnFails(g, isFatal) ==
    LET gs == Kill(gen, {g})
        nowFatal == fatal \/ isFatal
        timer == respawn \/ ~(nowFatal \/ disposed)
    IN /\ gen[g].status = "starting"
       /\ isFatal => MayBeFatal
       /\ fatal' = nowFatal
       /\ suspended' = (suspended \/ isFatal)
       /\ IF rotation.phase = "spawn" /\ Live(rotation.out)
          THEN Replay(gs, rotation.out, timer, nowFatal, 1)
          ELSE Hold(entry, gs, active, timer, 1) /\ UNCHANGED retryTimers
       /\ UNCHANGED <<outbox, expired, unhealthy, suppressed, disposal>>

\* The close-ack is the last thing a worker posts, after the acks of all it
\* had been given.  It always comes too late from a worker that hangs.
CloseAcked(g) == inbox[g] = {} /\ outbox[g] = <<>> /\ ~gen[g].stalled
Late(g) == IF gen[g].stalled THEN 0 ELSE 1

\* The outgoing generation has close-acked, or is terminated at the deadline.
OutgoingCloses ==
    /\ rotation.phase = "close"
    /\ gen[rotation.out].status = "closing"
    /\ \/ CloseAcked(rotation.out) /\ Cutover(Kill(gen, {rotation.out}), 0)
       \/ Cutover(Kill(gen, {rotation.out}), Late(rotation.out))
    /\ UNCHANGED <<outbox, expired, suspended, unhealthy, fatal, suppressed, disposal>>

\* Mutant: no respawn is scheduled.
DiesQuietly(g) ==
    /\ gen[g].status \in {"ready"} \cup (IF MayDieClosing THEN {"closing"} ELSE {})
    /\ gen' = Kill(gen, {g})
    /\ inbox' = [inbox EXCEPT ![g] = {}]
    /\ active' = IF active = g THEN NoGen ELSE active
    /\ Faults(1)
    /\ UNCHANGED <<entry, outbox, expired, clientVars>>

\* A worker dies (onGenerationDied); the loss of the active one schedules a
\* respawn.
Dies(g) ==
    /\ gen[g].status \in {"ready"} \cup (IF MayDieClosing THEN {"closing"} ELSE {})
    /\ gen' = Kill(gen, {g})
    /\ inbox' = [inbox EXCEPT ![g] = {}]
    /\ active' = IF active = g THEN NoGen ELSE active
    /\ respawn' = (respawn \/ (active = g /\ ~disposed /\ ~fatal))
    /\ Faults(1)
    /\ UNCHANGED <<entry, outbox, expired, retryTimers, rotation, suspended,
                   unhealthy, fatal, suppressed, disposal>>

\* The respawn timer fires: a rotation that was rolled back is tried again,
\* otherwise a generation is started when there is none.
RespawnTimer ==
    /\ respawn
    /\ respawn' = FALSE
    /\ \/ /\ active # NoGen
          /\ gen[active].bytes >= RotationBudget
          /\ ~suppressed
          /\ \E g \in Fresh(entry) :
               /\ gen' = Spawn(gen, g)
               /\ rotation' = [phase |-> "spawn", out |-> active, rep |-> g]
          /\ active' = NoGen
       \/ /\ active # NoGen
          /\ gen[active].bytes < RotationBudget \/ suppressed
          /\ UNCHANGED <<gen, rotation, active>>
       \/ /\ active = NoGen
          /\ fatal \/ Starting # {} \/ rotation.phase # "none"
          /\ UNCHANGED <<gen, rotation, active>>
       \/ /\ active = NoGen
          /\ ~fatal /\ Starting = {} /\ rotation.phase = "none"
          /\ \E g \in Fresh(entry) : gen' = Spawn(gen, g)
          /\ UNCHANGED <<rotation, active>>
    /\ UNCHANGED <<entry, inbox, outbox, expired, faults, retryTimers, suspended,
                   unhealthy, fatal, suppressed, disposal>>

-----------------------------------------------------------------------------
(* The worker *)

\* A batch is written in one transaction, with a savepoint per row, and
\* acknowledged row by row.
WriteBatch(g) ==
    /\ Live(g) /\ ~gen[g].stalled /\ ~gen[g].fatal
    /\ \E batch \in (SUBSET inbox[g]) \ {{}} :
         \E f \in [batch -> {"committed", "permanent", "retryable"}] :
           /\ Faults(IF \A e \in batch : f[e] = "committed" THEN 0 ELSE 1)
           /\ outbox' = [outbox EXCEPT ![g] = Append(@, f)]
           /\ inbox' = [inbox EXCEPT ![g] = @ \ batch]
    /\ UNCHANGED <<entry, gen, active, expired, clientVars>>

\* The database is unusable: this batch, and every later one, is refused.
BatchIsFatal(g) ==
    /\ Live(g) /\ ~gen[g].stalled
    /\ inbox[g] # {}
    /\ MayBeFatal
    /\ Faults(IF gen[g].fatal THEN 0 ELSE 1)
    /\ gen' = [gen EXCEPT ![g].fatal = TRUE]
    /\ \E batch \in (SUBSET inbox[g]) \ {{}} :
         /\ outbox' = [outbox EXCEPT ![g] = Append(@, [e \in batch |-> "fatal"])]
         /\ inbox' = [inbox EXCEPT ![g] = @ \ batch]
    /\ UNCHANGED <<entry, active, expired, clientVars>>

\* A worker hangs: it is alive and writes nothing more.
Stall(g) ==
    /\ gen[g].status \in {"ready", "closing"}
    /\ ~gen[g].stalled
    /\ gen' = [gen EXCEPT ![g].stalled = TRUE]
    /\ Faults(1)
    /\ UNCHANGED <<entry, active, inbox, outbox, expired, clientVars>>

\* What a terminated generation had posted gets lost.
AcksLost(g) ==
    /\ ~Live(g)
    /\ outbox[g] # <<>>
    /\ outbox' = [outbox EXCEPT ![g] = <<>>]
    /\ UNCHANGED <<entry, gen, active, inbox, expired, faults, clientVars>>

\* Time passes: a payload outlives its retention.
Expire(e) ==
    /\ MayExpire
    /\ entry[e].state # "none"
    /\ e \notin expired
    /\ expired' = expired \cup {e}
    /\ UNCHANGED <<entry, gen, active, inbox, outbox, faults, clientVars>>

-----------------------------------------------------------------------------
(* Acknowledgements and the watchdog *)

\* An ack counts only for the generation the entry was last sent to.
Concerns(f, g, e) == e \in Unacked(entry) /\ e \in DOMAIN f /\ entry[e].gen = g

\* handleAck: any ack is progress and ends a suspension by the watchdog, and
\* then what was held back is sent.
HandleAck(g) ==
    LET f == Head(outbox[g])
        With(r) == {e \in Payload : Concerns(f, g, e) /\ f[e] = r}
        es == [e \in Payload |->
                 IF e \in With("retryable")
                 THEN [entry[e] EXCEPT !.state = "retry_wait", !.gen = NoGen]
                 ELSE entry[e]]
        es2 == Detach(Buffer(es, With("fatal")), With("fatal"))
        es3 == Settle(Settle(es2, With("committed"), "committed"),
                      With("permanent"), "dropped")
        resumed == unhealthy /\ ~fatal
        nowFatal == fatal \/ With("fatal") # {}
    IN /\ outbox[g] # <<>>
       /\ outbox' = [outbox EXCEPT ![g] = Tail(@)]
       /\ retryTimers' = (retryTimers \ (With("committed") \cup With("permanent")))
                           \cup With("retryable")
       /\ unhealthy' = FALSE
       /\ fatal' = nowFatal
       /\ suspended' = ((suspended /\ ~resumed) \/ (nowFatal /\ ~fatal))
       /\ IF resumed /\ ~nowFatal THEN Flush(es3) ELSE Stay(es3)
       /\ UNCHANGED <<expired, suppressed, disposal>>

InFlight == {e \in Unacked(entry) : entry[e].state = "sent"}
Watching == ~disposed /\ ~fatal
\* That the deadline passes costs a fault, unless the worker hangs.
NoProgress == IF active # NoGen THEN Late(active) ELSE 1

\* Mutant: admission is not opened again.
WatchdogIdleStaysSuspended ==
    /\ Watching
    /\ InFlight = {}
    /\ unhealthy
    /\ unhealthy' = FALSE
    /\ Flush(entry)
    /\ UNCHANGED <<outbox, expired, retryTimers, suspended, fatal, suppressed, disposal>>

\* Nothing is in flight: no stall.
WatchdogIdle ==
    /\ Watching
    /\ InFlight = {}
    /\ unhealthy
    /\ unhealthy' = FALSE
    /\ suspended' = FALSE
    /\ Flush(entry)
    /\ UNCHANGED <<outbox, expired, retryTimers, fatal, suppressed, disposal>>

\* No ack for 30 seconds: admission is suspended.
WatchdogUnhealthy ==
    /\ Watching
    /\ InFlight # {}
    /\ ~unhealthy
    /\ unhealthy' = TRUE
    /\ suspended' = TRUE
    /\ Faults(NoProgress)
    /\ UNCHANGED <<entry, gen, active, inbox, outbox, expired, retryTimers,
                   rotation, respawn, fatal, suppressed, disposal>>

\* Mutant: the entries are replayed, the old generation is left to end by itself.
FenceReplaysFirst ==
    /\ Watching
    /\ InFlight # {}
    /\ active # NoGen
    /\ entry' = Detach(Buffer(entry, InFlight), InFlight)
    /\ active' = NoGen
    /\ unhealthy' = TRUE
    /\ suspended' = TRUE
    /\ respawn' = TRUE
    /\ Faults(NoProgress)
    /\ UNCHANGED <<gen, inbox, outbox, expired, retryTimers, rotation, fatal,
                   suppressed, disposal>>

\* No ack for 60 seconds: the active generation is terminated first, its
\* entries are replayed once there is another.
Fence ==
    /\ Watching
    /\ InFlight # {}
    /\ active # NoGen
    /\ entry' = Detach(Buffer(entry, InFlight), InFlight)
    /\ gen' = Kill(gen, {active})
    /\ inbox' = [inbox EXCEPT ![active] = {}]
    /\ active' = NoGen
    /\ unhealthy' = TRUE
    /\ suspended' = TRUE
    /\ respawn' = TRUE
    /\ Faults(NoProgress)
    /\ UNCHANGED <<outbox, expired, retryTimers, rotation, fatal, suppressed,
                   disposal>>

-----------------------------------------------------------------------------
(* Disposal *)

\* beginDisposeDrain: no new rotation from here on.
BeginDisposeDrain ==
    /\ MayDispose
    /\ ~suppressed
    /\ suppressed' = TRUE
    /\ UNCHANGED <<entry, gen, active, inbox, outbox, expired, faults, retryTimers,
                   rotation, respawn, suspended, unhealthy, fatal, disposal>>

\* doDispose, its end: all threads are terminated, what is left is abandoned.
Abandon(n) ==
    /\ entry' = Settle(entry, Unacked(entry), "abandoned")
    /\ gen' = Kill(gen, Gen)
    /\ inbox' = [g \in Gen |-> {}]
    /\ active' = NoGen
    /\ rotation' = NoRotation
    /\ disposal' = "done"
    /\ Faults(n)

\* doDispose, when no spawn and no rotation is waited for: everything is
\* handed to the active generation, which is asked to close.
LastHandOver(n) ==
    IF active # NoGen /\ gen[active].status = "ready" /\ ~fatal
    THEN LET todo == {e \in Unacked(entry) :
                        ~(entry[e].state = "sent" /\ entry[e].gen = active)}
         IN /\ \E sent \in SUBSET todo :
                 /\ entry' = Sent(Detach(Buffer(entry, todo), todo), sent, active)
                 /\ inbox' = [inbox EXCEPT ![active] = @ \cup sent]
                 /\ Faults(IF sent = todo THEN n ELSE n + 1)
            /\ gen' = [gen EXCEPT ![active].status = "closing"]
            /\ disposal' = "close"
            /\ UNCHANGED <<active, rotation>>
    ELSE Abandon(n)

AfterSpawn(n) ==
    IF rotation.phase # "none"
    THEN /\ disposal' = "rotation"
         /\ Faults(n)
         /\ UNCHANGED <<entry, gen, active, inbox, rotation>>
    ELSE LastHandOver(n)

\* dispose: admission, the watchdog and all timers stop; then a spawn in
\* flight that entries wait for, and a rotation, are waited for.
Dispose ==
    /\ suppressed
    /\ ~disposed
    /\ suspended' = TRUE
    /\ respawn' = FALSE
    /\ retryTimers' = {}
    /\ IF Starting # {} /\ rotation.phase = "none" /\ Unacked(entry) # {}
       THEN /\ disposal' = "spawn"
            /\ UNCHANGED <<entry, gen, active, inbox, rotation, faults>>
       ELSE AfterSpawn(0)
    /\ UNCHANGED <<outbox, expired, unhealthy, fatal, suppressed>>

\* Mutant: no deadline.
DisposeWaits ==
    /\ \/ disposal = "spawn" /\ Starting = {} /\ AfterSpawn(0)
       \/ disposal = "rotation" /\ rotation.phase = "none" /\ LastHandOver(0)
       \/ disposal = "close" /\ active # NoGen /\ CloseAcked(active) /\ Abandon(0)
    /\ retryTimers' = IF disposal' = "done" THEN {} ELSE retryTimers
    /\ UNCHANGED <<outbox, expired, respawn, suspended, unhealthy, fatal, suppressed>>

\* What it waited for has happened, or the deadline has passed.
DisposeContinues ==
    /\ \/ /\ disposal = "spawn"
          /\ \/ Starting = {} /\ AfterSpawn(0)
             \/ Starting # {} /\ AfterSpawn(1)
       \/ /\ disposal = "rotation"
          /\ \/ rotation.phase = "none" /\ LastHandOver(0)
             \/ rotation.phase # "none" /\ LastHandOver(1)
       \/ /\ disposal = "close"
          /\ active # NoGen
          /\ \/ CloseAcked(active) /\ Abandon(0)
             \/ Abandon(Late(active))
    /\ retryTimers' = IF disposal' = "done" THEN {} ELSE retryTimers
    /\ UNCHANGED <<outbox, expired, respawn, suspended, unhealthy, fatal, suppressed>>

-----------------------------------------------------------------------------
ClientStep ==
    \/ \E e \in Payload : RetryTimer(e)
    \/ \E g \in Gen : Ready(g)
    \/ OutgoingCloses \/ RespawnTimer \/ WatchdogIdle
    \/ \E g \in Gen : HandleAck(g)
    \/ DisposeContinues

FaultStep ==
    \/ \E g \in Gen, isFatal \in BOOLEAN : SpawnFails(g, isFatal)
    \/ \E g \in Gen : Dies(g) \/ Stall(g) \/ BatchIsFatal(g) \/ AcksLost(g)
    \/ WatchdogUnhealthy \/ Fence

Next ==
    \/ \E e \in Payload : Publish(e) \/ Expire(e)
    \/ \E g \in Gen : WriteBatch(g)
    \/ ClientStep \/ FaultStep
    \/ BeginDisposeDrain \/ Dispose

\* Timers fire, workers that do not hang answer, their messages arrive.
Fairness ==
    /\ \A e \in Payload : WF_vars(RetryTimer(e))
    /\ \A g \in Gen : WF_vars(Ready(g)) /\ WF_vars(WriteBatch(g) \/ BatchIsFatal(g))
                        /\ WF_vars(HandleAck(g) \/ AcksLost(g))
    /\ WF_vars(OutgoingCloses) /\ WF_vars(RespawnTimer)
    /\ WF_vars(WatchdogIdle) /\ WF_vars(Fence) /\ WF_vars(DisposeContinues)

Spec == Init /\ [][Next]_vars /\ Fairness

-----------------------------------------------------------------------------
(* Properties *)

\* When an entry leaves the registry and its bytes are freed, no worker is
\* still going to write it, unless the writer is being disposed of.
SettledIsNotWritten(e) ==
    entry[e].state = "settled" /\ ~disposed => \A g \in Gen : e \notin inbox[g]

\* A row is never in the hands of two live workers: whatever is replayed, the
\* generation that had it before is closed or terminated.
OneWriterPerRow ==
    \A e \in Payload :
        /\ Cardinality({g \in Gen : e \in inbox[g]}) <= 1
        /\ SettledIsNotWritten(e)

\* The active generation is one that reported ready and has not been torn
\* down: a rotation never installs a replacement that died in the meantime.
ActiveIsReady ==
    active # NoGen => \/ gen[active].status = "ready"
                      \/ gen[active].status = "closing" /\ disposal = "close"

\* While the registry holds an entry there is a generation to send it to, or
\* one is coming, whatever was torn down: nothing waits for the next publish.
\* And the active generation, if any, can be sent to.
NothingIsStranded ==
    /\ ActiveIsReady
    /\ (~disposed /\ ~fatal /\ Unacked(entry) # {}) =>
          active # NoGen \/ Starting # {} \/ respawn \/ rotation.phase # "none"

\* A payload past its retention window is not handed to a worker any more, as
\* long as the writer is not being disposed of: a row that the cleanup has
\* deleted is not brought back.
ExpiredIsNotReplayed ==
    [][~disposed' => \A e \in expired, g \in Gen :
                       e \in inbox'[g] => e \in inbox[g]]_vars

\* Every published payload leaves the registry, unless the database fails.
EntriesSettle ==
    \A e \in Payload : entry[e].state = "buffered" ~> (entry[e].state = "settled" \/ fatal)

\* A rotation comes to its end.
RotationEnds == rotation.phase # "none" ~> rotation.phase = "none"

\* A suspension of admission ends.
SuspensionEnds == suspended ~> (~suspended \/ fatal \/ disposed)

\* Whatever holds entries back comes to its end: suspensions and rotations.
StallsEnd == SuspensionEnds /\ RotationEnds

\* Disposal comes to its end.
DisposalEnds == disposed ~> disposal = "done"

-----------------------------------------------------------------------------
(* What the writer promises to its owner *)

Ledger == INSTANCE PayloadLedger WITH
    outcome <- [e \in Payload |->
                  CASE entry[e].state = "none" -> "none"
                    [] entry[e].state = "settled" -> entry[e].outcome
                    [] OTHER -> "held"],
    accepting <- ~disposed /\ ~suspended /\ ~fatal,
    stage <- CASE disposal = "no" -> "open"
               [] disposal = "done" -> "closed"
               [] OTHER -> "closing"

\* Whatever the generations do, each payload that is published is reported
\* settled once, with one outcome, none is accepted by a disposed client, and
\* none is left when the client is closed.
ImplementsLedger == Ledger!Spec
=============================================================================
