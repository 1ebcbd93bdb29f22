---------------------------- MODULE SpacedReadGate ----------------------------
(***************************************************************************)
(* The gate through which banked-reset status reads reach Anthropic one at *)
(* a time (spaced-read-gate.ts): a queue in which urgent waiters go ahead  *)
(* of the others, a turn that is handed out only once the last read of     *)
(* another account lies a gap behind, and stop().                          *)
(*                                                                         *)
(* Each account is a reader: the coordinator has at most one status read   *)
(* per account under way (runStatusRead, sendStatusRead).                  *)
(***************************************************************************)
EXTENDS Integers, FiniteSets, SequencesExt

CONSTANTS
    Account,
    None,
    MaxUrgent       \* bound on the forced reads

ASSUME NoneIsNoAccount == None \notin Account

VARIABLES
    waiters,        \* the queue: [account, urgent]
    turnOf,         \* the waiter taken from the queue and not yet released
    slept,          \* that waiter has been given its turn (FALSE: it sleeps)
    last,           \* the account whose read was sent last
    spaced,         \* a gap has passed since then
    stopped,
    reader,         \* what each account's status read is doing
    urgents         \* forced reads so far

vars == <<waiters, turnOf, slept, last, spaced, stopped, reader, urgents>>

Waiter == [account : Account, urgent : BOOLEAN]

Init ==
    /\ waiters = <<>>
    /\ turnOf = None
    /\ slept = FALSE
    /\ last = None
    /\ spaced = TRUE
    /\ stopped = FALSE
    /\ reader = [a \in Account |-> "idle"]
    /\ urgents = 0

(* Mutant: the gate counts as busy only once the turn is granted.          *)
BusyOnceGranted == turnOf # None /\ slept
busy == turnOf # None

(* Mutant: the comparison of the accounts is the wrong way round.          *)
MustWaitBehindItself(a) == last = a /\ ~spaced

(* A waiter for another account than the last one waits out the gap.       *)
MustWait(a) == last # None /\ last # a /\ ~spaced

(* Mutant of next(): a turn that is given back wakes nobody.               *)
NextForgotten(q, readers) ==
    /\ waiters' = q
    /\ turnOf' = None
    /\ slept' = FALSE
    /\ reader' = readers

(* next() with the queue q, the gate being free: the first waiter is taken *)
(* from the queue and gets its turn, at once or after the gap.             *)
(* The readers are those after the caller's own change.                    *)
NextWaiter(q, readers) ==
    IF q = <<>>
    THEN /\ waiters' = q /\ turnOf' = None /\ slept' = FALSE
         /\ reader' = readers
    ELSE LET a == Head(q).account IN
         /\ waiters' = Tail(q)
         /\ turnOf' = a
         /\ slept' = ~MustWait(a)
         /\ reader' = IF MustWait(a) THEN readers
                                     ELSE [readers EXCEPT ![a] = "turn"]

(* The queue with a waiter added: an urgent one before the first that is   *)
(* not urgent, any other at the end.                                       *)
Inserted(w) ==
    LET normal == {i \in DOMAIN waiters : ~waiters[i].urgent}
    IN IF w.urgent /\ normal # {}
       THEN InsertAt(waiters, CHOOSE i \in normal : \A j \in normal : i <= j, w)
       ELSE Append(waiters, w)

(* acquire(); a gate that has stopped refuses at once.                     *)
Acquire(a, urgent) ==
    /\ reader[a] = "idle"
    /\ urgents' = IF urgent THEN urgents + 1 ELSE urgents
    /\ urgents' <= MaxUrgent
    /\ LET q == Inserted([account |-> a, urgent |-> urgent])
           readers == [reader EXCEPT ![a] = "waiting"]
       IN CASE stopped -> UNCHANGED <<waiters, turnOf, slept, reader>>
            [] ~stopped /\ busy -> /\ waiters' = q /\ reader' = readers
                                   /\ UNCHANGED <<turnOf, slept>>
            [] OTHER -> NextWaiter(q, readers)
    /\ UNCHANGED <<last, spaced, stopped>>

(* The sleep of next() ends: the turn, or the rejection of a stopped gate. *)
Wake ==
    /\ turnOf # None /\ ~slept
    /\ spaced
    /\ IF stopped
       THEN NextWaiter(waiters, [reader EXCEPT ![turnOf] = "idle"])
       ELSE /\ slept' = TRUE
            /\ reader' = [reader EXCEPT ![turnOf] = "turn"]
            /\ UNCHANGED <<waiters, turnOf>>
    /\ UNCHANGED <<last, spaced, stopped, urgents>>

(* turn.sent(), before the read and again before its retry after a 401.    *)
Send(a) ==
    /\ reader[a] = "turn"
    /\ last' = a
    /\ spaced' = FALSE
    /\ UNCHANGED <<waiters, turnOf, slept, stopped, reader, urgents>>

(* turn.release(), in the finally of the read, sent or not.                *)
Release(a) ==
    /\ reader[a] = "turn"
    /\ NextWaiter(waiters, [reader EXCEPT ![a] = "idle"])
    /\ UNCHANGED <<last, spaced, stopped, urgents>>

(* stop(): the queue is rejected; a waiter that sleeps finds out later.    *)
Stop ==
    /\ ~stopped
    /\ stopped' = TRUE
    /\ waiters' = <<>>
    /\ reader' = [a \in Account |->
                     IF \E i \in DOMAIN waiters : waiters[i].account = a
                     THEN "idle" ELSE reader[a]]
    /\ UNCHANGED <<turnOf, slept, last, spaced, urgents>>

(* The gap since the last read passes.                                     *)
GapPasses ==
    /\ ~spaced
    /\ spaced' = TRUE
    /\ UNCHANGED <<waiters, turnOf, slept, last, stopped, reader, urgents>>

Next ==
    \/ \E a \in Account : \/ \E urgent \in BOOLEAN : Acquire(a, urgent)
                          \/ Send(a) \/ Release(a)
    \/ Wake \/ Stop \/ GapPasses

(* Time passes, a timer fires, and a read with its turn ends, by an answer *)
(* or by a timeout.                                                        *)
Spec ==
    /\ Init /\ [][Next]_vars
    /\ WF_vars(GapPasses) /\ WF_vars(Wake)
    /\ \A a \in Account : WF_vars(Release(a))

-----------------------------------------------------------------------------
(* Properties *)

TypeOK ==
    /\ waiters \in Seq(Waiter)
    /\ turnOf \in Account \cup {None}
    /\ slept \in BOOLEAN /\ spaced \in BOOLEAN /\ stopped \in BOOLEAN
    /\ last \in Account \cup {None}
    /\ reader \in [Account -> {"idle", "waiting", "turn"}]

(* The gate and its readers agree: the one reader with a turn is the one   *)
(* the gate is busy for, each waiting reader is queued once or is the one  *)
(* asleep, and a free gate leaves nobody waiting (spaced-read-gate.ts      *)
(* next(): `busy` is set before the sleep and cleared before the next).    *)
NobodyIsForgotten ==
    /\ TypeOK
    /\ \A a \in Account :
          /\ reader[a] = "turn" <=> turnOf = a /\ slept
          /\ reader[a] = "waiting" <=>
                \/ turnOf = a /\ ~slept
                \/ \E i \in DOMAIN waiters : waiters[i].account = a
    /\ Cardinality({waiters[i].account : i \in DOMAIN waiters}) = Len(waiters)
    /\ ~busy => waiters = <<>>

(* Reads of two accounts are a gap apart, measured from the last read that *)
(* was sent: neither an unsent turn nor an urgent one shortens it.         *)
ReadsAreSpaced == [][last' # last /\ last # None => spaced]_vars

(* Every reader in the queue is given its turn or is turned away, when     *)
(* forced reads are finitely many.                                         *)
WaitersAreAnswered ==
    \A a \in Account : reader[a] = "waiting" ~> reader[a] # "waiting"
=============================================================================
