-------------------------- MODULE TokenRotation_proofs --------------------------
(****************************************************************************)
(* Proofs about TokenRotation, for any callers, tokens and restarts:        *)
(*   - the types are right (no write ever blanks a token of the row);       *)
(*   - without a re-authentication the row never goes back to an earlier    *)
(*     generation, whatever the database does (Ordered);                    *)
(*   - without database failures the row holds the newest grant, however    *)
(*     often the user re-authenticates (Unheld);                            *)
(*   - whatever the database does, only an overtaken persist loses the      *)
(*     live token or has the account paused (Safe);                         *)
(*   - to overtake a persist and lose the token takes three failed database *)
(*     calls (Counted).                                                     *)
(* Every step of a caller is first brought into one of the few forms of     *)
(* Outcome; the invariants are then proved over these forms.                *)
(****************************************************************************)
EXTENDS TokenRotation, TLAPS

(* Types *)

Label == {"idle", "selected", "join", "flush", "reread", "exchange", "answered",
          "persist", "retryread", "retrywrite", "adopt", "pause"}
Account == [rt : Token, at : Token]
Caller == Request \cup Proactive
Loc == [joined : Caller \cup {Nobody}, entry : Entry, exch : OptToken,
        at : OptToken, rt : OptToken, answer : Answer]

\* An entry the registry accepts has an access token and an anchor.
FullEntry == [at : Token, rt : OptToken, anchor : Token]

\* A refresh from the start of its exchange to the end of its persist.
Flying == {"exchange", "answered", "persist", "retryread", "retrywrite"}

\* Where a caller is, and what its locals must hold there.
Placed(p, c, l) ==
    /\ c = "flush" => l.entry \in FullEntry
    /\ c = "persist" => l.entry \in FullEntry \cup {NoEntry}
    /\ c \in {"retryread", "retrywrite"} => l.entry \in FullEntry
    /\ c \in Flying => l.exch \in Token /\ p \in Caller
    /\ c = "answered" /\ l.answer = "ok" => l.at \in Token
    /\ c \in {"persist", "retryread", "retrywrite", "adopt"} => l.at \in Token
    /\ c = "reread" => p \in Request

Shared ==
    /\ row \in [rt : Token, at : Token, paused : BOOLEAN]
    /\ pending \in FullEntry \cup {NoEntry}
    /\ inFlight \in Caller \cup {Nobody}
    /\ recent \in OptToken
    /\ backoff \in BOOLEAN
    /\ reauth \in {"none", "granted", "written", "resumed"}
    /\ minted \in Token /\ live \subseteq Token /\ head \in Token
    /\ stale \subseteq Token
    /\ excused \in BOOLEAN
    /\ dbFailures \in 0..MaxDbFailures /\ crashes \in 0..MaxCrashes

Typed ==
    /\ Shared
    /\ pc \in [Proc -> Label] /\ loc \in [Proc -> Loc] /\ acct \in [Proc -> Account]
    /\ \A p \in Proc : Placed(p, pc[p], loc[p])

-----------------------------------------------------------------------------
(* Without a re-authentication: generations only go forward *)

\* The entry e does not take the row back.
Forward(e) == e # NoEntry => Generation(e) >= e.anchor

\* No refresh token is newer than h.
UpTo(e, h) == e.rt <= h /\ e.anchor <= h

\* The token t is not older than what any flush is about to write.
Floor(t) == \A q \in Proc : pc[q] = "flush" => t >= Generation(loc[q].entry)

\* What a refresh is about to write is the newest token, or what was carried
\* from the registry; it is not older than anything that may get into the row
\* before it.
Writes(l) ==
    /\ UpTo(l.entry, head) /\ Forward(l.entry)
    /\ l.rt <= head
    /\ l.rt # 0 => /\ l.rt >= Generation(l.entry)
                   /\ l.entry = NoEntry => l.rt >= l.exch
                   /\ l.entry # NoEntry => l.rt >= l.entry.anchor
                   /\ Floor(l.rt)

\* The registry entry that a refresh carries is still the one it was, but for
\* an anchor that has moved along with the row.
Carried(l) ==
    pending # NoEntry =>
       /\ l.entry # NoEntry
       /\ pending.at = l.entry.at /\ pending.rt = l.entry.rt
       /\ l.rt # 0 => l.rt >= pending.anchor
       /\ pending.anchor # l.entry.anchor => row.rt # l.entry.anchor

Ahead(p, c, l) ==
    /\ c \in Flying => inFlight = p /\ l.exch <= head
    /\ c = "answered" /\ l.answer = "ok" =>
          l.rt = head \/ (l.rt = 0 /\ l.exch = head)
    /\ c = "flush" =>
          /\ UpTo(l.entry, head) /\ Forward(l.entry)
          /\ pending.rt # 0 => pending.rt >= Generation(l.entry)
    /\ c = "persist" => Writes(l) /\ Carried(l)
    /\ c \in {"retryread", "retrywrite"} => Writes(l) /\ pending = NoEntry

Ordered ==
    /\ reauth = "none" /\ live \subseteq {head}
    /\ head <= minted
    /\ row.rt <= head
    /\ Forward(pending) /\ UpTo(pending, head)
    /\ \A p \in Proc : acct[p].rt <= head /\ Ahead(p, pc[p], loc[p])

-----------------------------------------------------------------------------
(* Without database failures: the newest grant stays *)

\* A call works with tokens that have been minted; what it got for a token of
\* the newest grant is of the newest grant.
Clean(p) ==
    /\ acct[p].rt <= minted
    /\ pc[p] \notin {"flush", "retryread", "retrywrite"}
    /\ pc[p] \in Flying => loc[p].exch <= minted
    /\ (pc[p] = "answered" /\ loc[p].answer = "ok") \/ pc[p] = "persist" =>
          /\ loc[p].rt <= minted
          /\ loc[p].exch \notin stale => loc[p].rt \notin stale
    /\ pc[p] = "persist" => loc[p].entry = NoEntry

Unheld ==
    /\ pending = NoEntry
    /\ stale \subseteq 1..minted
    /\ row.rt \notin stale /\ row.rt <= minted
    /\ \A p \in Proc : Clean(p)

-----------------------------------------------------------------------------
(* Whatever the database does: the live token is kept *)

\* The newest refresh token that the registry or the row knows of.
Known == IF pending # NoEntry THEN Generation(pending) ELSE row.rt

\* p has the outcome of an exchange in hand.
Bearing(p) ==
    \/ pc[p] = "answered" /\ loc[p].answer = "ok"
    \/ pc[p] \in {"persist", "retryread", "retrywrite"}

\* What p has in hand is the live token, minted from the newest one known; or
\* none was minted, and the newest one known is live.  The same is true of what
\* it carries from the registry.
Bears(p) ==
    /\ loc[p].exch = Known
    /\ loc[p].rt = head \/ (loc[p].rt = 0 /\ head = Known)
    /\ pc[p] # "answered" =>
          /\ loc[p].entry # NoEntry => Generation(loc[p].entry) = Known
          /\ loc[p].rt = 0 => loc[p].entry.rt = 0

\* A refusal is about a token the row has left behind.
Spares(p) ==
    /\ pc[p] = "answered" /\ loc[p].answer = "invalid_grant" => loc[p].exch # head
    /\ pc[p] = "pause" => loc[p].rt < row.rt

Safe ==
    ~excused =>
       /\ live = {head}
       /\ pending # NoEntry => pending.anchor = row.rt
       /\ \A p \in Proc : pc[p] = "flush" => Generation(loc[p].entry) <= Known
       /\ (\A p \in Proc : ~Bearing(p)) => Known = head
       /\ \A p \in Proc : (Bearing(p) => Bears(p)) /\ Spares(p)

-----------------------------------------------------------------------------
(* What a state costs: how many database calls have failed *)

\* The flush of the entry e moves the row to another refresh token.
Moving(e) == Generation(e) # e.anchor

\* The registry's entry and those taken from it that have still to be dealt with.
Carrying == {"flush", "persist", "retryread", "retrywrite"}
Entries ==
    {e \in Entry \ {NoEntry} :
       e = pending \/ \E q \in Proc : pc[q] \in Carrying /\ e = loc[q].entry}

\* Every entry stands for a failed persist.  To exchange the token of an entry
\* that is still in the registry takes a failed flush of it, or another entry;
\* so does a persist that the row has moved away from.  That two entries are
\* after the same token of the row takes a persist between them that failed.
Costs(q) ==
    /\ acct[q].rt <= Known
    /\ Moving(pending) /\ pc[q] = "reread" /\ acct[q].rt = Known => dbFailures >= 2
    /\ Moving(pending) /\ pc[q] \in {"exchange", "answered"} /\ loc[q].exch = Known =>
          dbFailures >= 2
    /\ pc[q] = "persist" =>
          /\ Moving(loc[q].entry) => dbFailures >= 2
          /\ loc[q].entry # NoEntry /\ row.rt # loc[q].entry.anchor => dbFailures >= 2
          /\ pending \notin {NoEntry, loc[q].entry} => dbFailures >= 3
    /\ /\ pc[q] = "flush" /\ Moving(loc[q].entry)
       /\ loc[q].entry.anchor >= row.rt /\ pending # loc[q].entry
       => dbFailures >= 3

Counted ==
    ~excused =>
       /\ \A e \in Entries : dbFailures >= 1
       /\ \A e, f \in Entries : e # f => dbFailures >= 2
       /\ \A q \in Proc : Costs(q)

-----------------------------------------------------------------------------
(* What a step does to the callers *)

\* A caller that the step is not about stays where it is, or its wait for a
\* refresh ends.
Stays(q) ==
    /\ acct'[q].rt = acct[q].rt
    /\ \/ pc'[q] = pc[q] /\ loc'[q] = loc[q]
       \/ pc[q] = "join" /\ pc'[q] = "idle"
       \/ pc[q] = "join" /\ pc'[q] = "adopt" /\ loc'[q].at \in Token

Moves(p) ==
    /\ pc' \in [Proc -> Label] /\ loc' \in [Proc -> Loc]
    /\ acct' \in [Proc -> Account]
    /\ \A q \in Proc \ {p} : Stays(q)

LEMMA Tokens ==
    /\ Token \subseteq OptToken /\ Token \subseteq Nat /\ OptToken \subseteq Nat
    /\ 0 \in OptToken /\ 0 \notin Token /\ \A t \in OptToken : t # 0 => t \in Token
    /\ 1 \in Token
  BY BoundsAreNat DEF Token, OptToken

LEMMA EntryTypes ==
    /\ NoEntry \in Entry /\ FullEntry \subseteq Entry /\ NoEntry \notin FullEntry
    /\ NoEntry.at = 0 /\ NoEntry.rt = 0 /\ NoEntry.anchor = 0
    /\ \A e \in FullEntry : e.at \in Token /\ e.rt \in OptToken /\ e.anchor \in Token
    /\ \A e \in Entry : e.at \in OptToken /\ e.rt \in OptToken /\ e.anchor \in OptToken
    /\ \A e \in FullEntry : Generation(e) \in Token
    /\ \A e \in Entry : Generation(e) \in OptToken
  BY Tokens DEF NoEntry, Entry, FullEntry, Generation

LEMMA IdleType ==
    /\ Idle \in Loc
    /\ Idle.joined = Nobody /\ Idle.entry = NoEntry /\ Idle.exch = 0
    /\ Idle.at = 0 /\ Idle.rt = 0 /\ Idle.answer = "none"
  BY EntryTypes, Tokens DEF Idle, Loc, Answer, Caller

LEMMA LocTypes ==
    ASSUME NEW l \in Loc
    PROVE  /\ l.entry \in Entry /\ l.exch \in OptToken /\ l.at \in OptToken
           /\ l.rt \in OptToken /\ l.answer \in Answer
           /\ l.joined \in Caller \cup {Nobody}
  BY DEF Loc

\* An account keeps valid tokens when some are installed on it.
LEMMA WithType ==
    ASSUME NEW a \in Account, NEW rt \in OptToken, NEW at \in OptToken
    PROVE  /\ With(a, rt, at) \in Account
           /\ With(a, rt, at).rt = (IF rt # 0 THEN rt ELSE a.rt)
           /\ With(a, rt, at).at = (IF at # 0 THEN at ELSE a.at)
  BY Tokens DEF With, Account

\* Only the caller p moves.
LEMMA SingleMoves ==
    ASSUME Typed, NEW p \in Proc, NEW c \in Label, NEW l \in Loc, NEW a \in Account,
           pc' = [pc EXCEPT ![p] = c] \/ (pc' = pc /\ c = pc[p]),
           loc' = [loc EXCEPT ![p] = l] \/ (loc' = loc /\ l = loc[p]),
           acct' = [acct EXCEPT ![p] = a] \/ (acct' = acct /\ a = acct[p])
    PROVE  Moves(p) /\ pc'[p] = c /\ loc'[p] = l /\ acct'[p] = a
<1>1. /\ pc \in [Proc -> Label] /\ loc \in [Proc -> Loc] /\ acct \in [Proc -> Account]
  BY DEF Typed
<1>2. pc' \in [Proc -> Label] /\ pc'[p] = c /\ \A q \in Proc \ {p} : pc'[q] = pc[q]
  BY <1>1
<1>3. loc' \in [Proc -> Loc] /\ loc'[p] = l /\ \A q \in Proc \ {p} : loc'[q] = loc[q]
  BY <1>1
<1>4. acct' \in [Proc -> Account] /\ acct'[p] = a /\ \A q \in Proc \ {p} : acct'[q] = acct[q]
  BY <1>1
<1> QED BY <1>2, <1>3, <1>4 DEF Moves, Stays

\* The refresh of p ends well, for p and for those who wait for it.
LEMMA ResolveMoves ==
    ASSUME Typed, NEW p \in Proc, NEW a \in Account, NEW at \in Token,
           pc[p] # "join", Resolve(p, a, at)
    PROVE  /\ Moves(p) /\ pc'[p] = "idle" /\ loc'[p] = Idle /\ acct'[p] = a
           /\ \A q \in Proc \ {p} : inFlight = q => inFlight' = q
           /\ inFlight' \in {inFlight, Nobody}
<1> DEFINE synced == {q \in Joiners(p) : recent' = at}
           behind == {q \in Joiners(p) : recent' # at /\ acct[q].at # at}
           done == ({p} \cup Joiners(p)) \ behind
<1>1. /\ pc \in [Proc -> Label] /\ loc \in [Proc -> Loc] /\ acct \in [Proc -> Account]
  BY DEF Typed
<1>2. p \notin Joiners(p) /\ Joiners(p) \subseteq Proc
  BY DEF Joiners
<1>3. /\ acct' = [q \in Proc |-> IF q = p THEN a
                                ELSE IF q \in synced THEN With(acct[q], 0, at)
                                ELSE acct[q]]
      /\ pc' = [q \in Proc |-> IF q \in done THEN "idle"
                              ELSE IF q \in behind THEN "adopt" ELSE pc[q]]
      /\ loc' = [q \in Proc |-> IF q \in done THEN Idle
                               ELSE IF q \in behind THEN [Idle EXCEPT !.at = at]
                               ELSE loc[q]]
      /\ inFlight' = IF inFlight = p THEN Nobody ELSE inFlight
  BY DEF Resolve, Deregister
<1>4. p \in done /\ p \notin behind
  BY <1>2
<1>5. [Idle EXCEPT !.at = at] \in Loc /\ [Idle EXCEPT !.at = at].at = at
  BY IdleType, Tokens DEF Loc
<1>6. \A q \in Proc : With(acct[q], 0, at) \in Account /\ With(acct[q], 0, at).rt = acct[q].rt
  BY <1>1, Tokens, WithType
<1> HIDE DEF synced, behind, done
<1>7. pc' \in [Proc -> Label]
  BY <1>1, <1>3 DEF Label
<1>8. loc' \in [Proc -> Loc]
  BY <1>1, <1>3, <1>5, IdleType
<1>9. acct' \in [Proc -> Account]
  BY <1>1, <1>3, <1>6
<1>10. ASSUME NEW q \in Proc \ {p} PROVE Stays(q)
  <2>1. acct'[q].rt = acct[q].rt
    BY <1>3, <1>6
  <2>2. \/ pc'[q] = pc[q] /\ loc'[q] = loc[q]
        \/ pc[q] = "join" /\ pc'[q] = "idle"
        \/ pc[q] = "join" /\ pc'[q] = "adopt" /\ loc'[q].at \in Token
    <3>1. q \in done \cup behind => pc[q] = "join"
      BY DEF done, behind, Joiners
    <3> QED BY <1>3, <1>5, <3>1
  <2> QED BY <2>1, <2>2 DEF Stays
<1>11. pc'[p] = "idle" /\ loc'[p] = Idle /\ acct'[p] = a
  BY <1>3, <1>4
<1> QED BY <1>3, <1>7, <1>8, <1>9, <1>10, <1>11 DEF Moves

\* The refresh of p fails.
LEMMA RejectMoves ==
    ASSUME Typed, NEW p \in Proc, NEW c \in Label, NEW l \in Loc,
           Reject(p, c, l), acct' = acct
    PROVE  /\ Moves(p) /\ pc'[p] = c /\ loc'[p] = l /\ acct'[p] = acct[p]
           /\ \A q \in Proc \ {p} : inFlight = q => inFlight' = q
           /\ inFlight' \in {inFlight, Nobody}
<1>1. /\ pc \in [Proc -> Label] /\ loc \in [Proc -> Loc] /\ acct \in [Proc -> Account]
  BY DEF Typed
<1>2. /\ pc' = [q \in Proc |-> IF q = p THEN c
                              ELSE IF q \in Joiners(p) THEN "idle" ELSE pc[q]]
      /\ loc' = [q \in Proc |-> IF q = p THEN l
                               ELSE IF q \in Joiners(p) THEN Idle ELSE loc[q]]
      /\ inFlight' = IF inFlight = p THEN Nobody ELSE inFlight
  BY DEF Reject, Deregister
<1>3. pc' \in [Proc -> Label] /\ pc'[p] = c
  BY <1>1, <1>2 DEF Label
<1>4. loc' \in [Proc -> Loc] /\ loc'[p] = l
  BY <1>1, <1>2, IdleType
<1>5. ASSUME NEW q \in Proc \ {p} PROVE Stays(q)
  BY <1>2 DEF Stays, Joiners
<1> QED BY <1>1, <1>2, <1>3, <1>4, <1>5 DEF Moves

-----------------------------------------------------------------------------
(* The registry and the row *)

LEMMA RecordedEffect ==
    ASSUME Shared, NEW at \in Token, NEW rt \in OptToken, NEW anchor \in Token
    PROVE  /\ Recorded(at, rt, anchor) \in FullEntry
           /\ Recorded(at, rt, anchor).at = at /\ Recorded(at, rt, anchor).rt = rt
           /\ Recorded(at, rt, anchor).anchor =
                 IF pending # NoEntry THEN pending.anchor ELSE anchor
<1> DEFINE a == IF pending # NoEntry THEN pending.anchor ELSE anchor
<1>1. a \in Token /\ a # 0
  BY EntryTypes, Tokens DEF Shared
<1>2. Recorded(at, rt, anchor) = [at |-> at, rt |-> rt, anchor |-> a]
  BY <1>1 DEF Recorded
<1> HIDE DEF a
<1>3. Recorded(at, rt, anchor) \in FullEntry /\ Recorded(at, rt, anchor).anchor = a
  BY <1>1, <1>2 DEF FullEntry
<1> QED BY <1>2, <1>3 DEF a

LEMMA ClearedEffect ==
    ASSUME Shared, NEW e
    PROVE  /\ ClearedIfCurrent(e) \in {pending, NoEntry}
           /\ ClearedIfCurrent(e) \in FullEntry \cup {NoEntry}
  BY DEF ClearedIfCurrent, Shared

LEMMA ResolvedEffect ==
    ASSUME Shared, NEW e, NEW w \in OptToken
    PROVE  LET n == ResolvedAfterPersist(e, w)
           IN /\ n \in FullEntry \cup {NoEntry}
              /\ n # NoEntry =>
                    /\ pending # NoEntry /\ pending # e
                    /\ n.at = pending.at /\ n.rt = pending.rt
                    /\ n.anchor = IF w # 0 THEN w ELSE pending.anchor
<1>1. CASE pending = NoEntry \/ pending = e
  BY <1>1 DEF ResolvedAfterPersist
<1>2. CASE ~(pending = NoEntry \/ pending = e) /\ w # 0
  <2>1. pending \in FullEntry /\ w \in Token
    BY <1>2, Tokens DEF Shared
  <2>2. ResolvedAfterPersist(e, w) = [pending EXCEPT !.anchor = w]
    BY <1>2 DEF ResolvedAfterPersist
  <2>3. LET n == [pending EXCEPT !.anchor = w]
        IN n \in FullEntry /\ n.at = pending.at /\ n.rt = pending.rt /\ n.anchor = w
    BY <2>1 DEF FullEntry
  <2> QED BY <1>2, <2>2, <2>3
<1>3. CASE ~(pending = NoEntry \/ pending = e) /\ w = 0
  BY <1>3 DEF ResolvedAfterPersist, Shared
<1> QED BY <1>1, <1>2, <1>3

Row == [rt : Token, at : Token, paused : BOOLEAN]

LEMMA UpdateEffect ==
    ASSUME Shared, NEW at \in Token, NEW rt \in OptToken, NEW x,
           UpdateTokens(at, rt, x)
    PROVE  /\ row.rt = x /\ row' \in Row /\ dbFailures' = dbFailures
           /\ row'.rt = (IF rt # 0 THEN rt ELSE row.rt)
           /\ row'.at = at /\ row'.paused = row.paused
<1> DEFINE t == IF rt # 0 THEN rt ELSE row.rt
<1>1. row \in Row
  BY DEF Shared, Row
<1>2. t \in Token
  BY <1>1, Tokens DEF Row
<1>3. row' = [row EXCEPT !.at = at, !.rt = t] /\ row.rt = x /\ dbFailures' = dbFailures
  BY DEF UpdateTokens
<1> HIDE DEF t
<1>4. row' \in Row /\ row'.rt = t /\ row'.at = at /\ row'.paused = row.paused
  BY <1>1, <1>2, <1>3 DEF Row
<1> QED BY <1>3, <1>4 DEF t

LEMMA DbFailsEffect ==
    ASSUME Shared, DbFails
    PROVE  row' = row /\ dbFailures' \in 0..MaxDbFailures /\ dbFailures' = dbFailures + 1
  BY BoundsAreNat DEF DbFails, Shared

\* What RefreshWith does: p joins, takes a token over, or starts an exchange.
Refreshed(p, a) ==
    /\ Moves(p)
    /\ acct'[p].rt = a.rt
    /\ \/ /\ pc'[p] \in {"join", "idle"} /\ inFlight' = inFlight
       \/ /\ pc'[p] = "exchange" /\ loc'[p].exch = a.rt /\ inFlight = Nobody
          /\ inFlight' = p

LEMMA RefreshMoves ==
    ASSUME Typed, NEW p \in Proc, NEW a \in Account, RefreshWith(p, a)
    PROVE  Refreshed(p, a)
<1>0. /\ inFlight \in Caller \cup {Nobody} /\ recent \in OptToken
      /\ a.rt \in OptToken
  BY Tokens DEF Typed, Shared, Account
<1>1. CASE /\ Goto(p, "join") /\ Set(p, [Idle EXCEPT !.joined = inFlight])
           /\ Install(p, a) /\ UNCHANGED inFlight
  <2> DEFINE l == [Idle EXCEPT !.joined = inFlight]
             c == "join"
  <2>1. l \in Loc /\ c \in Label
    BY <1>0, IdleType DEF Loc, Label
  <2>2. /\ pc' = [pc EXCEPT ![p] = c] /\ loc' = [loc EXCEPT ![p] = l]
        /\ acct' = [acct EXCEPT ![p] = a] /\ inFlight' = inFlight
    BY <1>1 DEF Goto, Set, Install
  <2> HIDE DEF l, c
  <2>3. Moves(p) /\ pc'[p] = c /\ acct'[p] = a
    BY <2>1, <2>2, SingleMoves
  <2> QED BY <2>2, <2>3 DEF Refreshed, c
<1>2. CASE Install(p, With(a, 0, recent)) /\ Return(p) /\ UNCHANGED inFlight
  <2> DEFINE b == With(a, 0, recent)
             c == "idle"
  <2>1. b \in Account /\ b.rt = a.rt /\ c \in Label
    BY <1>0, WithType, Tokens DEF Label
  <2>2. /\ pc' = [pc EXCEPT ![p] = c] /\ loc' = [loc EXCEPT ![p] = Idle]
        /\ acct' = [acct EXCEPT ![p] = b] /\ inFlight' = inFlight
    BY <1>2 DEF Return, Goto, Set, Install
  <2> HIDE DEF b, c
  <2>3. Moves(p) /\ pc'[p] = c /\ acct'[p] = b
    BY <2>1, <2>2, IdleType, SingleMoves
  <2> QED BY <2>1, <2>2, <2>3 DEF Refreshed, c
<1>3. CASE inFlight = Nobody /\ Install(p, a) /\ StartExchange(p, a.rt)
  <2> DEFINE l == [Idle EXCEPT !.exch = a.rt]
             c == "exchange"
  <2>1. l \in Loc /\ c \in Label /\ l.exch = a.rt
    BY <1>0, IdleType DEF Loc, Label
  <2>2. /\ pc' = [pc EXCEPT ![p] = c] /\ loc' = [loc EXCEPT ![p] = l]
        /\ acct' = [acct EXCEPT ![p] = a] /\ inFlight' = p
    BY <1>3 DEF StartExchange, Goto, Set, Install
  <2> HIDE DEF l, c
  <2>3. Moves(p) /\ pc'[p] = c /\ acct'[p] = a /\ loc'[p] = l
    BY <2>1, <2>2, SingleMoves
  <2> QED BY <1>3, <2>1, <2>2, <2>3 DEF Refreshed, c
<1> QED BY <1>1, <1>2, <1>3 DEF RefreshWith

\* The types of all callers after p has moved.
LEMMA TypedMoves ==
    ASSUME Typed, NEW p \in Proc, Moves(p), Shared', Placed(p, pc[p], loc[p])'
    PROVE  Typed'
<1>1. ASSUME NEW q \in Proc \ {p} PROVE Placed(q, pc[q], loc[q])'
  <2>1. CASE pc'[q] = pc[q] /\ loc'[q] = loc[q]
    BY <2>1 DEF Typed, Placed
  <2>2. CASE pc'[q] = "idle"
    BY <2>2 DEF Placed, Flying
  <2>3. CASE pc'[q] = "adopt" /\ loc'[q].at \in Token
    BY <2>3 DEF Placed, Flying
  <2> QED BY <2>1, <2>2, <2>3 DEF Moves, Stays
<1> QED BY <1>1 DEF Typed, Moves

\* A call that starts, joins or ends leaves nothing to be checked.
LEMMA PlacedAnywhere ==
    ASSUME NEW p, NEW l, NEW c \in {"idle", "selected", "join", "pause"}
    PROVE  Placed(p, c, l)
  BY DEF Placed, Flying

LEMMA PlacedRefreshed ==
    ASSUME NEW p \in Request, NEW a \in Account, Refreshed(p, a)
    PROVE  Placed(p, pc[p], loc[p])'
<1>1. CASE pc'[p] \in {"join", "idle"}
  BY <1>1 DEF Placed, Flying
<1>2. CASE pc'[p] = "exchange" /\ loc'[p].exch = a.rt
  BY <1>2 DEF Placed, Flying, Caller, Account
<1> QED BY <1>1, <1>2 DEF Refreshed

LEMMA ProcTypes ==
    ASSUME Typed, NEW p \in Proc
    PROVE  /\ pc[p] \in Label /\ loc[p] \in Loc /\ acct[p] \in Account
           /\ Placed(p, pc[p], loc[p])
           /\ acct[p].rt \in Token /\ acct[p].at \in Token
           /\ row.rt \in Token /\ row.at \in Token /\ row \in Row
           /\ [rt |-> row.rt, at |-> row.at] \in Account
  BY DEF Typed, Shared, Account, Row

\* The forms in which the actions say that p moves.
LEMMA GoesMoves ==
    ASSUME Typed, NEW p \in Proc, NEW c \in Label, NEW l \in Loc,
           Goto(p, c), Set(p, l), acct' = acct
    PROVE  Moves(p) /\ pc'[p] = c /\ loc'[p] = l /\ acct'[p] = acct[p]
<1>1. acct[p] \in Account
  BY ProcTypes
<1>2. pc' = [pc EXCEPT ![p] = c] /\ loc' = [loc EXCEPT ![p] = l]
  BY DEF Goto, Set
<1> QED BY <1>1, <1>2, SingleMoves

LEMMA InstallMoves ==
    ASSUME Typed, NEW p \in Proc, NEW c \in Label, NEW a \in Account, Install(p, a),
           Goto(p, c) \/ (pc' = pc /\ c = pc[p]), loc' = loc
    PROVE  Moves(p) /\ pc'[p] = c /\ loc'[p] = loc[p] /\ acct'[p] = a
<1>1. loc[p] \in Loc
  BY ProcTypes
<1>2. /\ pc' = [pc EXCEPT ![p] = c] \/ (pc' = pc /\ c = pc[p])
      /\ acct' = [acct EXCEPT ![p] = a]
  BY DEF Goto, Install
<1>3. CASE pc' = [pc EXCEPT ![p] = c]
  BY <1>1, <1>2, <1>3, SingleMoves
<1>4. CASE pc' = pc /\ c = pc[p]
  BY <1>1, <1>2, <1>4, SingleMoves
<1> QED BY <1>2, <1>3, <1>4

LEMMA GotoMoves ==
    ASSUME Typed, NEW p \in Proc, NEW c \in Label, Goto(p, c), loc' = loc, acct' = acct
    PROVE  Moves(p) /\ pc'[p] = c /\ loc'[p] = loc[p] /\ acct'[p] = acct[p]
<1>1. loc[p] \in Loc /\ acct[p] \in Account
  BY ProcTypes
<1>2. pc' = [pc EXCEPT ![p] = c]
  BY DEF Goto
<1> QED BY <1>1, <1>2, SingleMoves

LEMMA ReturnMoves ==
    ASSUME Typed, NEW p \in Proc, NEW a \in Account, Return(p),
           Install(p, a) \/ (acct' = acct /\ a = acct[p])
    PROVE  Moves(p) /\ pc'[p] = "idle" /\ loc'[p] = Idle /\ acct'[p] = a
<1> DEFINE c == "idle"
<1>1. c \in Label
  BY DEF Label
<1>2. /\ pc' = [pc EXCEPT ![p] = c] /\ loc' = [loc EXCEPT ![p] = Idle]
      /\ acct' = [acct EXCEPT ![p] = a] \/ (acct' = acct /\ a = acct[p])
  BY DEF Return, Goto, Set, Install
<1> HIDE DEF c
<1>3. Moves(p) /\ pc'[p] = c /\ loc'[p] = Idle /\ acct'[p] = a
  BY <1>1, <1>2, IdleType, SingleMoves
<1> QED BY <1>3 DEF c

-----------------------------------------------------------------------------
(* The steps of the callers *)

\* Only p moves; afterwards it is outside of a refresh, or starts one while
\* nobody else is in one.
Continues(p) ==
    /\ Moves(p)
    /\ \A q \in Proc \ {p} : inFlight = q => inFlight' = q
    /\ \/ pc'[p] \in {"idle", "selected", "join", "reread", "pause", "adopt"}
       \/ /\ pc'[p] = "exchange" /\ inFlight = Nobody /\ inFlight' = p
          /\ loc'[p].exch = acct'[p].rt

\* A call that is to pause the account has had its exchange refused.
Refused(p) ==
    pc'[p] = "pause" =>
       /\ pc[p] = "answered" /\ loc[p].answer = "invalid_grant"
       /\ loc'[p].rt = IF pending # NoEntry THEN pending.anchor ELSE loc[p].exch

\* A step of p that writes no token: the row's stays, and nothing new gets into
\* the registry.
Quiet(p) ==
    /\ Continues(p)
    /\ pending' \in {pending, NoEntry} /\ row'.rt = row.rt
    /\ UNCHANGED <<reauth, minted, live, head, stale, excused>>
    /\ acct'[p].rt \in {acct[p].rt, row.rt, pending.rt}
    /\ Refused(p)
    /\ row'.paused /\ ~row.paused => pc[p] = "pause" /\ row.rt = loc[p].rt

LEMMA NobodyElse ==
    ASSUME NEW p, inFlight = Nobody
    PROVE  \A q \in Proc \ {p} : inFlight # q
  BY RolesDistinct DEF Proc

LEMMA RefreshContinues ==
    ASSUME Typed, NEW p \in Request, NEW a \in Account, RefreshWith(p, a)
    PROVE  /\ Continues(p) /\ Placed(p, pc[p], loc[p])' /\ acct'[p].rt = a.rt
           /\ inFlight' \in Caller \cup {Nobody} /\ pc'[p] # "pause"
<1>1. p \in Proc /\ p \in Caller /\ inFlight \in Caller \cup {Nobody}
  BY DEF Proc, Caller, Typed, Shared
<1>2. Refreshed(p, a)
  BY <1>1, RefreshMoves
<1>3. Continues(p) /\ inFlight' \in Caller \cup {Nobody}
  BY <1>1, <1>2, NobodyElse DEF Refreshed, Continues
<1> QED BY <1>2, <1>3, PlacedRefreshed DEF Refreshed

LEMMA SelectStep ==
    ASSUME Typed, NEW p \in Proc, Select(p)
    PROVE  Typed' /\ Quiet(p)
<1> DEFINE a == [rt |-> row.rt, at |-> row.at]
           c == IF p \in Proactive THEN "selected" ELSE "idle"
<1>1. a \in Account /\ a.rt = row.rt
  BY ProcTypes
<1>2. c \in Label /\ c \in {"idle", "selected"}
  BY DEF Label
<1>3. Install(p, a) /\ Goto(p, c) /\ loc' = loc
  BY DEF Select
<1>4. /\ UNCHANGED <<row, pending, inFlight, recent, backoff, reauth, minted, live, head,
                     stale, excused, dbFailures, crashes>>
  BY DEF Select, memVars, provVars, faultVars
<1> HIDE DEF a, c
<1>5. Moves(p) /\ pc'[p] = c /\ acct'[p] = a
  BY <1>1, <1>2, <1>3, InstallMoves
<1>6. Placed(p, pc[p], loc[p])'
  BY <1>2, <1>5, PlacedAnywhere
<1>7. Shared'
  BY <1>4 DEF Typed, Shared
<1> QED BY <1>1, <1>2, <1>4, <1>5, <1>6, <1>7, TypedMoves DEF Quiet, Continues, Refused

LEMMA StartJoinStep ==
    ASSUME Typed, NEW p \in Proc, StartJoin(p)
    PROVE  Typed' /\ Quiet(p)
<1>1. /\ UNCHANGED <<row, pending, inFlight, recent, backoff, reauth, minted, live, head,
                     stale, excused, dbFailures, crashes>>
  BY DEF StartJoin, memVars, provVars, faultVars
<1>2. Shared' /\ inFlight \in Caller \cup {Nobody} /\ recent \in OptToken
  BY <1>1 DEF Typed, Shared
<1>3. ASSUME Goto(p, "join"), Set(p, [Idle EXCEPT !.joined = inFlight]), UNCHANGED acct
      PROVE  Typed' /\ Quiet(p)
  <2> DEFINE l == [Idle EXCEPT !.joined = inFlight]
             c == "join"
  <2>1. l \in Loc /\ c \in Label
    BY <1>2, IdleType DEF Loc, Label
  <2>2. Goto(p, c) /\ Set(p, l)
    BY <1>3
  <2> HIDE DEF l, c
  <2>3. Moves(p) /\ pc'[p] = c /\ acct'[p] = acct[p]
    BY <1>3, <2>1, <2>2, GoesMoves
  <2>4. c = "join"
    BY DEF c
  <2>5. Placed(p, pc[p], loc[p])'
    BY <2>3, <2>4, PlacedAnywhere
  <2> QED BY <1>1, <1>2, <2>3, <2>4, <2>5, TypedMoves DEF Quiet, Continues, Refused
<1>4. ASSUME pc[p] = "idle", Install(p, With(acct[p], 0, recent)), UNCHANGED <<pc, loc>>
      PROVE  Typed' /\ Quiet(p)
  <2> DEFINE a == With(acct[p], 0, recent)
  <2>1. a \in Account /\ a.rt = acct[p].rt /\ pc[p] \in Label
    BY <1>2, ProcTypes, WithType, Tokens
  <2>2. Install(p, a)
    BY <1>4
  <2> HIDE DEF a
  <2>3. Moves(p) /\ pc'[p] = pc[p] /\ acct'[p] = a
    BY <1>4, <2>1, <2>2, InstallMoves
  <2>4. Placed(p, pc[p], loc[p])'
    BY <1>4, <2>3, PlacedAnywhere
  <2> QED BY <1>1, <1>2, <1>4, <2>1, <2>3, <2>4, TypedMoves DEF Quiet, Continues, Refused
<1> QED BY <1>3, <1>4 DEF StartJoin

LEMMA BackoffRecoverStep ==
    ASSUME Typed, NEW p \in Proc, BackoffRecover(p)
    PROVE  Typed' /\ Quiet(p)
<1> DEFINE a == [rt |-> row.rt, at |-> row.at]
<1>1. a \in Account /\ a.rt = row.rt /\ pc[p] \in Label
  BY ProcTypes
<1>2. Install(p, a) /\ pc' = pc /\ loc' = loc /\ pc[p] = "idle" /\ backoff' = FALSE
  BY DEF BackoffRecover
<1>3. /\ UNCHANGED <<row, pending, inFlight, recent, reauth, minted, live, head,
                     stale, excused, dbFailures, crashes>>
  BY DEF BackoffRecover, provVars, faultVars
<1> HIDE DEF a
<1>4. Moves(p) /\ pc'[p] = pc[p] /\ acct'[p] = a
  BY <1>1, <1>2, InstallMoves
<1>5. Placed(p, pc[p], loc[p])'
  BY <1>2, <1>4, PlacedAnywhere
<1>6. Shared'
  BY <1>2, <1>3 DEF Typed, Shared
<1> QED BY <1>1, <1>2, <1>3, <1>4, <1>5, <1>6, TypedMoves DEF Quiet, Continues, Refused

LEMMA StartRereadStep ==
    ASSUME Typed, NEW p \in Proc, StartReread(p)
    PROVE  Typed' /\ Quiet(p)
<1> DEFINE c == "reread"
<1>1. c \in Label
  BY DEF Label
<1>2. Goto(p, c) /\ loc' = loc /\ acct' = acct /\ p \in Request
  BY DEF StartReread
<1>3. /\ UNCHANGED <<row, pending, inFlight, recent, backoff, reauth, minted, live, head,
                     stale, excused, dbFailures, crashes>>
  BY DEF StartReread, memVars, provVars, faultVars
<1> HIDE DEF c
<1>4. Moves(p) /\ pc'[p] = c /\ acct'[p] = acct[p]
  BY <1>1, <1>2, GotoMoves
<1>5. pc'[p] = "reread"
  BY <1>4 DEF c
<1>6. Placed(p, pc[p], loc[p])'
  BY <1>2, <1>5 DEF Placed, Flying
<1>7. Shared'
  BY <1>3 DEF Typed, Shared
<1> QED BY <1>3, <1>4, <1>5, <1>6, <1>7, TypedMoves DEF Quiet, Continues, Refused

LEMMA SkipProactiveStep ==
    ASSUME Typed, NEW p \in Proc, SkipProactive(p)
    PROVE  Typed' /\ Quiet(p)
<1>1. Return(p) /\ acct' = acct
  BY DEF SkipProactive
<1>2. /\ UNCHANGED <<row, pending, inFlight, recent, backoff, reauth, minted, live, head,
                     stale, excused, dbFailures, crashes>>
  BY DEF SkipProactive, memVars, provVars, faultVars
<1>3. Moves(p) /\ pc'[p] = "idle" /\ acct'[p] = acct[p]
  BY <1>1, ProcTypes, ReturnMoves
<1>4. Placed(p, pc[p], loc[p])'
  BY <1>3, PlacedAnywhere
<1>5. Shared'
  BY <1>2 DEF Typed, Shared
<1> QED BY <1>2, <1>3, <1>4, <1>5, TypedMoves DEF Quiet, Continues, Refused

LEMMA StartProactiveStep ==
    ASSUME Typed, NEW p \in Proc, StartProactive(p)
    PROVE  Typed' /\ Quiet(p)
<1> DEFINE l == [Idle EXCEPT !.exch = acct[p].rt]
           c == "exchange"
<1>1. acct[p].rt \in Token /\ acct[p].rt \in OptToken
  BY ProcTypes, Tokens
<1>2. l \in Loc /\ c \in Label /\ l.exch = acct[p].rt
  BY <1>1, IdleType DEF Loc, Label
<1>3. /\ Goto(p, c) /\ Set(p, l) /\ acct' = acct /\ inFlight' = p /\ inFlight = Nobody
      /\ p \in Proactive
  BY DEF StartProactive, StartExchange
<1>4. /\ UNCHANGED <<row, pending, recent, backoff, reauth, minted, live, head,
                     stale, excused, dbFailures, crashes>>
  BY DEF StartProactive, provVars, faultVars
<1> HIDE DEF l, c
<1>5. Moves(p) /\ pc'[p] = c /\ loc'[p] = l /\ acct'[p] = acct[p]
  BY <1>2, <1>3, GoesMoves
<1>6. c = "exchange"
  BY DEF c
<1>7. Placed(p, pc[p], loc[p])'
  BY <1>1, <1>2, <1>3, <1>5, <1>6 DEF Placed, Flying, Caller
<1>8. Shared'
  BY <1>3, <1>4 DEF Typed, Shared, Caller
<1>9. \A q \in Proc \ {p} : inFlight # q
  BY <1>3, RolesDistinct DEF Proc
<1> QED BY <1>2, <1>3, <1>4, <1>5, <1>6, <1>7, <1>8, <1>9, TypedMoves DEF Quiet, Continues, Refused

LEMMA RereadStep ==
    ASSUME Typed, NEW p \in Proc, Reread(p)
    PROVE  Typed' /\ Quiet(p)
<1>1. /\ UNCHANGED <<pending, recent, reauth, minted, live, head, stale, excused, crashes>>
      /\ pc[p] = "reread"
  BY DEF Reread, provVars
<1>2. p \in Request
  BY <1>1, ProcTypes DEF Placed
<1>3. /\ acct[p] \in Account /\ acct[p].rt \in Token /\ row.rt \in Token /\ row.at \in Token
      /\ NotOlder(p) \in {row.rt, acct[p].rt} /\ NotOlder(p) \in Token
      /\ NotOlder(p) \in OptToken /\ NotOlder(p) # 0 /\ 0 \in OptToken
  BY ProcTypes, Tokens DEF NotOlder
<1>4. ASSUME DbReads, Install(p, [rt |-> NotOlder(p), at |-> row.at]), backoff' = FALSE,
             Return(p), UNCHANGED inFlight
      PROVE  Typed' /\ Quiet(p)
  <2> DEFINE a == [rt |-> NotOlder(p), at |-> row.at]
  <2>1. a \in Account /\ a.rt = NotOlder(p)
    BY <1>3 DEF Account
  <2>2. Install(p, a)
    BY <1>4
  <2> HIDE DEF a
  <2>3. Moves(p) /\ pc'[p] = "idle" /\ acct'[p] = a
    BY <1>4, <2>1, <2>2, ReturnMoves
  <2>4. Placed(p, pc[p], loc[p])'
    BY <2>3, PlacedAnywhere
  <2>5. Shared'
    BY <1>1, <1>4 DEF Typed, Shared, DbReads
  <2> QED BY <1>1, <1>3, <1>4, <2>1, <2>3, <2>4, <2>5, TypedMoves DEF Quiet, Continues, Refused, DbReads
<1>5. ASSUME NEW a \in Account, a.rt \in {row.rt, acct[p].rt}, DbReads \/ DbFails,
             RefreshWith(p, a), UNCHANGED backoff
      PROVE  Typed' /\ Quiet(p)
  <2>1. /\ Continues(p) /\ Placed(p, pc[p], loc[p])' /\ acct'[p].rt = a.rt
        /\ inFlight' \in Caller \cup {Nobody} /\ pc'[p] # "pause"
    BY <1>2, <1>5, RefreshContinues
  <2>2. row' = row /\ dbFailures' \in 0..MaxDbFailures
    BY <1>5, DbFailsEffect DEF DbReads, Typed, Shared
  <2>3. Shared'
    BY <1>1, <1>5, <2>1, <2>2 DEF Typed, Shared
  <2> QED BY <1>1, <1>5, <2>1, <2>2, <2>3, TypedMoves DEF Quiet, Continues, Refused
<1>6. With(acct[p], NotOlder(p), 0) \in Account /\ With(acct[p], NotOlder(p), 0).rt = NotOlder(p)
  BY <1>3, WithType
<1> QED BY <1>3, <1>4, <1>5, <1>6 DEF Reread

LEMMA AdoptStep ==
    ASSUME Typed, NEW p \in Proc, Adopt(p)
    PROVE  Typed' /\ Quiet(p)
<1>1. /\ UNCHANGED <<pending, recent, backoff, reauth, minted, live, head, stale, excused,
                     crashes>>
      /\ pc[p] = "adopt" /\ pc[p] # "join"
  BY DEF Adopt, provVars
<1>2. /\ loc[p].at \in Token /\ row.at \in Token /\ row.rt \in Token
      /\ acct[p] \in Account /\ 0 \in OptToken /\ loc[p].at \in OptToken
  BY <1>1, ProcTypes, Tokens DEF Placed
<1>3. ASSUME NEW a \in Account, a.rt \in {row.rt, acct[p].rt}, NEW at \in Token,
             DbReads \/ DbFails, Resolve(p, a, at)
      PROVE  Typed' /\ Quiet(p)
  <2>1. /\ Moves(p) /\ pc'[p] = "idle" /\ acct'[p] = a
        /\ \A q \in Proc \ {p} : inFlight = q => inFlight' = q
        /\ inFlight' \in {inFlight, Nobody}
    BY <1>1, <1>3, ResolveMoves
  <2>2. row' = row /\ dbFailures' \in 0..MaxDbFailures
    BY <1>3, DbFailsEffect DEF DbReads, Typed, Shared
  <2>3. Shared'
    BY <1>1, <2>1, <2>2 DEF Typed, Shared
  <2>4. Placed(p, pc[p], loc[p])'
    BY <2>1, PlacedAnywhere
  <2> QED BY <1>1, <1>3, <2>1, <2>2, <2>3, <2>4, TypedMoves DEF Quiet, Continues, Refused
<1>4. /\ [rt |-> row.rt, at |-> row.at] \in Account
      /\ [rt |-> row.rt, at |-> loc[p].at] \in Account
      /\ With(acct[p], 0, loc[p].at) \in Account
      /\ With(acct[p], 0, loc[p].at).rt = acct[p].rt
  BY <1>2, WithType DEF Account
<1>5. CASE DbReads /\ Resolve(p, [rt |-> row.rt, at |-> row.at], row.at)
  BY <1>2, <1>3, <1>4, <1>5
<1>6. CASE DbReads /\ Resolve(p, [rt |-> row.rt, at |-> loc[p].at], loc[p].at)
  BY <1>2, <1>3, <1>4, <1>6
<1>7. CASE DbFails /\ Resolve(p, With(acct[p], 0, loc[p].at), loc[p].at)
  BY <1>2, <1>3, <1>4, <1>7
<1> QED BY <1>5, <1>6, <1>7 DEF Adopt

\* The refresh of p ends with an error.
LEMMA RejectQuiet ==
    ASSUME Typed, NEW p \in Proc, NEW c \in {"idle", "pause"}, NEW l \in Loc,
           Reject(p, c, l), UNCHANGED <<acct, reauth, minted, live, head, stale, excused>>,
           pending' \in {pending, NoEntry}, row'.rt = row.rt,
           row'.paused /\ ~row.paused => pc[p] = "pause" /\ row.rt = loc[p].rt,
           c = "pause" =>
              /\ pc[p] = "answered" /\ loc[p].answer = "invalid_grant"
              /\ l.rt = IF pending # NoEntry THEN pending.anchor ELSE loc[p].exch
    PROVE  Quiet(p) /\ Placed(p, pc[p], loc[p])' /\ inFlight' \in Caller \cup {Nobody}
<1>1. c \in Label
  BY DEF Label
<1>2. /\ Moves(p) /\ pc'[p] = c /\ loc'[p] = l /\ acct'[p] = acct[p]
      /\ \A q \in Proc \ {p} : inFlight = q => inFlight' = q
      /\ inFlight' \in {inFlight, Nobody}
  BY <1>1, RejectMoves
<1>3. Placed(p, pc[p], loc[p])'
  BY <1>2, PlacedAnywhere
<1>4. inFlight' \in Caller \cup {Nobody}
  BY <1>2 DEF Typed, Shared
<1> QED BY <1>2, <1>3, <1>4 DEF Quiet, Continues, Refused

LEMMA ErrorSteps ==
    ASSUME Typed, NEW p \in Proc, ExchangeError(p) \/ StaleReplay(p)
    PROVE  Typed' /\ Quiet(p)
<1>1. /\ Reject(p, "idle", Idle)
      /\ UNCHANGED <<row, pending, recent, acct, reauth, minted, live, head, stale, excused,
                     dbFailures, crashes>>
  BY DEF ExchangeError, StaleReplay, provVars, faultVars
<1>2. backoff' \in BOOLEAN
  BY DEF ExchangeError, StaleReplay, ForgetFailure
<1>3. Quiet(p) /\ Placed(p, pc[p], loc[p])' /\ inFlight' \in Caller \cup {Nobody}
  BY <1>1, IdleType, RejectQuiet
<1>4. Shared'
  BY <1>1, <1>2, <1>3 DEF Typed, Shared
<1> QED BY <1>3, <1>4, TypedMoves DEF Quiet, Continues, Refused

LEMMA GrantRefusedStep ==
    ASSUME Typed, NEW p \in Proc, GrantRefused(p)
    PROVE  Typed' /\ Quiet(p)
<1> DEFINE k == IF pending # NoEntry THEN pending.anchor ELSE loc[p].exch
           l == [loc[p] EXCEPT !.rt = k]
           c == "pause"
<1>1. loc[p] \in Loc /\ k \in OptToken
  BY ProcTypes, EntryTypes, Tokens, LocTypes DEF Typed, Shared
<1>2. l \in Loc /\ c \in {"idle", "pause"} /\ c \in Label /\ l.rt = k
  <2> HIDE DEF k
  <2> QED BY <1>1 DEF Loc, Label
<1>3. /\ pc[p] = "answered" /\ loc[p].answer = "invalid_grant"
      /\ UNCHANGED <<row, recent, acct, reauth, minted, live, head, stale, excused,
                     dbFailures, crashes>>
      /\ pending' = NoEntry
  BY DEF GrantRefused, provVars, faultVars
<1>4. backoff' \in BOOLEAN
  BY DEF GrantRefused
<1>5. \/ Goto(p, c) /\ Set(p, l) /\ UNCHANGED inFlight
      \/ Reject(p, c, l)
  BY DEF GrantRefused
<1> HIDE DEF k, l, c
<1>6. Quiet(p) /\ Placed(p, pc[p], loc[p])' /\ inFlight' \in Caller \cup {Nobody}
  <2>1. CASE Goto(p, c) /\ Set(p, l) /\ UNCHANGED inFlight
    <3>1. Moves(p) /\ pc'[p] = c /\ loc'[p] = l /\ acct'[p] = acct[p]
      BY <1>2, <1>3, <2>1, GoesMoves
    <3>2. Placed(p, pc[p], loc[p])'
      BY <1>2, <3>1, PlacedAnywhere
    <3>3. inFlight' \in Caller \cup {Nobody}
      BY <2>1 DEF Typed, Shared
    <3> QED BY <1>2, <1>3, <2>1, <3>1, <3>2, <3>3 DEF Quiet, Continues, Refused, k
  <2>2. CASE Reject(p, c, l)
    BY <1>2, <1>3, <2>2, RejectQuiet DEF k
  <2> QED BY <1>5, <2>1, <2>2
<1>7. Shared'
  BY <1>3, <1>4, <1>6 DEF Typed, Shared
<1> QED BY <1>6, <1>7, TypedMoves DEF Quiet, Continues, Refused

LEMMA PauseStep ==
    ASSUME Typed, NEW p \in Proc, PauseForReauth(p)
    PROVE  Typed' /\ Quiet(p)
<1>1. /\ UNCHANGED <<pending, acct, reauth, minted, live, head, stale, excused, crashes>>
      /\ Reject(p, "idle", Idle)
  BY DEF PauseForReauth, provVars
<1>2. row \in Row /\ recent \in OptToken /\ 0 \in OptToken
  BY Tokens DEF Typed, Shared, Row
<1>3. recent' \in OptToken
  BY <1>2 DEF PauseForReauth
<1>4. backoff' \in BOOLEAN
  BY DEF PauseForReauth, ForgetFailure, Typed, Shared
<1>5. dbFailures' \in 0..MaxDbFailures
  BY DbFailsEffect DEF PauseForReauth, DbReads, Typed, Shared
<1>6. row' = row \/ row' = [row EXCEPT !.paused = TRUE]
  BY DEF PauseForReauth, DbReads, DbFails
<1>7. row' \in Row /\ row'.rt = row.rt
  BY <1>2, <1>6 DEF Row
<1>10. row'.paused /\ ~row.paused => pc[p] = "pause" /\ row.rt = loc[p].rt
  BY DEF PauseForReauth, PauseMatches, DbReads, DbFails
<1>8. Quiet(p) /\ Placed(p, pc[p], loc[p])' /\ inFlight' \in Caller \cup {Nobody}
  BY <1>1, <1>7, <1>10, IdleType, RejectQuiet
<1>9. Shared'
  BY <1>1, <1>3, <1>4, <1>5, <1>7, <1>8 DEF Typed, Shared, Row
<1> QED BY <1>8, <1>9, TypedMoves DEF Quiet, Continues, Refused

\* The tokens of the provider and of the user's grants stay as they are.
Kept == UNCHANGED <<reauth, minted, live, head, stale, excused>>

\* p takes the entry out of the registry to write it.
TakesEntry(p) ==
    /\ Moves(p) /\ pc'[p] = "flush" /\ loc'[p].entry = pending /\ pending # NoEntry
    /\ acct'[p] = acct[p]
    /\ UNCHANGED <<row, pending, inFlight>> /\ Kept

LEMMA StartFlushStep ==
    ASSUME Typed, NEW p \in Proc, StartFlush(p)
    PROVE  Typed' /\ TakesEntry(p)
<1> DEFINE l == [Idle EXCEPT !.entry = pending]
           c == "flush"
<1>1. pending \in FullEntry /\ pending # NoEntry
  BY DEF StartFlush, Flushes, Typed, Shared
<1>2. l \in Loc /\ c \in Label /\ l.entry = pending
  BY <1>1, IdleType, EntryTypes DEF Loc, Label
<1>3. Goto(p, c) /\ Set(p, l) /\ acct' = acct
  BY DEF StartFlush
<1>4. /\ UNCHANGED <<row, pending, inFlight, recent, backoff, reauth, minted, live, head,
                     stale, excused, dbFailures, crashes>>
  BY DEF StartFlush, memVars, provVars, faultVars
<1> HIDE DEF l, c
<1>5. Moves(p) /\ pc'[p] = c /\ loc'[p] = l /\ acct'[p] = acct[p]
  BY <1>2, <1>3, GoesMoves
<1>6. c = "flush"
  BY DEF c
<1>7. Placed(p, pc[p], loc[p])'
  BY <1>1, <1>2, <1>5, <1>6 DEF Placed, Flying
<1>8. Shared'
  BY <1>4 DEF Typed, Shared
<1> QED BY <1>1, <1>2, <1>4, <1>5, <1>6, <1>7, <1>8, TypedMoves DEF TakesEntry, Kept

\* The registry after what was believed to be the anchor has become w in the row.
Reanchored(e, w) ==
    pending' # NoEntry =>
       /\ pending # NoEntry /\ pending # e
       /\ pending'.at = pending.at /\ pending'.rt = pending.rt
       /\ pending'.anchor = IF w # 0 THEN w ELSE pending.anchor

\* The write of an entry hits.
FlushHits(p) ==
    /\ Continues(p)
    /\ pc[p] = "flush"
    /\ row.rt = loc[p].entry.anchor /\ row'.rt = Generation(loc[p].entry)
    /\ row'.paused = row.paused /\ pc'[p] # "pause"
    /\ Reanchored(loc[p].entry, Generation(loc[p].entry))
    /\ acct'[p].rt \in {acct[p].rt, loc[p].entry.rt, pending'.rt}
    /\ Kept

LEMMA FlushOnlyStep ==
    ASSUME Typed, NEW p \in Proc, FlushOnly(p)
    PROVE  Typed' /\ (Quiet(p) \/ FlushHits(p))
<1> DEFINE e == loc[p].entry
<1>1. /\ pc[p] = "flush" /\ Return(p) /\ acct' = acct
      /\ UNCHANGED <<inFlight, recent, backoff, reauth, minted, live, head, stale, excused,
                     crashes>>
  BY DEF FlushOnly, provVars
<1>2. e \in FullEntry /\ Shared /\ pending \in FullEntry \cup {NoEntry}
  BY <1>1, ProcTypes DEF Placed, Typed, Shared
<1>3. /\ e.at \in Token /\ e.rt \in OptToken /\ Generation(e) \in Token
      /\ Generation(e) \in OptToken
  BY <1>2, EntryTypes, Tokens
<1>4. Moves(p) /\ pc'[p] = "idle" /\ acct'[p] = acct[p]
  BY <1>1, ProcTypes, ReturnMoves
<1>5. Placed(p, pc[p], loc[p])' /\ Continues(p)
  BY <1>1, <1>4, PlacedAnywhere DEF Continues
<1>6. CASE UpdateTokens(e.at, e.rt, e.anchor) /\ pending' = ResolvedAfterPersist(e, Generation(e))
  <2>1. /\ row.rt = e.anchor /\ row' \in Row /\ dbFailures' = dbFailures
        /\ row'.paused = row.paused
        /\ row'.rt = (IF e.rt # 0 THEN e.rt ELSE row.rt)
    BY <1>2, <1>3, <1>6, UpdateEffect
  <2>2. row'.rt = Generation(e)
    BY <2>1 DEF Generation
  <2>3. pending' \in FullEntry \cup {NoEntry} /\ Reanchored(e, Generation(e))
    BY <1>2, <1>3, <1>6, ResolvedEffect DEF Reanchored
  <2>4. Shared'
    BY <1>1, <2>1, <2>3 DEF Typed, Shared, Row
  <2> QED BY <1>1, <1>4, <1>5, <2>1, <2>2, <2>3, <2>4, TypedMoves DEF FlushHits, Kept
<1>7. CASE /\ UpdateMisses(e.anchor) \/ DbFails
           /\ pending' \in {ClearedIfCurrent(e), pending}
  <2>1. pending' \in {pending, NoEntry}
    BY <1>2, <1>7, ClearedEffect
  <2>2. row' = row /\ dbFailures' \in 0..MaxDbFailures
    BY <1>2, <1>7, DbFailsEffect DEF UpdateMisses, Shared
  <2>3. Shared'
    BY <1>1, <1>2, <2>1, <2>2 DEF Shared
  <2> QED BY <1>1, <1>4, <1>5, <2>1, <2>2, <2>3, TypedMoves DEF Quiet, Refused
<1> QED BY <1>6, <1>7 DEF FlushOnly

\* What a request goes on with after a flush: the tokens of an entry, if any.
Adopts(p, a) ==
    \/ Install(p, a) /\ Return(p) /\ UNCHANGED inFlight
    \/ RefreshWith(p, a)

LEMMA AdoptsContinues ==
    ASSUME Typed, NEW p \in Request, NEW a \in Account, Adopts(p, a)
    PROVE  /\ Continues(p) /\ Placed(p, pc[p], loc[p])' /\ acct'[p].rt = a.rt
           /\ inFlight' \in Caller \cup {Nobody} /\ pc'[p] # "pause"
<1>1. p \in Proc
  BY DEF Proc
<1>2. CASE RefreshWith(p, a)
  BY <1>2, RefreshContinues
<1>3. CASE Install(p, a) /\ Return(p) /\ UNCHANGED inFlight
  <2>1. Moves(p) /\ pc'[p] = "idle" /\ acct'[p] = a
    BY <1>1, <1>3, ReturnMoves
  <2>2. Placed(p, pc[p], loc[p])' /\ Continues(p)
    BY <1>3, <2>1, PlacedAnywhere DEF Continues
  <2> QED BY <1>3, <2>1, <2>2 DEF Typed, Shared
<1> QED BY <1>2, <1>3 DEF Adopts

LEMMA FlushAndAdoptStep ==
    ASSUME Typed, NEW p \in Proc, FlushAndAdopt(p)
    PROVE  Typed' /\ (Quiet(p) \/ FlushHits(p))
<1> DEFINE e == loc[p].entry
           hit == /\ UpdateTokens(e.at, e.rt, e.anchor)
                  /\ pending' = ResolvedAfterPersist(e, Generation(e))
           miss == /\ UpdateMisses(e.anchor) \/ DbFails
                   /\ pending' \in {ClearedIfCurrent(e), pending}
           adopts == \E rt \in {pending'.rt, e.rt}, at \in {0, pending'.at, e.at} :
                        /\ pending' = NoEntry => hit
                        /\ pending' # NoEntry => rt = pending'.rt
                        /\ Adopts(p, With(acct[p], rt, at))
           reads == Goto(p, "reread") /\ UNCHANGED <<acct, loc, inFlight>> /\ miss
<1>1. /\ pc[p] = "flush" /\ p \in Request
      /\ UNCHANGED <<recent, reauth, minted, live, head, stale, excused, crashes>>
  BY DEF FlushAndAdopt, provVars
<1>2. e \in FullEntry /\ Shared /\ pending \in FullEntry \cup {NoEntry}
  BY <1>1, ProcTypes DEF Placed, Typed, Shared
<1>3. /\ e.at \in Token /\ e.rt \in OptToken /\ Generation(e) \in Token
      /\ Generation(e) \in OptToken /\ e.at \in OptToken
  BY <1>2, EntryTypes, Tokens
<1>4. hit \/ miss
  BY DEF FlushAndAdopt
<1>5. backoff' \in BOOLEAN
  BY DEF FlushAndAdopt, Typed, Shared
<1>6. adopts \/ reads
  BY DEF FlushAndAdopt, Adopts
<1>7. /\ row' \in Row /\ dbFailures' \in 0..MaxDbFailures
      /\ pending' \in FullEntry \cup {NoEntry}
      /\ hit => /\ row.rt = e.anchor /\ row'.rt = Generation(e)
                /\ row'.paused = row.paused /\ Reanchored(e, Generation(e))
      /\ miss => row' = row /\ pending' \in {pending, NoEntry}
  <2>1. ASSUME hit
        PROVE  /\ row' \in Row /\ dbFailures' \in 0..MaxDbFailures
               /\ pending' \in FullEntry \cup {NoEntry}
               /\ row.rt = e.anchor /\ row'.rt = Generation(e)
               /\ row'.paused = row.paused /\ Reanchored(e, Generation(e))
    <3>1. /\ row.rt = e.anchor /\ row' \in Row /\ dbFailures' = dbFailures
        /\ row'.paused = row.paused
          /\ row'.rt = (IF e.rt # 0 THEN e.rt ELSE row.rt)
      BY <1>2, <1>3, <2>1, UpdateEffect
    <3>2. row'.rt = Generation(e)
      BY <3>1 DEF Generation
    <3>3. pending' \in FullEntry \cup {NoEntry} /\ Reanchored(e, Generation(e))
      BY <1>2, <1>3, <2>1, ResolvedEffect DEF Reanchored
    <3> QED BY <1>2, <3>1, <3>2, <3>3 DEF Shared
  <2>2. ASSUME miss
        PROVE  /\ row' = row /\ dbFailures' \in 0..MaxDbFailures
               /\ pending' \in {pending, NoEntry}
    BY <1>2, <2>2, ClearedEffect, DbFailsEffect DEF UpdateMisses, Shared
  <2>3. row \in Row
    BY <1>2 DEF Shared, Row
  <2> HIDE DEF hit, miss
  <2> QED BY <1>2, <1>4, <2>1, <2>2, <2>3
<1> HIDE DEF hit, miss, e
<1>8. CASE adopts
  <2>1. PICK rt \in {pending'.rt, e.rt}, at \in {0, pending'.at, e.at} :
           /\ pending' = NoEntry => hit
           /\ pending' # NoEntry => rt = pending'.rt
           /\ Adopts(p, With(acct[p], rt, at))
    BY <1>8
  <2>2. pending'.rt \in OptToken /\ pending'.at \in OptToken /\ 0 \in OptToken
    BY <1>7, EntryTypes, Tokens
  <2>3. rt \in OptToken /\ at \in OptToken /\ acct[p] \in Account
    BY <1>3, <2>2, ProcTypes
  <2>4. /\ With(acct[p], rt, at) \in Account
        /\ With(acct[p], rt, at).rt \in {acct[p].rt, rt}
    BY <2>3, WithType
  <2>5. /\ Continues(p) /\ Placed(p, pc[p], loc[p])'
        /\ acct'[p].rt = With(acct[p], rt, at).rt
        /\ inFlight' \in Caller \cup {Nobody} /\ pc'[p] # "pause"
    BY <1>1, <2>1, <2>4, AdoptsContinues
  <2>6. Shared'
    BY <1>1, <1>2, <1>5, <1>7, <2>5 DEF Shared, Row
  <2>7. Typed'
    BY <2>5, <2>6, TypedMoves DEF Continues
  <2>8. CASE hit
    BY <1>1, <1>7, <2>4, <2>5, <2>7, <2>8 DEF FlushHits, Kept, e
  <2>9. CASE miss /\ ~hit
    <3>1. pending' = pending /\ rt = pending.rt
      BY <1>7, <2>1, <2>9
    <3> QED BY <1>1, <1>7, <2>4, <2>5, <2>7, <2>9, <3>1 DEF Quiet, Refused
  <2> QED BY <1>4, <2>8, <2>9
<1>9. CASE reads
  <2> DEFINE c == "reread"
  <2>1. c \in Label
    BY DEF Label
  <2>2. Goto(p, c) /\ UNCHANGED <<acct, loc, inFlight>> /\ miss
    BY <1>9
  <2> HIDE DEF c
  <2>3. Moves(p) /\ pc'[p] = c /\ acct'[p] = acct[p]
    BY <2>1, <2>2, GotoMoves
  <2>4. pc'[p] = "reread"
    BY <2>3 DEF c
  <2>5. Placed(p, pc[p], loc[p])'
    BY <1>1, <2>4 DEF Placed, Flying
  <2>6. Continues(p)
    BY <2>2, <2>3, <2>4 DEF Continues
  <2>7. Shared'
    BY <1>1, <1>2, <1>5, <1>7, <2>2 DEF Shared, Row
  <2>8. Typed'
    BY <2>3, <2>5, <2>7, TypedMoves
  <2> QED BY <1>1, <1>7, <2>2, <2>3, <2>4, <2>6, <2>8 DEF Quiet, Refused
<1> QED BY <1>6, <1>8, <1>9

-----------------------------------------------------------------------------
(* The exchange and the persist *)

\* The provider mints: the tokens of the grant, and what p gets to know.
Mints(p, rotates) ==
    LET t == loc[p].exch
        n == minted + 1
    IN /\ Moves(p) /\ pc'[p] = "answered" /\ acct'[p] = acct[p]
       /\ pc[p] = "exchange" /\ t \in live
       /\ loc'[p].exch = t
       /\ loc'[p].answer = "ok" => loc'[p].rt = IF rotates THEN n ELSE 0
       /\ loc'[p].answer # "invalid_grant"
       /\ excused \/ (rotates /\ t = head /\ loc'[p].answer # "ok") => excused'
       /\ minted' = n
       /\ live' = IF rotates THEN (live \ {t}) \cup {n} ELSE live
       /\ head' = IF rotates /\ t = head THEN n ELSE head
       /\ stale' = IF rotates /\ t \in stale THEN stale \cup {n} ELSE stale
       /\ UNCHANGED <<row, pending, inFlight, reauth>>

LEMMA ExchangeAcceptedStep ==
    ASSUME Typed, NEW p \in Proc, NEW rotates \in BOOLEAN, NEW delivered \in BOOLEAN,
           ExchangeAccepted(p, rotates, delivered)
    PROVE  Typed' /\ Mints(p, rotates)
<1> DEFINE n == minted + 1
           t == loc[p].exch
           r == IF rotates THEN n ELSE 0
           ok == [loc[p] EXCEPT !.answer = "ok", !.at = n, !.rt = r]
           err == [loc[p] EXCEPT !.answer = "error"]
           l == IF delivered THEN ok ELSE err
           c == "answered"
<1>1. /\ pc[p] = "exchange" /\ t \in live /\ minted < MaxMint /\ minted' = n
      /\ live' = IF rotates THEN (live \ {t}) \cup {n} ELSE live
      /\ head' = IF rotates /\ t = head THEN n ELSE head
      /\ stale' = IF rotates /\ t \in stale THEN stale \cup {n} ELSE stale
      /\ excused' \in BOOLEAN
      /\ excused \/ (rotates /\ t = head /\ ~delivered) => excused'
      /\ Goto(p, c) /\ Set(p, l) /\ acct' = acct
  BY DEF ExchangeAccepted, Typed, Shared
<1>2. /\ UNCHANGED <<row, pending, inFlight, recent, backoff, reauth, dbFailures, crashes>>
  BY DEF ExchangeAccepted, memVars
<1>3. n \in Token /\ c \in Label /\ n \in OptToken /\ r \in OptToken
  BY <1>1, BoundsAreNat DEF Typed, Shared, Token, OptToken, Label
<1>4. loc[p] \in Loc /\ t \in Token /\ p \in Caller
  BY <1>1, ProcTypes DEF Placed, Flying
<1> HIDE DEF n, r
<1>5. /\ ok \in Loc /\ ok.exch = t /\ ok.answer = "ok" /\ ok.rt = r /\ ok.at = n
  BY <1>3, <1>4 DEF Loc, Answer
<1>6. err \in Loc /\ err.exch = t /\ err.answer = "error"
  BY <1>4 DEF Loc, Answer
<1> HIDE DEF ok, err, t
<1>7. /\ l \in Loc /\ l.exch = t
      /\ l.answer # "invalid_grant" /\ (l.answer # "ok" => ~delivered)
      /\ l.answer = "ok" => l.rt = r /\ l.at = n
  BY <1>5, <1>6
<1> HIDE DEF l, c
<1>8. Moves(p) /\ pc'[p] = c /\ loc'[p] = l /\ acct'[p] = acct[p]
  BY <1>1, <1>3, <1>7, GoesMoves
<1>9. pc'[p] = "answered"
  BY <1>8 DEF c
<1>10. Placed(p, pc[p], loc[p])'
  BY <1>3, <1>4, <1>7, <1>8, <1>9 DEF Placed, Flying
<1>11. Shared'
  <2>1. live' \subseteq Token /\ head' \in Token /\ stale' \subseteq Token
    BY <1>1, <1>3 DEF Typed, Shared
  <2> QED BY <1>1, <1>2, <1>3, <2>1 DEF Typed, Shared
<1>12. Typed'
  BY <1>8, <1>10, <1>11, TypedMoves
<1> QED BY <1>1, <1>2, <1>7, <1>8, <1>9, <1>12 DEF Mints, n, t, r

\* A refusal or an error: p knows no token.
Refuses(p) ==
    /\ Moves(p) /\ pc'[p] = "answered" /\ acct'[p] = acct[p]
    /\ pc[p] = "exchange"
    /\ loc'[p].exch = loc[p].exch /\ loc'[p].answer # "ok"
    /\ loc'[p].answer = "invalid_grant" => loc[p].exch \notin live
    /\ UNCHANGED <<row, pending, inFlight>> /\ Kept

LEMMA ExchangeRefusedStep ==
    ASSUME Typed, NEW p \in Proc, ExchangeRefused(p)
    PROVE  Typed' /\ Refuses(p)
<1> DEFINE c == "answered"
<1>1. /\ UNCHANGED <<row, pending, inFlight, recent, backoff, reauth, minted, live, head,
                     stale, excused, dbFailures, crashes>>
      /\ pc[p] = "exchange" /\ Goto(p, c) /\ acct' = acct
  BY DEF ExchangeRefused, memVars, provVars, faultVars
<1>2. PICK w \in {"invalid_grant", "error"} :
         /\ Set(p, [loc[p] EXCEPT !.answer = w])
         /\ w = "invalid_grant" => loc[p].exch \notin live
  BY DEF ExchangeRefused
<1>3. loc[p] \in Loc /\ loc[p].exch \in Token /\ p \in Caller /\ c \in Label
  BY <1>1, ProcTypes DEF Placed, Flying, Label
<1> DEFINE l == [loc[p] EXCEPT !.answer = w]
<1>4. l \in Loc /\ l.exch = loc[p].exch /\ l.answer = w
  BY <1>3 DEF Loc, Answer
<1>5. Set(p, l)
  BY <1>2
<1> HIDE DEF l, c
<1>6. Moves(p) /\ pc'[p] = c /\ loc'[p] = l /\ acct'[p] = acct[p]
  BY <1>1, <1>3, <1>4, <1>5, GoesMoves
<1>7. pc'[p] = "answered"
  BY <1>6 DEF c
<1>8. Placed(p, pc[p], loc[p])'
  BY <1>3, <1>4, <1>6, <1>7 DEF Placed, Flying
<1>9. Shared'
  BY <1>1 DEF Typed, Shared
<1> QED BY <1>1, <1>2, <1>4, <1>6, <1>7, <1>8, <1>9, TypedMoves DEF Refuses, Kept

\* The pending entry is carried into the write.
CarriesEntry(p) ==
    /\ Moves(p) /\ pc'[p] = "persist" /\ acct'[p] = acct[p]
    /\ pc[p] = "answered" /\ loc[p].answer = "ok"
    /\ loc'[p].entry = pending /\ loc'[p].exch = loc[p].exch
    /\ loc'[p].rt = IF loc[p].rt # 0 THEN loc[p].rt
                    ELSE IF pending.rt # 0 \/ p \in Request THEN pending.rt
                    ELSE loc[p].exch
    /\ UNCHANGED <<row, pending, inFlight>> /\ Kept

LEMMA BeginPersistStep ==
    ASSUME Typed, NEW p \in Proc, BeginPersist(p)
    PROVE  Typed' /\ CarriesEntry(p)
<1> DEFINE r == IF loc[p].rt # 0 THEN loc[p].rt
                ELSE IF pending.rt # 0 \/ p \in Request THEN pending.rt
                ELSE loc[p].exch
           l == [loc[p] EXCEPT !.entry = pending, !.rt = r]
           c == "persist"
<1>1. /\ UNCHANGED <<row, pending, inFlight, recent, backoff, reauth, minted, live, head,
                     stale, excused, dbFailures, crashes>>
      /\ pc[p] = "answered" /\ loc[p].answer = "ok" /\ Goto(p, c) /\ acct' = acct
      /\ Set(p, l)
  BY DEF BeginPersist, memVars, provVars, faultVars
<1>2. /\ loc[p] \in Loc /\ loc[p].exch \in Token /\ loc[p].at \in Token /\ p \in Caller
      /\ c \in Label
  BY <1>1, ProcTypes DEF Placed, Flying, Label
<1>3. pending \in FullEntry \cup {NoEntry} /\ pending \in Entry /\ pending.rt \in OptToken
  BY EntryTypes DEF Typed, Shared
<1>4. r \in OptToken
  BY <1>2, <1>3, Tokens, LocTypes
<1> HIDE DEF r
<1>5. /\ l \in Loc /\ l.entry = pending /\ l.exch = loc[p].exch /\ l.rt = r
      /\ l.at = loc[p].at
  BY <1>2, <1>3, <1>4 DEF Loc
<1> HIDE DEF l, c
<1>6. Moves(p) /\ pc'[p] = c /\ loc'[p] = l /\ acct'[p] = acct[p]
  BY <1>1, <1>2, <1>5, GoesMoves
<1>7. pc'[p] = "persist"
  BY <1>6 DEF c
<1>8. Placed(p, pc[p], loc[p])'
  BY <1>2, <1>3, <1>5, <1>6, <1>7 DEF Placed, Flying
<1>9. Shared'
  BY <1>1 DEF Typed, Shared
<1> QED BY <1>1, <1>5, <1>6, <1>7, <1>8, <1>9, TypedMoves DEF CarriesEntry, Kept, r

\* The call of p is over with what it has minted.
Serves(p) ==
    /\ Continues(p) /\ pc'[p] = "idle"
    /\ acct'[p].rt = IF loc[p].rt # 0 THEN loc[p].rt ELSE acct[p].rt

LEMMA ServeMintedEffect ==
    ASSUME Typed, NEW p \in Proc, pc[p] \in {"persist", "retryread", "retrywrite"},
           ServeMinted(p)
    PROVE  /\ Serves(p) /\ Placed(p, pc[p], loc[p])' /\ recent' \in OptToken
           /\ inFlight' \in Caller \cup {Nobody}
<1>1. /\ loc[p].at \in Token /\ loc[p].at \in OptToken /\ loc[p].rt \in OptToken
      /\ acct[p] \in Account /\ pc[p] # "join"
  BY ProcTypes, LocTypes, Tokens DEF Placed
<1> DEFINE a == With(acct[p], loc[p].rt, loc[p].at)
<1>2. a \in Account /\ a.rt = IF loc[p].rt # 0 THEN loc[p].rt ELSE acct[p].rt
  BY <1>1, WithType
<1>3. Resolve(p, a, loc[p].at) /\ recent' = loc[p].at
  BY DEF ServeMinted
<1> HIDE DEF a
<1>4. /\ Moves(p) /\ pc'[p] = "idle" /\ acct'[p] = a
      /\ \A q \in Proc \ {p} : inFlight = q => inFlight' = q
      /\ inFlight' \in {inFlight, Nobody}
  BY <1>1, <1>2, <1>3, ResolveMoves
<1>5. Placed(p, pc[p], loc[p])'
  BY <1>4, PlacedAnywhere
<1>6. inFlight' \in Caller \cup {Nobody}
  BY <1>4 DEF Typed, Shared
<1> QED BY <1>1, <1>2, <1>3, <1>4, <1>5, <1>6 DEF Serves, Continues

\* The write of p hits the anchor x.
Settles(p, x) ==
    /\ Serves(p)
    /\ row.rt = x /\ row'.rt = IF loc[p].rt # 0 THEN loc[p].rt ELSE row.rt
    /\ row'.paused = row.paused
    /\ IF loc[p].entry # NoEntry THEN Reanchored(loc[p].entry, loc[p].rt)
                                 ELSE pending' = pending
    /\ Kept

\* The write of p throws, and the registry holds the rotation.
Holds(p, x) ==
    /\ Serves(p)
    /\ row' = row /\ dbFailures' = dbFailures + 1
    /\ pending' \in FullEntry /\ pending'.at = loc[p].at /\ pending'.rt = loc[p].rt
    /\ pending'.anchor = IF pending # NoEntry THEN pending.anchor ELSE x
    /\ Kept

\* p goes on with its refresh.
GoesOn(p, c) ==
    /\ Moves(p) /\ pc'[p] = c /\ loc'[p] = loc[p] /\ acct'[p] = acct[p]
    /\ row' = row /\ inFlight' = inFlight /\ Kept
    /\ c = "retryread" => pending' = NoEntry /\ loc[p].entry # NoEntry
    /\ c = "retrywrite" => pending' = pending

\* What the three database steps of a persist leave alone.
Persisting(p) ==
    /\ pc[p] \in {"persist", "retryread", "retrywrite"}
    /\ backoff' \in BOOLEAN
    /\ UNCHANGED <<reauth, minted, live, head, stale, excused, crashes>>

LEMMA SettlesStep ==
    ASSUME Typed, NEW p \in Proc, NEW x, Persisting(p),
           UpdateTokens(loc[p].at, loc[p].rt, x), Persisted(p)
    PROVE  Typed' /\ Settles(p, x)
<1>1. loc[p].at \in Token /\ loc[p].rt \in OptToken /\ Shared
  BY ProcTypes, LocTypes DEF Placed, Persisting, Typed
<1>2. /\ row.rt = x /\ row' \in Row /\ dbFailures' = dbFailures
      /\ row'.paused = row.paused
      /\ row'.rt = (IF loc[p].rt # 0 THEN loc[p].rt ELSE row.rt)
  BY <1>1, UpdateEffect
<1>3. /\ Serves(p) /\ Placed(p, pc[p], loc[p])' /\ recent' \in OptToken
      /\ inFlight' \in Caller \cup {Nobody}
  BY ServeMintedEffect DEF Persisted, Persisting
<1>4. /\ pending' \in FullEntry \cup {NoEntry}
      /\ IF loc[p].entry # NoEntry THEN Reanchored(loc[p].entry, loc[p].rt)
                                   ELSE pending' = pending
  <2>1. CASE loc[p].entry # NoEntry
    BY <1>1, <2>1, ResolvedEffect DEF Persisted, Reanchored
  <2>2. CASE loc[p].entry = NoEntry
    BY <1>1, <2>2 DEF Persisted, Shared
  <2> QED BY <2>1, <2>2
<1>5. Shared'
  BY <1>1, <1>2, <1>3, <1>4 DEF Shared, Row, Persisting
<1>6. Typed'
  BY <1>3, <1>5, TypedMoves DEF Serves, Continues
<1> QED BY <1>2, <1>3, <1>4, <1>6 DEF Settles, Kept, Persisting

LEMMA HoldsStep ==
    ASSUME Typed, NEW p \in Proc, NEW x \in Token, Persisting(p), DbFails,
           HeldPending(p, x)
    PROVE  Typed' /\ Holds(p, x)
<1>1. loc[p].at \in Token /\ loc[p].rt \in OptToken /\ Shared
  BY ProcTypes, LocTypes DEF Placed, Persisting, Typed
<1>2. row' = row /\ dbFailures' \in 0..MaxDbFailures /\ dbFailures' = dbFailures + 1
  BY <1>1, DbFailsEffect
<1>3. /\ Serves(p) /\ Placed(p, pc[p], loc[p])' /\ recent' \in OptToken
      /\ inFlight' \in Caller \cup {Nobody}
  BY ServeMintedEffect DEF HeldPending, Persisting
<1>4. /\ pending' \in FullEntry /\ pending'.at = loc[p].at /\ pending'.rt = loc[p].rt
      /\ pending'.anchor = IF pending # NoEntry THEN pending.anchor ELSE x
  BY <1>1, RecordedEffect DEF HeldPending
<1>5. Shared'
  BY <1>1, <1>2, <1>3, <1>4 DEF Shared, Persisting
<1>6. Typed'
  BY <1>3, <1>5, TypedMoves DEF Serves, Continues
<1> QED BY <1>2, <1>3, <1>4, <1>6 DEF Holds, Kept, Persisting

LEMMA SupersededStep ==
    ASSUME Typed, NEW p \in Proc, pc[p] \in {"persist", "retrywrite"}, Persisting(p),
           UNCHANGED <<row, dbFailures>>, pending' \in {pending, NoEntry}, Superseded(p)
    PROVE  Typed' /\ Quiet(p)
<1> DEFINE a == With(acct[p], pending'.rt, pending'.at)
           c == "adopt"
<1>1. Shared /\ pending' \in FullEntry \cup {NoEntry}
  BY DEF Typed, Shared
<1>2. /\ pending'.rt \in OptToken /\ pending'.at \in OptToken
      /\ pending' # NoEntry => pending'.at \in Token
      /\ acct[p] \in Account /\ c \in Label /\ loc[p].at \in Token
  BY <1>1, EntryTypes, Tokens, ProcTypes DEF Label, Placed
<1>3. a \in Account /\ a.rt \in {acct[p].rt, pending'.rt}
  BY <1>2, WithType
<1>4. a.rt \in {acct[p].rt, pending.rt}
  <2>1. a.rt = IF pending'.rt # 0 THEN pending'.rt ELSE acct[p].rt
    BY <1>2, WithType
  <2>2. pending' = NoEntry => pending'.rt = 0
    BY EntryTypes
  <2> HIDE DEF a
  <2> QED BY <2>1, <2>2
<1>5. /\ recent' = recent
      /\ \/ pending' # NoEntry /\ Resolve(p, a, pending'.at)
         \/ Goto(p, c) /\ Install(p, a) /\ UNCHANGED <<loc, inFlight>>
  BY DEF Superseded
<1> HIDE DEF a, c
<1>6. /\ Continues(p) /\ Placed(p, pc[p], loc[p])' /\ acct'[p] = a
      /\ inFlight' \in Caller \cup {Nobody} /\ pc'[p] # "pause"
  <2>1. CASE pending' # NoEntry /\ Resolve(p, a, pending'.at)
    <3>1. /\ Moves(p) /\ pc'[p] = "idle" /\ acct'[p] = a
          /\ \A q \in Proc \ {p} : inFlight = q => inFlight' = q
          /\ inFlight' \in {inFlight, Nobody}
      BY <1>2, <1>3, <2>1, ResolveMoves
    <3>2. Placed(p, pc[p], loc[p])'
      BY <3>1, PlacedAnywhere
    <3> QED BY <1>1, <3>1, <3>2 DEF Continues, Shared
  <2>2. CASE Goto(p, c) /\ Install(p, a) /\ UNCHANGED <<loc, inFlight>>
    <3>1. Moves(p) /\ pc'[p] = c /\ loc'[p] = loc[p] /\ acct'[p] = a
      BY <1>2, <1>3, <2>2, InstallMoves
    <3>2. pc'[p] = "adopt"
      BY <3>1 DEF c
    <3>3. Placed(p, pc[p], loc[p])'
      BY <1>2, <3>1, <3>2 DEF Placed, Flying
    <3> QED BY <1>1, <2>2, <3>1, <3>2, <3>3 DEF Continues, Shared
  <2> QED BY <1>5, <2>1, <2>2
<1>7. Shared'
  BY <1>1, <1>5, <1>6 DEF Shared, Persisting
<1>8. Typed'
  BY <1>6, <1>7, TypedMoves DEF Continues
<1> QED BY <1>4, <1>6, <1>8 DEF Quiet, Refused, Persisting

LEMMA GoesOnStep ==
    ASSUME Typed, NEW p \in Proc, NEW c \in {"retryread", "retrywrite", "adopt"},
           Persisting(p), loc[p].entry # NoEntry, Goto(p, c),
           UNCHANGED <<row, dbFailures, acct, loc, inFlight, recent>>,
           pending' \in {pending, NoEntry},
           c = "retryread" => pending' = NoEntry,
           c = "retrywrite" => pending' = pending
    PROVE  Typed' /\ (Quiet(p) \/ GoesOn(p, c))
<1>1. c \in Label
  BY DEF Label
<1>2. Moves(p) /\ pc'[p] = c /\ loc'[p] = loc[p] /\ acct'[p] = acct[p]
  BY <1>1, GotoMoves
<1>3. loc[p].entry \in FullEntry /\ loc[p].exch \in Token /\ loc[p].at \in Token /\ p \in Caller
  BY ProcTypes DEF Placed, Flying, Persisting
<1>4. Placed(p, pc[p], loc[p])'
  BY <1>2, <1>3 DEF Placed, Flying
<1>5. Shared'
  BY DEF Typed, Shared, Persisting
<1>6. Typed'
  BY <1>2, <1>4, <1>5, TypedMoves
<1> QED BY <1>2, <1>6 DEF Quiet, Continues, Refused, GoesOn, Kept, Persisting

LEMMA PersistWriteStep ==
    ASSUME Typed, NEW p \in Proc, PersistWrite(p)
    PROVE  /\ Typed' /\ pc[p] = "persist"
           /\ \/ Quiet(p) \/ GoesOn(p, "retryread")
              \/ Settles(p, PersistAnchor(p)) \/ Holds(p, PersistAnchor(p))
<1> DEFINE x == PersistAnchor(p)
<1>1. Persisting(p) /\ pc[p] = "persist"
  BY DEF PersistWrite, Persisting, ForgetFailure, provVars
<1>2. x \in Token
  BY <1>1, ProcTypes, EntryTypes DEF PersistAnchor, Placed, Flying
<1> HIDE DEF x
<1>3. CASE UpdateTokens(loc[p].at, loc[p].rt, x) /\ Persisted(p)
  BY <1>1, <1>3, SettlesStep DEF x
<1>4. CASE DbFails /\ HeldPending(p, x)
  BY <1>1, <1>2, <1>4, HoldsStep DEF x
<1>5. CASE UpdateMisses(x) /\ pending' \in {pending, ClearedIfCurrent(loc[p].entry)} /\ Superseded(p)
  <2>1. pending' \in {pending, NoEntry} /\ UNCHANGED <<row, dbFailures>>
    BY <1>5 DEF ClearedIfCurrent, UpdateMisses
  <2> QED BY <1>1, <1>5, <2>1, SupersededStep
<1>6. CASE /\ UpdateMisses(x) /\ loc[p].entry # NoEntry /\ pending' = NoEntry
           /\ Goto(p, "retryread") /\ UNCHANGED <<acct, loc, inFlight, recent>>
  <2> DEFINE c == "retryread"
  <2>1. /\ c \in {"retryread", "retrywrite", "adopt"} /\ Goto(p, c)
        /\ UNCHANGED <<row, dbFailures, acct, loc, inFlight, recent>>
        /\ pending' \in {pending, NoEntry}
        /\ c = "retryread" => pending' = NoEntry
        /\ c = "retrywrite" => pending' = pending
    BY <1>6 DEF UpdateMisses
  <2> HIDE DEF c
  <2>2. Typed' /\ (Quiet(p) \/ GoesOn(p, c))
    BY <1>1, <1>6, <2>1, GoesOnStep
  <2> QED BY <1>1, <2>2 DEF c
<1> QED BY <1>3, <1>4, <1>5, <1>6 DEF PersistWrite, x

LEMMA RetryReadStep ==
    ASSUME Typed, NEW p \in Proc, RetryRead(p)
    PROVE  /\ Typed' /\ pc[p] = "retryread"
           /\ \/ Quiet(p) \/ GoesOn(p, "retrywrite")
              \/ Holds(p, Generation(loc[p].entry))
<1> DEFINE g == Generation(loc[p].entry)
           c == IF row.rt = g THEN "retrywrite" ELSE "adopt"
<1>1. Persisting(p) /\ pc[p] = "retryread"
  BY DEF RetryRead, Persisting, provVars, Typed, Shared
<1>2. g \in Token /\ loc[p].entry # NoEntry
  BY <1>1, ProcTypes, EntryTypes DEF Placed
<1> HIDE DEF g
<1>3. CASE DbReads /\ Goto(p, c) /\ UNCHANGED <<pending, inFlight, recent, acct, loc>>
  <2>1. /\ c \in {"retryread", "retrywrite", "adopt"} /\ c # "retryread"
        /\ UNCHANGED <<row, dbFailures, acct, loc, inFlight, recent>>
        /\ pending' \in {pending, NoEntry} /\ pending' = pending /\ Goto(p, c)
    BY <1>3 DEF DbReads
  <2>2. c \in {"retrywrite", "adopt"}
    OBVIOUS
  <2> HIDE DEF c
  <2>3. Typed' /\ (Quiet(p) \/ GoesOn(p, c))
    BY <1>1, <1>2, <2>1, GoesOnStep
  <2>4. CASE c = "retrywrite"
    BY <1>1, <2>3, <2>4
  <2>5. CASE c = "adopt"
    <3>1. GoesOn(p, c) => Quiet(p)
      BY <2>1, <2>5 DEF GoesOn, Quiet, Continues, Refused, Kept
    <3> QED BY <1>1, <2>3, <3>1
  <2> QED BY <2>2, <2>4, <2>5
<1>4. CASE DbFails /\ HeldPending(p, g)
  BY <1>1, <1>2, <1>4, HoldsStep DEF g
<1> QED BY <1>3, <1>4 DEF RetryRead, g

LEMMA RetryWriteStep ==
    ASSUME Typed, NEW p \in Proc, RetryWrite(p)
    PROVE  /\ Typed' /\ pc[p] = "retrywrite"
           /\ LET g == Generation(loc[p].entry)
              IN Quiet(p) \/ Settles(p, g) \/ Holds(p, g)
<1> DEFINE g == Generation(loc[p].entry)
<1>1. Persisting(p) /\ pc[p] = "retrywrite"
  BY DEF RetryWrite, Persisting, provVars, Typed, Shared
<1>2. g \in Token
  BY <1>1, ProcTypes, EntryTypes DEF Placed
<1> HIDE DEF g
<1>3. CASE UpdateTokens(loc[p].at, loc[p].rt, g) /\ Persisted(p)
  BY <1>1, <1>3, SettlesStep DEF g
<1>4. CASE DbFails /\ HeldPending(p, g)
  BY <1>1, <1>2, <1>4, HoldsStep DEF g
<1>5. CASE UpdateMisses(g) /\ pending' = pending /\ Superseded(p)
  <2>1. pending' \in {pending, NoEntry} /\ UNCHANGED <<row, dbFailures>>
    BY <1>5 DEF UpdateMisses
  <2> QED BY <1>1, <1>5, <2>1, SupersededStep
<1> QED BY <1>3, <1>4, <1>5 DEF RetryWrite, g

-----------------------------------------------------------------------------
(* The types are right *)

LEMMA TypedInit == Init => Typed
<1> SUFFICES ASSUME Init PROVE Typed
  OBVIOUS
<1>1. 1 \in Token /\ 0 \in OptToken /\ 0 \in 0..MaxDbFailures /\ 0 \in 0..MaxCrashes
  BY Tokens, BoundsAreNat
<1>2. Shared
  BY <1>1 DEF Init, Shared
<1>3. [rt |-> 1, at |-> 1] \in Account
  BY <1>1 DEF Account
<1>4. /\ pc \in [Proc -> Label] /\ loc \in [Proc -> Loc] /\ acct \in [Proc -> Account]
      /\ \A p \in Proc : pc[p] = "idle"
  BY <1>3, IdleType DEF Init, Label
<1> QED BY <1>2, <1>4, PlacedAnywhere DEF Typed

\* The steps that no caller takes.
LEMMA SharedSteps ==
    ASSUME Typed, ReauthExchange \/ ReauthStep \/ Revoke \/ WindowPasses \/ Restart
    PROVE  Typed'
<1>0. row \in Row /\ 0 \in OptToken
  BY Tokens DEF Typed, Shared, Row
<1>1. CASE ReauthWrite /\ minted' = minted + 1
  <2> DEFINE n == minted + 1
  <2>1. n \in Token /\ 1..minted \subseteq Token
    BY <1>1, BoundsAreNat DEF ReauthWrite, provVars, Typed, Shared, Token
  <2>2. /\ minted' = n /\ head' = n /\ stale' = 1..minted /\ excused' = FALSE
        /\ live' = live \cup {n}
        /\ row' = [row EXCEPT !.rt = n, !.at = n] /\ reauth' = "written"
        /\ UNCHANGED <<pending, inFlight, recent, backoff, pc, acct, loc, dbFailures, crashes>>
    BY <1>1, <2>1 DEF ReauthWrite, memVars, provVars, Typed, Shared, Token
  <2> HIDE DEF n
  <2>3. row' \in Row
    BY <1>0, <2>1, <2>2 DEF Row
  <2>4. Shared'
    BY <2>1, <2>2, <2>3 DEF Typed, Shared, Row
  <2> QED BY <2>2, <2>4 DEF Typed
<1>2. CASE ReauthResume
  <2>1. row' = row \/ row' = [row EXCEPT !.paused = FALSE]
    BY <1>2 DEF ReauthResume, DbFails
  <2>2. row' \in Row
    BY <1>0, <2>1 DEF Row
  <2>3. dbFailures' \in 0..MaxDbFailures
    BY <1>2, DbFailsEffect DEF ReauthResume, Typed, Shared
  <2>4. /\ reauth' = "resumed"
        /\ UNCHANGED <<pending, inFlight, recent, backoff, pc, acct, loc, minted, live, head,
                       stale, excused, crashes>>
    BY <1>2 DEF ReauthResume, memVars, provVars
  <2>5. Shared'
    BY <2>2, <2>3, <2>4 DEF Typed, Shared, Row
  <2> QED BY <2>4, <2>5 DEF Typed
<1>3. CASE ReauthClear
  <2>1. Shared'
    BY <1>0, <1>3 DEF ReauthClear, provVars, faultVars, Typed, Shared
  <2> QED BY <1>3, <2>1 DEF Typed, ReauthClear
<1>4. CASE Revoke
  <2>1. Shared'
    BY <1>4 DEF Revoke, memVars, Typed, Shared
  <2> QED BY <1>4, <2>1 DEF Typed, Revoke
<1>5. CASE WindowPasses
  <2>1. Shared'
    BY <1>0, <1>5 DEF WindowPasses, provVars, faultVars, Typed, Shared
  <2> QED BY <1>5, <2>1 DEF Typed, WindowPasses
<1>6. CASE Restart
  <2>1. crashes' \in 0..MaxCrashes
    BY <1>6, BoundsAreNat DEF Restart, Typed, Shared
  <2>2. Shared'
    BY <1>0, <1>6, <2>1 DEF Restart, provVars, Typed, Shared
  <2>3. [rt |-> row.rt, at |-> row.at] \in Account
    BY <1>0 DEF Row, Account
  <2>4. /\ pc' = [p \in Proc |-> "idle"] /\ loc' = [p \in Proc |-> Idle]
        /\ acct' = [p \in Proc |-> [rt |-> row.rt, at |-> row.at]]
    BY <1>6 DEF Restart
  <2>5. /\ pc' \in [Proc -> Label] /\ loc' \in [Proc -> Loc] /\ acct' \in [Proc -> Account]
        /\ \A p \in Proc : pc'[p] = "idle"
    BY <2>3, <2>4, IdleType DEF Label
  <2>6. \A p \in Proc : Placed(p, pc[p], loc[p])'
    BY <2>5, PlacedAnywhere
  <2> QED BY <2>2, <2>5, <2>6 DEF Typed
<1>7. CASE ReauthExchange
  <2>1. /\ UNCHANGED <<row, pending, inFlight, recent, backoff, pc, acct, loc, minted, head,
                       stale, dbFailures, crashes>>
        /\ reauth' = "granted" /\ live' \subseteq live /\ excused' \in BOOLEAN
    BY <1>7 DEF ReauthExchange, memVars, Typed, Shared
  <2> QED BY <2>1 DEF Typed, Shared
<1>8. CASE ReauthWrite /\ DbFails
  <2>1. /\ UNCHANGED <<row, pending, inFlight, recent, backoff, pc, acct, loc, minted, head,
                       live, stale, excused, crashes>>
        /\ reauth' = "none" /\ dbFailures' \in 0..MaxDbFailures
    BY <1>8, DbFailsEffect DEF ReauthWrite, DbFails, memVars, provVars, Typed, Shared
  <2> QED BY <2>1 DEF Typed, Shared
<1> QED BY <1>1, <1>2, <1>3, <1>4, <1>5, <1>6, <1>7, <1>8 DEF ReauthStep, ReauthWrite

LEMMA TypedNext == Typed /\ [Next]_vars => Typed'
<1> SUFFICES ASSUME Typed, [Next]_vars PROVE Typed'
  OBVIOUS
<1>1. CASE UNCHANGED vars
  BY <1>1 DEF vars, memVars, provVars, faultVars, Typed, Shared
<1>2. ASSUME NEW p \in Proc, CallStart(p) \/ StartFlush(p)
      PROVE  Typed'
  BY <1>2, SelectStep, StartJoinStep, BackoffRecoverStep, StartRereadStep, StartFlushStep
     DEF CallStart
<1>3. ASSUME NEW p \in Proc, CallStep(p)
      PROVE  Typed'
  BY <1>3, StartProactiveStep, SkipProactiveStep, FlushOnlyStep, FlushAndAdoptStep,
     RereadStep, ExchangeAcceptedStep, ExchangeRefusedStep, BeginPersistStep,
     PersistWriteStep, RetryReadStep, RetryWriteStep, AdoptStep, ErrorSteps,
     GrantRefusedStep, PauseStep
     DEF CallStep
<1> QED BY <1>1, <1>2, <1>3, SharedSteps DEF Next

\* The types of the row, the registry and every call in progress.  What is hard
\* in it: the row always holds a refresh token and an access token, although a
\* write may carry none; an entry of the registry is complete, whatever anchor
\* it was recorded or re-anchored with; and whoever serves a token has one.
THEOREM RowIsNeverBlanked == Spec => []TypeOK
<1>1. Typed => TypeOK
  <2> SUFFICES ASSUME Typed PROVE TypeOK
    OBVIOUS
  <2>1. pending \in Entry
    BY EntryTypes DEF Typed, Shared
  <2> QED BY <2>1 DEF Typed, Shared, TypeOK, Label, Account, Loc, Caller
<1> QED BY <1>1, TypedInit, TypedNext, PTL DEF Spec

-----------------------------------------------------------------------------
(* Without a re-authentication the row only goes forward *)

LEMMA Numbers ==
    ASSUME Typed, NEW q \in Proc
    PROVE  /\ head \in Nat /\ minted \in Nat /\ row.rt \in Nat /\ acct[q].rt \in Nat
           /\ pending.rt \in Nat /\ pending.anchor \in Nat /\ Generation(pending) \in Nat
           /\ loc[q].exch \in Nat /\ loc[q].rt \in Nat /\ loc[q].entry.rt \in Nat
           /\ loc[q].entry.anchor \in Nat /\ Generation(loc[q].entry) \in Nat
<1>1. loc[q] \in Loc /\ pending \in Entry /\ acct[q].rt \in Token /\ row.rt \in Token
  BY ProcTypes, EntryTypes DEF Typed, Shared
<1>2. loc[q].entry \in Entry /\ loc[q].exch \in OptToken /\ loc[q].rt \in OptToken
  BY <1>1, LocTypes
<1> QED BY <1>1, <1>2, EntryTypes, Tokens DEF Typed, Shared

LEMMA NumbersNext ==
    ASSUME Typed', NEW q \in Proc
    PROVE  /\ head' \in Nat /\ minted' \in Nat /\ row'.rt \in Nat /\ acct'[q].rt \in Nat
           /\ pending'.rt \in Nat /\ pending'.anchor \in Nat /\ Generation(pending') \in Nat
           /\ loc'[q].exch \in Nat /\ loc'[q].rt \in Nat /\ loc'[q].entry.rt \in Nat
           /\ loc'[q].entry.anchor \in Nat /\ Generation(loc'[q].entry) \in Nat
<1>1. /\ loc'[q] \in Loc /\ pending' \in Entry /\ acct'[q].rt \in Token /\ row'.rt \in Token
      /\ head' \in Token /\ minted' \in Token
  BY EntryTypes DEF Typed, Shared, Account
<1>2. loc'[q].entry \in Entry /\ loc'[q].exch \in OptToken /\ loc'[q].rt \in OptToken
  BY <1>1, LocTypes
<1> QED BY <1>1, <1>2, EntryTypes, Tokens

\* What every step of p has to show for Ordered.
LEMMA OrderedMoves ==
    ASSUME Typed, Typed', Ordered, NEW p \in Proc, Moves(p),
           reauth' = "none", live' \subseteq {head'}, head' <= minted', head <= head',
           row'.rt <= head', Forward(pending)', UpTo(pending, head)',
           acct'[p].rt <= head', Ahead(p, pc[p], loc[p])',
           \A q \in Proc \ {p} :
              pc'[q] = pc[q] /\ loc'[q] = loc[q] => Ahead(q, pc[q], loc[q])'
    PROVE  Ordered'
<1>1. ASSUME NEW q \in Proc \ {p} PROVE acct'[q].rt <= head'
  <2>1. acct'[q].rt = acct[q].rt /\ acct[q].rt <= head
    BY DEF Moves, Stays, Ordered
  <2> QED BY <2>1, Numbers, NumbersNext
<1>2. ASSUME NEW q \in Proc \ {p} PROVE Ahead(q, pc[q], loc[q])'
  <2>1. CASE pc'[q] \in {"idle", "adopt"}
    BY <2>1 DEF Ahead, Flying
  <2> QED BY <2>1 DEF Moves, Stays
<1> QED BY <1>1, <1>2 DEF Ordered

\* While p is in a refresh nobody else is; only the flushes look on.
LEMMA KeepSolo ==
    ASSUME Typed, Typed', Ordered, NEW p \in Proc, pc[p] \in Flying, NEW q \in Proc \ {p},
           pc'[q] = pc[q], loc'[q] = loc[q], head <= head',
           pc[q] = "flush" /\ pending'.rt # 0 => pending'.rt >= Generation(loc[q].entry)
    PROVE  Ahead(q, pc[q], loc[q])'
<1>1. inFlight = p /\ pc[q] \notin Flying
  BY DEF Ordered, Ahead
<1>2. CASE pc[q] # "flush"
  BY <1>1, <1>2 DEF Ahead, Flying
<1>3. CASE pc[q] = "flush"
  <2>1. UpTo(loc[q].entry, head) /\ Forward(loc[q].entry)
    BY <1>3 DEF Ordered, Ahead
  <2>2. UpTo(loc'[q].entry, head')
    BY <2>1, Numbers, NumbersNext DEF UpTo
  <2>3. Forward(loc'[q].entry)
    BY <2>1
  <2>4. /\ pc'[q] = "flush" /\ UpTo(loc'[q].entry, head') /\ Forward(loc'[q].entry)
        /\ pending'.rt # 0 => pending'.rt >= Generation(loc'[q].entry)
    BY <1>3, <2>2, <2>3
  <2> QED BY <2>4 DEF Ahead, Flying
<1> QED BY <1>2, <1>3

\* A step of p next to a refresh of q.
LEMMA KeepOthers ==
    ASSUME Typed, Typed', Ordered, NEW p \in Proc, Moves(p), NEW q \in Proc \ {p},
           pc'[q] = pc[q], loc'[q] = loc[q], head' = head,
           inFlight = q => inFlight' = q,
           pending'.rt # 0 => pending'.rt = pending.rt,
           pending = NoEntry => pending' = NoEntry,
           pc[q] = "persist" => Carried(loc[q])',
           pc'[p] = "flush" /\ pc[q] \in {"persist", "retryread", "retrywrite"}
              /\ loc[q].rt # 0 => loc[q].rt >= Generation(loc'[p].entry)
    PROVE  Ahead(q, pc[q], loc[q])'
<1>1. Ahead(q, pc[q], loc[q])
  BY DEF Ordered
<1>2. ASSUME pc[q] \in {"persist", "retryread", "retrywrite"}, loc[q].rt # 0,
             Floor(loc[q].rt)
      PROVE  Floor(loc[q].rt)'
  <2>1. ASSUME NEW r \in Proc, pc'[r] = "flush"
        PROVE  loc[q].rt >= Generation(loc'[r].entry)
    <3>1. CASE r = p
      BY <1>2, <2>1, <3>1
    <3>2. CASE r # p
      <4>1. pc[r] = "flush" /\ loc'[r] = loc[r]
        BY <2>1, <3>2 DEF Moves, Stays
      <4> QED BY <1>2, <4>1 DEF Floor
    <3> QED BY <3>1, <3>2
  <2> QED BY <2>1 DEF Floor
<1>3. ASSUME pc[q] \in {"persist", "retryread", "retrywrite"}, Writes(loc[q])
      PROVE  Writes(loc[q])'
  BY <1>2, <1>3 DEF Writes, UpTo, Forward
<1> QED BY <1>1, <1>3 DEF Ahead, Flying, UpTo, Forward

LEMMA OrderedQuiet ==
    ASSUME Typed, Typed', Ordered, NEW p \in Proc, Quiet(p)
    PROVE  Ordered'
<1>1. /\ Moves(p) /\ pending' \in {pending, NoEntry} /\ row'.rt = row.rt /\ head' = head
      /\ UNCHANGED <<reauth, minted, live, head, stale>>
      /\ pc'[p] \notin {"flush", "persist", "retryread", "retrywrite", "answered"}
  BY DEF Quiet, Continues, Refused
<1>2. pending' = NoEntry => pending'.rt = 0 /\ pending'.anchor = 0
  BY EntryTypes
<1>3. Forward(pending)' /\ UpTo(pending, head)'
  BY <1>1, <1>2, Numbers DEF Ordered, Forward, UpTo
<1>4. acct'[p].rt <= head'
  BY <1>1 DEF Quiet, Ordered, UpTo
<1>5. Ahead(p, pc[p], loc[p])'
  BY <1>1, <1>4 DEF Quiet, Continues, Ahead, Flying
<1>6. ASSUME NEW q \in Proc \ {p}, pc'[q] = pc[q], loc'[q] = loc[q]
      PROVE  Ahead(q, pc[q], loc[q])'
  <2>1. inFlight = q => inFlight' = q
    BY DEF Quiet, Continues, Refused
  <2>2. pc[q] = "persist" => Carried(loc[q])'
    BY <1>1, <1>6 DEF Ordered, Ahead, Carried
  <2> QED BY <1>1, <1>2, <1>6, <2>1, <2>2, KeepOthers
<1>7. /\ reauth' = "none" /\ live' \subseteq {head'} /\ head' <= minted' /\ head <= head'
      /\ row'.rt <= head'
  BY <1>1, Numbers DEF Ordered
<1> QED BY <1>1, <1>3, <1>4, <1>5, <1>6, <1>7, OrderedMoves

LEMMA OrderedTakesEntry ==
    ASSUME Typed, Typed', Ordered, NEW p \in Proc, TakesEntry(p)
    PROVE  Ordered'
<1>1. /\ Moves(p) /\ pending' = pending /\ row' = row /\ inFlight' = inFlight
      /\ pc'[p] = "flush" /\ loc'[p].entry = pending /\ pending # NoEntry
      /\ UNCHANGED <<reauth, minted, live, head>> /\ acct'[p] = acct[p]
  BY DEF TakesEntry, Kept
<1>2. Forward(pending)' /\ UpTo(pending, head)'
  BY <1>1 DEF Ordered, Forward, UpTo
<1>3. acct'[p].rt <= head'
  BY <1>1 DEF Ordered
<1>4. pending.rt # 0 => pending.rt >= Generation(pending)
  BY Numbers DEF Generation
<1>5. Ahead(p, pc[p], loc[p])'
  BY <1>1, <1>2, <1>4 DEF Ahead, Flying
<1>6. ASSUME NEW q \in Proc \ {p}, pc'[q] = pc[q], loc'[q] = loc[q]
      PROVE  Ahead(q, pc[q], loc[q])'
  <2>1. Ahead(q, pc[q], loc[q])
    BY DEF Ordered
  <2>2. pc[q] \notin {"retryread", "retrywrite"}
    BY <1>1, <2>1 DEF Ahead
  <2>3. ASSUME pc[q] = "persist", loc[q].rt # 0
        PROVE  loc[q].rt >= Generation(loc'[p].entry)
    <3>1. Writes(loc[q]) /\ Carried(loc[q])
      BY <2>1, <2>3 DEF Ahead
    <3>2. /\ pending.rt = loc[q].entry.rt /\ loc[q].rt >= pending.anchor
          /\ loc[q].rt >= Generation(loc[q].entry)
      BY <1>1, <2>3, <3>1 DEF Writes, Carried
    <3>3. CASE pending.rt # 0
      BY <1>1, <3>2, <3>3 DEF Generation
    <3>4. CASE pending.rt = 0
      BY <1>1, <3>2, <3>4 DEF Generation
    <3> QED BY <3>3, <3>4
  <2>4. pc[q] = "persist" => Carried(loc[q])'
    BY <1>1, <1>6, <2>1 DEF Ahead, Carried
  <2> QED BY <1>1, <1>6, <2>2, <2>3, <2>4, KeepOthers
<1>7. /\ reauth' = "none" /\ live' \subseteq {head'} /\ head' <= minted' /\ head <= head'
      /\ row'.rt <= head'
  BY <1>1, Numbers DEF Ordered
<1> QED BY <1>1, <1>2, <1>3, <1>5, <1>6, <1>7, OrderedMoves

LEMMA OrderedFlushHits ==
    ASSUME Typed, Typed', Ordered, NEW p \in Proc, FlushHits(p)
    PROVE  Ordered' /\ row'.rt >= row.rt
<1> DEFINE e == loc[p].entry
           g == Generation(e)
<1>1. /\ Moves(p) /\ pc[p] = "flush" /\ row.rt = e.anchor /\ row'.rt = g
      /\ Reanchored(e, g) /\ UNCHANGED <<reauth, minted, live, head>>
      /\ pc'[p] \notin {"flush", "persist", "retryread", "retrywrite", "answered"}
  BY DEF FlushHits, Kept, Continues
<1>2. /\ UpTo(e, head) /\ Forward(e) /\ (pending.rt # 0 => pending.rt >= g)
  BY <1>1 DEF Ordered, Ahead
<1>3. e \in FullEntry /\ g \in Token /\ g # 0 /\ g \in Nat /\ e # NoEntry
  BY <1>1, ProcTypes, EntryTypes, Tokens DEF Placed
<1>4. g <= head /\ g >= row.rt
  BY <1>1, <1>2, <1>3, Numbers DEF UpTo, Forward, Generation
<1>5. /\ pending' # NoEntry =>
            /\ pending # NoEntry /\ pending'.at = pending.at
            /\ pending'.rt = pending.rt /\ pending'.anchor = g
      /\ pending' = NoEntry => pending'.rt = 0 /\ pending'.anchor = 0
  BY <1>1, <1>3, EntryTypes DEF Reanchored
<1> HIDE DEF g
<1>6. Forward(pending)' /\ UpTo(pending, head)'
  <2>1. pending.rt <= head
    BY DEF Ordered, UpTo
  <2>2. UpTo(pending', head')
    BY <1>1, <1>4, <1>5, <2>1, Numbers DEF UpTo
  <2>3. Forward(pending')
    BY <1>2, <1>3, <1>5, Numbers DEF Forward, Generation
  <2> QED BY <2>2, <2>3 DEF Forward, UpTo
<1>7. acct'[p].rt <= head'
  <2>1. acct[p].rt <= head /\ e.rt <= head /\ pending'.rt <= head
    BY <1>1, <1>2, <1>6 DEF Ordered, UpTo
  <2> QED BY <1>1, <2>1 DEF FlushHits
<1>8. Ahead(p, pc[p], loc[p])'
  BY <1>1, <1>7 DEF FlushHits, Continues, Ahead, Flying
<1>9. ASSUME NEW q \in Proc \ {p}, pc'[q] = pc[q], loc'[q] = loc[q]
      PROVE  Ahead(q, pc[q], loc[q])'
  <2>1. inFlight = q => inFlight' = q
    BY DEF FlushHits, Continues
  <2>2. ASSUME pc[q] = "persist" PROVE Carried(loc[q])'
    <3>1. Writes(loc[q]) /\ Carried(loc[q])
      BY <2>2 DEF Ordered, Ahead
    <3>2. loc[q].rt # 0 => loc[q].rt >= g
      BY <1>1, <3>1 DEF Writes, Floor, g
    <3> QED BY <1>1, <1>5, <1>9, <3>1, <3>2 DEF Carried
  <2> QED BY <1>1, <1>5, <1>9, <2>1, <2>2, KeepOthers
<1>10. /\ reauth' = "none" /\ live' \subseteq {head'} /\ head' <= minted' /\ head <= head'
       /\ row'.rt <= head'
  BY <1>1, <1>4, Numbers DEF Ordered
<1> QED BY <1>1, <1>4, <1>6, <1>7, <1>8, <1>9, <1>10, OrderedMoves

LEMMA OrderedMints ==
    ASSUME Typed, Typed', Ordered, NEW p \in Proc, NEW rotates \in BOOLEAN, Mints(p, rotates)
    PROVE  Ordered'
<1> DEFINE t == loc[p].exch
           n == minted + 1
<1>1. /\ Moves(p) /\ pc'[p] = "answered" /\ acct'[p] = acct[p]
      /\ pc[p] = "exchange" /\ pc[p] \in Flying /\ t \in live /\ loc'[p].exch = t
      /\ loc'[p].answer = "ok" => loc'[p].rt = IF rotates THEN n ELSE 0
      /\ minted' = n
      /\ live' = IF rotates THEN (live \ {t}) \cup {n} ELSE live
      /\ head' = IF rotates /\ t = head THEN n ELSE head
      /\ UNCHANGED <<row, pending, inFlight, reauth>>
  BY DEF Mints, Flying
<1>2. t = head /\ inFlight = p
  BY <1>1 DEF Ordered, Ahead
<1>3. n \in Nat /\ head < n /\ head \in Nat
  BY Numbers DEF Ordered
<1>4. head' = (IF rotates THEN n ELSE head) /\ live' \subseteq {head'}
  BY <1>1, <1>2 DEF Ordered
<1> HIDE DEF n, t
<1>5. head <= head' /\ head' <= minted'
  BY <1>1, <1>3, <1>4
<1>6. reauth' = "none" /\ row'.rt <= head' /\ acct'[p].rt <= head'
  BY <1>1, <1>3, <1>5, Numbers, NumbersNext DEF Ordered
<1>7. Forward(pending)' /\ UpTo(pending, head)'
  BY <1>1, <1>5, Numbers, NumbersNext DEF Ordered, Forward, UpTo
<1>8. Ahead(p, pc[p], loc[p])'
  BY <1>1, <1>2, <1>3, <1>4, <1>5 DEF Ahead, Flying
<1>9. ASSUME NEW q \in Proc \ {p}, pc'[q] = pc[q], loc'[q] = loc[q]
      PROVE  Ahead(q, pc[q], loc[q])'
  <2>1. pc[q] = "flush" /\ pending'.rt # 0 => pending'.rt >= Generation(loc[q].entry)
    BY <1>1 DEF Ordered, Ahead
  <2> QED BY <1>1, <1>5, <1>9, <2>1, KeepSolo
<1> QED BY <1>1, <1>4, <1>5, <1>6, <1>7, <1>8, <1>9, OrderedMoves

\* A step of a refresh that leaves the row, the registry and the grant alone.
LEMMA OrderedInside ==
    ASSUME Typed, Typed', Ordered, NEW p \in Proc, Moves(p), pc[p] \in Flying,
           acct'[p] = acct[p], row' = row, Kept, pending' \in {pending, NoEntry},
           Ahead(p, pc[p], loc[p])'
    PROVE  Ordered'
<1>1. UNCHANGED <<reauth, minted, live, head>> /\ head <= head'
  BY Numbers DEF Kept
<1>2. pending' = NoEntry => pending'.rt = 0 /\ pending'.anchor = 0
  BY EntryTypes
<1>3. Forward(pending)' /\ UpTo(pending, head)'
  BY <1>1, <1>2, Numbers DEF Ordered, Forward, UpTo
<1>4. ASSUME NEW q \in Proc \ {p}, pc'[q] = pc[q], loc'[q] = loc[q]
      PROVE  Ahead(q, pc[q], loc[q])'
  <2>1. pc[q] = "flush" /\ pending'.rt # 0 => pending'.rt >= Generation(loc[q].entry)
    BY <1>2 DEF Ordered, Ahead
  <2> QED BY <1>1, <1>4, <2>1, KeepSolo
<1>5. /\ reauth' = "none" /\ live' \subseteq {head'} /\ head' <= minted'
      /\ row'.rt <= head' /\ acct'[p].rt <= head'
  BY <1>1 DEF Ordered
<1> QED BY <1>1, <1>3, <1>4, <1>5, OrderedMoves

LEMMA OrderedRefuses ==
    ASSUME Typed, Typed', Ordered, NEW p \in Proc, Refuses(p)
    PROVE  Ordered'
<1>1. Ahead(p, pc[p], loc[p])'
  BY DEF Refuses, Kept, Ordered, Ahead, Flying
<1> QED BY <1>1, OrderedInside DEF Refuses, Flying

LEMMA OrderedGoesOn ==
    ASSUME Typed, Typed', Ordered, NEW p \in Proc,
           \/ pc[p] = "persist" /\ GoesOn(p, "retryread")
           \/ pc[p] = "retryread" /\ GoesOn(p, "retrywrite")
    PROVE  Ordered'
<1>1. /\ Moves(p) /\ loc'[p] = loc[p] /\ acct'[p] = acct[p] /\ row' = row
      /\ inFlight' = inFlight /\ Kept /\ head' = head
      /\ pc'[p] \in {"retryread", "retrywrite"} /\ pc[p] \in Flying
  BY DEF GoesOn, Flying, Kept
<1>2. Writes(loc[p]) /\ inFlight = p /\ loc[p].exch <= head
  BY DEF Ordered, Ahead, Flying
<1>3. pending' = NoEntry /\ pending' \in {pending, NoEntry}
  BY DEF GoesOn, Ordered, Ahead
<1>4. loc[p].rt # 0 => Floor(loc[p].rt)'
  <2> SUFFICES ASSUME loc[p].rt # 0, NEW r \in Proc, pc'[r] = "flush"
               PROVE  loc[p].rt >= Generation(loc'[r].entry)
    BY <1>1 DEF Floor
  <2>1. r # p
    BY <1>1
  <2>2. pc[r] = "flush" /\ loc'[r] = loc[r]
    BY <1>1, <2>1 DEF Moves, Stays
  <2> QED BY <1>2, <2>2 DEF Writes, Floor
<1>5. Writes(loc[p])'
  BY <1>1, <1>2, <1>4 DEF Writes, UpTo, Forward
<1>6. Ahead(p, pc[p], loc[p])'
  BY <1>1, <1>2, <1>3, <1>5 DEF Ahead, Flying
<1> QED BY <1>1, <1>3, <1>6, OrderedInside

LEMMA OrderedCarriesEntry ==
    ASSUME Typed, Typed', Ordered, NEW p \in Proc, CarriesEntry(p)
    PROVE  Ordered'
<1> DEFINE r == loc'[p].rt
<1>1. /\ Moves(p) /\ pc'[p] = "persist" /\ acct'[p] = acct[p]
      /\ pc[p] = "answered" /\ loc[p].answer = "ok" /\ pc[p] \in Flying
      /\ loc'[p].entry = pending /\ loc'[p].exch = loc[p].exch
      /\ r = IF loc[p].rt # 0 THEN loc[p].rt
             ELSE IF pending.rt # 0 \/ p \in Request THEN pending.rt
             ELSE loc[p].exch
      /\ UNCHANGED <<row, pending, inFlight>> /\ Kept /\ head' = head
  BY DEF CarriesEntry, Kept, Flying
<1>2. /\ loc[p].rt = head \/ (loc[p].rt = 0 /\ loc[p].exch = head)
      /\ inFlight = p /\ loc[p].exch <= head
      /\ Forward(pending) /\ UpTo(pending, head)
  BY <1>1 DEF Ordered, Ahead
<1>3. r = head \/ r = pending.rt
  <2>1. head # 0
    BY Tokens DEF Typed, Shared
  <2> QED BY <1>1, <1>2, <2>1
<1>4. r = 0 \/ r = head \/ (pending.rt # 0 /\ r = pending.rt)
  BY <1>3
<1>5. r \in Nat /\ head \in Nat
  BY Numbers, NumbersNext
<1>6. pending.rt # 0 => pending # NoEntry
  BY EntryTypes
<1> HIDE DEF r
<1>7. /\ r <= head
      /\ r # 0 => r >= Generation(pending) /\ r >= pending.anchor
      /\ r # 0 /\ pending = NoEntry => r >= loc[p].exch
  <2>1. CASE r = 0
    BY <1>5, <2>1
  <2>2. CASE r = head
    BY <1>2, <2>2, Numbers DEF UpTo, Generation
  <2>3. CASE pending.rt # 0 /\ r = pending.rt
    BY <1>2, <1>6, <2>3, Numbers DEF UpTo, Forward, Generation
  <2> QED BY <1>4, <2>1, <2>2, <2>3
<1>8. ASSUME r # 0, NEW q \in Proc, pc'[q] = "flush"
      PROVE  r >= Generation(loc'[q].entry)
  <2>1. q # p
    BY <1>1, <1>8
  <2>2. pc[q] = "flush" /\ loc'[q] = loc[q]
    BY <1>1, <1>8, <2>1 DEF Moves, Stays
  <2>3. /\ UpTo(loc[q].entry, head)
        /\ pending.rt # 0 => pending.rt >= Generation(loc[q].entry)
    BY <2>2 DEF Ordered, Ahead
  <2>4. head >= Generation(loc[q].entry)
    BY <2>3, Numbers DEF UpTo, Generation
  <2> QED BY <1>4, <1>8, <2>2, <2>3, <2>4
<1>9. r # 0 => Floor(loc[p].rt)'
  BY <1>8 DEF Floor, r
<1>10. Writes(loc[p])'
  <2>1. UpTo(loc[p].entry, head)' /\ Forward(loc[p].entry)'
    BY <1>1, <1>2 DEF UpTo, Forward
  <2> QED BY <1>1, <1>7, <1>9, <2>1 DEF Writes, r
<1>11. Carried(loc[p])'
  BY <1>1, <1>7 DEF Carried, r
<1>12. Ahead(p, pc[p], loc[p])'
  BY <1>1, <1>2, <1>10, <1>11 DEF Ahead, Flying
<1> QED BY <1>1, <1>12, OrderedInside

\* Two complete entries with the same fields are one.
LEMMA SameEntry ==
    ASSUME NEW e \in FullEntry, NEW f \in FullEntry,
           e.at = f.at, e.rt = f.rt, e.anchor = f.anchor
    PROVE  e = f
  BY DEF FullEntry

\* What a refresh compares the row with: where it comes from.
Compares(p, x) ==
    \/ pc[p] = "persist" /\ x = PersistAnchor(p)
    \/ pc[p] \in {"retryread", "retrywrite"} /\ x = Generation(loc[p].entry)

\* What it then writes is not older.
LEMMA ComparesBelow ==
    ASSUME Typed, Ordered, NEW p \in Proc, NEW x, Compares(p, x)
    PROVE  /\ Writes(loc[p]) /\ pc[p] \in Flying /\ x \in Nat /\ x <= head
           /\ loc[p].rt # 0 => loc[p].rt >= x
<1>1. Writes(loc[p]) /\ pc[p] \in Flying /\ loc[p].exch <= head
  BY DEF Compares, Ordered, Ahead, Flying
<1>2. UpTo(loc[p].entry, head)
  BY <1>1 DEF Writes
<1>3. CASE pc[p] = "persist" /\ x = PersistAnchor(p)
  BY <1>1, <1>2, <1>3, Numbers DEF Writes, PersistAnchor, UpTo
<1>4. CASE x = Generation(loc[p].entry)
  BY <1>1, <1>2, <1>4, Numbers DEF Writes, UpTo, Generation
<1> QED BY <1>1, <1>3, <1>4 DEF Compares

LEMMA OrderedSettles ==
    ASSUME Typed, Typed', Ordered, NEW p \in Proc, NEW x, Compares(p, x), Settles(p, x)
    PROVE  Ordered' /\ row'.rt >= row.rt /\ pending' = NoEntry
<1>1. /\ Moves(p) /\ pc'[p] = "idle" /\ row.rt = x
      /\ acct'[p].rt = IF loc[p].rt # 0 THEN loc[p].rt ELSE acct[p].rt
      /\ row'.rt = IF loc[p].rt # 0 THEN loc[p].rt ELSE row.rt
      /\ UNCHANGED <<reauth, minted, live, head>>
  BY DEF Settles, Serves, Continues, Kept
<1>2. /\ Writes(loc[p]) /\ pc[p] \in Flying /\ x \in Nat /\ x <= head
      /\ loc[p].rt # 0 => loc[p].rt >= x
  BY ComparesBelow
<1>3. loc[p].rt <= head /\ acct[p].rt <= head
  BY <1>2 DEF Writes, Ordered
<1>4. row'.rt >= row.rt /\ row'.rt <= head' /\ acct'[p].rt <= head'
  BY <1>1, <1>2, <1>3, Numbers
<1>5. pending' = NoEntry
  <2>1. CASE loc[p].entry = NoEntry
    <3>1. pending' = pending
      BY <2>1 DEF Settles
    <3>2. CASE pc[p] = "persist"
      BY <2>1, <3>1, <3>2 DEF Ordered, Ahead, Carried
    <3>3. CASE pc[p] \in {"retryread", "retrywrite"}
      BY <3>1, <3>3 DEF Ordered, Ahead
    <3> QED BY <3>2, <3>3 DEF Compares
  <2>2. CASE loc[p].entry # NoEntry
    <3> SUFFICES ASSUME pending' # NoEntry PROVE FALSE
      OBVIOUS
    <3>1. pending # NoEntry /\ pending # loc[p].entry
      BY <2>2 DEF Settles, Reanchored
    <3>2. pc[p] = "persist" /\ x = loc[p].entry.anchor
      BY <2>2, <3>1 DEF Compares, PersistAnchor, Ordered, Ahead
    <3>3. Carried(loc[p])
      BY <3>2 DEF Ordered, Ahead
    <3>4. /\ pending.at = loc[p].entry.at /\ pending.rt = loc[p].entry.rt
          /\ pending.anchor = loc[p].entry.anchor
      BY <1>1, <3>1, <3>2, <3>3 DEF Carried
    <3>5. pending \in FullEntry /\ loc[p].entry \in FullEntry
      BY <2>2, <3>1, <3>2, ProcTypes DEF Typed, Shared, Placed
    <3> QED BY <3>1, <3>4, <3>5, SameEntry
  <2> QED BY <2>1, <2>2
<1>6. pending'.rt = 0 /\ pending'.anchor = 0
  BY <1>5, EntryTypes
<1>7. Forward(pending)' /\ UpTo(pending, head)'
  BY <1>1, <1>5, <1>6, Numbers DEF Forward, UpTo
<1>8. Ahead(p, pc[p], loc[p])'
  BY <1>1 DEF Ahead, Flying
<1>9. /\ reauth' = "none" /\ live' \subseteq {head'} /\ head' <= minted' /\ head <= head'
  BY <1>1, Numbers DEF Ordered
<1>10. ASSUME NEW q \in Proc \ {p}, pc'[q] = pc[q], loc'[q] = loc[q]
       PROVE  Ahead(q, pc[q], loc[q])'
  BY <1>2, <1>6, <1>9, <1>10, KeepSolo
<1> QED BY <1>1, <1>4, <1>5, <1>7, <1>8, <1>9, <1>10, OrderedMoves

LEMMA OrderedHolds ==
    ASSUME Typed, Typed', Ordered, NEW p \in Proc, NEW x, Compares(p, x), Holds(p, x)
    PROVE  Ordered'
<1>1. /\ Moves(p) /\ pc'[p] = "idle" /\ row' = row
      /\ acct'[p].rt = IF loc[p].rt # 0 THEN loc[p].rt ELSE acct[p].rt
      /\ pending' \in FullEntry /\ pending'.rt = loc[p].rt
      /\ pending'.anchor = IF pending # NoEntry THEN pending.anchor ELSE x
      /\ UNCHANGED <<reauth, minted, live, head>>
  BY DEF Holds, Serves, Continues, Kept
<1>2. /\ Writes(loc[p]) /\ pc[p] \in Flying /\ x \in Nat /\ x <= head
      /\ loc[p].rt # 0 => loc[p].rt >= x
  BY ComparesBelow
<1>3. /\ loc[p].rt <= head /\ acct[p].rt <= head /\ pending.anchor <= head
  BY <1>2 DEF Writes, Ordered, UpTo
<1>4. loc[p].rt # 0 /\ pending # NoEntry => loc[p].rt >= pending.anchor
  BY DEF Compares, Ordered, Ahead, Carried
<1>5. UpTo(pending', head')
  BY <1>1, <1>2, <1>3 DEF UpTo
<1>6. Forward(pending')
  BY <1>1, <1>2, <1>4, NumbersNext DEF Forward, Generation
<1>7. Forward(pending)' /\ UpTo(pending, head)'
  BY <1>5, <1>6 DEF Forward, UpTo
<1>8. Ahead(p, pc[p], loc[p])' /\ acct'[p].rt <= head'
  BY <1>1, <1>3 DEF Ahead, Flying
<1>9. /\ reauth' = "none" /\ live' \subseteq {head'} /\ head' <= minted' /\ head <= head'
      /\ row'.rt <= head'
  BY <1>1, Numbers DEF Ordered
<1>10. ASSUME NEW q \in Proc \ {p}, pc'[q] = pc[q], loc'[q] = loc[q]
       PROVE  Ahead(q, pc[q], loc[q])'
  <2>1. pc[q] = "flush" /\ pending'.rt # 0 => pending'.rt >= Generation(loc[q].entry)
    BY <1>1, <1>2 DEF Writes, Floor
  <2> QED BY <1>2, <1>9, <1>10, <2>1, KeepSolo
<1> QED BY <1>1, <1>7, <1>8, <1>9, <1>10, OrderedMoves

\* What the step of a caller amounts to.
Retries(p) ==
    \/ pc[p] = "persist" /\ GoesOn(p, "retryread")
    \/ pc[p] = "retryread" /\ GoesOn(p, "retrywrite")

Outcome(p) ==
    \/ Quiet(p) \/ TakesEntry(p) \/ FlushHits(p)
    \/ (\E rotates \in BOOLEAN : Mints(p, rotates)) \/ Refuses(p)
    \/ CarriesEntry(p) \/ Retries(p)
    \/ \E x : Compares(p, x) /\ (Settles(p, x) \/ Holds(p, x))

LEMMA CallerSteps ==
    ASSUME Typed, NEW p \in Proc, CallStart(p) \/ StartFlush(p) \/ CallStep(p)
    PROVE  Outcome(p)
<1>1. CASE CallStart(p) \/ StartFlush(p)
  BY <1>1, SelectStep, StartJoinStep, BackoffRecoverStep, StartRereadStep, StartFlushStep
     DEF CallStart, Outcome
<1>2. CASE PersistWrite(p)
  BY <1>2, PersistWriteStep DEF Outcome, Compares, Retries
<1>3. CASE RetryRead(p)
  BY <1>3, RetryReadStep DEF Outcome, Compares, Retries
<1>4. CASE RetryWrite(p)
  BY <1>4, RetryWriteStep DEF Outcome, Compares
<1>5. CASE \E rotates, delivered \in BOOLEAN : ExchangeAccepted(p, rotates, delivered)
  BY <1>5, ExchangeAcceptedStep DEF Outcome
<1>6. CASE /\ CallStep(p) /\ ~PersistWrite(p) /\ ~RetryRead(p) /\ ~RetryWrite(p)
           /\ ~(\E rotates, delivered \in BOOLEAN : ExchangeAccepted(p, rotates, delivered))
  BY <1>6, StartProactiveStep, SkipProactiveStep, FlushOnlyStep, FlushAndAdoptStep,
     RereadStep, ExchangeRefusedStep, BeginPersistStep, AdoptStep, ErrorSteps,
     GrantRefusedStep, PauseStep
     DEF CallStep, Outcome
<1> QED BY <1>1, <1>2, <1>3, <1>4, <1>5, <1>6

LEMMA OrderedInit == Init => Ordered
<1> SUFFICES ASSUME Init PROVE Ordered
  OBVIOUS
<1>1. /\ reauth = "none" /\ live = {1} /\ head = 1 /\ minted = 1 /\ row.rt = 1
      /\ pending = NoEntry /\ pending.rt = 0 /\ pending.anchor = 0
      /\ \A p \in Proc : acct[p].rt = 1 /\ pc[p] = "idle"
  BY EntryTypes DEF Init
<1> QED BY <1>1 DEF Ordered, Forward, UpTo, Ahead, Flying

LEMMA OrderedCaller ==
    ASSUME Typed, Typed', Ordered, NEW p \in Proc, Outcome(p)
    PROVE  Ordered' /\ row'.rt >= row.rt
<1>0. row.rt \in Nat /\ row.rt >= row.rt
  BY Numbers
<1>1. CASE Quiet(p)
  BY <1>0, <1>1, OrderedQuiet DEF Quiet, Refused
<1>2. CASE TakesEntry(p)
  BY <1>0, <1>2, OrderedTakesEntry DEF TakesEntry
<1>3. CASE FlushHits(p)
  BY <1>3, OrderedFlushHits
<1>4. CASE \E rotates \in BOOLEAN : Mints(p, rotates)
  BY <1>0, <1>4, OrderedMints DEF Mints
<1>5. CASE Refuses(p)
  BY <1>0, <1>5, OrderedRefuses DEF Refuses
<1>6. CASE CarriesEntry(p)
  BY <1>0, <1>6, OrderedCarriesEntry DEF CarriesEntry
<1>7. CASE Retries(p)
  BY <1>0, <1>7, OrderedGoesOn DEF Retries, GoesOn
<1>8. ASSUME NEW x, Compares(p, x), Settles(p, x) \/ Holds(p, x)
      PROVE  Ordered' /\ row'.rt >= row.rt
  <2>1. CASE Settles(p, x)
    BY <1>8, <2>1, OrderedSettles
  <2>2. CASE Holds(p, x)
    BY <1>0, <1>8, <2>2, OrderedHolds DEF Holds
  <2> QED BY <1>8, <2>1, <2>2
<1> QED BY <1>1, <1>2, <1>3, <1>4, <1>5, <1>6, <1>7, <1>8 DEF Outcome

LEMMA OrderedNext ==
    ASSUME ~Reauthenticates, Typed, Ordered, [Next]_vars
    PROVE  Ordered' /\ row'.rt >= row.rt
<1>0. Typed' /\ row.rt \in Token /\ row.rt >= row.rt
  <2>1. Typed'
    BY TypedNext
  <2>2. row.rt \in Token
    BY DEF Typed, Shared
  <2>3. row.rt \in Nat
    BY <2>2, Tokens
  <2> QED BY <2>1, <2>2, <2>3
<1>1. CASE UNCHANGED vars
  <2>1. UNCHANGED <<row, pending, inFlight, pc, acct, loc, reauth, minted, live, head>>
    BY <1>1 DEF vars, memVars, provVars
  <2> QED BY <1>0, <2>1 DEF Ordered, Forward, UpTo, Ahead, Writes, Carried, Floor
<1>2. ASSUME NEW p \in Proc, CallStart(p) \/ StartFlush(p) \/ CallStep(p)
      PROVE  Ordered' /\ row'.rt >= row.rt
  BY <1>0, <1>2, CallerSteps, OrderedCaller
<1>3. ~ReauthExchange /\ ~ReauthStep
  BY DEF ReauthExchange, ReauthStep, ReauthWrite, ReauthResume, ReauthClear, Ordered
<1>4. CASE Revoke
  <2>1. /\ UNCHANGED <<row, pending, inFlight, pc, acct, loc, reauth, minted, head>>
        /\ live' = {}
    BY <1>4 DEF Revoke, memVars
  <2> QED BY <1>0, <2>1 DEF Ordered, Forward, UpTo, Ahead, Writes, Carried, Floor
<1>5. CASE WindowPasses
  <2>1. UNCHANGED <<row, pending, inFlight, pc, acct, loc, reauth, minted, live, head>>
    BY <1>5 DEF WindowPasses, provVars
  <2> QED BY <1>0, <2>1 DEF Ordered, Forward, UpTo, Ahead, Writes, Carried, Floor
<1>6. CASE Restart
  <2>1. /\ UNCHANGED <<row, minted, live, head>> /\ reauth' = "none"
        /\ pending' = NoEntry /\ pending'.rt = 0 /\ pending'.anchor = 0
        /\ \A p \in Proc : pc'[p] = "idle" /\ acct'[p].rt = row.rt
    BY <1>6, EntryTypes DEF Restart, provVars
  <2>2. head \in Nat
    BY Tokens DEF Typed, Shared
  <2> QED BY <1>0, <2>1, <2>2 DEF Ordered, Forward, UpTo, Ahead, Flying
<1> QED BY <1>1, <1>2, <1>3, <1>4, <1>5, <1>6 DEF Next

\* As long as the user does not re-authenticate, the row never goes back to an
\* earlier refresh token, whatever fails, crashes or overlaps: not by a late
\* persist, nor by the flush of an entry that newer rotations have overtaken.
\* (The property does not survive a re-authentication together with a failed
\* database write: a refresh of the old grant may compare the row with the
\* anchor that an entry of the new grant has left in the registry.)
THEOREM RowOnlyGoesForward ==
    ASSUME ~Reauthenticates
    PROVE  Spec => RowNeverGoesBack
<1>1. Init => Typed /\ Ordered
  BY TypedInit, OrderedInit
<1>2. Typed /\ Ordered /\ [Next]_vars => (Typed /\ Ordered)'
  BY TypedNext, OrderedNext
<1>3. Typed /\ Ordered /\ [Next]_vars => [row'.rt >= row.rt]_vars
  BY OrderedNext
<1> QED BY <1>1, <1>2, <1>3, PTL DEF Spec, RowNeverGoesBack

-----------------------------------------------------------------------------
(* Without database failures the newest grant stays *)

\* What every step of p has to show for Unheld.
LEMMA UnheldMoves ==
    ASSUME Typed, Typed', Unheld, NEW p \in Proc, Moves(p), pending' = NoEntry,
           minted <= minted', stale \subseteq stale', stale' \subseteq 1..minted',
           \A t \in stale' \ stale : t > minted,
           row'.rt \notin stale', row'.rt <= minted', Clean(p)'
    PROVE  Unheld'
<1>1. ASSUME NEW q \in Proc \ {p} PROVE Clean(q)'
  <2>1. acct'[q].rt = acct[q].rt /\ acct[q].rt <= minted
    BY DEF Moves, Stays, Unheld, Clean
  <2>2. acct'[q].rt <= minted'
    BY <2>1, Numbers, NumbersNext
  <2>3. CASE pc'[q] \in {"idle", "adopt"}
    BY <2>2, <2>3 DEF Clean, Flying
  <2>4. CASE pc'[q] = pc[q] /\ loc'[q] = loc[q]
    <3>1. Clean(q)
      BY DEF Unheld
    <3>2. pc[q] \in Flying => loc[q].exch <= minted'
      BY <3>1, Numbers, NumbersNext DEF Clean
    <3>3. ASSUME (pc[q] = "answered" /\ loc[q].answer = "ok") \/ pc[q] = "persist"
          PROVE  /\ loc[q].rt <= minted'
                 /\ loc[q].exch \notin stale' => loc[q].rt \notin stale'
      <4>1. loc[q].rt <= minted /\ (loc[q].exch \notin stale => loc[q].rt \notin stale)
        BY <3>1, <3>3 DEF Clean
      <4>2. loc[q].rt <= minted' /\ ~(loc[q].rt > minted)
        BY <4>1, Numbers, NumbersNext
      <4> QED BY <4>1, <4>2
    <3> QED BY <2>2, <2>4, <3>1, <3>2, <3>3 DEF Clean
  <2> QED BY <2>3, <2>4 DEF Moves, Stays
<1> QED BY <1>1 DEF Unheld

LEMMA NumbersOfStale ==
    ASSUME Typed, Unheld
    PROVE  0 \notin stale /\ minted + 1 \notin stale /\ minted \in Nat
  BY Tokens DEF Typed, Shared, Unheld

LEMMA UnheldCaller ==
    ASSUME MaxDbFailures = 0, Typed, Typed', Unheld, NEW p \in Proc, Outcome(p)
    PROVE  Unheld'
<1>0. /\ Clean(p) /\ pending = NoEntry /\ pending.rt = 0
      /\ dbFailures = 0 /\ dbFailures' = 0
      /\ minted \in Nat /\ 0 \notin stale /\ minted + 1 \notin stale
      /\ stale \subseteq 1..minted /\ row.rt \notin stale /\ row.rt <= minted
  <2>1. dbFailures = 0 /\ dbFailures' = 0
    BY DEF Typed, Shared
  <2> QED BY <2>1, EntryTypes, NumbersOfStale DEF Unheld
<1>1. ASSUME Moves(p), pending' = NoEntry, UNCHANGED <<minted, stale>>,
             row'.rt \notin stale, row'.rt <= minted, Clean(p)'
      PROVE  Unheld'
  <2>1. minted <= minted'
    BY <1>0, <1>1
  <2> QED BY <1>0, <1>1, <2>1, UnheldMoves
<1>2. CASE Quiet(p)
  <2>1. acct'[p].rt <= minted
    BY <1>0, <1>2 DEF Quiet, Clean
  <2>2. Clean(p)'
    BY <1>2, <2>1 DEF Quiet, Continues, Clean, Flying
  <2> QED BY <1>0, <1>1, <1>2, <2>2 DEF Quiet, Continues, Refused
<1>3. ~TakesEntry(p) /\ ~FlushHits(p)
  BY <1>0 DEF TakesEntry, FlushHits, Clean
<1>4. ASSUME NEW rotates \in BOOLEAN, Mints(p, rotates)
      PROVE  Unheld'
  <2> DEFINE t == loc[p].exch
             n == minted + 1
  <2>1. /\ Moves(p) /\ pc'[p] = "answered" /\ acct'[p] = acct[p] /\ loc'[p].exch = t
        /\ loc'[p].answer = "ok" => loc'[p].rt = IF rotates THEN n ELSE 0
        /\ minted' = n /\ pc[p] = "exchange"
        /\ stale' = IF rotates /\ t \in stale THEN stale \cup {n} ELSE stale
        /\ UNCHANGED <<row, pending>>
    BY <1>4 DEF Mints
  <2>2. /\ n \in Nat /\ minted <= n /\ n > minted /\ n \notin stale /\ 0 \notin stale /\ n # 0
        /\ 1..minted \subseteq 1..n /\ n \in 1..n /\ 0 <= n
        /\ row.rt # n /\ row.rt <= n
    BY <1>0, Numbers
  <2>3. acct[p].rt <= minted /\ t <= minted
    BY <1>0, <2>1 DEF Clean, Flying
  <2>4. acct[p].rt <= n /\ t <= n /\ t # n
    BY <2>2, <2>3, <1>0, Numbers
  <2> HIDE DEF n, t
  <2>5. /\ stale \subseteq stale' /\ stale' \subseteq 1..minted'
        /\ \A u \in stale' \ stale : u > minted
        /\ row'.rt \notin stale' /\ row'.rt <= minted' /\ minted <= minted'
    BY <1>0, <2>1, <2>2
  <2>6. ASSUME loc'[p].answer = "ok"
        PROVE  loc'[p].rt <= n /\ (t \notin stale' => loc'[p].rt \notin stale')
    BY <2>1, <2>2, <2>6
  <2>7. Clean(p)'
    BY <2>1, <2>4, <2>6 DEF Clean, Flying
  <2> QED BY <1>0, <2>1, <2>5, <2>7, UnheldMoves
<1>5. CASE Refuses(p)
  <2>1. Clean(p)'
    BY <1>0, <1>5 DEF Refuses, Kept, Clean, Flying
  <2> QED BY <1>0, <1>1, <1>5, <2>1 DEF Refuses, Kept
<1>6. CASE CarriesEntry(p)
  <2>1. /\ Moves(p) /\ pc'[p] = "persist" /\ acct'[p] = acct[p]
        /\ pc[p] = "answered" /\ loc[p].answer = "ok"
        /\ loc'[p].entry = NoEntry /\ loc'[p].exch = loc[p].exch
        /\ loc'[p].rt \in {loc[p].rt, loc[p].exch, 0}
        /\ UNCHANGED <<row, pending, minted, stale>>
    BY <1>0, <1>6 DEF CarriesEntry, Kept
  <2>2. /\ acct[p].rt <= minted /\ loc[p].exch <= minted /\ loc[p].rt <= minted
        /\ loc[p].exch \notin stale => loc[p].rt \notin stale
    BY <1>0, <2>1 DEF Clean, Flying
  <2>3. loc'[p].rt <= minted /\ (loc[p].exch \notin stale => loc'[p].rt \notin stale)
    BY <1>0, <2>1, <2>2
  <2>4. Clean(p)'
    BY <2>1, <2>2, <2>3 DEF Clean, Flying
  <2> QED BY <1>0, <1>1, <2>1, <2>4
<1>7. ~Retries(p)
  BY <1>0 DEF Retries, GoesOn, Clean
<1>8. ASSUME NEW x, Compares(p, x), Settles(p, x) \/ Holds(p, x)
      PROVE  Unheld'
  <2>1. pc[p] = "persist" /\ loc[p].entry = NoEntry /\ x = loc[p].exch
    BY <1>0, <1>8 DEF Compares, Clean, PersistAnchor
  <2>2. Settles(p, x)
    BY <1>0, <1>8 DEF Holds
  <2>3. /\ Moves(p) /\ pc'[p] = "idle" /\ row.rt = x /\ pending' = pending
        /\ acct'[p].rt = IF loc[p].rt # 0 THEN loc[p].rt ELSE acct[p].rt
        /\ row'.rt = IF loc[p].rt # 0 THEN loc[p].rt ELSE row.rt
        /\ UNCHANGED <<minted, stale>>
    BY <2>1, <2>2 DEF Settles, Serves, Continues, Kept
  <2>4. /\ acct[p].rt <= minted /\ loc[p].rt <= minted
        /\ loc[p].exch \notin stale => loc[p].rt \notin stale
    BY <1>0, <2>1 DEF Clean
  <2>5. row'.rt \notin stale /\ row'.rt <= minted /\ acct'[p].rt <= minted
    BY <1>0, <2>1, <2>3, <2>4
  <2>6. Clean(p)'
    BY <2>3, <2>5 DEF Clean, Flying
  <2> QED BY <1>0, <1>1, <2>3, <2>5, <2>6
<1> QED BY <1>2, <1>3, <1>4, <1>5, <1>6, <1>7, <1>8 DEF Outcome

LEMMA UnheldNext ==
    ASSUME MaxDbFailures = 0, Typed, Unheld, [Next]_vars
    PROVE  Unheld'
<1>0. Typed' /\ minted \in Nat /\ row.rt \in Token
  <2>1. Typed'
    BY TypedNext
  <2>2. minted \in Nat /\ row.rt \in Token
    BY Tokens DEF Typed, Shared
  <2> QED BY <2>1, <2>2
<1>1. ASSUME UNCHANGED <<pending, pc, acct, loc, minted, stale>>, row'.rt = row.rt
      PROVE  Unheld'
  BY <1>1 DEF Unheld, Clean
<1>2. CASE UNCHANGED vars
  BY <1>1, <1>2 DEF vars, memVars, provVars
<1>3. ASSUME NEW p \in Proc, CallStart(p) \/ StartFlush(p) \/ CallStep(p)
      PROVE  Unheld'
  BY <1>0, <1>3, CallerSteps, UnheldCaller
<1>4. CASE Revoke \/ WindowPasses \/ ReauthExchange
  BY <1>1, <1>4 DEF Revoke, WindowPasses, ReauthExchange, memVars, provVars
<1>5. CASE ReauthResume
  <2>1. row' = row \/ row' = [row EXCEPT !.paused = FALSE]
    BY <1>5 DEF ReauthResume, DbFails
  <2>2. row \in Row
    BY DEF Typed, Shared, Row
  <2>3. row'.rt = row.rt
    BY <2>1, <2>2 DEF Row
  <2> QED BY <1>1, <1>5, <2>3 DEF ReauthResume, memVars, provVars
<1>6. CASE ReauthClear
  <2>1. pending' = pending
    BY <1>6 DEF ReauthClear, Unheld
  <2> QED BY <1>1, <1>6, <2>1 DEF ReauthClear, provVars
<1>7. CASE ReauthWrite
  <2> DEFINE n == minted + 1
  <2>0. ~DbFails
    BY DEF DbFails, Typed, Shared
  <2>1. /\ minted' = n /\ stale' = 1..minted /\ row' = [row EXCEPT !.rt = n, !.at = n]
        /\ UNCHANGED <<pending, pc, acct, loc>>
    BY <1>7, <2>0 DEF ReauthWrite, memVars
  <2>2. row'.rt = n
    <3>1. row \in Row
      BY DEF Typed, Shared, Row
    <3> HIDE DEF n
    <3> QED BY <2>1, <3>1 DEF Row
  <2>3. n \notin 1..minted /\ 1..minted \subseteq 1..n /\ n <= n
    BY <1>0
  <2>4. ASSUME NEW p \in Proc PROVE Clean(p)'
    <3>1. Clean(p)
      BY DEF Unheld
    <3>2. acct[p].rt <= n
      BY <1>0, <3>1, Numbers DEF Clean
    <3>3. pc[p] \in Flying => loc[p].exch <= n /\ loc[p].exch \in 1..minted
      <4>1. pc[p] \in Flying => loc[p].exch \in Token /\ loc[p].exch <= minted
        BY <3>1, ProcTypes DEF Clean, Placed
      <4> QED BY <1>0, <4>1, BoundsAreNat DEF Token
    <3>4. (pc[p] = "answered" /\ loc[p].answer = "ok") \/ pc[p] = "persist" => loc[p].rt <= n
      BY <1>0, <3>1, Numbers DEF Clean
    <3> QED BY <2>1, <3>1, <3>2, <3>3, <3>4 DEF Clean, Flying
  <2> QED BY <2>1, <2>2, <2>3, <2>4 DEF Unheld
<1>8. CASE Restart
  <2>1. /\ UNCHANGED <<row, minted, stale>> /\ pending' = NoEntry
        /\ \A p \in Proc : pc'[p] = "idle" /\ acct'[p].rt = row.rt
    BY <1>8 DEF Restart, provVars
  <2>2. \A p \in Proc : Clean(p)'
    BY <2>1 DEF Clean, Flying, Unheld
  <2> QED BY <2>1, <2>2 DEF Unheld
<1> QED BY <1>2, <1>3, <1>4, <1>5, <1>6, <1>7, <1>8 DEF Next, ReauthStep

LEMMA UnheldInit == Init => Unheld
<1> SUFFICES ASSUME Init PROVE Unheld
  OBVIOUS
<1>1. /\ pending = NoEntry /\ stale = {} /\ row.rt = 1 /\ minted = 1
      /\ \A p \in Proc : pc[p] = "idle" /\ acct[p].rt = 1
  BY DEF Init
<1> QED BY <1>1 DEF Unheld, Clean, Flying

\* As long as the database does not fail, the row never holds a token of a
\* grant that a re-authentication has replaced, whichever refreshes of the old
\* grant are on their way, come back late, or are cut off by a restart: each of
\* them compares the row with the token it exchanged.
THEOREM NewestGrantStays ==
    ASSUME MaxDbFailures = 0
    PROVE  Spec => []RowHoldsNewestGrant
<1>1. Init => Typed /\ Unheld
  BY TypedInit, UnheldInit
<1>2. Typed /\ Unheld /\ [Next]_vars => (Typed /\ Unheld)'
  BY TypedNext, UnheldNext
<1>3. Typed /\ Unheld => RowHoldsNewestGrant
  BY DEF Unheld, RowHoldsNewestGrant
<1> QED BY <1>1, <1>2, <1>3, PTL DEF Spec

-----------------------------------------------------------------------------
(* Only an overtaken persist loses the live token *)

\* A persist carries a registry entry, the row has moved off the anchor of that
\* entry (a flush has overtaken the persist), and the persist ends without the
\* retry on what the flush wrote: because the write throws, or because another
\* entry is found in the registry and taken for a newer one.
OvertakenPersist(p) ==
    /\ PersistWrite(p)
    /\ loc[p].entry # NoEntry /\ row.rt # loc[p].entry.anchor
    /\ pc'[p] # "retryread"

\* What a caller does next, by where it is.
LEMMA NextStep ==
    ASSUME Typed, NEW p \in Proc, CallStart(p) \/ StartFlush(p) \/ CallStep(p)
    PROVE  /\ pc[p] = "flush" => FlushOnly(p) \/ FlushAndAdopt(p)
           /\ pc[p] = "exchange" =>
                 \/ ExchangeRefused(p)
                 \/ \E rotates, delivered \in BOOLEAN : ExchangeAccepted(p, rotates, delivered)
           /\ pc[p] = "answered" =>
                 \/ loc[p].answer = "ok" /\ BeginPersist(p)
                 \/ loc[p].answer # "ok" /\ (ExchangeError(p) \/ StaleReplay(p))
                 \/ loc[p].answer # "ok" /\ GrantRefused(p)
           /\ pc[p] = "persist" => PersistWrite(p)
           /\ pc[p] = "retryread" => RetryRead(p)
           /\ pc[p] = "retrywrite" => RetryWrite(p)
           /\ pc[p] \notin Flying \cup {"flush"} => pending' = pending
<1>1. ASSUME CallStart(p) \/ StartFlush(p) \/ StartProactive(p) \/ SkipProactive(p)
      PROVE  pc[p] \in {"idle", "selected"} /\ pending' = pending
  BY <1>1 DEF CallStart, StartFlush, Select, StartJoin, BackoffRecover, StartReread, Ready,
     StartProactive, SkipProactive, memVars
<1>2. ASSUME Reread(p) \/ Adopt(p) \/ PauseForReauth(p)
      PROVE  pc[p] \in {"reread", "adopt", "pause"} /\ pending' = pending
  BY <1>2 DEF Reread, Adopt, PauseForReauth
<1>3. ASSUME CallStep(p), ~StartProactive(p), ~SkipProactive(p), ~Reread(p), ~Adopt(p),
             ~PauseForReauth(p)
      PROVE  \/ pc[p] = "flush" /\ (FlushOnly(p) \/ FlushAndAdopt(p))
             \/ /\ pc[p] = "exchange"
                /\ \/ ExchangeRefused(p)
                   \/ \E rotates, delivered \in BOOLEAN : ExchangeAccepted(p, rotates, delivered)
             \/ pc[p] = "answered" /\ loc[p].answer = "ok" /\ BeginPersist(p)
             \/ pc[p] = "answered" /\ loc[p].answer # "ok" /\ (ExchangeError(p) \/ StaleReplay(p))
             \/ pc[p] = "answered" /\ loc[p].answer # "ok" /\ GrantRefused(p)
             \/ pc[p] = "persist" /\ PersistWrite(p)
             \/ pc[p] = "retryread" /\ RetryRead(p)
             \/ pc[p] = "retrywrite" /\ RetryWrite(p)
  <2>1. FlushOnly(p) \/ FlushAndAdopt(p) => pc[p] = "flush"
    BY DEF FlushOnly, FlushAndAdopt
  <2>2. \A rotates, delivered \in BOOLEAN : ExchangeAccepted(p, rotates, delivered) => pc[p] = "exchange"
    BY DEF ExchangeAccepted
  <2>3. ExchangeRefused(p) => pc[p] = "exchange"
    BY DEF ExchangeRefused
  <2>4. BeginPersist(p) => pc[p] = "answered" /\ loc[p].answer = "ok"
    BY DEF BeginPersist
  <2>5. ExchangeError(p) \/ StaleReplay(p) \/ GrantRefused(p) =>
           pc[p] = "answered" /\ loc[p].answer # "ok"
    BY DEF ExchangeError, StaleReplay, GrantRefused
  <2>6. /\ PersistWrite(p) => pc[p] = "persist"
        /\ RetryRead(p) => pc[p] = "retryread"
        /\ RetryWrite(p) => pc[p] = "retrywrite"
    BY DEF PersistWrite, RetryRead, RetryWrite
  <2> QED BY <1>3, <2>1, <2>2, <2>3, <2>4, <2>5, <2>6 DEF CallStep
<1>4. CASE CallStart(p) \/ StartFlush(p) \/ StartProactive(p) \/ SkipProactive(p)
  BY <1>1, <1>4
<1>5. CASE Reread(p) \/ Adopt(p) \/ PauseForReauth(p)
  BY <1>2, <1>5
<1>6. CASE /\ CallStep(p) /\ ~StartProactive(p) /\ ~SkipProactive(p) /\ ~Reread(p)
           /\ ~Adopt(p) /\ ~PauseForReauth(p)
  BY <1>3, <1>6 DEF Flying
<1> QED BY <1>4, <1>5, <1>6

\* What a flush does to row and registry.
LEMMA FlushEffect ==
    ASSUME Typed, NEW p \in Proc, pc[p] = "flush", FlushOnly(p) \/ FlushAndAdopt(p)
    PROVE  LET e == loc[p].entry
           IN \/ /\ row.rt = e.anchor /\ row'.rt = Generation(e)
                 /\ IF pending \in {NoEntry, e} THEN pending' = NoEntry
                    ELSE /\ pending' # NoEntry /\ pending'.rt = pending.rt
                         /\ pending'.anchor = Generation(e)
              \/ row' = row /\ pending' = pending
              \/ row' = row /\ pending' = NoEntry /\ pending = e /\ row.rt # e.anchor
<1> DEFINE e == loc[p].entry
<1>1. e \in FullEntry /\ Shared
  BY ProcTypes DEF Placed, Typed
<1>2. e.at \in Token /\ e.rt \in OptToken /\ Generation(e) \in Token
  BY <1>1, EntryTypes
<1>3. \/ UpdateTokens(e.at, e.rt, e.anchor) /\ pending' = ResolvedAfterPersist(e, Generation(e))
      \/ UpdateMisses(e.anchor) /\ pending' = ClearedIfCurrent(e)
      \/ DbFails /\ pending' = pending
  BY DEF FlushOnly, FlushAndAdopt
<1> HIDE DEF e
<1>4. CASE UpdateTokens(e.at, e.rt, e.anchor) /\ pending' = ResolvedAfterPersist(e, Generation(e))
  <2>1. row.rt = e.anchor /\ row'.rt = (IF e.rt # 0 THEN e.rt ELSE row.rt)
    BY <1>1, <1>2, <1>4, UpdateEffect
  <2>2. row'.rt = Generation(e)
    BY <2>1 DEF Generation
  <2>3. CASE pending \in {NoEntry, e}
    <3>1. pending' = NoEntry
      BY <1>4, <2>3 DEF ResolvedAfterPersist
    <3> QED BY <2>1, <2>2, <2>3, <3>1 DEF e
  <2>4. CASE pending \notin {NoEntry, e}
    <3>1. pending \in FullEntry /\ Generation(e) # 0
      BY <1>1, <1>2, <2>4, Tokens DEF Shared
    <3>2. pending' = [pending EXCEPT !.anchor = Generation(e)]
      BY <1>4, <2>4, <3>1 DEF ResolvedAfterPersist
    <3>3. pending' \in FullEntry /\ pending'.rt = pending.rt /\ pending'.anchor = Generation(e)
      BY <1>2, <3>1, <3>2 DEF FullEntry
    <3> QED BY <2>1, <2>2, <2>4, <3>3, EntryTypes DEF e
  <2> QED BY <2>3, <2>4
<1>5. CASE UpdateMisses(e.anchor) /\ pending' = ClearedIfCurrent(e)
  BY <1>5 DEF UpdateMisses, ClearedIfCurrent, e
<1>6. CASE DbFails /\ pending' = pending
  BY <1>6 DEF DbFails
<1> QED BY <1>3, <1>4, <1>5, <1>6

\* A call that is in flight, flushes or is about to pause, is not disturbed by
\* others.
LEMMA Undisturbed ==
    ASSUME NEW p \in Proc, Moves(p), NEW q \in Proc \ {p},
           \/ pc'[q] \in Flying \cup {"flush", "pause"}
           \/ pc[q] \in Flying \cup {"flush", "pause"}
    PROVE  pc'[q] = pc[q] /\ loc'[q] = loc[q]
  BY DEF Moves, Stays, Flying

LEMMA KnownNumbers ==
    ASSUME Typed
    PROVE  Known \in Nat /\ head \in Nat /\ head # 0 /\ row.rt \in Nat
<1>1. pending \in Entry /\ head \in Token /\ row.rt \in Token
  BY EntryTypes DEF Typed, Shared
<1> QED BY <1>1, EntryTypes, Tokens DEF Known

LEMMA KnownNumbersNext ==
    ASSUME Typed'
    PROVE  Known' \in Nat /\ head' \in Nat /\ row'.rt \in Nat
<1>1. pending' \in Entry /\ head' \in Token /\ row'.rt \in Token
  BY EntryTypes DEF Typed, Shared
<1> QED BY <1>1, EntryTypes, Tokens DEF Known

\* Nothing is known that is newer than the newest token.
LEMMA KnownNotAhead ==
    ASSUME Typed, Ordered, Safe, ~excused
    PROVE  Known <= head
<1>1. CASE \A q \in Proc : ~Bearing(q)
  BY <1>1, KnownNumbers DEF Safe
<1>2. ASSUME NEW q \in Proc, Bearing(q) PROVE Known <= head
  <2>1. pc[q] \in Flying /\ loc[q].exch = Known
    BY <1>2 DEF Safe, Bears, Bearing, Flying
  <2> QED BY <2>1 DEF Ordered, Ahead
<1> QED BY <1>1, <1>2

\* What every step of p has to show for Safe.
LEMMA SafeMoves ==
    ASSUME Typed, Typed', Ordered, Ordered', Safe, ~excused, NEW p \in Proc, Moves(p),
           row'.rt >= row.rt, live' = {head'},
           pending' # NoEntry => pending'.anchor = row'.rt,
           (Known' = Known /\ head' = head) \/ pc[p] \in Flying,
           Known' = Known \/ (Known' = head' /\ head' = head),
           \/ Bearing(p)' \/ Known' = head'
           \/ ~Bearing(p) /\ Known' = Known /\ head' = head,
           pc'[p] = "flush" => Generation(loc'[p].entry) <= Known',
           Bearing(p)' => Bears(p)', Spares(p)'
    PROVE  Safe' /\ Known' >= Known
<1>0. /\ Known \in Nat /\ Known' \in Nat /\ row.rt \in Nat /\ row'.rt \in Nat /\ head' \in Nat
  BY KnownNumbers, KnownNumbersNext
\* The others in flight, if any.
<1>1. ASSUME NEW q \in Proc \ {p}, pc[q] \in Flying
      PROVE  Known' = Known /\ head' = head
  BY <1>1 DEF Ordered, Ahead
<1>2. ASSUME NEW q \in Proc \ {p}
      PROVE  (Bearing(q)' <=> Bearing(q)) /\ (Bearing(q)' => Bears(q)') /\ Spares(q)'
  <2>1. (Bearing(q) => Bears(q)) /\ Spares(q)
    BY DEF Safe
  <2>2. CASE pc'[q] \in Flying \/ pc[q] \in Flying
    <3>1. pc'[q] = pc[q] /\ loc'[q] = loc[q]
      BY <2>2, Undisturbed
    <3>2. Known' = Known /\ head' = head
      BY <1>1, <2>2, <3>1
    <3> QED BY <2>1, <2>2, <3>1, <3>2 DEF Bearing, Bears, Spares, Flying
  <2>3. CASE pc'[q] \notin Flying /\ pc[q] \notin Flying
    <3>1. ~Bearing(q) /\ ~Bearing(q)' /\ pc'[q] # "answered"
      BY <2>3 DEF Bearing, Flying
    <3>2. CASE pc'[q] = "pause"
      <4>1. pc[q] = "pause" /\ loc'[q] = loc[q]
        BY <3>2, Undisturbed
      <4>2. loc[q].rt < row.rt /\ loc[q].rt \in Nat
        BY <2>1, <4>1, Numbers DEF Spares
      <4>3. loc'[q].rt < row'.rt
        BY <1>0, <4>1, <4>2
      <4> QED BY <3>1, <4>3 DEF Spares
    <3> QED BY <3>1, <3>2 DEF Spares
  <2> QED BY <2>2, <2>3
<1>3. ASSUME NEW q \in Proc, pc'[q] = "flush"
      PROVE  Generation(loc'[q].entry) <= Known'
  <2>1. CASE q = p
    BY <1>3, <2>1
  <2>2. CASE q # p
    <3>1. pc[q] = "flush" /\ loc'[q] = loc[q]
      BY <1>3, <2>2, Undisturbed
    <3>2. Generation(loc[q].entry) <= Known
      BY <3>1 DEF Safe
    <3>3. CASE Known' = Known
      BY <3>1, <3>2, <3>3
    <3>4. CASE Known' = head'
      <4>1. UpTo(loc'[q].entry, head')
        BY <1>3 DEF Ordered, Ahead
      <4> QED BY <3>4, <4>1 DEF UpTo, Generation
    <3> QED BY <3>3, <3>4
  <2> QED BY <2>1, <2>2
<1>4. (\A q \in Proc : ~Bearing(q)') => Known' = head'
  <2> SUFFICES ASSUME \A q \in Proc : ~Bearing(q)' PROVE Known' = head'
    OBVIOUS
  <2>1. CASE ~Bearing(p) /\ Known' = Known /\ head' = head
    <3>1. \A q \in Proc : ~Bearing(q)
      BY <1>2, <2>1
    <3> QED BY <2>1, <3>1 DEF Safe
  <2> QED BY <2>1
<1>5. Known' >= Known
  BY <1>0, KnownNotAhead
<1> QED BY <1>2, <1>3, <1>4, <1>5 DEF Safe

\* A step of p that leaves what is known alone, before and after which p has
\* nothing in hand.
LEMMA SafeAside ==
    ASSUME Typed, Typed', Ordered, Ordered', Safe, ~excused, NEW p \in Proc, Moves(p),
           row'.rt >= row.rt, UNCHANGED <<live, head>>, Known' = Known,
           pending' # NoEntry => pending'.anchor = row'.rt,
           ~Bearing(p), ~Bearing(p)',
           pc'[p] = "flush" => Generation(loc'[p].entry) <= Known,
           Spares(p)'
    PROVE  Safe' /\ Known' >= Known
<1>1. live' = {head'}
  BY DEF Safe
<1> QED BY <1>1, SafeMoves

\* Nobody but p has tokens in hand while p is in a refresh.
LEMMA Alone ==
    ASSUME Ordered, Safe, ~excused, NEW p \in Proc, pc[p] \in Flying, ~Bearing(p)
    PROVE  Known = head
<1>1. \A q \in Proc : pc[q] \in Flying => inFlight = q
  BY DEF Ordered, Ahead
<1>2. \A q \in Proc : ~Bearing(q)
  BY <1>1 DEF Bearing, Flying
<1> QED BY <1>2 DEF Safe

LEMMA SafeFlush ==
    ASSUME Typed, Typed', Ordered, Ordered', Safe, ~excused, NEW p \in Proc,
           row'.rt >= row.rt, pc[p] = "flush", FlushOnly(p) \/ FlushAndAdopt(p)
    PROVE  Safe' /\ Known' >= Known
<1> DEFINE e == loc[p].entry
<1>1. Quiet(p) \/ FlushHits(p)
  BY FlushOnlyStep, FlushAndAdoptStep
<1>2. /\ Moves(p) /\ UNCHANGED <<live, head>>
      /\ pc'[p] \in {"idle", "selected", "join", "reread", "adopt", "exchange"}
  BY <1>1 DEF Quiet, FlushHits, Refused, Continues, Kept
<1>3. /\ Generation(e) <= Known /\ Forward(e) /\ e # NoEntry
      /\ pending # NoEntry => pending.anchor = row.rt
  <2>1. e \in FullEntry
    BY ProcTypes DEF Placed
  <2> QED BY <2>1, EntryTypes DEF Safe, Ordered, Ahead
<1>4. /\ Generation(e) \in Nat /\ e.anchor \in Nat /\ Known \in Nat /\ row.rt \in Nat
      /\ pending.rt \in Nat
  BY Numbers, KnownNumbers
<1>5. Known' = Known /\ (pending' # NoEntry => pending'.anchor = row'.rt)
  <2>1. CASE /\ row.rt = e.anchor /\ row'.rt = Generation(e)
             /\ IF pending \in {NoEntry, e} THEN pending' = NoEntry
                ELSE /\ pending' # NoEntry /\ pending'.rt = pending.rt
                     /\ pending'.anchor = Generation(e)
    <3>1. Generation(e) >= row.rt
      BY <1>3, <2>1 DEF Forward
    <3> HIDE DEF e
    <3>2. CASE pending = NoEntry
      BY <1>3, <1>4, <2>1, <3>1, <3>2 DEF Known
    <3>3. CASE pending = e
      BY <1>3, <2>1, <3>3 DEF Known
    <3>4. CASE pending \notin {NoEntry, e}
      <4>1. Known' = (IF pending.rt # 0 THEN pending.rt ELSE Generation(e))
        BY <2>1, <3>4 DEF Known, Generation
      <4>2. Known = (IF pending.rt # 0 THEN pending.rt ELSE row.rt)
        BY <1>3, <3>4 DEF Known, Generation
      <4>3. Known' = Known
        BY <1>3, <1>4, <3>1, <4>1, <4>2
      <4> QED BY <2>1, <3>4, <4>3
    <3> QED BY <3>2, <3>3, <3>4
  <2>2. CASE row' = row /\ pending' = pending
    BY <1>3, <2>2 DEF Known
  <2>3. CASE pending = e /\ row.rt # e.anchor
    BY <1>3, <2>3
  <2> QED BY <2>1, <2>2, <2>3, FlushEffect
<1>6. ~Bearing(p) /\ ~Bearing(p)' /\ pc'[p] # "flush" /\ Spares(p)'
  BY <1>2 DEF Bearing, Spares
<1> QED BY <1>2, <1>5, <1>6, SafeAside

LEMMA SafeExchange ==
    ASSUME Typed, Typed', Ordered, Ordered', Safe, ~excused', NEW p \in Proc,
           row'.rt >= row.rt,
           Refuses(p) \/ \E rotates \in BOOLEAN : Mints(p, rotates)
    PROVE  Safe' /\ Known' >= Known /\ row' = row
<1>1. ~excused /\ pc[p] = "exchange" /\ pc[p] \in Flying /\ ~Bearing(p) /\ row' = row /\ pending' = pending
  BY DEF Refuses, Mints, Kept, Flying, Bearing
<1>2. /\ Known = head /\ Known' = Known /\ live = {head}
      /\ pending' # NoEntry => pending'.anchor = row'.rt
  BY <1>1, Alone DEF Known, Safe
<1>3. CASE Refuses(p)
  <2>1. /\ Moves(p) /\ UNCHANGED <<live, head>> /\ pc'[p] = "answered"
        /\ loc'[p].answer # "ok" /\ loc'[p].exch = loc[p].exch
        /\ loc'[p].answer = "invalid_grant" => loc[p].exch \notin live
    BY <1>3 DEF Refuses, Kept
  <2>2. ~Bearing(p)' /\ Spares(p)'
    BY <1>2, <2>1 DEF Bearing, Spares
  <2> QED BY <1>1, <1>2, <2>1, <2>2, SafeAside
<1>4. ASSUME NEW rotates \in BOOLEAN, Mints(p, rotates)
      PROVE  Safe' /\ Known' >= Known
  <2> DEFINE n == minted + 1
  <2>1. /\ Moves(p) /\ pc'[p] = "answered" /\ loc'[p].exch = loc[p].exch
        /\ loc[p].exch \in live
        /\ loc'[p].answer = "ok" => loc'[p].rt = IF rotates THEN n ELSE 0
        /\ loc'[p].answer # "invalid_grant"
        /\ (rotates /\ loc[p].exch = head /\ loc'[p].answer # "ok") => excused'
        /\ live' = IF rotates THEN (live \ {loc[p].exch}) \cup {n} ELSE live
        /\ head' = IF rotates /\ loc[p].exch = head THEN n ELSE head
    BY <1>4 DEF Mints
  <2> HIDE DEF n
  <2>2. loc[p].exch = head /\ live' = {head'}
    BY <1>2, <2>1
  <2>3. Spares(p)'
    BY <2>1 DEF Spares
  <2>4. CASE loc'[p].answer = "ok"
    <3>1. Bearing(p)' /\ Bears(p)'
      BY <1>2, <2>1, <2>2, <2>4 DEF Bearing, Bears
    <3> QED BY <1>1, <1>2, <2>1, <2>2, <2>3, <3>1, SafeMoves
  <2>5. CASE loc'[p].answer # "ok"
    <3>1. ~Bearing(p)' /\ UNCHANGED <<live, head>>
      BY <2>1, <2>2, <2>5 DEF Bearing
    <3> QED BY <1>1, <1>2, <2>1, <2>3, <3>1, SafeAside
  <2> QED BY <2>4, <2>5
<1> QED BY <1>1, <1>3, <1>4

LEMMA SafeAnswered ==
    ASSUME Typed, Typed', Ordered, Ordered', Safe, ~excused, NEW p \in Proc,
           row'.rt >= row.rt, pc[p] = "answered",
           CallStart(p) \/ StartFlush(p) \/ CallStep(p)
    PROVE  Safe' /\ Known' >= Known
<1>0. pc[p] \in Flying /\ (pending # NoEntry => pending.anchor = row.rt) /\ Spares(p)
  BY DEF Flying, Safe
<1>1. CASE loc[p].answer = "ok" /\ BeginPersist(p)
  <2>1. /\ Moves(p) /\ pc'[p] = "persist" /\ row' = row /\ pending' = pending
        /\ loc'[p].entry = pending /\ loc'[p].exch = loc[p].exch
        /\ loc'[p].rt = IF loc[p].rt # 0 THEN loc[p].rt
                        ELSE IF pending.rt # 0 \/ p \in Request THEN pending.rt
                        ELSE loc[p].exch
        /\ UNCHANGED <<live, head>>
    BY <1>1, BeginPersistStep DEF CarriesEntry, Kept
  <2>2. Bearing(p) /\ Bears(p) /\ Known' = Known /\ live' = {head'}
    BY <1>1, <2>1 DEF Bearing, Safe, Known
  <2>3. pending.rt # 0 => pending # NoEntry /\ pending.rt = Known
    BY EntryTypes DEF Known, Generation
  <2>4. pending # NoEntry => Generation(pending) = Known
    BY DEF Known
  <2>5. loc[p].exch # 0
    BY <1>0, ProcTypes, Tokens DEF Placed
  <2>6. Bearing(p)' /\ Bears(p)' /\ Spares(p)'
    <3>1. loc'[p].rt = head \/ (loc'[p].rt = 0 /\ head = Known)
      BY <2>1, <2>2, <2>3, KnownNumbers DEF Bears
    <3>2. loc'[p].rt = 0 => pending.rt = 0
      BY <2>1, <2>5
    <3> QED BY <2>1, <2>2, <2>4, <3>1, <3>2 DEF Bearing, Bears, Spares
  <2> QED BY <1>0, <2>1, <2>2, <2>6, SafeMoves
<1>2. CASE loc[p].answer # "ok" /\ (ExchangeError(p) \/ StaleReplay(p))
  <2>1. Quiet(p) /\ pc'[p] = "idle" /\ UNCHANGED <<row, pending>>
    <3>1. Quiet(p)
      BY <1>2, ErrorSteps
    <3>2. Reject(p, "idle", Idle) /\ UNCHANGED <<row, pending>>
      BY <1>2 DEF ExchangeError, StaleReplay
    <3> QED BY <3>1, <3>2 DEF Reject
  <2>2. ~Bearing(p) /\ ~Bearing(p)' /\ Spares(p)' /\ Known' = Known
    BY <1>2, <2>1 DEF Bearing, Spares, Known
  <2> QED BY <1>0, <2>1, <2>2, SafeAside DEF Quiet, Continues
<1>3. CASE loc[p].answer # "ok" /\ GrantRefused(p)
  <2>1. /\ loc[p].answer = "invalid_grant" /\ RefusesLive(p) /\ pending' = NoEntry
        /\ row' = row /\ Quiet(p)
    BY <1>3, GrantRefusedStep DEF GrantRefused
  <2>2. ~Bearing(p) /\ Known = head /\ loc[p].exch # head
    BY <1>0, <1>3, <2>1, Alone DEF Bearing, Spares
  <2>3. pending = NoEntry /\ row.rt = head
    BY <2>1, <2>2 DEF RefusesLive, Known
  <2>4. loc[p].exch < row.rt
    <3>1. loc[p].exch <= head /\ loc[p].exch \in Nat /\ head \in Nat
      BY <1>0, Numbers DEF Ordered, Ahead
    <3> QED BY <2>2, <2>3, <3>1
  <2>5. Spares(p)' /\ ~Bearing(p)' /\ pc'[p] # "flush" /\ Known' = Known
    BY <2>1, <2>3, <2>4 DEF Spares, Bearing, Quiet, Refused, Continues, Known
  <2> QED BY <2>1, <2>2, <2>5, SafeAside DEF Quiet, Continues
<1> QED BY <1>1, <1>2, <1>3, NextStep

\* A refresh that compares the row with what it is believed to hold ends, hit or
\* failed, with the live token in the row or in the registry.
LEMMA SafeEnds ==
    ASSUME Typed, Typed', Ordered, Ordered', Safe, ~excused, NEW p \in Proc,
           row'.rt >= row.rt, NEW x, Compares(p, x), x = row.rt,
           Settles(p, x) \/ Holds(p, x)
    PROVE  Safe' /\ Known' >= Known
<1>1. /\ Moves(p) /\ pc'[p] = "idle" /\ UNCHANGED <<live, head>>
      /\ ~Bearing(p)' /\ Spares(p)' /\ pc'[p] # "flush"
  BY DEF Settles, Holds, Serves, Continues, Kept, Bearing, Spares
<1>2. /\ Bearing(p) /\ Bears(p) /\ pc[p] # "answered" /\ pc[p] \in Flying /\ live' = {head'}
      /\ pending # NoEntry => pending.anchor = row.rt
  BY <1>1 DEF Compares, Bearing, Safe, Flying
<1>3. loc[p].rt # 0 => loc[p].rt = head
  BY <1>2 DEF Bears
\* Without a new refresh token, the row's is the live one.
<1>4. loc[p].rt = 0 => head = row.rt
  <2> SUFFICES ASSUME loc[p].rt = 0 PROVE head = row.rt
    OBVIOUS
  <2>1. head = Known /\ loc[p].entry.rt = 0
    BY <1>2, KnownNumbers DEF Bears
  <2>2. pending # NoEntry => pending.rt = 0
    BY <2>1 DEF Compares, Ordered, Ahead, Carried
  <2> QED BY <1>2, <2>1, <2>2 DEF Known, Generation
<1>5. /\ Known' = head' /\ (pending' # NoEntry => pending'.anchor = row'.rt)
  <2>1. CASE Settles(p, x)
    <3>1. pending' = NoEntry /\ row'.rt = IF loc[p].rt # 0 THEN loc[p].rt ELSE row.rt
      BY <2>1, OrderedSettles DEF Settles
    <3> QED BY <1>1, <1>3, <1>4, <3>1 DEF Known
  <2>2. CASE Holds(p, x)
    <3>1. /\ row' = row /\ pending' \in FullEntry /\ pending'.rt = loc[p].rt
          /\ pending'.anchor = row.rt
      BY <1>2, <2>2 DEF Holds
    <3>2. pending' # NoEntry
      BY <3>1, EntryTypes
    <3> QED BY <1>1, <1>3, <1>4, <3>1, <3>2 DEF Known, Generation
  <2> QED BY <2>1, <2>2
<1> QED BY <1>1, <1>2, <1>5, SafeMoves

LEMMA SafePersist ==
    ASSUME Typed, Typed', Ordered, Ordered', Safe, ~excused, NEW p \in Proc,
           row'.rt >= row.rt, pc[p] = "persist", PersistWrite(p), ~OvertakenPersist(p)
    PROVE  Safe' /\ Known' >= Known
<1> DEFINE x == PersistAnchor(p)
<1>1. Persisting(p) /\ Compares(p, x)
  BY DEF PersistWrite, Persisting, ForgetFailure, provVars, Compares
<1>2. x \in Token
  BY ProcTypes, EntryTypes DEF PersistAnchor, Placed, Flying
<1>3. /\ Bearing(p) /\ Bears(p) /\ Carried(loc[p]) /\ pc[p] \in Flying /\ live = {head}
      /\ pending # NoEntry => pending.anchor = row.rt
  BY DEF Bearing, Safe, Ordered, Ahead, Flying
<1>4. CASE row.rt = x
  <2> HIDE DEF x
  <2>1. \/ UpdateTokens(loc[p].at, loc[p].rt, x) /\ Persisted(p)
        \/ DbFails /\ HeldPending(p, x)
    BY <1>4 DEF PersistWrite, UpdateMisses, x
  <2>2. Settles(p, x) \/ Holds(p, x)
    BY <1>1, <1>2, <2>1, SettlesStep, HoldsStep
  <2> QED BY <1>1, <1>4, <2>2, SafeEnds
<1>5. CASE row.rt # x
  <2>1. loc[p].entry # NoEntry /\ x = loc[p].entry.anchor
    <3>1. ASSUME loc[p].entry = NoEntry PROVE FALSE
      <4>1. pending = NoEntry /\ x = loc[p].exch
        BY <1>3, <3>1 DEF Carried, PersistAnchor
      <4> QED BY <1>3, <1>5, <4>1 DEF Bears, Known
    <3> QED BY <3>1 DEF PersistAnchor
  <2>2. pc'[p] = "retryread"
    BY <1>5, <2>1 DEF OvertakenPersist
  <2>3. GoesOn(p, "retryread")
    BY <2>2, PersistWriteStep DEF Quiet, Continues, Settles, Holds, Serves
  <2>4. pending = NoEntry
    <3>1. pending' = ClearedIfCurrent(loc[p].entry)
      <4>1. ~(DbFails /\ HeldPending(p, x))
        BY <1>1, <1>2, <2>2, HoldsStep DEF Holds, Serves
      <4>2. ~UpdateTokens(loc[p].at, loc[p].rt, x)
        BY <1>5 DEF UpdateTokens
      <4> QED BY <2>1, <4>1, <4>2 DEF PersistWrite
    <3>2. pending' = NoEntry
      BY <2>3 DEF GoesOn
    <3> QED BY <1>3, <1>5, <2>1, <3>1, <3>2 DEF ClearedIfCurrent
  <2>5. /\ Moves(p) /\ row' = row /\ loc'[p] = loc[p] /\ pending' = NoEntry
        /\ UNCHANGED <<live, head>>
    BY <2>3 DEF GoesOn, Kept
  <2>6. Known' = Known /\ Bearing(p)' /\ Spares(p)' /\ live' = {head'}
    BY <1>3, <2>2, <2>4, <2>5 DEF Known, Bearing, Spares
  <2>7. Bears(p)'
    BY <1>3, <2>2, <2>5, <2>6 DEF Bears
  <2> QED BY <1>3, <2>2, <2>5, <2>6, <2>7, SafeMoves
<1> QED BY <1>4, <1>5

LEMMA SafeRetry ==
    ASSUME Typed, Typed', Ordered, Ordered', Safe, ~excused, NEW p \in Proc,
           row'.rt >= row.rt,
           (pc[p] = "retryread" /\ RetryRead(p)) \/ (pc[p] = "retrywrite" /\ RetryWrite(p))
    PROVE  Safe' /\ Known' >= Known
<1> DEFINE g == Generation(loc[p].entry)
<1>1. Persisting(p) /\ Compares(p, g)
  BY DEF RetryRead, RetryWrite, Persisting, provVars, Compares, Typed, Shared
<1>2. g \in Token /\ loc[p].entry # NoEntry
  BY ProcTypes, EntryTypes DEF Placed
<1>3. Bearing(p) /\ Bears(p) /\ pc[p] \in Flying /\ live = {head} /\ pending = NoEntry
  BY DEF Bearing, Safe, Flying, Ordered, Ahead
<1>4. row.rt = g
  BY <1>2, <1>3 DEF Bears, Known
<1> HIDE DEF g
<1>5. CASE DbFails /\ HeldPending(p, g)
  BY <1>1, <1>2, <1>4, <1>5, HoldsStep, SafeEnds
<1>6. CASE UpdateTokens(loc[p].at, loc[p].rt, g) /\ Persisted(p)
  BY <1>1, <1>4, <1>6, SettlesStep, SafeEnds
<1>7. CASE pc[p] = "retryread" /\ RetryRead(p) /\ Goto(p, "retrywrite")
  <2>1. pc'[p] = "retrywrite"
    BY <1>7 DEF Goto, Typed
  <2>2. GoesOn(p, "retrywrite")
    BY <1>7, <2>1, RetryReadStep DEF Quiet, Continues, Holds, Serves
  <2>3. /\ Moves(p) /\ row' = row /\ loc'[p] = loc[p] /\ pending' = pending
        /\ UNCHANGED <<live, head>>
    BY <2>2 DEF GoesOn, Kept
  <2>4. Known' = Known /\ Bearing(p)' /\ Spares(p)' /\ live' = {head'}
    BY <1>3, <2>1, <2>3 DEF Known, Bearing, Spares
  <2>5. Bears(p)'
    BY <1>3, <2>1, <2>3, <2>4 DEF Bears
  <2> QED BY <1>3, <2>1, <2>3, <2>4, <2>5, SafeMoves
<1>8. CASE pc[p] = "retryread" /\ RetryRead(p)
  <2>1. (DbFails /\ HeldPending(p, g)) \/ Goto(p, "retrywrite")
    BY <1>4, <1>8 DEF RetryRead, g
  <2> QED BY <1>5, <1>7, <1>8, <2>1
<1>9. CASE pc[p] = "retrywrite" /\ RetryWrite(p)
  <2>1. \/ DbFails /\ HeldPending(p, g)
        \/ UpdateTokens(loc[p].at, loc[p].rt, g) /\ Persisted(p)
    BY <1>4, <1>9 DEF RetryWrite, UpdateMisses, g
  <2> QED BY <1>5, <1>6, <2>1
<1> QED BY <1>8, <1>9

LEMMA SafeCaller ==
    ASSUME Typed, Typed', Ordered, Ordered', Safe, NEW p \in Proc, row'.rt >= row.rt,
           CallStart(p) \/ StartFlush(p) \/ CallStep(p), excused \/ ~OvertakenPersist(p)
    PROVE  /\ Safe' /\ (row'.paused /\ ~row.paused => excused)
           /\ ~excused' => ~excused /\ Known' >= Known
<1>0. Outcome(p)
  BY CallerSteps
<1>1. excused => excused'
  BY <1>0 DEF Outcome, Quiet, TakesEntry, FlushHits, Mints, Refuses, CarriesEntry, Retries,
     GoesOn, Settles, Holds, Kept
\* Who pauses the account has had a token refused that the row still holds.
<1>2. row'.paused /\ ~row.paused => excused
  <2> SUFFICES ASSUME row'.paused, ~row.paused, ~excused PROVE FALSE
    OBVIOUS
  <2>1. pc[p] = "pause" /\ row.rt = loc[p].rt
    BY <1>0 DEF Outcome, Quiet, TakesEntry, FlushHits, Mints, Refuses, CarriesEntry,
       Retries, GoesOn, Settles, Holds
  <2>2. loc[p].rt < row.rt
    BY <2>1 DEF Safe, Spares
  <2> QED BY <2>1, <2>2, Numbers
<1>3. ASSUME ~excused' PROVE Safe' /\ Known' >= Known
  <2>0. ~excused
    BY <1>1, <1>3
  <2>1. CASE pc[p] \notin Flying \cup {"flush"}
    <3>1. Quiet(p) \/ TakesEntry(p)
      BY <1>0, <2>1 DEF Outcome, FlushHits, Mints, Refuses, CarriesEntry, Retries, Compares,
         Flying
    <3>2. Moves(p) /\ row'.rt = row.rt /\ UNCHANGED <<live, head>> /\ pending' = pending
      BY <2>1, <3>1, NextStep DEF Quiet, TakesEntry, Continues, Kept
    <3>3. /\ pc'[p] \in {"idle", "selected", "join", "reread", "adopt", "exchange", "flush"}
          /\ pc'[p] = "flush" => pending # NoEntry /\ loc'[p].entry = pending
      BY <2>1, <3>1 DEF Quiet, TakesEntry, Continues, Refused, Flying
    <3>4. /\ Known' = Known /\ ~Bearing(p) /\ ~Bearing(p)' /\ Spares(p)'
          /\ pending' # NoEntry => pending'.anchor = row'.rt
      BY <2>0, <2>1, <3>2, <3>3 DEF Known, Bearing, Spares, Flying, Safe
    <3>5. pc'[p] = "flush" => Generation(loc'[p].entry) <= Known
      BY <3>3, KnownNumbers DEF Known
    <3> QED BY <2>0, <3>2, <3>4, <3>5, SafeAside
  <2>2. CASE pc[p] = "flush"
    BY <2>0, <2>2, NextStep, SafeFlush
  <2>3. CASE pc[p] = "exchange"
    <3>1. Refuses(p) \/ \E rotates \in BOOLEAN : Mints(p, rotates)
      BY <2>3, NextStep, ExchangeRefusedStep, ExchangeAcceptedStep
    <3> QED BY <1>3, <3>1, SafeExchange
  <2>4. CASE pc[p] = "answered"
    BY <2>0, <2>4, SafeAnswered
  <2>5. CASE pc[p] = "persist"
    BY <2>0, <2>5, NextStep, SafePersist
  <2>6. CASE pc[p] \in {"retryread", "retrywrite"}
    BY <2>0, <2>6, NextStep, SafeRetry
  <2> QED BY <2>1, <2>2, <2>3, <2>4, <2>5, <2>6 DEF Flying
<1>4. excused' => Safe'
  BY DEF Safe
<1> QED BY <1>1, <1>2, <1>3, <1>4

LEMMA SafeNext ==
    ASSUME ~Reauthenticates, Typed, Ordered, Safe, [Next]_vars,
           excused \/ \A p \in Proc : ~OvertakenPersist(p)
    PROVE  Safe' /\ (row'.paused /\ ~row.paused => excused)
<1>0. Typed' /\ Ordered' /\ row'.rt >= row.rt
  BY TypedNext, OrderedNext
<1>1. CASE UNCHANGED vars \/ WindowPasses
  <2>1. UNCHANGED <<row, pending, pc, loc, live, head, excused>>
    BY <1>1 DEF vars, memVars, WindowPasses, provVars, faultVars
  <2> QED BY <2>1 DEF Safe, Bears, Bearing, Spares, Known
<1>2. ASSUME NEW p \in Proc, CallStart(p) \/ StartFlush(p) \/ CallStep(p)
      PROVE  Safe' /\ (row'.paused /\ ~row.paused => excused)
  BY <1>0, <1>2, SafeCaller
<1>3. ~ReauthExchange /\ ~ReauthStep
  BY DEF ReauthExchange, ReauthStep, ReauthWrite, ReauthResume, ReauthClear, Ordered
<1>4. CASE Revoke
  BY <1>4 DEF Revoke, Safe
<1>5. CASE Restart
  <2>1. /\ UNCHANGED <<row, live, head>> /\ pending' = NoEntry
        /\ \A p \in Proc : pc'[p] = "idle"
        /\ ~excused' => ~excused /\ row.rt = head
    BY <1>5 DEF Restart, provVars
  <2> QED BY <2>1 DEF Safe, Spares, Bearing, Known
<1> QED BY <1>1, <1>2, <1>3, <1>4, <1>5 DEF Next

\* At the start the row has the live token and nobody has another.
LEMMA SafeInit == Init => Safe
<1> SUFFICES ASSUME Init PROVE Safe
  OBVIOUS
<1>1. /\ live = {1} /\ head = 1 /\ row.rt = 1 /\ pending = NoEntry
      /\ \A p \in Proc : pc[p] = "idle"
  BY DEF Init
<1> QED BY <1>1 DEF Safe, Spares, Bearing, Known

NoOvertakenPersist == [][\A p \in Proc : ~OvertakenPersist(p)]_vars

LEMMA KeepsTheToken ==
    ASSUME ~Reauthenticates
    PROVE  Spec /\ NoOvertakenPersist => [](Typed /\ Ordered /\ Safe)
<1> DEFINE Inv == Typed /\ Ordered /\ Safe
<1>1. Init => Inv
  BY TypedInit, OrderedInit, SafeInit
<1>2. Inv /\ [Next]_vars /\ [\A p \in Proc : ~OvertakenPersist(p)]_vars => Inv'
  <2> SUFFICES ASSUME Inv, [Next]_vars, [\A p \in Proc : ~OvertakenPersist(p)]_vars
               PROVE  Inv'
    OBVIOUS
  <2>1. CASE UNCHANGED vars
    <3>1. UNCHANGED <<row, pending, pc, loc, live, head, excused>>
      BY <2>1 DEF vars, memVars, provVars, faultVars
    <3>2. Safe'
      BY <3>1 DEF Safe, Bears, Bearing, Spares, Known
    <3> QED BY <3>2, TypedNext, OrderedNext
  <2>2. CASE \A p \in Proc : ~OvertakenPersist(p)
    BY <2>2, TypedNext, OrderedNext, SafeNext
  <2> QED BY <2>1, <2>2
<1> QED BY <1>1, <1>2, PTL DEF Spec, NoOvertakenPersist

\* Under Safe the live token is held somewhere.
LEMMA SafeHolds == Typed /\ Safe => LiveTokenNotLost
<1> SUFFICES ASSUME Typed, Safe, ~excused PROVE Held(head)
  BY DEF LiveTokenNotLost
<1>1. CASE Known = head
  BY <1>1 DEF Known, Held
<1>2. ASSUME NEW p \in Proc, Bearing(p) PROVE Held(head)
  <2>1. Bears(p)
    BY <1>2 DEF Safe
  <2>2. CASE loc[p].rt = head
    BY <1>2, <2>2 DEF Bearing, Held, Carries
  <2> QED BY <1>1, <2>1, <2>2 DEF Bears
<1> QED BY <1>1, <1>2 DEF Safe

\* As long as the user does not re-authenticate, only an overtaken persist loses
\* the live refresh token, beside what the process cannot help (a crash between
\* exchange and persist, an answer lost on the way, a revocation): however many
\* database calls fail and however requests, the scheduler, the sweeper and
\* their joiners overlap, the token is in the row, in the registry under an
\* anchor that the row holds, or in the hands of the one call that will write
\* it.  (An overtaken persist does lose it: that is what the run
\* rotation_stale_anchor shows.)
THEOREM OnlyOvertakenPersistLosesToken ==
    ASSUME ~Reauthenticates
    PROVE  Spec /\ NoOvertakenPersist => []LiveTokenNotLost
<1>1. Typed /\ Safe => LiveTokenNotLost
  BY SafeHolds
<1> QED BY <1>1, KeepsTheToken, PTL

\* Nor does anything else pause an account whose live token is still there: a
\* refusal of a token that was merely overtaken finds a newer one in the row or
\* in the registry and pauses nobody, whatever the database does.
THEOREM OnlyOvertakenPersistPauses ==
    ASSUME ~Reauthenticates
    PROVE  Spec /\ NoOvertakenPersist => OnlyDeadAccountsPaused
<1>1. /\ Typed /\ Ordered /\ Safe
      /\ [Next]_vars /\ [\A p \in Proc : ~OvertakenPersist(p)]_vars
      => [row'.paused /\ ~row.paused => excused]_vars
  BY SafeNext
<1> QED BY <1>1, KeepsTheToken, PTL DEF Spec, NoOvertakenPersist, OnlyDeadAccountsPaused

-----------------------------------------------------------------------------
(* No persist is overtaken within two database failures *)

LEMMA Failures ==
    ASSUME Typed
    PROVE  dbFailures \in Nat /\ dbFailures <= MaxDbFailures
  BY BoundsAreNat DEF Typed, Shared

LEMMA FailuresGrow ==
    ASSUME Typed, NEW p \in Proc, CallStart(p) \/ StartFlush(p) \/ CallStep(p)
    PROVE  dbFailures' >= dbFailures
<1>1. dbFailures \in Nat
  BY Failures
<1>2. UNCHANGED dbFailures \/ DbFails => dbFailures' >= dbFailures
  BY <1>1 DEF DbFails
<1>3. CASE CallStart(p) \/ StartFlush(p)
  BY <1>2, <1>3 DEF CallStart, Select, StartJoin, BackoffRecover, StartReread, StartFlush, faultVars
<1>4. CASE \/ StartProactive(p) \/ SkipProactive(p) \/ ExchangeRefused(p) \/ BeginPersist(p)
           \/ ExchangeError(p) \/ StaleReplay(p) \/ GrantRefused(p)
           \/ \E rotates, delivered \in BOOLEAN : ExchangeAccepted(p, rotates, delivered)
  BY <1>2, <1>4 DEF StartProactive, SkipProactive, ExchangeRefused, BeginPersist,
     ExchangeError, StaleReplay, GrantRefused, ExchangeAccepted, faultVars
<1>5. CASE FlushOnly(p) \/ FlushAndAdopt(p)
  BY <1>2, <1>5 DEF FlushOnly, FlushAndAdopt, UpdateTokens, UpdateMisses
<1>6. CASE Reread(p) \/ Adopt(p) \/ PauseForReauth(p)
  BY <1>2, <1>6 DEF Reread, Adopt, PauseForReauth, DbReads
<1>7. CASE PersistWrite(p) \/ RetryRead(p) \/ RetryWrite(p)
  BY <1>2, <1>7 DEF PersistWrite, RetryRead, RetryWrite, DbReads, UpdateTokens, UpdateMisses
<1> QED BY <1>3, <1>4, <1>5, <1>6, <1>7 DEF CallStep

\* The entries there are.
LEMMA EntriesAre ==
    ASSUME Typed
    PROVE  /\ pending # NoEntry => pending \in Entries
           /\ \A q \in Proc : pc[q] \in Carrying /\ loc[q].entry # NoEntry =>
                 loc[q].entry \in Entries
           /\ ~Moving(NoEntry)
<1>1. pending \in Entry /\ \A q \in Proc : loc[q].entry \in Entry
  BY ProcTypes, LocTypes, EntryTypes DEF Typed, Shared
<1>2. ~Moving(NoEntry)
  BY EntryTypes DEF Moving, Generation
<1> QED BY <1>1, <1>2 DEF Entries

\* What the registry's entry and the row have to do with what is known.
LEMMA KnownIs ==
    ASSUME Typed, Ordered, Safe, ~excused
    PROVE  /\ row.rt <= Known /\ pending.rt <= Known
           /\ Moving(pending) => pending # NoEntry /\ row.rt = pending.anchor /\ row.rt # Known
           /\ pending # NoEntry => pending.anchor = row.rt
<1>1. pending # NoEntry => pending.anchor = row.rt
  BY DEF Safe
<1>2. /\ row.rt \in Nat /\ Known \in Nat /\ pending.rt \in Nat /\ Generation(pending) \in Nat
      /\ pending.anchor \in Nat
  BY KnownNumbers, EntryTypes, Tokens DEF Typed, Shared
<1>3. CASE pending = NoEntry
  BY <1>2, <1>3, EntriesAre, EntryTypes DEF Known
<1>4. CASE pending # NoEntry
  <2>1. Generation(pending) >= pending.anchor /\ Known = Generation(pending)
    BY <1>4 DEF Ordered, Forward, Known
  <2>2. pending.rt <= Generation(pending)
    BY <1>2 DEF Generation
  <2> QED BY <1>1, <1>2, <1>4, <2>1, <2>2 DEF Moving
<1> QED BY <1>3, <1>4

\* What a step of p may do to the registry: clear it, re-anchor the entry, or
\* record one.
Registers(p) ==
    \/ pending' \in {pending, NoEntry}
    \/ pc[p] = "flush" /\ dbFailures >= 3
    \/ /\ pc[p] \in Flying /\ dbFailures' = dbFailures + 1 /\ row'.rt = row.rt
       /\ Moving(pending) => dbFailures >= 2
       /\ Entries # {} \/ Known' > Known \/ ~Moving(pending')

\* What every step of p has to show for Counted.
LEMMA CountedMoves ==
    ASSUME Typed, Typed', Ordered, Ordered', Safe, Safe', Counted, ~excused, ~excused',
           NEW p \in Proc, Moves(p), row'.rt >= row.rt, dbFailures' >= dbFailures,
           Known' >= Known, Registers(p),
           \/ row'.rt = row.rt \/ pc[p] \in Flying
           \/ pc[p] = "flush" /\ Moving(loc[p].entry),
           pc'[p] \in Carrying => loc'[p].entry \in Entries \cup {NoEntry},
           Costs(p)'
    PROVE  Counted'
<1>0. /\ dbFailures \in Nat /\ dbFailures' \in Nat /\ Known \in Nat /\ Known' \in Nat
      /\ row.rt \in Nat /\ row'.rt \in Nat
  <2>1. dbFailures' \in Nat
    BY BoundsAreNat DEF Typed, Shared
  <2> QED BY <2>1, Failures, KnownNumbers, KnownNumbersNext
<1>1. /\ \A e \in Entries : dbFailures >= 1
      /\ \A e, f \in Entries : e # f => dbFailures >= 2
      /\ \A q \in Proc : Costs(q)
  BY DEF Counted
<1>2. ~Moving(NoEntry) /\ (pending # NoEntry => pending \in Entries)
  BY EntriesAre
<1>3. Entries' \subseteq Entries \cup {pending'}
  <2> SUFFICES ASSUME NEW e \in Entry \ {NoEntry}, NEW q \in Proc, pc'[q] \in Carrying,
                      e = loc'[q].entry
               PROVE  e \in Entries
    BY DEF Entries
  <2>1. CASE q = p
    BY <2>1
  <2>2. CASE q # p
    <3>1. pc'[q] = pc[q] /\ loc'[q] = loc[q]
      BY <2>2, Undisturbed DEF Carrying, Flying
    <3> QED BY <3>1 DEF Entries
  <2> QED BY <2>1, <2>2
\* The entries.
<1>4. /\ \A e \in Entries' : dbFailures' >= 1
      /\ \A e, f \in Entries' : e # f => dbFailures' >= 2
  <2>1. CASE pending' \in {pending, NoEntry}
    <3>1. NoEntry \notin Entries'
      BY DEF Entries
    <3>2. Entries' \subseteq Entries
      BY <1>2, <1>3, <2>1, <3>1
    <3> QED BY <1>0, <1>1, <3>2
  <2>2. CASE dbFailures >= 3
    BY <1>0, <2>2
  <2>3. CASE dbFailures' = dbFailures + 1
    <3>1. ASSUME NEW e \in Entries', NEW f \in Entries', e # f PROVE dbFailures >= 1
      BY <1>1, <1>3, <3>1
    <3> QED BY <1>0, <2>3, <3>1
  <2> QED BY <2>1, <2>2, <2>3 DEF Registers
\* The others.
<1>5. ASSUME NEW q \in Proc \ {p} PROVE Costs(q)'
  <2>1. Costs(q) /\ acct'[q].rt = acct[q].rt /\ acct[q].rt \in Nat
    BY <1>1, Numbers DEF Moves, Stays
  <2>2. acct'[q].rt <= Known'
    BY <1>0, <2>1 DEF Costs
  \* Where another is in a refresh, p is not.
  <2>3. pc'[q] \in Flying => pc[p] \notin Flying
    <3>1. ASSUME pc'[q] \in Flying, pc[p] \in Flying PROVE FALSE
      <4>1. pc[q] \in Flying
        BY <3>1, Undisturbed
      <4> QED BY <3>1, <4>1 DEF Ordered, Ahead
    <3> QED BY <3>1
  <2>4. pc'[q] \in Flying \cup {"flush"} => pc'[q] = pc[q] /\ loc'[q] = loc[q]
    BY Undisturbed
  <2>5. pc'[q] = "reread" => pc[q] = "reread"
    BY DEF Moves, Stays
  <2>6. pending' = pending /\ Moving(pending) => Known' = Known
    BY <1>2 DEF Known
  <2>7. ASSUME Moving(pending'), pc'[q] = "reread", acct'[q].rt = Known' PROVE dbFailures' >= 2
    <3>1. CASE pending' \in {pending, NoEntry}
      BY <1>0, <1>2, <2>1, <2>5, <2>6, <2>7, <3>1 DEF Costs
    <3>2. CASE dbFailures >= 3
      BY <1>0, <3>2
    <3>3. CASE dbFailures' = dbFailures + 1 /\ (Entries # {} \/ Known' > Known)
      <4>1. acct[q].rt <= Known /\ acct[q].rt = Known'
        BY <2>1, <2>7 DEF Costs
      <4>2. Entries # {}
        BY <1>0, <3>3, <4>1
      <4> QED BY <1>0, <1>1, <3>3, <4>2
    <3> QED BY <2>7, <3>1, <3>2, <3>3 DEF Registers
  <2>8. ASSUME Moving(pending'), pc'[q] \in {"exchange", "answered"}, loc'[q].exch = Known'
        PROVE  dbFailures' >= 2
    <3>1. pc[p] \notin Flying /\ pc'[q] = pc[q] /\ loc'[q] = loc[q]
      BY <2>3, <2>4, <2>8 DEF Flying
    <3>2. CASE pending' \in {pending, NoEntry}
      BY <1>0, <1>2, <2>1, <2>6, <2>8, <3>1, <3>2 DEF Costs
    <3>3. CASE dbFailures >= 3
      BY <1>0, <3>3
    <3> QED BY <3>1, <3>2, <3>3 DEF Registers
  <2>9. ASSUME pc'[q] = "persist"
        PROVE  /\ Moving(loc'[q].entry) => dbFailures' >= 2
               /\ loc'[q].entry # NoEntry /\ row'.rt # loc'[q].entry.anchor => dbFailures' >= 2
               /\ pending' \notin {NoEntry, loc'[q].entry} => dbFailures' >= 3
    <3>1. pc[p] \notin Flying /\ pc[q] = "persist" /\ loc'[q] = loc[q]
      BY <2>3, <2>4, <2>9 DEF Flying
    <3>2. /\ Moving(loc[q].entry) => dbFailures >= 2
          /\ loc[q].entry # NoEntry /\ row.rt # loc[q].entry.anchor => dbFailures >= 2
          /\ pending \notin {NoEntry, loc[q].entry} => dbFailures >= 3
      BY <2>1, <3>1 DEF Costs
    <3>3. ASSUME loc[q].entry # NoEntry, row'.rt # row.rt PROVE dbFailures >= 2
      <4>1. pc[p] = "flush" /\ Moving(loc[p].entry)
        BY <3>1, <3>3
      <4>2. loc[p].entry \in Entries /\ loc[q].entry \in Entries
        BY <3>1, <3>3, <4>1, EntriesAre DEF Carrying
      <4> QED BY <1>1, <3>2, <4>1, <4>2
    <3>4. pending' \in {pending, NoEntry} \/ dbFailures >= 3
      BY <3>1 DEF Registers
    <3> QED BY <1>0, <3>1, <3>2, <3>3, <3>4
  <2>10. ASSUME pc'[q] = "flush", Moving(loc'[q].entry), loc'[q].entry.anchor >= row'.rt,
                pending' # loc'[q].entry
         PROVE  dbFailures' >= 3
    <3>1. pc[q] = "flush" /\ loc'[q] = loc[q] /\ loc[q].entry.anchor \in Nat
      BY <2>4, <2>10, Numbers
    <3>2. loc[q].entry.anchor >= row.rt
      BY <1>0, <2>10, <3>1
    <3>3. CASE pending # loc[q].entry
      BY <1>0, <2>1, <2>10, <3>1, <3>2, <3>3 DEF Costs
    <3>4. CASE pending = loc[q].entry
      <4>1. Moving(pending) /\ row.rt = pending.anchor /\ row.rt # Known
        BY <2>10, <3>1, <3>4, KnownIs
      <4>2. row'.rt = row.rt
        BY <1>0, <2>10, <3>1, <3>4, <4>1
      <4>3. pending' # NoEntry
        BY <1>0, <4>1, <4>2, KnownIs DEF Known
      <4>4. pending' # pending
        BY <2>10, <3>1, <3>4
      <4>5. dbFailures >= 3 \/ (dbFailures' = dbFailures + 1 /\ dbFailures >= 2)
        BY <4>1, <4>3, <4>4 DEF Registers
      <4> QED BY <1>0, <4>5
    <3> QED BY <3>3, <3>4
  <2> QED BY <2>2, <2>7, <2>8, <2>9, <2>10 DEF Costs
<1> QED BY <1>4, <1>5 DEF Counted

\* Who begins to read the row or to exchange a token.
LEMMA Starters ==
    ASSUME Typed, NEW p \in Proc, CallStart(p) \/ StartFlush(p) \/ CallStep(p),
           pc'[p] \in {"reread", "exchange"}
    PROVE  \/ StartReread(p) \/ StartProactive(p) \/ Reread(p) \/ FlushAndAdopt(p)
<1>1. \A c : Goto(p, c) => pc'[p] = c
  BY DEF Goto, Typed
<1>2. Return(p) => pc'[p] = "idle"
  BY <1>1 DEF Return
<1>3. \A a, at : Resolve(p, a, at) => pc'[p] \in {"idle", "adopt", pc[p]}
  BY DEF Resolve
<1>4. \A c, l : Reject(p, c, l) => pc'[p] = c
  BY DEF Reject
<1>5. CASE Select(p) \/ StartJoin(p) \/ BackoffRecover(p) \/ StartFlush(p) \/ SkipProactive(p) \/ FlushOnly(p)
  BY <1>1, <1>2, <1>5 DEF Select, StartJoin, BackoffRecover, StartFlush, SkipProactive, FlushOnly
<1>6. CASE \/ ExchangeRefused(p) \/ BeginPersist(p)
           \/ \E rotates, delivered \in BOOLEAN : ExchangeAccepted(p, rotates, delivered)
  BY <1>1, <1>6 DEF ExchangeRefused, BeginPersist, ExchangeAccepted
<1>7. CASE PersistWrite(p) \/ RetryRead(p) \/ RetryWrite(p) \/ Adopt(p)
  BY <1>1, <1>3, <1>7 DEF PersistWrite, RetryRead, RetryWrite, Adopt, Persisted, HeldPending,
     ServeMinted, Superseded
<1>8. CASE ExchangeError(p) \/ StaleReplay(p) \/ GrantRefused(p) \/ PauseForReauth(p)
  BY <1>1, <1>4, <1>8 DEF ExchangeError, StaleReplay, GrantRefused, PauseForReauth
<1> QED BY <1>5, <1>6, <1>7, <1>8 DEF CallStart, CallStep

\* Where a call begins to read the row, nothing is in the registry; and a call
\* that begins to exchange the token of an entry in there has seen a flush fail,
\* or another entry.
LEMMA CountedStarts ==
    ASSUME Typed, Ordered, Safe, Counted, ~excused, NEW p \in Proc,
           CallStart(p) \/ StartFlush(p) \/ CallStep(p),
           pc'[p] \in {"reread", "exchange"}, Moving(pending'),
           pc'[p] = "exchange" => loc'[p].exch = Known'
    PROVE  dbFailures' >= 2
<1>0. /\ \A e \in Entries : dbFailures >= 1
      /\ \A e, f \in Entries : e # f => dbFailures >= 2
      /\ Costs(p) /\ dbFailures \in Nat /\ pending' # NoEntry
      /\ pending # NoEntry => pending \in Entries
      /\ \A c : Goto(p, c) => pc'[p] = c
  BY Failures, EntriesAre DEF Counted, Typed, Goto
<1>1. DbFails /\ pending # NoEntry => dbFailures' >= 2
  BY <1>0 DEF DbFails
<1>2. CASE StartReread(p) \/ StartProactive(p)
  BY <1>0, <1>2 DEF StartReread, StartProactive, memVars
<1>3. CASE Reread(p)
  <2>1. /\ pc[p] = "reread" /\ pending' = pending /\ p \in Request /\ acct[p] \in Account
        /\ row.rt \in Token /\ acct[p].rt \in Token /\ NotOlder(p) \in {row.rt, acct[p].rt}
    BY <1>3, ProcTypes DEF Reread, Placed, NotOlder
  <2>2. CASE DbFails
    BY <1>0, <1>1, <2>1, <2>2
  <2>3. CASE DbReads /\ RefreshWith(p, With(acct[p], NotOlder(p), 0))
    <3> DEFINE a == With(acct[p], NotOlder(p), 0)
    <3>0. NotOlder(p) \in OptToken /\ NotOlder(p) # 0 /\ 0 \in OptToken
      BY <2>1, Tokens
    <3>1. a \in Account /\ a.rt = NotOlder(p)
      BY <2>1, <3>0, WithType
    <3>2. Refreshed(p, a)
      BY <2>3, <3>1, RefreshMoves
    <3> HIDE DEF a
    <3>3. pc'[p] = "exchange" /\ loc'[p].exch = NotOlder(p)
      BY <3>1, <3>2 DEF Refreshed
    <3>4. Known' = Known
      BY <1>0, <2>1 DEF Known
    <3>5. acct[p].rt = Known
      BY <1>0, <2>1, <3>3, <3>4, KnownIs
    <3> QED BY <1>0, <2>1, <2>3, <3>5 DEF Costs, DbReads
  <2>4. CASE DbReads /\ Return(p)
    BY <1>0, <2>4 DEF Return
  <2> QED BY <1>3, <2>2, <2>3, <2>4 DEF Reread
<1>4. CASE FlushAndAdopt(p)
  <2> DEFINE e == loc[p].entry
  <2>1. pc[p] = "flush" /\ e \in FullEntry /\ e # NoEntry
    BY <1>4, ProcTypes, EntryTypes DEF FlushAndAdopt, Placed
  <2>2. e \in Entries
    BY <2>1, EntriesAre DEF Carrying
  <2>3. \/ DbFails /\ pending' = pending
        \/ UNCHANGED dbFailures /\ pending' = ClearedIfCurrent(e)
        \/ UNCHANGED dbFailures /\ pending' = ResolvedAfterPersist(e, Generation(e))
    BY <1>4 DEF FlushAndAdopt, UpdateTokens, UpdateMisses
  <2> HIDE DEF e
  <2>4. CASE DbFails /\ pending' = pending
    BY <1>0, <1>1, <2>4
  <2>5. CASE UNCHANGED dbFailures /\ pending \notin {NoEntry, e}
    BY <1>0, <2>2, <2>5
  <2> QED BY <1>0, <2>3, <2>4, <2>5 DEF ClearedIfCurrent, ResolvedAfterPersist
<1> QED BY <1>2, <1>3, <1>4, Starters

LEMMA CountedCaller ==
    ASSUME Typed, Typed', Ordered, Ordered', Safe, Safe', Counted, ~excused, ~excused',
           NEW p \in Proc, row'.rt >= row.rt, Known' >= Known,
           CallStart(p) \/ StartFlush(p) \/ CallStep(p)
    PROVE  Counted'
<1>0. /\ Outcome(p) /\ dbFailures' >= dbFailures /\ dbFailures \in Nat /\ dbFailures' \in Nat
      /\ Costs(p) /\ ~Moving(NoEntry)
  <2>1. dbFailures' \in Nat
    BY BoundsAreNat DEF Typed, Shared
  <2> QED BY <2>1, CallerSteps, FailuresGrow, Failures, EntriesAre DEF Counted
<1>1. /\ Known \in Nat /\ Known' \in Nat /\ acct[p].rt \in Nat /\ acct[p].rt <= Known
      /\ row.rt \in Nat /\ pending.rt \in Nat /\ row.rt <= Known /\ pending.rt <= Known
      /\ acct[p].rt <= Known'
  <2>1. /\ Known \in Nat /\ Known' \in Nat /\ acct[p].rt \in Nat /\ row.rt \in Nat
        /\ pending.rt \in Nat
    BY Numbers, KnownNumbers, KnownNumbersNext
  <2> QED BY <1>0, <2>1, KnownIs DEF Costs
\* A call that is outside of a refresh afterwards, or starts one.
<1>2. ASSUME Continues(p), acct'[p].rt <= Known', Registers(p),
             \/ row'.rt = row.rt \/ pc[p] \in Flying
             \/ pc[p] = "flush" /\ Moving(loc[p].entry)
      PROVE  Counted'
  <2>1. /\ Moves(p)
        /\ pc'[p] \in {"idle", "selected", "join", "reread", "pause", "adopt", "exchange"}
    BY <1>2 DEF Continues
  <2>2. Costs(p)'
    BY <1>2, <2>1, CountedStarts DEF Costs
  <2> QED BY <1>0, <1>2, <2>1, <2>2, CountedMoves DEF Carrying
\* A call that goes on with row and registry as they are.
<1>3. ASSUME Moves(p), row' = row, pending' = pending, acct'[p] = acct[p],
             pc'[p] \in Carrying => loc'[p].entry \in Entries \cup {NoEntry},
             Costs(p)'
      PROVE  Counted'
  BY <1>0, <1>3, CountedMoves DEF Registers
<1>4. CASE Quiet(p)
  <2>1. /\ Continues(p) /\ pending' \in {pending, NoEntry} /\ row'.rt = row.rt
        /\ acct'[p].rt \in {acct[p].rt, row.rt, pending.rt}
    BY <1>4 DEF Quiet
  <2>2. acct'[p].rt <= Known'
    BY <1>1, <2>1
  <2> QED BY <1>2, <2>1, <2>2 DEF Registers
<1>5. CASE TakesEntry(p)
  <2>1. /\ Moves(p) /\ row' = row /\ pending' = pending /\ acct'[p] = acct[p]
        /\ pc'[p] = "flush" /\ loc'[p].entry = pending /\ pending # NoEntry
    BY <1>5 DEF TakesEntry
  <2>2. Costs(p)'
    BY <1>1, <2>1 DEF Costs
  <2> QED BY <1>3, <2>1, <2>2, EntriesAre
<1>6. CASE FlushHits(p)
  <2> DEFINE e == loc[p].entry
  <2>1. /\ Continues(p) /\ pc[p] = "flush" /\ row.rt = e.anchor /\ row'.rt = Generation(e)
        /\ Reanchored(e, Generation(e))
        /\ acct'[p].rt \in {acct[p].rt, e.rt, pending'.rt}
    BY <1>6 DEF FlushHits
  <2>2. /\ e \in FullEntry /\ e.rt \in Nat /\ e.anchor \in Nat /\ Generation(e) \in Token
        /\ Generation(e) <= Known
    BY <2>1, ProcTypes, Numbers, EntryTypes DEF Placed, Safe
  <2>3. acct'[p].rt <= Known'
    <3>1. e.rt <= Generation(e) /\ Generation(e) \in Nat
      BY <2>2, Tokens DEF Generation
    <3>2. pending'.rt <= Known'
      <4>1. pending' \in Entry
        BY EntryTypes DEF Typed, Shared
      <4> QED BY <1>1, <4>1, EntryTypes, Tokens DEF Known, Generation
    <3> QED BY <1>1, <2>1, <2>2, <3>1, <3>2
  <2>4. row'.rt = row.rt \/ Moving(e)
    BY <2>1 DEF Moving
  <2>5. Registers(p)
    <3> SUFFICES ASSUME pending' \notin {pending, NoEntry} PROVE dbFailures >= 3
      BY <2>1 DEF Registers
    <3>1. /\ pending \notin {NoEntry, e} /\ pending'.at = pending.at /\ pending'.rt = pending.rt
          /\ pending'.anchor = Generation(e)
      BY <2>1, <2>2, Tokens DEF Reanchored
    <3>2. pending \in FullEntry /\ pending' \in FullEntry /\ pending.anchor = row.rt
      BY <3>1, KnownIs DEF Typed, Shared
    <3>3. Moving(e)
      BY <2>1, <3>1, <3>2, SameEntry DEF Moving
    <3> QED BY <1>0, <1>1, <2>1, <3>1, <3>3 DEF Costs
  <2> QED BY <1>2, <2>1, <2>3, <2>4, <2>5
<1>7. CASE Refuses(p) \/ \E rotates \in BOOLEAN : Mints(p, rotates)
  <2>1. /\ Moves(p) /\ row' = row /\ pending' = pending /\ acct'[p] = acct[p]
        /\ pc[p] = "exchange" /\ pc'[p] = "answered" /\ loc'[p].exch = loc[p].exch
    BY <1>7 DEF Refuses, Mints
  <2>2. Known' = Known
    BY <2>1 DEF Known
  <2>3. Costs(p)'
    BY <1>0, <1>1, <2>1, <2>2 DEF Costs
  <2> QED BY <1>3, <2>1, <2>3 DEF Carrying
<1>8. CASE CarriesEntry(p)
  <2>1. /\ Moves(p) /\ row' = row /\ pending' = pending /\ acct'[p] = acct[p]
        /\ pc[p] = "answered" /\ loc[p].answer = "ok"
        /\ pc'[p] = "persist" /\ loc'[p].entry = pending
    BY <1>8 DEF CarriesEntry
  <2>2. loc[p].exch = Known
    BY <2>1 DEF Safe, Bearing, Bears
  <2>3. Moving(pending) => dbFailures' >= 2
    BY <1>0, <2>1, <2>2 DEF Costs
  <2>4. Costs(p)'
    BY <1>1, <2>1, <2>3, KnownIs DEF Costs
  <2> QED BY <1>3, <2>1, <2>4, EntriesAre
<1>9. CASE Retries(p)
  <2>1. /\ Moves(p) /\ row' = row /\ pending' \in {pending, NoEntry} /\ acct'[p] = acct[p]
        /\ pc[p] \in Carrying /\ pc'[p] \in {"retryread", "retrywrite"} /\ loc'[p] = loc[p]
    BY <1>9 DEF Retries, GoesOn, Carrying
  <2>2. Costs(p)'
    BY <1>1, <2>1 DEF Costs
  <2> QED BY <1>0, <2>1, <2>2, EntriesAre, CountedMoves DEF Registers
<1>10. ASSUME NEW x, Compares(p, x), Settles(p, x) \/ Holds(p, x)
       PROVE  Counted'
  <2>1. /\ Continues(p) /\ pc'[p] = "idle"
        /\ acct'[p].rt = IF loc[p].rt # 0 THEN loc[p].rt ELSE acct[p].rt
    BY <1>10 DEF Settles, Holds, Serves
  <2>2. /\ pc[p] \in Flying /\ Bearing(p) /\ Bears(p) /\ Writes(loc[p])
        /\ pc[p] = "persist" => Carried(loc[p])
        /\ pc[p] # "persist" => pending = NoEntry
    BY <1>10 DEF Compares, Flying, Bearing, Safe, Ordered, Ahead
  \* Nobody else has anything in hand: what is known now is the newest token.
  <2>3. Known' = head' /\ head' = head
    <3>1. ASSUME NEW q \in Proc, Bearing(q)' PROVE FALSE
      <4>1. pc'[q] \in Flying /\ q # p
        BY <2>1, <3>1 DEF Bearing, Flying
      <4>2. pc[q] \in Flying
        BY <2>1, <4>1, Undisturbed DEF Continues
      <4> QED BY <2>2, <4>1, <4>2 DEF Ordered, Ahead
    <3>2. head' = head
      BY <1>10 DEF Settles, Holds, Kept
    <3> QED BY <3>1, <3>2 DEF Safe
  <2>4. acct'[p].rt <= Known'
    BY <1>1, <2>1, <2>2, <2>3 DEF Bears
  <2>5. CASE Settles(p, x)
    <3>1. pending' = NoEntry
      BY <1>10, <2>5, OrderedSettles
    <3> QED BY <1>2, <2>1, <2>2, <2>4, <3>1 DEF Registers
  <2>6. CASE Holds(p, x)
    <3>1. dbFailures' = dbFailures + 1 /\ row' = row
      BY <2>6 DEF Holds
    <3>2. Moving(pending) => dbFailures >= 2
      BY <1>0, <2>2 DEF Costs, Carried
    <3>3. ASSUME Entries = {}, Moving(pending') PROVE Known' > Known
      <4>1. pending = NoEntry /\ loc[p].entry = NoEntry
        BY <1>10, <3>3, EntriesAre DEF Compares, Carrying
      <4>2. pc[p] = "persist"
        BY <1>10, <4>1, ProcTypes, EntryTypes DEF Compares, Placed
      <4>3. x = Known
        BY <1>10, <2>2, <4>1, <4>2 DEF Compares, PersistAnchor, Bears
      <4>4. pending' # NoEntry /\ pending'.anchor = x
        BY <2>6, <4>1, EntryTypes DEF Holds
      <4>5. Known' # Known
        BY <3>3, <4>3, <4>4 DEF Known, Moving
      <4> QED BY <1>1, <4>5
    <3>4. Registers(p)
      BY <2>2, <3>1, <3>2, <3>3 DEF Registers
    <3> QED BY <1>2, <2>1, <2>2, <2>4, <3>4
  <2> QED BY <1>10, <2>5, <2>6
<1> QED BY <1>0, <1>4, <1>5, <1>6, <1>7, <1>8, <1>9, <1>10 DEF Outcome

\* A persist that the row has moved away from has cost two failures; to lose what
\* it carries takes a third, or an entry in the registry that has cost three.
LEMMA TwoFailuresOvertakeNothing ==
    ASSUME MaxDbFailures <= 2, Typed, Counted, ~excused, NEW p \in Proc
    PROVE  ~OvertakenPersist(p)
<1> SUFFICES ASSUME OvertakenPersist(p) PROVE FALSE
  OBVIOUS
<1>1. /\ PersistWrite(p) /\ pc[p] = "persist" /\ pc'[p] # "retryread"
      /\ loc[p].entry # NoEntry /\ row.rt # loc[p].entry.anchor
  BY DEF OvertakenPersist, PersistWrite
<1>2. /\ dbFailures >= 2 /\ dbFailures \in Nat /\ dbFailures <= MaxDbFailures
      /\ pending \notin {NoEntry, loc[p].entry} => dbFailures >= 3
  BY <1>1, Failures DEF Counted, Costs
<1>3. ~DbFails /\ pending \in {NoEntry, loc[p].entry}
  BY <1>2, BoundsAreNat DEF DbFails
<1>4. ~UpdateTokens(loc[p].at, loc[p].rt, PersistAnchor(p))
  BY <1>1 DEF UpdateTokens, PersistAnchor
<1>5. Goto(p, "retryread")
  BY <1>1, <1>3, <1>4 DEF PersistWrite, ClearedIfCurrent
<1> QED BY <1>1, <1>5 DEF Goto, Typed

LEMMA CountedInit == Init => Counted
<1> SUFFICES ASSUME Init PROVE Counted
  OBVIOUS
<1>1. /\ pending = NoEntry /\ row.rt = 1
      /\ \A q \in Proc : pc[q] = "idle" /\ acct[q].rt = 1
  BY DEF Init
<1>2. Entries = {}
  BY <1>1 DEF Entries, Carrying
<1> QED BY <1>1, <1>2 DEF Counted, Costs, Known

LEMMA CountedNext ==
    ASSUME ~Reauthenticates, Typed, Ordered, Safe, Counted, [Next]_vars,
           excused \/ \A p \in Proc : ~OvertakenPersist(p)
    PROVE  Counted'
<1>0. Typed' /\ Ordered' /\ row'.rt >= row.rt /\ Safe'
  BY TypedNext, OrderedNext, SafeNext
<1>1. CASE UNCHANGED vars \/ WindowPasses
  <2>1. UNCHANGED <<row, pending, pc, acct, loc, excused, dbFailures>>
    BY <1>1 DEF vars, memVars, WindowPasses, faultVars
  <2> QED BY <2>1 DEF Counted, Costs, Entries, Known
<1>2. ASSUME NEW p \in Proc, CallStart(p) \/ StartFlush(p) \/ CallStep(p)
      PROVE  Counted'
  <2>1. CASE excused'
    BY <2>1 DEF Counted
  <2>2. CASE ~excused'
    <3>1. ~excused /\ Known' >= Known
      BY <1>0, <1>2, <2>2, SafeCaller
    <3> QED BY <1>0, <1>2, <2>2, <3>1, CountedCaller
  <2> QED BY <2>1, <2>2
<1>3. ~ReauthExchange /\ ~ReauthStep
  BY DEF ReauthExchange, ReauthStep, ReauthWrite, ReauthResume, ReauthClear, Ordered
<1>4. CASE Revoke
  BY <1>4 DEF Revoke, Counted
<1>5. CASE Restart
  <2>1. /\ pending' = NoEntry /\ row' = row /\ row.rt \in Nat
        /\ \A q \in Proc : pc'[q] = "idle" /\ acct'[q].rt = row.rt
    BY <1>5, KnownNumbers DEF Restart
  <2>2. Entries' = {}
    BY <2>1 DEF Entries, Carrying
  <2> QED BY <2>1, <2>2 DEF Counted, Costs, Known
<1> QED BY <1>1, <1>2, <1>3, <1>4, <1>5 DEF Next

LEMMA TwoFailuresKeepTheToken ==
    ASSUME ~Reauthenticates, MaxDbFailures <= 2
    PROVE  Spec => [](Typed /\ Ordered /\ Safe /\ Counted)
<1> DEFINE Inv == Typed /\ Ordered /\ Safe /\ Counted
<1>1. Init => Inv
  BY TypedInit, OrderedInit, SafeInit, CountedInit
<1>2. Inv /\ [Next]_vars => Inv'
  BY TwoFailuresOvertakeNothing, TypedNext, OrderedNext, SafeNext, CountedNext
<1> QED BY <1>1, <1>2, PTL DEF Spec

\* Two failures of the database do not suffice to overtake a persist, so that as
\* long as no more than two of its calls fail no interleaving of requests,
\* scheduler, sweeper and restarts loses the live token.  Two is the most: the
\* run rotation_stale_anchor loses it with three.
THEOREM LiveTokenSurvivesTwoFailures ==
    ASSUME ~Reauthenticates, MaxDbFailures <= 2
    PROVE  Spec => []LiveTokenNotLost
<1>1. Typed /\ Safe => LiveTokenNotLost
  BY SafeHolds
<1> QED BY <1>1, TwoFailuresKeepTheToken, PTL

\* Nor does anybody pause an account whose live token is still there within two
\* failures of the database.
THEOREM TwoFailuresPauseNobody ==
    ASSUME ~Reauthenticates, MaxDbFailures <= 2
    PROVE  Spec => OnlyDeadAccountsPaused
<1>1. Typed /\ Ordered /\ Safe /\ Counted /\ [Next]_vars
      => [row'.paused /\ ~row.paused => excused]_vars
  BY TwoFailuresOvertakeNothing, SafeNext
<1> QED BY <1>1, TwoFailuresKeepTheToken, PTL DEF Spec, OnlyDeadAccountsPaused
===============================================================================
