-------------------------- MODULE BankedReset_proofs --------------------------
(****************************************************************************)
(* Proofs about BankedReset, for any accounts, grants and request ids and   *)
(* any number of faults and operations: what the ledger says is true, only  *)
(* pending claims are sent, no reset is spent on top of an unconfirmed one, *)
(* and only the pause owed to a claim is lifted by it.                      *)
(****************************************************************************)
EXTENDS BankedReset, TLAPS

\* The stages of a claim from its open row to its recorded answer.
Sending == {"look", "posted", "rejected", "reposted", "answered"}
Sent == Sending \ {"look"}
\* The stages after an answer that restored windows.
Restored == {"owed", "restore", "restoring", "refresh", "refreshing"}

OwnerOfRow(q) == OwnerOf[row[q].grant]

\* A claim in flight is for a grant of its account, under a request id that no
\* other claim in flight uses and whose row, once written, is the account's.
ClaimsAreBound ==
    /\ \A a \in Account :
          /\ claim[a].pc = "idle" => claim[a].q = None
          /\ claim[a].pc # "idle" => /\ claim[a].q \in Attempt
                                     /\ claim[a].grant \in Grant
                                     /\ OwnerOf[claim[a].grant] = a
          /\ claim[a].created => claim[a].pc = "look"
    /\ \A a, b \in Account : claim[a].q # None /\ claim[a].q = claim[b].q => a = b

RowsAreBound ==
    \A q \in Attempt : row[q].status # "none" =>
        /\ row[q].grant \in Grant
        /\ \A a \in Account : claim[a].q = q => OwnerOfRow(q) = a

\* An account has at most one pending claim.
OnePending ==
    \A p, q \in Attempt :
        /\ row[p].status = "pending" /\ row[q].status = "pending"
        /\ OwnerOfRow(p) = OwnerOfRow(q)
        => p = q

\* The row of a claim being sent is pending, or was given up in the meantime
\* because its window closed; another row that is pending by then has never
\* been sent.
SentRowIsLive ==
    \A a \in Account : claim[a].pc \in Sending =>
        /\ row[claim[a].q].grant = claim[a].grant
        /\ \/ row[claim[a].q].status = "pending"
           \/ row[claim[a].q].status = "unconfirmed" /\ row[claim[a].q].age = Window
        /\ \A p \in Attempt \ {claim[a].q} :
              row[p].status = "pending" /\ OwnerOfRow(p) = a => sentUnder[p] = None

\* What counts as never sent was never sent.
UnsentRows ==
    /\ \A q \in Attempt :
          row[q].status \in {"none", "not_sent"} => sentUnder[q] = None
    /\ \A a \in Account : claim[a].created => sentUnder[claim[a].q] = None
    /\ \A a \in Account : claim[a].pc \in Sent => sentUnder[claim[a].q] # None

\* A reset is spent by a claim that was sent for it.
SpentWasSent ==
    \A g \in Grant : spentBy[g] # None =>
        /\ sentUnder[spentBy[g]] # None
        /\ row[spentBy[g]].status # "none"
        /\ row[spentBy[g]].grant = g

\* An answer says what the server did, and so does the row it is recorded in.
AnswersAreTrue ==
    \A a \in Account :
        /\ claim[a].pc = "rejected" => claim[a].ans = "auth"
        /\ claim[a].pc = "answered" =>
              /\ claim[a].ans = "reset" => spentBy[claim[a].grant] = claim[a].q
              /\ claim[a].ans = "refused" => spentBy[claim[a].grant] # claim[a].q
              /\ claim[a].ans \in Restoring => spentBy[claim[a].grant] # None
        /\ claim[a].pc = "owed" => spentBy[claim[a].grant] = claim[a].q
        /\ claim[a].pc \in Restored => spentBy[claim[a].grant] # None

RowsAreTrue ==
    \A q \in Attempt :
        /\ row[q].status = "reset" => spentBy[row[q].grant] = q
        /\ row[q].status = "refused" => spentBy[row[q].grant] # q
        /\ row[q].owed # None => row[q].status = "reset"

\* A POST that is still under way was sent, and the server has not refused its
\* request id.
StraysAreOpen ==
    /\ \A q \in stray : sentUnder[q] # None
    /\ \A a \in Account : claim[a].pc = "answered" /\ claim[a].ans = "refused"
                         => claim[a].q \notin stray

\* The pause a claim or a row owes a verdict is one that was not begun after
\* the claim was last sent.
EpochsAreOrdered ==
    /\ \A q \in Attempt :
          /\ sentUnder[q] # None => sentUnder[q] <= pause[OwnerOfRow(q)].epoch
          /\ row[q].owed # None => row[q].owed <= sentUnder[q]
    /\ \A a \in Account : claim[a].epoch # None =>
          /\ claim[a].pc \in Sending \cup {"owed"}
          /\ claim[a].epoch <= pause[a].epoch
          /\ claim[a].pc # "look" => /\ sentUnder[claim[a].q] # None
                                     /\ claim[a].epoch <= sentUnder[claim[a].q]

\* What the scheduler is about to claim is a grant of the account.
TickIsBound ==
    /\ applier.pc = "claiming" => /\ applier.a \in Account /\ applier.g \in Grant
                                  /\ OwnerOf[applier.g] = applier.a
                                  /\ applier.cause \in Cause
    /\ applier.pc = "lift" => applier.q \in Attempt

\* A read that is joined after a claim left after it was answered.
ReadsAreFresh ==
    \A a \in Account :
        /\ read[a].pc \in {"idle", "waiting"} => read[a].snap = NoStatus
        /\ claim[a].pc \in {"refresh", "refreshing"} /\ read[a].snap # NoStatus
           => claim[a].grant \in read[a].snap

CoreInv == /\ ClaimsAreBound /\ RowsAreBound /\ OnePending /\ SentRowIsLive
           /\ UnsentRows /\ SpentWasSent /\ AnswersAreTrue /\ RowsAreTrue
           /\ EpochsAreOrdered /\ StraysAreOpen
IInv == TypeOK /\ CoreInv /\ TickIsBound /\ ReadsAreFresh

-----------------------------------------------------------------------------
(* The type invariant *)

\* What the ledger's writes make of one row.
LEMMA RowUpdates ==
    ASSUME NEW r \in Row
    PROVE  /\ NoRow \in Row
           /\ [r EXCEPT !.status = "unconfirmed", !.wait = FALSE] \in Row
           /\ [r EXCEPT !.status = "not_sent"] \in Row
           /\ \A w \in BOOLEAN : [r EXCEPT !.wait = w] \in Row
           /\ [r EXCEPT !.late = TRUE] \in Row
           /\ [r EXCEPT !.owed = None, !.late = FALSE] \in Row
           /\ r.age < Window => [r EXCEPT !.age = @ + 1] \in Row
<1>1. NoRow \in Row
  BY WindowIsPositive DEF NoRow, Row, Trigger
<1>2. [r EXCEPT !.status = "unconfirmed", !.wait = FALSE] \in Row
  BY DEF Row
<1>3. [r EXCEPT !.status = "not_sent"] \in Row
  BY DEF Row
<1>4. \A w \in BOOLEAN : [r EXCEPT !.wait = w] \in Row
  BY DEF Row
<1>5. [r EXCEPT !.late = TRUE] \in Row
  BY DEF Row
<1>6. [r EXCEPT !.owed = None, !.late = FALSE] \in Row
  BY DEF Row
<1>7. r.age < Window => [r EXCEPT !.age = @ + 1] \in Row
  BY WindowIsPositive DEF Row
<1> QED BY <1>1, <1>2, <1>3, <1>4, <1>5, <1>6, <1>7

\* The rows that beginManualAttempt, claimAutoAttempt and resolveAttempt write.
LEMMA RowLiterals ==
    /\ \A g \in Grant, trigger \in Trigger : NewRow(g, trigger) \in Row
    /\ \A g \in Grant \cup {None}, status \in Resolving \cup {"not_sent"},
          owed \in Epoch \cup {None} :
          [NoRow EXCEPT !.status = status, !.grant = g, !.owed = owed] \in Row
<1>1. NoRow \in Row
  BY WindowIsPositive DEF NoRow, Row, Trigger
<1>2. \A g \in Grant, trigger \in Trigger : NewRow(g, trigger) \in Row
  BY <1>1 DEF NewRow, Row
<1>3. \A g \in Grant \cup {None}, status \in Resolving \cup {"not_sent"},
         owed \in Epoch \cup {None} :
         [NoRow EXCEPT !.status = status, !.grant = g, !.owed = owed] \in Row
  BY <1>1 DEF Row
<1> QED BY <1>2, <1>3

\* The writes to the whole ledger.
LEMMA LedgerType ==
    ASSUME row \in [Attempt -> Row], NEW q
    PROVE  /\ Expired \in [Attempt -> Row]
           /\ BackedOff(q) \in [Attempt -> Row]
           /\ OwesNothing(q) \in [Attempt -> Row]
           /\ \A status \in Resolving \cup {"not_sent"}, owed \in Epoch \cup {None} :
                 Resolved(q, status, owed) \in [Attempt -> Row]
<1>1. Expired \in [Attempt -> Row]
  BY RowUpdates DEF Expired
<1>2. BackedOff(q) \in [Attempt -> Row]
  BY RowUpdates DEF BackedOff
<1>3. OwesNothing(q) \in [Attempt -> Row]
  BY RowUpdates DEF OwesNothing
<1>4. ASSUME NEW status \in Resolving \cup {"not_sent"},
             NEW owed \in Epoch \cup {None}
      PROVE  Resolved(q, status, owed) \in [Attempt -> Row]
  <2>1. q \in Attempt => row[q].grant \in Grant \cup {None}
    BY DEF Row
  <2>2. q \in Attempt =>
          [NoRow EXCEPT !.status = status, !.grant = row[q].grant, !.owed = owed] \in Row
    BY <2>1, RowLiterals
  <2> QED BY <2>2 DEF Resolved
<1> QED BY <1>1, <1>2, <1>3, <1>4

PauseType == [Account -> [kind : {"none", "overage", "other"}, epoch : Epoch]]

\* resumeIfOveragePausedAt keeps the types, and no pause_epoch goes back.
LEMMA ResumeType ==
    ASSUME pause \in PauseType, NEW a, NEW epoch
    PROVE  /\ ResumeAt(a, epoch) \in PauseType
           /\ \A b \in Account : ResumeAt(a, epoch)[b].epoch >= pause[b].epoch
<1>0. \A b \in Account : pause[b] \in [kind : {"none", "overage", "other"}, epoch : Epoch]
  BY DEF PauseType
<1>1. \A b \in Account : pause[b].epoch \in Nat
  BY <1>0 DEF Epoch
<1>2. ASSUME NEW b \in Account
      PROVE  /\ pause[b].epoch + 1 \in Nat /\ pause[b].epoch + 1 >= pause[b].epoch
             /\ pause[b].epoch >= pause[b].epoch
  <2>1. pause[b].epoch \in Nat
    BY <1>1
  <2> QED BY <2>1
<1>3. ResumeAt(a, epoch) \in PauseType
  <2>1. \A b \in Account : [kind |-> "none", epoch |-> pause[b].epoch + 1]
                               \in [kind : {"none", "overage", "other"}, epoch : Epoch]
    BY <1>2 DEF Epoch
  <2> QED BY <2>1 DEF ResumeAt, PauseType
<1>4. ASSUME NEW b \in Account PROVE ResumeAt(a, epoch)[b].epoch >= pause[b].epoch
  <2>1. ResumeAt(a, epoch)[b].epoch \in {pause[b].epoch, pause[b].epoch + 1}
    BY DEF ResumeAt, PauseType
  <2> QED BY <1>2, <2>1
<1> QED BY <1>3, <1>4

\* What is idle is of its type.
LEMMA NoClaimType == NoClaim \in Claim /\ NoRead \in Read /\ NoTick \in Tick
  BY DEF NoClaim, Claim, ClaimPc, Trigger, NoRead, Read, NoStatus, NoTick, Tick

\* The tick goes on to its next account or proposal.
LEMMA ContinueType ==
    ASSUME NEW t \in Tick PROVE Continue(t) \in Tick
  BY DEF Continue, Tick, Trigger

\* The tick after the claim or the read it waits for.
LEMMA TickAfterType ==
    ASSUME NEW t \in Tick, NEW a, NEW trigger, NEW ok
    PROVE  /\ AfterDispatch(t, trigger) \in Tick
           /\ TickAfterClaim(a, t) \in Tick
           /\ a \in Account => TickAfterRead(a, ok, t) \in Tick
<1>1. \A x : AfterDispatch(t, x) \in Tick
  BY ContinueType, NoClaimType DEF AfterDispatch
<1>2. TickAfterClaim(a, t) \in Tick
  BY <1>1 DEF TickAfterClaim
<1>3. a \in Account => TickAfterRead(a, ok, t) \in Tick
  <2>1. a \in Account => [t EXCEPT !.pc = "confirming", !.seen = @ \cup {a}] \in Tick
    BY DEF Tick
  <2> QED BY <2>1, ContinueType DEF TickAfterRead
<1> QED BY <1>1, <1>2, <1>3

\* A claim that returns.
LEMMA EndClaimType ==
    ASSUME TypeOK, NEW a \in Account, EndClaim(a)
    PROVE  claim' \in [Account -> Claim] /\ applier' \in Tick
  BY NoClaimType, TickAfterType DEF TypeOK, EndClaim

\* A claim after the read it waits for.
LEMMA ClaimAfterReadType ==
    ASSUME NEW c \in Claim PROVE ClaimAfterRead(c) \in Claim
  BY NoClaimType DEF ClaimAfterRead, Claim, ClaimPc

\* A read that returns.
LEMMA EndReadType ==
    ASSUME TypeOK, NEW a \in Account, NEW ok, EndRead(a, ok)
    PROVE  /\ read' \in [Account -> Read] /\ claim' \in [Account -> Claim]
           /\ applier' \in Tick
<1>1. read' \in [Account -> Read]
  BY NoClaimType DEF TypeOK, EndRead
<1>2. claim' \in [Account -> Claim]
  BY ClaimAfterReadType DEF TypeOK, EndRead
<1>3. TickAfterRead(a, ok, applier) \in Tick
  BY TickAfterType DEF TypeOK
<1>4. applier' \in Tick
  BY <1>3, TickAfterType DEF EndRead
<1> QED BY <1>1, <1>2, <1>4

\* A claim that begins.
LEMMA StartedType ==
    ASSUME NEW q \in Attempt, NEW g \in Grant, NEW trigger \in Trigger,
           NEW replay \in BOOLEAN
    PROVE  Started(q, g, trigger, replay) \in Claim
  BY DEF Started, NoClaim, Claim, ClaimPc

\* What the steps of a claim make of it, field by field.
LEMMA ClaimUpdates ==
    ASSUME NEW c \in Claim
    PROVE  /\ \A pc \in ClaimPc : [c EXCEPT !.pc = pc] \in Claim
           /\ \A x \in BOOLEAN : [c EXCEPT !.created = x] \in Claim
           /\ \A x \in BOOLEAN : [c EXCEPT !.replay = x] \in Claim
           /\ \A x \in Epoch \cup {None} : [c EXCEPT !.epoch = x] \in Claim
           /\ \A x \in Resolving \cup {"auth", "error"} :
                 [c EXCEPT !.ans = x] \in Claim
<1>1. \A pc \in ClaimPc : [c EXCEPT !.pc = pc] \in Claim
  BY DEF Claim
<1>2. \A x \in BOOLEAN : [c EXCEPT !.created = x] \in Claim
  BY DEF Claim
<1>3. \A x \in BOOLEAN : [c EXCEPT !.replay = x] \in Claim
  BY DEF Claim
<1>4. \A x \in Epoch \cup {None} : [c EXCEPT !.epoch = x] \in Claim
  BY DEF Claim
<1>5. \A x \in Resolving \cup {"auth", "error"} : [c EXCEPT !.ans = x] \in Claim
  BY DEF Claim
<1> QED BY <1>1, <1>2, <1>3, <1>4, <1>5

\* A claim that moves on.
LEMMA AtType ==
    ASSUME TypeOK, NEW a \in Account, NEW pc \in ClaimPc, At(a, pc)
    PROVE  claim' \in [Account -> Claim]
<1>1. claim \in [Account -> Claim]
  BY DEF TypeOK
<1>2. \A c \in Claim : [c EXCEPT !.pc = pc] \in Claim
  BY DEF Claim
<1> QED BY <1>1, <1>2 DEF At

\* The same for a claim in its place.
LEMMA ClaimsUpdates ==
    ASSUME NEW cs \in [Account -> Claim], NEW a \in Account
    PROVE  /\ \A pc \in ClaimPc : [cs EXCEPT ![a].pc = pc] \in [Account -> Claim]
           /\ \A x \in BOOLEAN : [cs EXCEPT ![a].created = x] \in [Account -> Claim]
           /\ \A x \in BOOLEAN : [cs EXCEPT ![a].replay = x] \in [Account -> Claim]
           /\ \A x \in Epoch \cup {None} :
                 [cs EXCEPT ![a].epoch = x] \in [Account -> Claim]
           /\ \A x \in Resolving \cup {"auth", "error"} :
                 [cs EXCEPT ![a].ans = x] \in [Account -> Claim]
  BY ClaimUpdates

\* A POST that leaves.
LEMMA PostType ==
    ASSUME TypeOK, NEW a \in Account, NEW pc \in ClaimPc, Post(a, pc)
    PROVE  /\ claim' \in [Account -> Claim]
           /\ sentUnder' \in [Attempt -> Epoch \cup {None}]
<1>1. claim' \in [Account -> Claim]
  <2>1. [claim EXCEPT ![a].pc = pc] \in [Account -> Claim]
    BY ClaimsUpdates DEF TypeOK
  <2> QED BY <2>1, ClaimsUpdates DEF Post
<1>2. pause[a].epoch \in Epoch
  <2>1. pause \in PauseType
    BY DEF TypeOK, PauseType
  <2> QED BY <2>1 DEF PauseType
<1>3. sentUnder' \in [Attempt -> Epoch \cup {None}]
  BY <1>2 DEF TypeOK, Post
<1> QED BY <1>1, <1>3

\* writeLedger, and the counters of the bounds.
LEMMA WriteLedgerType ==
    ASSUME TypeOK, NEW r \in [Attempt -> Row], WriteLedger(r)
    PROVE  row' \in [Attempt -> Row] /\ faults' \in 0..MaxEvents
  BY BoundIsNat DEF TypeOK, WriteLedger, Fault

\* The counters of the bounds.
LEMMA CountersType ==
    ASSUME TypeOK
    PROVE  /\ Fault => faults' \in 0..MaxEvents
           /\ Operation => ops' \in 0..MaxEvents
  BY BoundIsNat DEF TypeOK, Fault, Operation

\* A read that begins.
LEMMA StartReadType ==
    ASSUME TypeOK, NEW a \in Account, StartRead(a)
    PROVE  read' \in [Account -> Read]
<1>1. \A r \in Read : [r EXCEPT !.pc = "waiting"] \in Read
  BY DEF Read
<1>2. read \in [Account -> Read]
  BY DEF TypeOK
<1> QED BY <1>1, <1>2 DEF StartRead

\* The reads of the status keep the types.
LEMMA ReadsType ==
    ASSUME TypeOK, NEW a \in Account, Refresh(a) \/ ReadStep(a)
    PROVE  TypeOK'
<1>1. CASE Refresh(a)
  BY <1>1, StartReadType, CountersType DEF TypeOK, Refresh, accountVars, serverVars
<1>2. CASE ServeRead(a)
  <2>1. read' \in [Account -> Read]
    BY <1>2 DEF ServeRead, TypeOK, Read
  <2> QED BY <1>2, <2>1 DEF ServeRead, TypeOK, accountVars, serverVars
<1>3. CASE FailRead(a)
  <2>1. EndRead(a, FALSE)
    BY <1>3 DEF FailRead
  <2> QED BY <1>3, <2>1, EndReadType DEF FailRead, TypeOK, accountVars, serverVars
<1>4. CASE FinishRead(a)
  <2>1. EndRead(a, TRUE)
    BY <1>4 DEF FinishRead
  <2>2. cache' \in [Account -> (SUBSET Grant) \cup {NoStatus}]
    BY <1>4 DEF FinishRead, TypeOK, Read
  <2> QED BY <1>4, <2>1, <2>2, EndReadType
          DEF FinishRead, TypeOK, accountVars, serverVars
<1> QED BY <1>1, <1>2, <1>3, <1>4 DEF ReadStep

\* The steps of a claim that do not write the ledger keep the types.
LEMMA ClaimMovesType ==
    ASSUME TypeOK, ClaimsAreBound, NEW a \in Account,
           \/ \E q \in Attempt, g \in Grant : ManualClaim(a, q, g)
           \/ PrepareClaim(a) \/ Land(a) \/ RetryClaim(a)
           \/ SettleAgain(a) \/ RefreshAfterClaim(a)
    PROVE  TypeOK'
<1>0. claim \in [Account -> Claim]
  BY DEF TypeOK
<1>1. ASSUME NEW q \in Attempt, NEW g \in Grant, ManualClaim(a, q, g)
      PROVE  TypeOK'
  <2>1. claim' \in [Account -> Claim]
    BY <1>0, <1>1, StartedType DEF ManualClaim, Trigger
  <2> QED BY <1>1, <2>1, CountersType DEF TypeOK, ManualClaim, accountVars, serverVars
<1>2. CASE PrepareClaim(a)
  <2>1. claim' \in [Account -> Claim] /\ applier' \in Tick
    <3>1. CASE EndClaim(a)
      BY <3>1, EndClaimType
    <3>2. CASE SettleStatusRead(a, "settling", "open") /\ UNCHANGED applier
      BY <3>2, AtType DEF SettleStatusRead, ClaimPc, TypeOK
    <3> QED BY <1>2, <3>1, <3>2 DEF PrepareClaim
  <2> QED BY <1>2, <2>1 DEF TypeOK, PrepareClaim, claimFrame, accountVars, serverVars
<1>3. CASE Land(a)
  <2>1. \A c \in Claim, ans \in Resolving \cup {"auth", "error"} :
           \A pc \in {"rejected", "answered"} :
              [[c EXCEPT !.ans = ans] EXCEPT !.pc = pc] \in Claim
    BY ClaimUpdates DEF ClaimPc
  <2>2. ASSUME NEW ans \in Resolving \cup {"auth", "error"}, Answer(a, ans)
        PROVE  claim' \in [Account -> Claim]
    BY <1>0, <2>1, <2>2 DEF Answer
  <2>3. claim' \in [Account -> Claim]
    BY <1>3, <2>2 DEF Land, Resolving, Restoring
  <2>4. spentBy' \in [Grant -> Attempt \cup {None}]
    <3>1. claim[a].q \in Attempt \cup {None}
      BY <1>0 DEF Claim
    <3> QED BY <1>3, <3>1 DEF Land, TypeOK
  <2>5. faults' \in 0..MaxEvents
    BY <1>3, CountersType DEF Land, TypeOK
  <2>6. stray' \subseteq Attempt
    <3>1. claim[a].q \in Attempt
      BY <1>3 DEF Land, ClaimsAreBound
    <3> QED BY <1>3, <3>1 DEF Land, TypeOK
  <2> QED BY <1>3, <2>3, <2>4, <2>5, <2>6 DEF TypeOK, Land, accountVars
<1>4. CASE RetryClaim(a)
  <2>2. claim' \in [Account -> Claim]
    BY <1>4, PostType, AtType DEF RetryClaim, ClaimPc
  <2>4. sentUnder' \in [Attempt -> Epoch \cup {None}]
    BY <1>4, PostType DEF RetryClaim, TypeOK, ClaimPc
  <2> QED BY <1>4, <2>2, <2>4 DEF TypeOK, RetryClaim, accountVars
<1>5. CASE SettleAgain(a)
  <2>1. claim' \in [Account -> Claim]
    BY <1>5, AtType DEF SettleAgain, SettleStatusRead, ClaimPc
  <2> QED BY <1>5, <2>1 DEF TypeOK, SettleAgain, claimFrame, accountVars, serverVars
<1>6. CASE RefreshAfterClaim(a)
  <2>1. claim' \in [Account -> Claim] /\ applier' \in Tick
    <3>1. CASE EndClaim(a)
      BY <3>1, EndClaimType
    <3>2. CASE At(a, "refreshing") /\ UNCHANGED applier
      BY <3>2, AtType DEF ClaimPc, TypeOK
    <3> QED BY <1>6, <3>1, <3>2 DEF RefreshAfterClaim
  <2>2. read' \in [Account -> Read]
    BY <1>6, StartReadType DEF RefreshAfterClaim, TypeOK
  <2> QED BY <1>6, <2>1, <2>2
          DEF TypeOK, RefreshAfterClaim, claimFrame, accountVars, serverVars
<1> QED BY <1>1, <1>2, <1>3, <1>4, <1>5, <1>6

\* The ledger with a new manual row.
LEMMA BeginManualType ==
    ASSUME IInv, NEW a \in Account, claim[a].pc # "idle",
           NEW r \in BeginManual(a, claim[a])
    PROVE  /\ r \in [Attempt -> Row]
           /\ [r EXCEPT ![claim[a].q].status = "not_sent"] \in [Attempt -> Row]
<1>1. claim[a].q \in Attempt /\ claim[a].grant \in Grant
  BY DEF IInv, CoreInv, ClaimsAreBound
<1>2. Expired \in [Attempt -> Row]
  BY LedgerType DEF IInv, TypeOK
<1>3. NewRow(claim[a].grant, "manual") \in Row
  BY <1>1, RowLiterals DEF Trigger
<1>4. r \in [Attempt -> Row]
  BY <1>2, <1>3 DEF BeginManual
<1>5. [r EXCEPT ![claim[a].q].status = "not_sent"] \in [Attempt -> Row]
  BY <1>4, RowUpdates
<1> QED BY <1>4, <1>5

\* overagePauseAtClaim.
LEMMA OveragePauseType ==
    ASSUME TypeOK, NEW a \in Account
    PROVE  OveragePause(a) \in Epoch \cup {None}
<1>1. pause \in PauseType
  BY DEF TypeOK, PauseType
<1> QED BY <1>1 DEF OveragePause, PauseType

\* The steps of a claim that write the ledger keep the types.
LEMMA ClaimWritesType ==
    ASSUME IInv, NEW a \in Account,
           OpenLedgerRow(a) \/ LastLook(a) \/ RecordAnswer(a) \/ SettleOwedPause(a)
    PROVE  TypeOK'
<1>0. /\ TypeOK /\ claim \in [Account -> Claim] /\ row \in [Attempt -> Row]
      /\ claim[a] \in Claim
  BY DEF IInv, TypeOK
<1>1. CASE OpenLedgerRow(a)
  <2>0. claim[a].pc # "idle"
    BY <1>1 DEF OpenLedgerRow
  <2>1. row' \in [Attempt -> Row]
    <3>1. CASE row' \in BeginManual(a, claim[a])
      BY <2>0, <3>1, BeginManualType
    <3>2. CASE row' \in {row, Expired}
      BY <1>0, <3>2, LedgerType
    <3>3. CASE row' \in {[r EXCEPT ![claim[a].q].status = "not_sent"] :
                            r \in BeginManual(a, claim[a])}
      BY <2>0, <3>3, BeginManualType
    <3>4. CASE row' = [Expired EXCEPT ![claim[a].q].wait = TRUE]
      BY <1>0, <3>4, LedgerType, RowUpdates
    <3> QED BY <1>1, <3>1, <3>2, <3>3, <3>4 DEF OpenLedgerRow
  <2>2. claim' \in [Account -> Claim] /\ applier' \in Tick
    <3>1. CASE EndClaim(a)
      BY <1>0, <3>1, EndClaimType
    <3> DEFINE cs == [claim EXCEPT ![a].pc = "look"]
    <3>2. cs \in [Account -> Claim]
      BY <1>0, ClaimsUpdates DEF ClaimPc
    <3> HIDE DEF cs
    <3>3. CASE /\ claim' = [claim EXCEPT ![a].pc = "look", ![a].created = TRUE,
                                         ![a].epoch = OveragePause(a)]
               /\ UNCHANGED applier
      <4> DEFINE ds == [cs EXCEPT ![a].created = TRUE]
      <4>1. ds \in [Account -> Claim]
        BY <3>2, ClaimsUpdates
      <4> HIDE DEF ds
      <4>2. [ds EXCEPT ![a].epoch = OveragePause(a)] \in [Account -> Claim]
        BY <4>1, <1>0, ClaimsUpdates, OveragePauseType
      <4> QED BY <1>0, <3>3, <4>2 DEF ds, cs, TypeOK
    <3>4. CASE /\ claim' = [claim EXCEPT ![a].pc = "look",
                                ![a].epoch = OveragePause(a),
                                ![a].replay = @ \/ claim[a].trigger = "manual"]
               /\ UNCHANGED applier
      <4> DEFINE ds == [cs EXCEPT ![a].epoch = OveragePause(a)]
      <4>1. ds \in [Account -> Claim]
        BY <1>0, <3>2, ClaimsUpdates, OveragePauseType
      <4> HIDE DEF ds
      <4>2. \A x \in BOOLEAN : [ds EXCEPT ![a].replay = x] \in [Account -> Claim]
        BY <4>1, ClaimsUpdates
      <4>3. claim' = [ds EXCEPT ![a].replay = @ \/ claim[a].trigger = "manual"]
        BY <3>4 DEF ds, cs
      <4>4. ds[a].replay \in BOOLEAN
        BY <4>1 DEF Claim
      <4> QED BY <1>0, <3>4, <4>2, <4>3, <4>4 DEF TypeOK
    <3> QED BY <1>1, <3>1, <3>3, <3>4 DEF OpenLedgerRow
  <2>3. faults' \in 0..MaxEvents
    BY <1>0, <1>1, CountersType DEF OpenLedgerRow, TypeOK
  <2> QED BY <1>0, <1>1, <2>1, <2>2, <2>3
          DEF TypeOK, OpenLedgerRow, claimFrame, accountVars, serverVars
<1>2. CASE LastLook(a)
  <2>1. NotSent(claim[a].q) \in [Attempt -> Row]
    BY <1>0, LedgerType DEF NotSent
  <2>2. GiveUp(claim[a].q, claim[a].created) \in [Attempt -> Row]
    BY <1>0, <2>1, LedgerType DEF GiveUp
  <2>3. row' \in [Attempt -> Row] /\ faults' \in 0..MaxEvents
    <3>1. \/ WriteLedger(NotSent(claim[a].q))
          \/ WriteLedger(GiveUp(claim[a].q, claim[a].created))
          \/ UNCHANGED <<row, faults>>
      BY <1>2 DEF LastLook
    <3>2. CASE UNCHANGED <<row, faults>>
      BY <1>0, <3>2 DEF TypeOK
    <3> QED BY <1>0, <2>1, <2>2, <3>1, <3>2, WriteLedgerType
  <2>4. /\ claim' \in [Account -> Claim] /\ applier' \in Tick
        /\ sentUnder' \in [Attempt -> Epoch \cup {None}]
    <3>1. CASE EndClaim(a) /\ UNCHANGED sentUnder
      BY <1>0, <3>1, EndClaimType DEF TypeOK
    <3>2. CASE Post(a, "posted") /\ UNCHANGED applier
      BY <1>0, <3>2, PostType DEF TypeOK, ClaimPc
    <3> QED BY <1>2, <3>1, <3>2 DEF LastLook
  <2> QED BY <1>0, <1>2, <2>3, <2>4 DEF TypeOK, LastLook, accountVars
<1>3. CASE RecordAnswer(a)
  <2>0. claim[a].epoch \in Epoch \cup {None} /\ claim[a].q \in Attempt \cup {None}
    BY <1>0 DEF Claim
  <2>1. /\ \A owed \in Owed(claim[a]) : owed \in Epoch \cup {None}
        /\ \A owed \in Owed(claim[a]) : claim[a].ans \in Resolving =>
              Resolved(claim[a].q, claim[a].ans, owed) \in [Attempt -> Row]
    <3>1. \A owed \in Owed(claim[a]) : owed \in Epoch \cup {None}
      BY <2>0 DEF Owed
    <3> QED BY <1>0, <3>1, LedgerType
  <2>2. /\ GiveUp(claim[a].q, FALSE) \in [Attempt -> Row]
        /\ BackedOff(claim[a].q) \in [Attempt -> Row]
    BY <1>0, LedgerType DEF GiveUp
  <2>3. row' \in [Attempt -> Row] /\ faults' \in 0..MaxEvents
    BY <1>0, <1>3, <2>1, <2>2, WriteLedgerType DEF RecordAnswer
  <2>4. claim' \in [Account -> Claim] /\ applier' \in Tick
    <3>1. CASE EndClaim(a)
      BY <1>0, <3>1, EndClaimType
    <3>2. ASSUME NEW owed \in Owed(claim[a]), UNCHANGED applier,
                 claim' = [claim EXCEPT
                              ![a].pc = IF owed = None THEN "restore" ELSE "owed",
                              ![a].ans = "error", ![a].epoch = owed]
          PROVE  claim' \in [Account -> Claim] /\ applier' \in Tick
      <4> DEFINE cs == [claim EXCEPT ![a].pc = IF owed = None THEN "restore" ELSE "owed"]
                 ds == [cs EXCEPT ![a].ans = "error"]
      <4>1. cs \in [Account -> Claim]
        BY <1>0, ClaimsUpdates DEF ClaimPc
      <4> HIDE DEF cs
      <4>2. ds \in [Account -> Claim]
        BY <4>1, ClaimsUpdates
      <4> HIDE DEF ds
      <4>3. [ds EXCEPT ![a].epoch = owed] \in [Account -> Claim]
        BY <4>2, <2>1, ClaimsUpdates
      <4> QED BY <1>0, <3>2, <4>3 DEF cs, ds, TypeOK
    <3> QED BY <1>3, <3>1, <3>2 DEF RecordAnswer
  <2> QED BY <1>0, <1>3, <2>3, <2>4
          DEF TypeOK, RecordAnswer, claimFrame, accountVars, serverVars
<1>4. CASE SettleOwedPause(a)
  <2>1. claim' \in [Account -> Claim]
    <3>1. [claim EXCEPT ![a].pc = "restore"] \in [Account -> Claim]
      BY <1>0, ClaimsUpdates DEF ClaimPc
    <3> QED BY <1>4, <3>1, ClaimsUpdates DEF SettleOwedPause
  <2>2. OwesNothing(claim[a].q) \in [Attempt -> Row]
    BY <1>0, LedgerType
  <2>3. row' \in [Attempt -> Row] /\ faults' \in 0..MaxEvents
    <3>1. WriteLedger(OwesNothing(claim[a].q)) \/ UNCHANGED <<row, faults>>
      BY <1>4 DEF SettleOwedPause
    <3>2. CASE UNCHANGED <<row, faults>>
      BY <1>0, <3>2 DEF TypeOK
    <3> QED BY <1>0, <2>2, <3>1, <3>2, WriteLedgerType
  <2>4. pause \in PauseType /\ pause' \in PauseType
    <3>1. pause \in PauseType
      BY <1>0 DEF TypeOK, PauseType
    <3> QED BY <1>4, <3>1, ResumeType DEF SettleOwedPause
  <2> QED BY <1>0, <1>4, <2>1, <2>3, <2>4
          DEF TypeOK, PauseType, SettleOwedPause, serverVars
<1> QED BY <1>1, <1>2, <1>3, <1>4

\* What the scheduler makes of its tick, field by field.
LEMMA TickUpdates ==
    ASSUME NEW t \in Tick
    PROVE  /\ \A pc \in {"owed", "lift", "scan", "rank", "reading", "confirming",
                         "claiming", "dispatch"} : [t EXCEPT !.pc = pc] \in Tick
           /\ \A x \in SUBSET Attempt : [t EXCEPT !.rows = x] \in Tick
           /\ \A x \in SUBSET Account : /\ [t EXCEPT !.todo = x] \in Tick
                                        /\ [t EXCEPT !.weekly = x] \in Tick
           /\ \A x \in BOOLEAN : /\ [t EXCEPT !.held = x] \in Tick
                                 /\ [t EXCEPT !.rank = x] \in Tick
           /\ \A x \in Account : [t EXCEPT !.a = x] \in Tick
           /\ \A x \in Attempt \cup {None} : [t EXCEPT !.q = x] \in Tick
           /\ \A x \in Grant : [t EXCEPT !.g = x] \in Tick
           /\ \A x \in Cause : [t EXCEPT !.cause = x] \in Tick
<1>1. \A pc \in {"owed", "lift", "scan", "rank", "reading", "confirming",
                 "claiming", "dispatch"} : [t EXCEPT !.pc = pc] \in Tick
  BY DEF Tick
<1>2. \A x \in SUBSET Attempt : [t EXCEPT !.rows = x] \in Tick
  BY DEF Tick
<1>3. \A x \in SUBSET Account : [t EXCEPT !.todo = x] \in Tick
  BY DEF Tick
<1>4. \A x \in SUBSET Account : [t EXCEPT !.weekly = x] \in Tick
  BY DEF Tick
<1>5. \A x \in BOOLEAN : [t EXCEPT !.held = x] \in Tick
  BY DEF Tick
<1>6. \A x \in BOOLEAN : [t EXCEPT !.rank = x] \in Tick
  BY DEF Tick
<1>7. \A x \in Account : [t EXCEPT !.a = x] \in Tick
  BY DEF Tick
<1>8. \A x \in Attempt \cup {None} : [t EXCEPT !.q = x] \in Tick
  BY DEF Tick
<1>9. \A x \in Grant : [t EXCEPT !.g = x] \in Tick
  BY DEF Tick
<1>10. \A x \in Cause : [t EXCEPT !.cause = x] \in Tick
  BY DEF Tick, Trigger
<1> QED BY <1>1, <1>2, <1>3, <1>4, <1>5, <1>6, <1>7, <1>8, <1>9, <1>10

\* The fields of a tick.
LEMMA TickFields ==
    ASSUME NEW t \in Tick
    PROVE  /\ t.rows \in SUBSET Attempt /\ t.todo \in SUBSET Account
           /\ t.weekly \in SUBSET Account /\ t.held \in BOOLEAN
           /\ t.a \in Account \cup {None} /\ t.q \in Attempt \cup {None}
           /\ t.cause \in Trigger
  BY DEF Tick

\* A claim that the scheduler sends or joins.
LEMMA DispatchType ==
    ASSUME TypeOK, NEW t \in Tick, NEW a \in Account, NEW q \in Attempt,
           NEW r, r.grant \in Grant, r.trigger \in Trigger,
           NEW replay \in BOOLEAN, Dispatch(t, a, q, r, replay)
    PROVE  claim' \in [Account -> Claim] /\ applier' \in Tick
<1>1. [t EXCEPT !.pc = "dispatch", !.a = a] \in Tick
  <2>1. [t EXCEPT !.pc = "dispatch"] \in Tick
    BY TickUpdates
  <2> QED BY <2>1, TickUpdates
<1>2. AfterDispatch(t, r.trigger) \in Tick
  BY TickAfterType
<1>3. applier' \in Tick
  BY <1>1, <1>2 DEF Dispatch
<1>4. claim' \in [Account -> Claim]
  BY StartedType DEF Dispatch, TypeOK
<1> QED BY <1>3, <1>4

\* confirm's forced read.
LEMMA ConfirmReadType ==
    ASSUME TypeOK, NEW t \in Tick, NEW a \in Account, ConfirmRead(a, t)
    PROVE  read' \in [Account -> Read] /\ applier' \in Tick
<1>1. [t EXCEPT !.pc = "reading", !.a = a] \in Tick
  <2>1. [t EXCEPT !.pc = "reading"] \in Tick
    BY TickUpdates
  <2> QED BY <2>1, TickUpdates
<1>2. read' \in [Account -> Read]
  BY StartReadType DEF ConfirmRead, TypeOK
<1> QED BY <1>1, <1>2 DEF ConfirmRead

\* The scheduler's settling of what pauses are owed keeps the types.
LEMMA TickSettlesType ==
    ASSUME IInv, TickStart \/ LiftOwedPause \/ \E q \in Attempt : SettleOwedRow(q)
    PROVE  TypeOK'
<1>0. TypeOK /\ row \in [Attempt -> Row] /\ applier \in Tick
  BY DEF IInv, TypeOK
<1>1. CASE TickStart
  <2>1. row' \in [Attempt -> Row] /\ faults' \in 0..MaxEvents
    BY <1>0, <1>1, LedgerType, WriteLedgerType DEF TickStart, SweptRows
  <2>2. applier' \in Tick
    <3> DEFINE rows == {q \in Attempt : row[q].owed # None}
    <3>1. [NoTick EXCEPT !.pc = "owed"] \in Tick
      BY NoClaimType, TickUpdates
    <3>2. [[NoTick EXCEPT !.pc = "owed"] EXCEPT !.rows = rows] \in Tick
      BY <3>1, TickUpdates
    <3> QED BY <1>1, <3>2 DEF TickStart
  <2> QED BY <1>0, <1>1, <2>1, <2>2
          DEF TypeOK, TickStart, tickFrame, accountVars, serverVars
<1>2. CASE LiftOwedPause
  <2>1. row' \in [Attempt -> Row] /\ faults' \in 0..MaxEvents
    BY <1>0, <1>2, LedgerType, WriteLedgerType DEF LiftOwedPause
  <2>2. applier' \in Tick
    <3> DEFINE rows == applier.rows \ {applier.q}
               t1 == [applier EXCEPT !.pc = "owed"]
               t2 == [t1 EXCEPT !.rows = rows]
               t3 == [t2 EXCEPT !.q = None]
    <3>1. t1 \in Tick
      BY <1>0, TickUpdates
    <3>2. rows \in SUBSET Attempt
      BY <1>0, TickFields
    <3>3. applier' = t3
      BY <1>0, <1>2 DEF LiftOwedPause, Tick
    <3> HIDE DEF t1, rows
    <3>4. t2 \in Tick
      BY <3>1, <3>2, TickUpdates
    <3> HIDE DEF t2
    <3>5. t3 \in Tick
      BY <3>4, TickUpdates
    <3> QED BY <3>3, <3>5
  <2>3. pause \in PauseType /\ pause' \in PauseType
    <3>1. pause \in PauseType
      BY <1>0 DEF TypeOK, PauseType
    <3> QED BY <1>2, <3>1, ResumeType DEF LiftOwedPause
  <2> QED BY <1>0, <1>2, <2>1, <2>2, <2>3
          DEF TypeOK, PauseType, LiftOwedPause, serverVars
<1>3. ASSUME NEW q \in Attempt, SettleOwedRow(q)
      PROVE  TypeOK'
  <2>1. row' \in [Attempt -> Row] /\ faults' \in 0..MaxEvents
    <3>1. WriteLedger(OwesNothing(q)) \/ UNCHANGED <<row, faults>>
      BY <1>3 DEF SettleOwedRow
    <3>2. CASE UNCHANGED <<row, faults>>
      BY <1>0, <3>2 DEF TypeOK
    <3> QED BY <1>0, <3>1, <3>2, LedgerType, WriteLedgerType
  <2>2. applier' \in Tick
    <3>1. [applier EXCEPT !.rows = applier.rows \ {q}] \in Tick
      BY <1>0, TickUpdates, TickFields
    <3>2. [applier EXCEPT !.pc = "lift", !.q = q] \in Tick
      <4>1. [applier EXCEPT !.pc = "lift"] \in Tick
        BY <1>0, TickUpdates
      <4> QED BY <4>1, TickUpdates
    <3> QED BY <1>0, <1>3, <3>1, <3>2 DEF SettleOwedRow
  <2> QED BY <1>0, <1>3, <2>1, <2>2
          DEF TypeOK, SettleOwedRow, tickFrame, accountVars, serverVars
<1> QED BY <1>1, <1>2, <1>3

\* The scheduler's search for a claim to make keeps the types.
LEMMA TickSearchType ==
    ASSUME IInv,
           \/ ListCandidates \/ EndScan \/ Rank \/ Evaluate \/ ClaimAndDispatch
           \/ \E a \in Account : ProcessAccount(a)
    PROVE  TypeOK'
<1>0. TypeOK /\ row \in [Attempt -> Row] /\ applier \in Tick
  BY DEF IInv, TypeOK
<1>1. CASE ListCandidates
  <2> DEFINE todo == {a \in Account : usable[a] /\ on[a] # {}}
  <2>1. [applier EXCEPT !.pc = "scan"] \in Tick
    BY <1>0, TickUpdates
  <2>2. [applier EXCEPT !.pc = "scan", !.todo = todo] \in Tick
    BY <2>1, TickUpdates
  <2> QED BY <1>0, <1>1, <2>2
          DEF TypeOK, ListCandidates, tickFrame, accountVars, serverVars
<1>2. CASE EndScan
  <2> DEFINE t1 == [applier EXCEPT !.pc = "rank"]
             t2 == [t1 EXCEPT !.rank = TRUE]
             t3 == [t2 EXCEPT !.todo = applier.weekly]
             t4 == [t3 EXCEPT !.weekly = {}]
  <2>1. t1 \in Tick
    BY <1>0, TickUpdates
  <2>2. applier' = NoTick \/ applier' = t4
    BY <1>2 DEF EndScan
  <2> HIDE DEF t1
  <2>3. t2 \in Tick
    BY <2>1, TickUpdates
  <2> HIDE DEF t2
  <2>4. t3 \in Tick
    BY <1>0, <2>3, TickUpdates, TickFields
  <2> HIDE DEF t3
  <2>5. t4 \in Tick
    BY <2>4, TickUpdates
  <2>6. applier' \in Tick
    BY <2>2, <2>5, NoClaimType
  <2> QED BY <1>0, <1>2, <2>6 DEF TypeOK, EndScan, tickFrame, accountVars, serverVars
<1>3. CASE Rank
  <2>1. read' \in [Account -> Read] /\ applier' \in Tick
    <3>1. CASE applier' = NoTick /\ UNCHANGED read
      BY <1>0, <3>1, NoClaimType DEF TypeOK
    <3>2. ASSUME NEW a \in applier.todo,
                 LET t == [applier EXCEPT !.todo = @ \ {a}]
                 IN \/ applier' = [t EXCEPT !.pc = "confirming", !.a = a] /\ UNCHANGED read
                    \/ ConfirmRead(a, t)
                    \/ applier' = t /\ UNCHANGED read
          PROVE  read' \in [Account -> Read] /\ applier' \in Tick
      <4> DEFINE t == [applier EXCEPT !.todo = @ \ {a}]
      <4>1. a \in Account /\ t \in Tick
        BY <1>0, TickUpdates, TickFields
      <4> HIDE DEF t
      <4>2. [t EXCEPT !.pc = "confirming", !.a = a] \in Tick
        <5>1. [t EXCEPT !.pc = "confirming"] \in Tick
          BY <4>1, TickUpdates
        <5> QED BY <4>1, <5>1, TickUpdates
      <4>3. \/ applier' = [t EXCEPT !.pc = "confirming", !.a = a] /\ UNCHANGED read
            \/ ConfirmRead(a, t)
            \/ applier' = t /\ UNCHANGED read
        BY <3>2 DEF t
      <4> QED BY <1>0, <4>1, <4>2, <4>3, ConfirmReadType DEF TypeOK
    <3> QED BY <1>3, <3>1, <3>2 DEF Rank
  <2> QED BY <1>0, <1>3, <2>1 DEF TypeOK, Rank, tickFrame, accountVars, serverVars
<1>4. CASE Evaluate
  <2>1. Continue(applier) \in Tick
    BY <1>0, ContinueType
  <2>2. ASSUME NEW g \in Grant, NEW cause \in Cause, MayClaim(applier.a, g, cause),
               applier' = IF cause = "weekly" /\ ~applier.rank
                          THEN [Continue(applier) EXCEPT !.weekly = @ \cup {applier.a}]
                          ELSE [applier EXCEPT !.pc = "claiming", !.g = g, !.cause = cause]
        PROVE  applier' \in Tick
    <3>1. applier.a \in Account
      BY <2>2, GrantsAreOwned DEF MayClaim
    <3>2. [Continue(applier) EXCEPT !.weekly = Continue(applier).weekly \cup {applier.a}]
            \in Tick
      BY <2>1, <3>1, TickUpdates, TickFields
    <3> DEFINE t1 == [applier EXCEPT !.pc = "claiming"]
               t2 == [t1 EXCEPT !.g = g]
               t3 == [t2 EXCEPT !.cause = cause]
    <3>3. t1 \in Tick
      BY <1>0, TickUpdates
    <3>4. applier' = t3 \/ applier' =
             [Continue(applier) EXCEPT !.weekly = Continue(applier).weekly \cup {applier.a}]
      BY <2>2
    <3> HIDE DEF t1
    <3>5. t2 \in Tick
      BY <3>3, TickUpdates
    <3> HIDE DEF t2
    <3>6. t3 \in Tick
      BY <3>5, TickUpdates
    <3> QED BY <3>2, <3>4, <3>6
  <2>3. applier' \in Tick
    BY <1>4, <2>1, <2>2 DEF Evaluate
  <2> QED BY <1>0, <1>4, <2>3 DEF TypeOK, Evaluate, tickFrame, accountVars, serverVars
<1>5. CASE ClaimAndDispatch
  <2>1. applier.a \in Account /\ applier.g \in Grant /\ applier.cause \in Cause
    BY <1>5 DEF IInv, TickIsBound, ClaimAndDispatch
  <2> DEFINE new == NewRow(applier.g, applier.cause)
  <2>2. new \in Row /\ new.grant \in Grant /\ new.trigger \in Trigger
    <3>1. new.grant = applier.g /\ new.trigger = applier.cause
      BY DEF NewRow, NoRow
    <3> QED BY <2>1, <3>1, RowLiterals DEF Trigger
  <2> HIDE DEF new
  <2>3. ASSUME NEW q \in Unused, row' = [row EXCEPT ![q] = new],
               Dispatch(applier, applier.a, q, new, FALSE)
        PROVE  /\ row' \in [Attempt -> Row] /\ claim' \in [Account -> Claim]
               /\ applier' \in Tick
    BY <1>0, <2>1, <2>2, <2>3, DispatchType DEF Unused
  <2>4. ASSUME applier' = Continue(applier), UNCHANGED <<row, claim>>
        PROVE  /\ row' \in [Attempt -> Row] /\ claim' \in [Account -> Claim]
               /\ applier' \in Tick
    BY <1>0, <2>4, ContinueType DEF TypeOK
  <2>6. ASSUME NEW q \in Reusable(applier.a, applier.g), UNCHANGED row,
               Dispatch(applier, applier.a, q, new, TRUE)
        PROVE  /\ row' \in [Attempt -> Row] /\ claim' \in [Account -> Claim]
               /\ applier' \in Tick
    <3>1. q \in Attempt
      BY DEF Reusable, AutoPending, Pending, Of
    <3> QED BY <1>0, <2>1, <2>2, <2>6, <3>1, DispatchType
  <2>5. /\ row' \in [Attempt -> Row] /\ claim' \in [Account -> Claim]
        /\ applier' \in Tick
    <3>1. \/ \E q \in AutoAttempts(applier.a, applier.g) :
                /\ row' = IF row[q].status # "none" THEN row ELSE [row EXCEPT ![q] = new]
                /\ Dispatch(applier, applier.a, q, new, row[q].status # "none")
          \/ applier' = Continue(applier) /\ UNCHANGED <<row, claim>>
      BY <1>5 DEF ClaimAndDispatch, new
    <3>2. ASSUME NEW q \in AutoAttempts(applier.a, applier.g)
          PROVE  \/ q \in Reusable(applier.a, applier.g) /\ row[q].status # "none"
                 \/ q \in Unused /\ row[q].status = "none"
      BY DEF AutoAttempts, Reusable, AutoPending, Pending, Of, Unused
    <3>3. \A q : /\ row[q].status # "none" => (row[q].status # "none") = TRUE
                 /\ row[q].status = "none" => (row[q].status # "none") = FALSE
      OBVIOUS
    <3>4. \/ \E q \in Reusable(applier.a, applier.g) :
                UNCHANGED row /\ Dispatch(applier, applier.a, q, new, TRUE)
          \/ \E q \in Unused : /\ row' = [row EXCEPT ![q] = new]
                               /\ Dispatch(applier, applier.a, q, new, FALSE)
          \/ applier' = Continue(applier) /\ UNCHANGED <<row, claim>>
      BY <3>1, <3>2, <3>3
    <3> QED BY <2>3, <2>4, <2>6, <3>4
  <2> QED BY <1>0, <1>5, <2>5
          DEF TypeOK, ClaimAndDispatch, tickFrame, accountVars, serverVars
<1>6. ASSUME NEW a \in Account, ProcessAccount(a)
      PROVE  TypeOK'
  <2> DEFINE held == \E q \in AutoPending(a) : row[q].trigger = "weekly" /\ MayReplay(a, q)
             t1 == [applier EXCEPT !.todo = @ \ {a}]
             t == [applier EXCEPT !.todo = @ \ {a}, !.held = @ \/ held]
  <2>1. t \in Tick
    <3>1. t1 \in Tick
      BY <1>0, TickUpdates, TickFields
    <3>2. t = [t1 EXCEPT !.held = @ \/ held]
      OBVIOUS
    <3> HIDE DEF t1, held
    <3>3. (t1.held \/ held) \in BOOLEAN
      OBVIOUS
    <3> QED BY <3>1, <3>2, <3>3, TickUpdates
  <2> HIDE DEF t
  <2>2. ASSUME NEW q \in AutoPending(a), Dispatch(t, a, q, row[q], TRUE), UNCHANGED read
        PROVE  /\ read' \in [Account -> Read] /\ claim' \in [Account -> Claim]
               /\ applier' \in Tick
    <3>1. q \in Attempt /\ row[q].status = "pending"
      BY DEF AutoPending, Pending, Of
    <3>2. row[q].grant \in Grant /\ row[q].trigger \in Trigger
      <4>1. row[q] \in Row
        BY <1>0, <3>1
      <4> QED BY <3>1, <4>1 DEF IInv, CoreInv, RowsAreBound, Row
    <3> QED BY <1>0, <2>1, <2>2, <3>1, <3>2, DispatchType DEF TypeOK
  <2>3. [t EXCEPT !.weekly = t.weekly \cup {a}] \in Tick
    BY <2>1, TickUpdates, TickFields
  <2>4. \/ \E q \in AutoPending(a) : Dispatch(t, a, q, row[q], TRUE) /\ UNCHANGED read
        \/ applier' = t /\ UNCHANGED <<claim, read>>
        \/ ConfirmRead(a, t) /\ UNCHANGED claim
        \/ /\ applier' = [t EXCEPT !.weekly = t.weekly \cup {a}]
           /\ UNCHANGED <<claim, read>>
    BY <1>6 DEF ProcessAccount, t, held
  <2>5. /\ read' \in [Account -> Read] /\ claim' \in [Account -> Claim]
        /\ applier' \in Tick
    BY <1>0, <2>1, <2>2, <2>3, <2>4, ConfirmReadType DEF TypeOK
  <2> QED BY <1>0, <1>6, <2>5
          DEF TypeOK, ProcessAccount, tickFrame, accountVars, serverVars
<1> QED BY <1>1, <1>2, <1>3, <1>4, <1>5, <1>6

\* Users, time and restarts keep the types.
LEMMA OutsideType ==
    ASSUME TypeOK,
           \/ \E a \in Account, kind \in {"none", "overage", "other"} : SetPause(a, kind)
           \/ \E a \in Account : EditAccount(a)
           \/ \E q \in Attempt : Age(q) \/ WaitOver(q) \/ RecoveryWindowCloses(q)
           \/ Restart \/ UNCHANGED vars
    PROVE  TypeOK'
<1>0. row \in [Attempt -> Row] /\ pause \in PauseType
  BY DEF TypeOK, PauseType
<1>1. ASSUME NEW a \in Account, NEW kind \in {"none", "overage", "other"},
             SetPause(a, kind)
      PROVE  TypeOK'
  <2>1. pause' \in PauseType
    <3>1. pause[a].epoch \in Nat
      BY <1>0 DEF PauseType, Epoch
    <3>2. [kind |-> kind, epoch |-> pause[a].epoch + 1]
             \in [kind : {"none", "overage", "other"}, epoch : Epoch]
      BY <3>1 DEF Epoch
    <3> QED BY <1>0, <1>1, <3>2 DEF SetPause, PauseType
  <2> QED BY <1>1, <2>1, CountersType DEF SetPause, TypeOK, PauseType, serverVars
<1>2. ASSUME NEW a \in Account, EditAccount(a)
      PROVE  TypeOK'
  <2>1. on' \in [Account -> SUBSET Cause] /\ usable' \in [Account -> BOOLEAN]
    BY <1>2 DEF EditAccount, TypeOK
  <2> QED BY <1>2, <2>1, CountersType DEF EditAccount, TypeOK, serverVars
<1>3. ASSUME NEW q \in Attempt, Age(q) \/ WaitOver(q) \/ RecoveryWindowCloses(q)
      PROVE  TypeOK'
  <2>1. row' \in [Attempt -> Row]
    <3>1. CASE Age(q)
      BY <1>0, <3>1, RowUpdates DEF Age
    <3>2. CASE WaitOver(q)
      BY <1>0, <3>2, RowUpdates DEF WaitOver
    <3>3. CASE RecoveryWindowCloses(q)
      BY <1>0, <3>3, RowUpdates DEF RecoveryWindowCloses
    <3> QED BY <1>3, <3>1, <3>2, <3>3
  <2> QED BY <1>3, <2>1 DEF Age, WaitOver, RecoveryWindowCloses, clockFrame, TypeOK,
                            accountVars, serverVars
<1>4. CASE Restart
  BY <1>4, NoClaimType, CountersType DEF Restart, TypeOK, accountVars, serverVars
<1>5. CASE UNCHANGED vars
  BY <1>5 DEF vars, TypeOK, accountVars, serverVars
<1> QED BY <1>1, <1>2, <1>3, <1>4, <1>5

-----------------------------------------------------------------------------
(* Steps at which the server does nothing and nothing is sent to it *)

\* The row s that time, give-ups, back-offs and settled pauses leave of r.
SoftRow(r, s) ==
    /\ s.grant = r.grant
    /\ s.owed = r.owed \/ s.owed = None
    /\ \/ s.status = r.status /\ (r.status = "unconfirmed" => s.age = r.age)
       \/ r.status = "pending" /\ s.status = "unconfirmed" /\ s.age = Window

\* A row is written for a new request id of the account, which has no other
\* pending row.
InsertedRow(a, q) ==
    /\ row[q].status = "none" /\ row'[q].status \in {"pending", "not_sent"}
    /\ row'[q].grant \in Grant /\ OwnerOf[row'[q].grant] = a
    /\ row'[q].owed = None
    /\ \A b \in Account : claim[b].q = q => b = a
    /\ \A b \in Account \ {a} : claim'[b].q # q
    /\ \A p \in Attempt \ {q} : row'[p].status = "pending" => OwnerOf[row'[p].grant] # a

\* A row is closed, truthfully, and its claim is no longer being sent.
ClosedRow(q) ==
    /\ row[q].status \in {"pending", "unconfirmed"}
    /\ row'[q].grant = row[q].grant
    /\ row'[q].status \in Resolving \cup {"not_sent"}
    /\ row'[q].status = "not_sent" => sentUnder[q] = None
    /\ row'[q].status = "reset" => spentBy[row[q].grant] = q
    /\ row'[q].status = "refused" => spentBy[row[q].grant] # q
    /\ row'[q].owed # None => row'[q].status = "reset" /\ row'[q].owed <= sentUnder[q]
    /\ \A b \in Account : claim'[b].q = q => claim'[b].pc \notin Sending

\* The moves of a claim that neither open its row nor send nor record.
Move(pc, next) ==
    \/ pc = "start" /\ next \in {"settling", "open"}
    \/ pc = "settling" /\ next = "open"
    \/ pc = "owed" /\ next = "restore"
    \/ pc = "restore" /\ next \in {"restoring", "refresh"}
    \/ pc = "restoring" /\ next = "refresh"
    \/ pc = "refresh" /\ next = "refreshing"

\* A claim begins under a new request id or under one of its account.
MayStart(a, c) ==
    /\ c.pc = "start" /\ c.q \in Attempt /\ c.grant \in Grant
    /\ OwnerOf[c.grant] = a /\ ~c.created /\ c.epoch = None
    /\ \/ row[c.q].status = "none" /\ \A b \in Account : claim[b].q # c.q
       \/ row[c.q].status # "none" /\ OwnerOfRow(c.q) = a

\* A claim's row is open: it is pending, and new if the claim created it.
MayLook(a, c) ==
    /\ claim[a].pc = "open" /\ c.pc = "look"
    /\ row'[c.q].status = "pending" /\ row'[c.q].grant = c.grant
    /\ c.created => row[c.q].status = "none"
    /\ c.epoch # None => c.epoch <= pause[a].epoch

\* A claim's answer is recorded, and it restored windows.
MayRestore(a, c) ==
    /\ claim[a].pc = "answered" /\ c.pc \in {"owed", "restore"}
    /\ ~c.created
    /\ spentBy[c.grant] # None
    /\ c.pc = "owed" => spentBy[c.grant] = c.q /\ c.epoch = claim[a].epoch
    /\ c.pc = "restore" => c.epoch = None

QuietClaim(a, c) ==
    \/ c = claim[a]
    \/ c = NoClaim
    \/ claim[a].pc = "idle" /\ MayStart(a, c)
    \/ /\ c.q = claim[a].q /\ c.grant = claim[a].grant
       /\ \/ /\ Move(claim[a].pc, c.pc)
             /\ c.created = claim[a].created /\ c.epoch = None
          \/ MayLook(a, c)
          \/ MayRestore(a, c)

\* At most one claim moves, others may be dropped; nothing is sent or spent.
QuietStep(a) ==
    /\ \A b \in Account \ {a} : claim'[b] = claim[b] \/ claim'[b] = NoClaim
    /\ a \in Account => QuietClaim(a, claim'[a])
    /\ \A q \in Attempt : \/ SoftRow(row[q], row'[q])
                          \/ a \in Account /\ InsertedRow(a, q)
                          \/ ClosedRow(q)
    /\ \A b \in Account : pause'[b].epoch >= pause[b].epoch
    /\ UNCHANGED serverVars

\* Quiet steps keep the core of the invariant.
LEMMA QuietStepKeeps ==
    ASSUME TypeOK, TypeOK', CoreInv, NEW a, QuietStep(a)
    PROVE  CoreInv'
<1>0. /\ NoClaim.pc = "idle" /\ NoClaim.q = None /\ ~NoClaim.created
      /\ NoClaim.epoch = None
  BY DEF NoClaim
<1>1. /\ \A b \in Account : QuietClaim(b, claim'[b])
      /\ \A q \in Attempt : \/ SoftRow(row[q], row'[q])
                            \/ a \in Account /\ InsertedRow(a, q)
                            \/ ClosedRow(q)
      /\ spentBy' = spentBy /\ sentUnder' = sentUnder
  BY DEF QuietStep, QuietClaim, serverVars
<1>2. \A b \in Account : claim'[b].pc \in Sending =>
         \/ claim'[b] = claim[b]
         \/ /\ claim'[b].q = claim[b].q /\ claim'[b].grant = claim[b].grant
            /\ MayLook(b, claim'[b])
  BY <1>0, <1>1 DEF QuietClaim, MayStart, MayRestore, Move, Sending
<1>3. \A q \in Attempt : row[q].status # "none" =>
         /\ row'[q].grant = row[q].grant
         /\ row'[q].status # "none"
         /\ row'[q].status = "pending" => row[q].status = "pending"
  BY <1>1 DEF SoftRow, ClosedRow, InsertedRow, Resolving, Restoring
<1>4. \A q \in Attempt : row[q].status = "none" =>
         row'[q].status = "none" \/ (a \in Account /\ InsertedRow(a, q))
  BY <1>1 DEF SoftRow, ClosedRow
<1>5. ClaimsAreBound'
  <2>1. ASSUME NEW b \in Account
        PROVE  /\ claim'[b].pc = "idle" => claim'[b].q = None
               /\ claim'[b].pc # "idle" => /\ claim'[b].q \in Attempt
                                           /\ claim'[b].grant \in Grant
                                           /\ OwnerOf[claim'[b].grant] = b
               /\ claim'[b].created => claim'[b].pc = "look"
    BY <1>0, <1>1 DEF QuietClaim, MayStart, MayLook, MayRestore, Move, CoreInv,
                      ClaimsAreBound
  <2>2. ASSUME NEW b \in Account, NEW d \in Account, claim'[b].q # None,
               claim'[b].q = claim'[d].q, b # d
        PROVE  FALSE
    <3>1. \A e \in Account : claim'[e].q # None =>
             \/ claim'[e].q = claim[e].q
             \/ e = a /\ MayStart(a, claim'[a])
      BY <1>0 DEF QuietStep, QuietClaim
    <3>2. ASSUME NEW e \in Account, e # a, a \in Account, MayStart(a, claim'[a]),
                 claim'[a].q = claim[e].q
          PROVE  FALSE
      BY <3>2, NullsDistinct DEF MayStart, CoreInv, RowsAreBound
    <3> QED BY <2>2, <3>1, <3>2 DEF CoreInv, ClaimsAreBound
  <2> QED BY <2>1, <2>2 DEF ClaimsAreBound
<1>6. RowsAreBound'
  <2>1. ASSUME NEW q \in Attempt, row[q].status # "none", NEW b \in Account,
               claim'[b].q = q
        PROVE  OwnerOf[row'[q].grant] = b
    <3>1. claim[b].q = q \/ MayStart(b, claim'[b])
      BY <1>0, <1>1, <2>1, NullsDistinct DEF QuietClaim
    <3> QED BY <1>3, <2>1, <3>1 DEF CoreInv, RowsAreBound, MayStart, OwnerOfRow
  <2>2. ASSUME NEW q \in Attempt, row[q].status # "none"
        PROVE  row'[q].grant \in Grant
    BY <1>3, <2>2 DEF CoreInv, RowsAreBound
  <2>3. ASSUME NEW q \in Attempt, row[q].status = "none", row'[q].status # "none"
        PROVE  /\ row'[q].grant \in Grant
               /\ \A b \in Account : claim'[b].q = q => OwnerOf[row'[q].grant] = b
    BY <1>4, <2>3 DEF InsertedRow
  <2> QED BY <2>1, <2>2, <2>3 DEF RowsAreBound, OwnerOfRow
<1>7. OnePending'
  <2> SUFFICES ASSUME NEW p \in Attempt, NEW q \in Attempt,
                      row'[p].status = "pending", row'[q].status = "pending",
                      OwnerOf[row'[p].grant] = OwnerOf[row'[q].grant], p # q
               PROVE  FALSE
    BY DEF OnePending, OwnerOfRow
  <2>1. CASE row[p].status # "none" /\ row[q].status # "none"
    BY <1>3, <2>1 DEF CoreInv, OnePending, OwnerOfRow
  <2>2. CASE row[p].status = "none" \/ row[q].status = "none"
    BY <1>4, <2>2 DEF InsertedRow
  <2> QED BY <2>1, <2>2
<1>8. SentRowIsLive'
  <2> SUFFICES ASSUME NEW b \in Account, claim'[b].pc \in Sending
               PROVE  /\ row'[claim'[b].q].grant = claim'[b].grant
                      /\ \/ row'[claim'[b].q].status = "pending"
                         \/ /\ row'[claim'[b].q].status = "unconfirmed"
                            /\ row'[claim'[b].q].age = Window
                      /\ \A p \in Attempt \ {claim'[b].q} :
                            row'[p].status = "pending" /\ OwnerOf[row'[p].grant] = b
                            => sentUnder'[p] = None
    BY DEF SentRowIsLive, OwnerOfRow
  <2>0. claim'[b].q \in Attempt /\ claim'[b].grant \in Grant /\ OwnerOf[claim'[b].grant] = b
    BY <1>5 DEF ClaimsAreBound, Sending
  <2>1. CASE claim'[b] = claim[b]
    <3> DEFINE q == claim[b].q
    <3>1. /\ row[q].grant = claim[b].grant
          /\ \/ row[q].status = "pending"
             \/ row[q].status = "unconfirmed" /\ row[q].age = Window
      BY <2>1 DEF CoreInv, SentRowIsLive
    <3>2. SoftRow(row[q], row'[q])
      BY <1>1, <2>0, <2>1, <3>1 DEF InsertedRow, ClosedRow
    <3>3. ASSUME NEW p \in Attempt \ {q}, row'[p].status = "pending",
                 OwnerOf[row'[p].grant] = b
          PROVE  sentUnder[p] = None
      <4>1. CASE row[p].status = "none"
        BY <4>1 DEF CoreInv, UnsentRows
      <4>2. CASE row[p].status # "none"
        BY <1>3, <2>1, <3>3, <4>2 DEF CoreInv, SentRowIsLive, OwnerOfRow
      <4> QED BY <4>1, <4>2
    <3> QED BY <1>1, <2>1, <3>1, <3>2, <3>3 DEF SoftRow
  <2>2. CASE MayLook(b, claim'[b])
    <3>1. /\ row'[claim'[b].q].status = "pending"
          /\ row'[claim'[b].q].grant = claim'[b].grant
      BY <2>2 DEF MayLook
    <3>2. \A p \in Attempt \ {claim'[b].q} :
             ~(row'[p].status = "pending" /\ OwnerOf[row'[p].grant] = b)
      BY <1>7, <2>0, <3>1 DEF OnePending, OwnerOfRow
    <3> QED BY <3>1, <3>2
  <2> QED BY <1>2, <2>1, <2>2
<1>9. UnsentRows'
  <2>1. ASSUME NEW q \in Attempt, row'[q].status \in {"none", "not_sent"}
        PROVE  sentUnder[q] = None
    BY <1>1, <2>1 DEF SoftRow, InsertedRow, ClosedRow, CoreInv, UnsentRows,
                      Resolving, Restoring
  <2>2. ASSUME NEW b \in Account, claim'[b].created
        PROVE  sentUnder[claim'[b].q] = None
    <3>1. claim'[b].q \in Attempt
      BY <1>5, <2>2 DEF ClaimsAreBound
    <3>2. \/ claim'[b].q = claim[b].q /\ claim[b].created
          \/ row[claim'[b].q].status = "none"
      BY <1>0, <1>1, <2>2 DEF QuietClaim, MayStart, MayLook, MayRestore
    <3> QED BY <3>1, <3>2 DEF CoreInv, UnsentRows
  <2>3. ASSUME NEW b \in Account, claim'[b].pc \in Sent
        PROVE  claim'[b] = claim[b]
    BY <1>0, <1>2, <2>3 DEF Sent, Sending, MayLook
  <2> QED BY <1>1, <2>1, <2>2, <2>3 DEF CoreInv, UnsentRows
<1>10. SpentWasSent'
  <2>1. \A g \in Grant : spentBy[g] # None => spentBy[g] \in Attempt
    BY DEF TypeOK
  <2> QED BY <1>1, <1>3, <2>1 DEF CoreInv, SpentWasSent
<1>11. AnswersAreTrue'
  <2>1. ASSUME NEW b \in Account, claim'[b].pc \in {"rejected", "answered"}
        PROVE  claim'[b] = claim[b]
    BY <1>0, <1>1, <2>1 DEF QuietClaim, MayStart, MayLook, MayRestore, Move
  <2>2. ASSUME NEW b \in Account, claim'[b].pc = "owed"
        PROVE  spentBy[claim'[b].grant] = claim'[b].q
    BY <1>0, <1>1, <2>2
       DEF QuietClaim, MayStart, MayLook, MayRestore, Move, CoreInv, AnswersAreTrue
  <2>3. ASSUME NEW b \in Account, claim'[b].pc \in Restored
        PROVE  spentBy[claim'[b].grant] # None
    BY <1>0, <1>1, <2>3
       DEF QuietClaim, MayStart, MayLook, MayRestore, Move, Restored, CoreInv,
           AnswersAreTrue
  <2> QED BY <1>1, <2>1, <2>2, <2>3 DEF CoreInv, AnswersAreTrue
<1>12. RowsAreTrue'
  <2> SUFFICES ASSUME NEW q \in Attempt
               PROVE  /\ row'[q].status = "reset" => spentBy[row'[q].grant] = q
                      /\ row'[q].status = "refused" => spentBy[row'[q].grant] # q
                      /\ row'[q].owed # None => row'[q].status = "reset"
    BY <1>1 DEF RowsAreTrue
  <2> QED BY <1>1 DEF CoreInv, RowsAreTrue, SoftRow, InsertedRow, ClosedRow
<1>13. EpochsAreOrdered'
  <2>0. /\ \A b \in Account : pause[b].epoch \in Nat /\ pause'[b].epoch \in Nat
        /\ \A q \in Attempt : sentUnder[q] # None => sentUnder[q] \in Nat
        /\ \A b \in Account : claim[b].epoch # None => claim[b].epoch \in Nat
        /\ \A b \in Account : claim'[b].epoch # None => claim'[b].epoch \in Nat
    BY DEF TypeOK, Epoch, Claim
  <2>1. ASSUME NEW q \in Attempt, sentUnder'[q] # None
        PROVE  sentUnder'[q] <= pause'[OwnerOf[row'[q].grant]].epoch
    <3>1. sentUnder[q] # None /\ row[q].status # "none"
      BY <1>1, <2>1 DEF CoreInv, UnsentRows
    <3>2. OwnerOf[row[q].grant] \in Account
      BY <3>1, GrantsAreOwned DEF CoreInv, RowsAreBound
    <3>3. /\ sentUnder[q] <= pause[OwnerOf[row[q].grant]].epoch
          /\ pause'[OwnerOf[row[q].grant]].epoch >= pause[OwnerOf[row[q].grant]].epoch
      BY <3>1, <3>2 DEF CoreInv, EpochsAreOrdered, OwnerOfRow, QuietStep
    <3> QED BY <1>1, <1>3, <2>0, <3>1, <3>2, <3>3
  <2>2. ASSUME NEW q \in Attempt, row'[q].owed # None
        PROVE  row'[q].owed <= sentUnder'[q]
    BY <1>1, <2>2 DEF CoreInv, EpochsAreOrdered, SoftRow, InsertedRow, ClosedRow
  <2>3. ASSUME NEW b \in Account, claim'[b].epoch # None
        PROVE  /\ claim'[b].pc \in Sending \cup {"owed"}
               /\ claim'[b].epoch <= pause'[b].epoch
               /\ claim'[b].pc # "look" => /\ sentUnder'[claim'[b].q] # None
                                           /\ claim'[b].epoch <= sentUnder'[claim'[b].q]
    <3>0. pause'[b].epoch >= pause[b].epoch
      BY DEF QuietStep
    <3>1. CASE claim'[b] = claim[b]
      <4>1. claim[b].epoch <= pause[b].epoch
        BY <2>3, <3>1 DEF CoreInv, EpochsAreOrdered
      <4>2. claim'[b].epoch <= pause'[b].epoch
        BY <2>0, <2>3, <3>0, <3>1, <4>1
      <4> QED BY <1>1, <2>3, <3>1, <4>2 DEF CoreInv, EpochsAreOrdered
    <3>2. CASE MayLook(b, claim'[b])
      <4>1. claim'[b].pc = "look" /\ claim'[b].epoch <= pause[b].epoch
        BY <2>3, <3>2 DEF MayLook
      <4> QED BY <2>0, <2>3, <3>0, <4>1 DEF Sending
    <3>3. CASE MayRestore(b, claim'[b]) /\ claim'[b].q = claim[b].q
      <4>1. claim'[b].pc = "owed" /\ claim[b].epoch = claim'[b].epoch
        BY <2>3, <3>3 DEF MayRestore
      <4>2. /\ claim[b].epoch <= pause[b].epoch
            /\ claim[b].pc # "look"
            /\ sentUnder[claim[b].q] # None
            /\ claim[b].epoch <= sentUnder[claim[b].q]
        BY <2>3, <3>3, <4>1 DEF CoreInv, EpochsAreOrdered, MayRestore
      <4>3. claim'[b].epoch <= pause'[b].epoch
        BY <2>0, <2>3, <3>0, <4>1, <4>2
      <4> QED BY <1>1, <3>3, <4>1, <4>2, <4>3
    <3> QED BY <1>0, <1>1, <2>3, <3>1, <3>2, <3>3 DEF QuietClaim, MayStart
  <2> QED BY <2>1, <2>2, <2>3 DEF EpochsAreOrdered, OwnerOfRow
<1>14. StraysAreOpen'
  <2>1. ASSUME NEW b \in Account, claim'[b].pc = "answered"
        PROVE  claim'[b] = claim[b]
    BY <2>1 DEF QuietStep, QuietClaim, MayStart, Move, MayLook, MayRestore, NoClaim
  <2> QED BY <2>1 DEF CoreInv, StraysAreOpen, QuietStep, serverVars
<1> QED BY <1>5, <1>6, <1>7, <1>8, <1>9, <1>10, <1>11, <1>12, <1>13, <1>14 DEF CoreInv

\* The writes that leave rows soft.
LEMMA SoftRows ==
    ASSUME TypeOK, NEW p, NEW q \in Attempt
    PROVE  /\ SoftRow(row[q], row[q])
           /\ SoftRow(row[q], Expired[q])
           /\ SoftRow(row[q], BackedOff(p)[q])
           /\ SoftRow(row[q], OwesNothing(p)[q])
           /\ SoftRow(row[q], [Expired EXCEPT ![p].wait = TRUE][q])
<1>0. row \in [Attempt -> Row] /\ row[q] \in Row
  BY DEF TypeOK
<1>1. SoftRow(row[q], row[q])
  BY DEF SoftRow
<1>2. SoftRow(row[q], Expired[q]) /\ Expired[q] \in Row
  BY <1>0, RowUpdates DEF SoftRow, Expired, Row
<1>3. SoftRow(row[q], BackedOff(p)[q])
  BY <1>0 DEF SoftRow, BackedOff, Row
<1>4. SoftRow(row[q], OwesNothing(p)[q])
  <2>1. CASE p = q
    <3>1. OwesNothing(p)[q] = [row[q] EXCEPT !.owed = None, !.late = FALSE]
      BY <1>0, <2>1 DEF OwesNothing
    <3> QED BY <1>0, <3>1 DEF SoftRow, Row
  <2>2. CASE p # q
    <3>1. OwesNothing(p)[q] = row[q]
      BY <1>0, <2>2 DEF OwesNothing
    <3> QED BY <1>1, <3>1
  <2> QED BY <2>1, <2>2
<1>5. SoftRow(row[q], [Expired EXCEPT ![p].wait = TRUE][q])
  <2>1. DOMAIN Expired = Attempt
    BY DEF Expired
  <2>2. CASE p = q
    <3>1. [Expired EXCEPT ![p].wait = TRUE][q] = [Expired[q] EXCEPT !.wait = TRUE]
      BY <2>1, <2>2
    <3> QED BY <1>2, <3>1 DEF SoftRow, Row
  <2>3. CASE p # q
    <3>1. [Expired EXCEPT ![p].wait = TRUE][q] = Expired[q]
      BY <2>1, <2>3
    <3> QED BY <1>2, <3>1
  <2> QED BY <2>2, <2>3
<1> QED BY <1>1, <1>2, <1>3, <1>4, <1>5

\* No pause_epoch goes back.
LEMMA PauseStays ==
    ASSUME TypeOK
    PROVE  /\ \A b \in Account : pause[b].epoch >= pause[b].epoch
           /\ \A a, epoch : \A b \in Account :
                 ResumeAt(a, epoch)[b].epoch >= pause[b].epoch
           /\ \A b \in Account : pause[b].epoch + 1 >= pause[b].epoch
<1>1. pause \in PauseType
  BY DEF TypeOK, PauseType
<1>2. ASSUME NEW b \in Account
      PROVE  pause[b].epoch >= pause[b].epoch /\ pause[b].epoch + 1 >= pause[b].epoch
  <2>1. pause[b].epoch \in Nat
    BY <1>1 DEF PauseType, Epoch
  <2> QED BY <2>1
<1> QED BY <1>1, <1>2, ResumeType

\* A claim that ends.
LEMMA EndClaimIsQuiet ==
    ASSUME TypeOK, NEW a \in Account, EndClaim(a)
    PROVE  /\ \A b \in Account \ {a} : claim'[b] = claim[b]
           /\ claim'[a] = NoClaim /\ QuietClaim(a, claim'[a])
  BY DEF TypeOK, EndClaim, QuietClaim

\* A claim that only moves on.
LEMMA AtIsQuiet ==
    ASSUME IInv, NEW a \in Account, NEW pc, At(a, pc), Move(claim[a].pc, pc),
           claim[a].pc # "owed"
    PROVE  /\ \A b \in Account \ {a} : claim'[b] = claim[b]
           /\ QuietClaim(a, claim'[a])
<1>1. claim \in [Account -> Claim]
  BY DEF IInv, TypeOK
<1>2. claim[a].epoch = None
  BY DEF IInv, CoreInv, EpochsAreOrdered, Move, Sending
<1> QED BY <1>1, <1>2 DEF At, QuietClaim, Claim

\* Reads, and the steps of a claim before and after its sending, are quiet.
LEMMA ReadsAndMovesAreQuiet ==
    ASSUME IInv, NEW a \in Account,
           \/ Refresh(a) \/ ReadStep(a)
           \/ \E q \in Attempt, g \in Grant : ManualClaim(a, q, g)
           \/ PrepareClaim(a) \/ SettleOwedPause(a) \/ SettleAgain(a)
           \/ RefreshAfterClaim(a)
    PROVE  QuietStep(a)
<1>0. TypeOK /\ claim \in [Account -> Claim]
  BY DEF IInv, TypeOK
<1>1. CASE Refresh(a) \/ ServeRead(a)
  BY <1>0, <1>1, SoftRows, PauseStays
     DEF Refresh, ServeRead, QuietStep, QuietClaim, accountVars, serverVars
<1>2. CASE FailRead(a) \/ FinishRead(a)
  <2>1. /\ claim' = [claim EXCEPT ![a] = ClaimAfterRead(claim[a])]
        /\ UNCHANGED <<row, pause, serverVars>>
    BY <1>2 DEF FailRead, FinishRead, EndRead, accountVars
  <2>2. QuietClaim(a, claim'[a])
    <3>1. claim'[a] = ClaimAfterRead(claim[a])
      BY <1>0, <2>1
    <3>2. claim[a].pc \in {"settling", "restoring"} => claim[a].epoch = None
      BY DEF IInv, CoreInv, EpochsAreOrdered, Sending
    <3> QED BY <1>0, <3>1, <3>2 DEF ClaimAfterRead, QuietClaim, Move, Claim
  <2> QED BY <1>0, <2>1, <2>2, SoftRows, PauseStays DEF QuietStep
<1>3. ASSUME NEW q \in Attempt, NEW g \in Grant, ManualClaim(a, q, g)
      PROVE  QuietStep(a)
  <2>1. /\ claim' = [claim EXCEPT ![a] = Started(q, g, "manual", FALSE)]
        /\ claim[a].pc = "idle" /\ OwnerOf[g] = a
        /\ UNCHANGED <<row, pause, serverVars>>
    BY <1>3 DEF ManualClaim, accountVars
  <2>2. \/ row[q].status = "none" /\ \A b \in Account : claim[b].q # q
        \/ row[q].status # "none" /\ OwnerOfRow(q) = a
    BY <1>3 DEF ManualClaim, Unused, Of, OwnerOfRow
  <2>3. MayStart(a, Started(q, g, "manual", FALSE))
    BY <2>1, <2>2 DEF MayStart, Started, NoClaim
  <2>4. QuietClaim(a, claim'[a])
    BY <1>0, <2>1, <2>3 DEF QuietClaim
  <2> QED BY <1>0, <2>1, <2>4, SoftRows, PauseStays DEF QuietStep
<1>4. CASE PrepareClaim(a)
  <2>1. UNCHANGED <<row, pause, serverVars>>
    BY <1>4 DEF PrepareClaim, claimFrame, accountVars
  <2>2. /\ \A b \in Account \ {a} : claim'[b] = claim[b]
        /\ QuietClaim(a, claim'[a])
    BY <1>0, <1>4, EndClaimIsQuiet, AtIsQuiet DEF PrepareClaim, SettleStatusRead, Move
  <2> QED BY <1>0, <2>1, <2>2, SoftRows, PauseStays DEF QuietStep
<1>5. CASE SettleOwedPause(a)
  <2>1. \A b \in Account : pause'[b].epoch >= pause[b].epoch
    BY <1>0, <1>5, PauseStays DEF SettleOwedPause
  <2>2. \A q \in Attempt : SoftRow(row[q], row'[q])
    BY <1>0, <1>5, SoftRows DEF SettleOwedPause, WriteLedger
  <2>3. /\ \A b \in Account \ {a} : claim'[b] = claim[b]
        /\ QuietClaim(a, claim'[a])
    BY <1>0, <1>5 DEF SettleOwedPause, QuietClaim, Move, Claim
  <2> QED BY <1>5, <2>1, <2>2, <2>3 DEF QuietStep, SettleOwedPause
<1>6. CASE SettleAgain(a)
  <2>1. UNCHANGED <<row, pause, serverVars>>
    BY <1>6 DEF SettleAgain, claimFrame, accountVars
  <2>2. /\ \A b \in Account \ {a} : claim'[b] = claim[b]
        /\ QuietClaim(a, claim'[a])
    BY <1>6, AtIsQuiet DEF SettleAgain, SettleStatusRead, Move
  <2> QED BY <1>0, <2>1, <2>2, SoftRows, PauseStays DEF QuietStep
<1>7. CASE RefreshAfterClaim(a)
  <2>1. UNCHANGED <<row, pause, serverVars>>
    BY <1>7 DEF RefreshAfterClaim, claimFrame, accountVars
  <2>2. /\ \A b \in Account \ {a} : claim'[b] = claim[b]
        /\ QuietClaim(a, claim'[a])
    BY <1>0, <1>7, EndClaimIsQuiet, AtIsQuiet DEF RefreshAfterClaim, Move
  <2> QED BY <1>0, <2>1, <2>2, SoftRows, PauseStays DEF QuietStep
<1> QED BY <1>1, <1>2, <1>3, <1>4, <1>5, <1>6, <1>7 DEF ReadStep

\* The scheduler's tick is quiet: what it claims is sent by the claim itself.
LEMMA TickIsQuiet ==
    ASSUME IInv, TickStep
    PROVE  \E a \in Account \cup {None} : QuietStep(a)
<1>0. /\ TypeOK /\ claim \in [Account -> Claim] /\ row \in [Attempt -> Row]
      /\ \A b \in Account : QuietClaim(b, claim[b])
  BY DEF IInv, TypeOK, QuietClaim
<1>1. ASSUME UNCHANGED <<claim, serverVars>>,
             \A b \in Account : pause'[b].epoch >= pause[b].epoch,
             \A q \in Attempt : SoftRow(row[q], row'[q])
      PROVE  QuietStep(None)
  BY <1>0, <1>1 DEF QuietStep
<1>2. CASE TickStart
  BY <1>0, <1>1, <1>2, SoftRows, PauseStays
     DEF TickStart, SweptRows, WriteLedger, tickFrame, accountVars
<1>3. CASE LiftOwedPause
  BY <1>0, <1>1, <1>3, SoftRows, PauseStays DEF LiftOwedPause, WriteLedger
<1>4. ASSUME NEW q \in Attempt, SettleOwedRow(q)
      PROVE  QuietStep(None)
  BY <1>0, <1>1, <1>4, SoftRows, PauseStays
     DEF SettleOwedRow, WriteLedger, tickFrame, accountVars
<1>5. CASE ListCandidates \/ EndScan \/ Rank \/ Evaluate
  BY <1>0, <1>1, <1>5, SoftRows, PauseStays
     DEF ListCandidates, EndScan, Rank, Evaluate, tickFrame, accountVars
<1>6. ASSUME NEW t, NEW a \in Account, NEW q \in Attempt, NEW r, NEW replay,
             Dispatch(t, a, q, r, replay),
             r.grant \in Grant, OwnerOf[r.grant] = a,
             \/ row[q].status = "none" /\ \A b \in Account : claim[b].q # q
             \/ row[q].status # "none" /\ OwnerOfRow(q) = a
      PROVE  /\ \A b \in Account \ {a} : claim'[b] = claim[b]
             /\ QuietClaim(a, claim'[a])
             /\ claim'[a] = claim[a] \/ claim'[a].q = q
  <2>1. MayStart(a, Started(q, r.grant, r.trigger, replay))
    BY <1>6 DEF MayStart, Started, NoClaim
  <2>2. \/ claim' = claim
        \/ /\ claim[a].pc = "idle"
           /\ claim' = [claim EXCEPT ![a] = Started(q, r.grant, r.trigger, replay)]
    BY <1>6 DEF Dispatch
  <2>3. Started(q, r.grant, r.trigger, replay).q = q
    BY DEF Started, NoClaim
  <2> QED BY <1>0, <2>1, <2>2, <2>3 DEF QuietClaim
<1>7. ASSUME NEW a \in Account, ProcessAccount(a)
      PROVE  QuietStep(a)
  <2>1. UNCHANGED <<row, pause, serverVars>>
    BY <1>7 DEF ProcessAccount, tickFrame, accountVars
  <2>2. \/ UNCHANGED claim
        \/ \E q \in AutoPending(a) : \E t : Dispatch(t, a, q, row[q], TRUE)
    BY <1>7 DEF ProcessAccount
  <2>3. ASSUME NEW q \in AutoPending(a), NEW t, Dispatch(t, a, q, row[q], TRUE)
        PROVE  /\ \A b \in Account \ {a} : claim'[b] = claim[b]
               /\ QuietClaim(a, claim'[a])
    <3>1. q \in Attempt /\ row[q].status # "none" /\ OwnerOfRow(q) = a
      BY DEF AutoPending, Pending, Of, OwnerOfRow
    <3>2. row[q].grant \in Grant
      BY <3>1 DEF IInv, CoreInv, RowsAreBound
    <3> QED BY <1>6, <2>3, <3>1, <3>2 DEF OwnerOfRow
  <2>4. /\ \A b \in Account \ {a} : claim'[b] = claim[b]
        /\ QuietClaim(a, claim'[a])
    BY <1>0, <2>2, <2>3
  <2> QED BY <1>0, <2>1, <2>4, SoftRows, PauseStays DEF QuietStep
<1>8. CASE ClaimAndDispatch
  <2> DEFINE a == applier.a
             new == NewRow(applier.g, applier.cause)
  <2>0. /\ a \in Account /\ applier.g \in Grant /\ OwnerOf[applier.g] = a
        /\ UNCHANGED <<pause, serverVars>>
    BY <1>8 DEF IInv, TickIsBound, ClaimAndDispatch, tickFrame, accountVars
  <2>1. new.status = "pending" /\ new.grant = applier.g /\ new.owed = None
    BY DEF NewRow, NoRow
  <2>5. new.grant \in Grant /\ OwnerOf[new.grant] = a
    BY <2>0, <2>1
  <2> HIDE DEF new, a
  <2>2. CASE UNCHANGED <<row, claim>>
    BY <1>0, <2>0, <2>2, SoftRows, PauseStays DEF QuietStep
  <2>3. ASSUME InsertAllowed(a), NEW q \in Unused, row' = [row EXCEPT ![q] = new],
               Dispatch(applier, a, q, new, FALSE)
        PROVE  QuietStep(a)
    <3>1. q \in Attempt /\ row[q].status = "none" /\ \A b \in Account : claim[b].q # q
      BY DEF Unused
    <3>2. /\ \A b \in Account \ {a} : claim'[b] = claim[b]
          /\ QuietClaim(a, claim'[a])
      BY <1>6, <2>0, <2>5, <2>3, <3>1
    <3>3. InsertedRow(a, q)
      <4>1. row'[q] = new /\ \A p \in Attempt \ {q} : row'[p] = row[p]
        BY <1>0, <2>3, <3>1
      <4>2. \A p \in Attempt \ {q} : row'[p].status = "pending" => OwnerOf[row'[p].grant] # a
        BY <2>3, <4>1 DEF InsertAllowed, Pending, Of
      <4> QED BY <2>0, <2>1, <3>1, <3>2, <4>1, <4>2 DEF InsertedRow
    <3>4. \A p \in Attempt \ {q} : SoftRow(row[p], row'[p])
      BY <1>0, <2>3, <3>1, SoftRows
    <3> QED BY <1>0, <2>0, <3>2, <3>3, <3>4, PauseStays DEF QuietStep
  <2>6. ASSUME NEW q \in Reusable(a, applier.g), UNCHANGED row,
               Dispatch(applier, a, q, new, TRUE)
        PROVE  QuietStep(a)
    <3>1. q \in Attempt /\ row[q].status # "none" /\ OwnerOfRow(q) = a
      BY DEF Reusable, AutoPending, Pending, Of, OwnerOfRow
    <3>2. /\ \A b \in Account \ {a} : claim'[b] = claim[b]
          /\ QuietClaim(a, claim'[a])
      BY <1>6, <2>0, <2>5, <2>6, <3>1
    <3> QED BY <1>0, <2>0, <2>6, <3>2, SoftRows, PauseStays DEF QuietStep
  <2>4. \/ UNCHANGED <<row, claim>>
        \/ /\ UNCHANGED row
           /\ \E q \in Reusable(a, applier.g) : Dispatch(applier, a, q, new, TRUE)
        \/ /\ InsertAllowed(a)
           /\ \E q \in Unused : /\ row' = [row EXCEPT ![q] = new]
                                /\ Dispatch(applier, a, q, new, FALSE)
    <3>1. \/ \E q \in AutoAttempts(a, applier.g) :
                /\ row' = IF row[q].status # "none" THEN row ELSE [row EXCEPT ![q] = new]
                /\ Dispatch(applier, a, q, new, row[q].status # "none")
          \/ UNCHANGED <<row, claim>>
      BY <1>8 DEF ClaimAndDispatch, new, a
    <3>2. ASSUME NEW q \in AutoAttempts(a, applier.g)
          PROVE  \/ q \in Reusable(a, applier.g) /\ row[q].status # "none"
                 \/ q \in Unused /\ row[q].status = "none" /\ InsertAllowed(a)
      BY DEF AutoAttempts, Reusable, AutoPending, Pending, Of, Unused
    <3>3. \A q : /\ row[q].status # "none" => (row[q].status # "none") = TRUE
                 /\ row[q].status = "none" => (row[q].status # "none") = FALSE
      OBVIOUS
    <3> QED BY <3>1, <3>2, <3>3
  <2> QED BY <2>0, <2>2, <2>3, <2>4, <2>6
<1> QED BY <1>2, <1>3, <1>4, <1>5, <1>7, <1>8 DEF TickStep

\* So are users, time and restarts.
LEMMA OutsideIsQuiet ==
    ASSUME IInv,
           \/ \E a \in Account, kind \in {"none", "overage", "other"} : SetPause(a, kind)
           \/ \E a \in Account : EditAccount(a)
           \/ \E q \in Attempt : Age(q) \/ WaitOver(q) \/ RecoveryWindowCloses(q)
           \/ Restart \/ UNCHANGED vars
    PROVE  QuietStep(None)
<1>0. /\ TypeOK /\ row \in [Attempt -> Row] /\ pause \in PauseType
      /\ \A b \in Account : QuietClaim(b, claim[b]) /\ QuietClaim(b, NoClaim)
  BY DEF IInv, TypeOK, PauseType, QuietClaim
<1>1. ASSUME NEW a \in Account, NEW kind \in {"none", "overage", "other"},
             SetPause(a, kind)
      PROVE  QuietStep(None)
  <2>1. \A b \in Account : pause'[b].epoch >= pause[b].epoch
    BY <1>0, <1>1, PauseStays DEF SetPause, PauseType
  <2> QED BY <1>0, <1>1, <2>1, SoftRows DEF SetPause, QuietStep
<1>2. ASSUME NEW a \in Account, EditAccount(a)
      PROVE  QuietStep(None)
  BY <1>0, <1>2, SoftRows, PauseStays DEF EditAccount, QuietStep
<1>3. ASSUME NEW q \in Attempt, Age(q) \/ WaitOver(q) \/ RecoveryWindowCloses(q)
      PROVE  QuietStep(None)
  <2>1. \A p \in Attempt \ {q} : SoftRow(row[p], row'[p])
    BY <1>0, <1>3, SoftRows DEF Age, WaitOver, RecoveryWindowCloses
  <2>2. SoftRow(row[q], row'[q])
    <3>0. row[q] \in Row
      BY <1>0
    <3>1. CASE Age(q)
      BY <1>0, <3>0, <3>1 DEF Age, SoftRow, Row
    <3>2. CASE WaitOver(q)
      BY <1>0, <3>0, <3>2 DEF WaitOver, SoftRow, Row
    <3>3. CASE RecoveryWindowCloses(q)
      BY <1>0, <3>0, <3>3 DEF RecoveryWindowCloses, SoftRow, Row
    <3> QED BY <1>3, <3>1, <3>2, <3>3
  <2>3. UNCHANGED <<claim, pause, serverVars>>
    BY <1>3 DEF Age, WaitOver, RecoveryWindowCloses, clockFrame, accountVars
  <2> QED BY <1>0, <2>1, <2>2, <2>3, PauseStays DEF QuietStep
<1>4. CASE Restart
  BY <1>0, <1>4, SoftRows, PauseStays DEF Restart, QuietStep, accountVars
<1>5. CASE UNCHANGED vars
  BY <1>0, <1>5, SoftRows, PauseStays DEF vars, QuietStep, accountVars
<1> QED BY <1>1, <1>2, <1>3, <1>4, <1>5

\* openLedgerRow writes to the ledger only, whatever fails in it.
LEMMA OpenIsQuiet ==
    ASSUME IInv, NEW a \in Account, OpenLedgerRow(a)
    PROVE  QuietStep(a)
<1> DEFINE c == claim[a]
           new == [Expired EXCEPT ![c.q] = NewRow(c.grant, "manual")]
<1>0. /\ TypeOK /\ claim \in [Account -> Claim] /\ row \in [Attempt -> Row]
      /\ pause \in PauseType /\ Expired \in [Attempt -> Row]
  BY LedgerType DEF IInv, TypeOK, PauseType
<1>1. /\ c.pc = "open" /\ c.q \in Attempt /\ c.grant \in Grant /\ OwnerOf[c.grant] = a
      /\ ~c.created /\ UNCHANGED <<pause, serverVars>>
  BY DEF OpenLedgerRow, IInv, CoreInv, ClaimsAreBound, claimFrame, accountVars
<1>2. OveragePause(a) # None => OveragePause(a) <= pause[a].epoch
  <2>1. pause[a].epoch \in Nat
    BY <1>0 DEF PauseType, Epoch
  <2> QED BY <2>1 DEF OveragePause
<1>3. /\ NewRow(c.grant, "manual").status = "pending"
      /\ NewRow(c.grant, "manual").grant = c.grant
      /\ NewRow(c.grant, "manual").owed = None
  BY DEF NewRow, NoRow
\* The insertion of beginManualAttempt, as it stands or marked as not sent.
<1>4. ASSUME BeginManual(a, c) # {}, row' = new \/ row' = [new EXCEPT ![c.q].status = "not_sent"],
             \A b \in Account \ {a} : claim'[b] = claim[b]
      PROVE  /\ \A p \in Attempt \ {c.q} : SoftRow(row[p], row'[p])
             /\ InsertedRow(a, c.q)
             /\ row' = new => row'[c.q].status = "pending" /\ row'[c.q].grant = c.grant
  <2>1. row[c.q].status = "none" /\ BlockedBy(a, c.q) = {}
    BY <1>4 DEF BeginManual
  <2> HIDE DEF c
  <2>2. \A p \in Attempt \ {c.q} : row'[p] = Expired[p]
    BY <1>0, <1>1, <1>4
  <2>3. /\ row'[c.q].status \in {"pending", "not_sent"}
        /\ row'[c.q].grant = c.grant /\ row'[c.q].owed = None
        /\ row' = new => row'[c.q].status = "pending"
    <3>1. new[c.q] = NewRow(c.grant, "manual") /\ DOMAIN new = Attempt
      BY <1>0, <1>1
    <3>2. NewRow(c.grant, "manual") \in Row
      BY <1>1, RowLiterals DEF Trigger
    <3>3. row'[c.q] = new[c.q] \/ row'[c.q] = [new[c.q] EXCEPT !.status = "not_sent"]
      BY <1>1, <1>4, <3>1
    <3>4. CASE row'[c.q] = [new[c.q] EXCEPT !.status = "not_sent"]
      <4> HIDE DEF new
      <4>1. /\ row'[c.q].status = "not_sent" /\ row'[c.q].grant = new[c.q].grant
            /\ row'[c.q].owed = new[c.q].owed
        BY <3>1, <3>2, <3>4 DEF Row
      <4>2. row' = new => row'[c.q] = new[c.q]
        OBVIOUS
      <4> QED BY <1>3, <3>1, <4>1, <4>2
    <3>5. CASE row'[c.q] = new[c.q]
      BY <1>3, <3>1, <3>5
    <3> QED BY <3>3, <3>4, <3>5
  <2>4. \A p \in Attempt \ {c.q} : SoftRow(row[p], row'[p])
    BY <1>0, <2>2, SoftRows
  <2>5. \A p \in Attempt \ {c.q} : row'[p].status = "pending" => OwnerOf[row'[p].grant] # a
    <3>1. \A p \in Attempt \ {c.q} : row'[p].grant = row[p].grant
      BY <2>4 DEF SoftRow
    <3> QED BY <2>1, <2>2, <3>1 DEF BlockedBy
  <2>6. /\ \A b \in Account : claim[b].q = c.q => b = a
        /\ \A b \in Account \ {a} : claim'[b].q # c.q
    BY <1>1, <1>4, NullsDistinct DEF IInv, CoreInv, ClaimsAreBound, c
  <2> QED BY <1>1, <2>1, <2>3, <2>4, <2>5, <2>6 DEF InsertedRow
<1>5. \A r \in BeginManual(a, c) : r = new
  BY DEF BeginManual
<1>6. ASSUME row' \in BeginManual(a, c),
             claim' = [claim EXCEPT ![a].pc = "look", ![a].created = TRUE,
                                    ![a].epoch = OveragePause(a)]
      PROVE  QuietStep(a)
  <2>1. \A b \in Account \ {a} : claim'[b] = claim[b]
    BY <1>0, <1>6
  <2>2. /\ claim'[a].pc = "look" /\ claim'[a].q = c.q /\ claim'[a].grant = c.grant
        /\ claim'[a].epoch = OveragePause(a)
    BY <1>0, <1>6 DEF Claim
  <2>3. row' = new /\ BeginManual(a, c) # {} /\ row[c.q].status = "none"
    BY <1>5, <1>6 DEF BeginManual
  <2> HIDE DEF c, new
  <2>4. /\ \A p \in Attempt \ {c.q} : SoftRow(row[p], row'[p])
        /\ InsertedRow(a, c.q)
        /\ row'[c.q].status = "pending" /\ row'[c.q].grant = c.grant
    BY <1>4, <2>1, <2>3
  <2>5. QuietClaim(a, claim'[a])
    BY <1>1, <1>2, <2>2, <2>3, <2>4 DEF QuietClaim, MayLook, c
  <2> QED BY <1>0, <1>1, <2>1, <2>4, <2>5, PauseStays DEF QuietStep
<1>7. ASSUME Expired[c.q].status = "pending", Expired[c.q].grant = c.grant,
             row' = Expired,
             claim' = [claim EXCEPT ![a].pc = "look", ![a].epoch = OveragePause(a),
                                    ![a].replay = @ \/ c.trigger = "manual"]
      PROVE  QuietStep(a)
  <2>1. \A b \in Account \ {a} : claim'[b] = claim[b]
    BY <1>0, <1>7
  <2>2. /\ claim'[a].pc = "look" /\ claim'[a].q = c.q /\ claim'[a].grant = c.grant
        /\ claim'[a].epoch = OveragePause(a) /\ claim'[a].created = c.created
    BY <1>0, <1>7 DEF Claim
  <2> HIDE DEF c, new
  <2>3. QuietClaim(a, claim'[a])
    BY <1>1, <1>2, <1>7, <2>2 DEF QuietClaim, MayLook, c
  <2> QED BY <1>0, <1>1, <1>7, <2>1, <2>3, SoftRows, PauseStays DEF QuietStep
<1>8. ASSUME row' \in {row, Expired} \/ row' = [Expired EXCEPT ![c.q].wait = TRUE],
             EndClaim(a)
      PROVE  QuietStep(a)
  BY <1>0, <1>1, <1>8, EndClaimIsQuiet, SoftRows, PauseStays DEF QuietStep
<1>9. ASSUME \/ row' \in BeginManual(a, c)
             \/ row' \in {[r EXCEPT ![c.q].status = "not_sent"] : r \in BeginManual(a, c)},
             EndClaim(a)
      PROVE  QuietStep(a)
  <2>1. /\ \A b \in Account \ {a} : claim'[b] = claim[b]
        /\ QuietClaim(a, claim'[a])
    BY <1>0, <1>9, EndClaimIsQuiet
  <2>2. /\ BeginManual(a, c) # {}
        /\ row' = new \/ row' = [new EXCEPT ![c.q].status = "not_sent"]
    BY <1>5, <1>9
  <2> HIDE DEF c, new
  <2>3. /\ \A p \in Attempt \ {c.q} : SoftRow(row[p], row'[p])
        /\ InsertedRow(a, c.q)
    BY <1>4, <2>1, <2>2
  <2> QED BY <1>0, <1>1, <2>1, <2>3, PauseStays DEF QuietStep
<1> HIDE DEF new
<1> QED BY <1>6, <1>7, <1>8, <1>9 DEF OpenLedgerRow

\* resolveAttempt on the row of a claim that is being sent.
LEMMA ResolvedRow ==
    ASSUME IInv, NEW a \in Account, claim[a].pc \in Sending,
           NEW status \in Resolving \cup {"not_sent"}, NEW owed \in Epoch \cup {None},
           row' = Resolved(claim[a].q, status, owed)
    PROVE  /\ claim[a].q \in Attempt
           /\ row[claim[a].q].status \in {"pending", "unconfirmed"}
           /\ row'[claim[a].q].grant = row[claim[a].q].grant
           /\ row'[claim[a].q].status = status
           /\ row'[claim[a].q].owed = owed
           /\ \A p \in Attempt \ {claim[a].q} : row'[p] = row[p]
<1> DEFINE q == claim[a].q
<1>1. q \in Attempt /\ row \in [Attempt -> Row]
  BY DEF IInv, CoreInv, ClaimsAreBound, TypeOK, Sending
<1>2. row[q].status \in {"pending", "unconfirmed"}
  BY DEF IInv, CoreInv, SentRowIsLive
<1>3. row' = [row EXCEPT ![q] = [NoRow EXCEPT !.status = status, !.grant = row[q].grant,
                                              !.owed = owed]]
  BY <1>2 DEF Resolved, Resolvable
<1> HIDE DEF q
<1>4. row'[q] = [NoRow EXCEPT !.status = status, !.grant = row[q].grant, !.owed = owed]
  BY <1>1, <1>3
<1>5. row'[q].grant = row[q].grant /\ row'[q].status = status /\ row'[q].owed = owed
  BY <1>4 DEF NoRow
<1>6. \A p \in Attempt \ {q} : row'[p] = row[p]
  BY <1>1, <1>3
<1> QED BY <1>1, <1>2, <1>5, <1>6 DEF q

\* The request id of a claim in flight is its own.
LEMMA OwnRequestId ==
    ASSUME IInv, NEW a \in Account, claim[a].q \in Attempt,
           \A b \in Account \ {a} : claim'[b] = claim[b]
    PROVE  \A b \in Account \ {a} : claim'[b].q # claim[a].q
  BY NullsDistinct DEF IInv, CoreInv, ClaimsAreBound

\* The last look, when it sends nothing.
LEMMA LastLookIsQuiet ==
    ASSUME IInv, NEW a \in Account, LastLook(a), ~Post(a, "posted")
    PROVE  QuietStep(a)
<1> DEFINE q == claim[a].q
<1>0. /\ TypeOK /\ q \in Attempt /\ claim[a].pc = "look" /\ claim[a].pc \in Sending
  BY DEF IInv, CoreInv, ClaimsAreBound, LastLook, Sending
<1>1. /\ EndClaim(a) /\ UNCHANGED serverVars /\ pause' = pause
      /\ \/ row' = row
         \/ row' = Expired
         \/ claim[a].created /\ row' = Resolved(q, "not_sent", None)
  BY DEF LastLook, WriteLedger, GiveUp, NotSent, accountVars, serverVars
<1>2. /\ \A b \in Account \ {a} : claim'[b] = claim[b]
      /\ claim'[a] = NoClaim /\ QuietClaim(a, claim'[a])
  BY <1>0, <1>1, EndClaimIsQuiet
<1>3. \A p \in Attempt : SoftRow(row[p], row'[p]) \/ ClosedRow(p)
  <2>1. CASE row' = row \/ row' = Expired
    BY <1>0, <2>1, SoftRows
  <2>2. CASE claim[a].created /\ row' = Resolved(q, "not_sent", None)
    <3>1. /\ row[q].status \in {"pending", "unconfirmed"}
          /\ row'[q].grant = row[q].grant /\ row'[q].status = "not_sent"
          /\ row'[q].owed = None
          /\ \A p \in Attempt \ {q} : row'[p] = row[p]
      BY <1>0, <2>2, ResolvedRow
    <3>2. sentUnder[q] = None
      BY <2>2 DEF IInv, CoreInv, UnsentRows
    <3>3. \A b \in Account : claim'[b].q = q => claim'[b].pc \notin Sending
      BY <1>0, <1>2, OwnRequestId DEF NoClaim, Sending
    <3>4. ClosedRow(q)
      BY <3>1, <3>2, <3>3 DEF ClosedRow
    <3> QED BY <1>0, <3>1, <3>4, SoftRows
  <2> QED BY <1>1, <2>1, <2>2
<1> QED BY <1>0, <1>1, <1>2, <1>3, PauseStays DEF QuietStep

\* The answer of a claim is recorded truthfully, or not at all.
LEMMA RecordIsQuiet ==
    ASSUME IInv, NEW a \in Account, RecordAnswer(a)
    PROVE  QuietStep(a)
<1> DEFINE c == claim[a]
           q == claim[a].q
<1>0. /\ TypeOK /\ q \in Attempt /\ c.pc = "answered" /\ c.pc \in Sending
      /\ UNCHANGED serverVars /\ pause' = pause
      /\ claim \in [Account -> Claim] /\ c \in Claim
  BY DEF IInv, CoreInv, ClaimsAreBound, RecordAnswer, Sending, claimFrame, accountVars,
         TypeOK
<1>1. /\ row[q].grant = c.grant
      /\ c.ans = "reset" => spentBy[c.grant] = q
      /\ c.ans = "refused" => spentBy[c.grant] # q
      /\ c.ans \in Restoring => spentBy[c.grant] # None
      /\ ~c.created
      /\ c.epoch # None => c.epoch <= sentUnder[q]
      /\ c.epoch \in Epoch \cup {None}
  BY <1>0 DEF IInv, CoreInv, SentRowIsLive, AnswersAreTrue, ClaimsAreBound,
              EpochsAreOrdered, Claim
<1> HIDE DEF c, q
<1>2. ASSUME EndClaim(a), row' \in {row, Expired, BackedOff(q)}
      PROVE  QuietStep(a)
  <2>1. /\ \A b \in Account \ {a} : claim'[b] = claim[b]
        /\ QuietClaim(a, claim'[a])
    BY <1>0, <1>2, EndClaimIsQuiet
  <2>2. \A p \in Attempt : SoftRow(row[p], row'[p])
    BY <1>0, <1>2, SoftRows
  <2> QED BY <1>0, <2>1, <2>2, PauseStays DEF QuietStep
<1>3. ASSUME NEW owed \in Owed(c), c.ans \in Resolving,
             row' = row \/ row' = Resolved(q, c.ans, owed),
             \A b \in Account \ {a} : claim'[b] = claim[b],
             QuietClaim(a, claim'[a]), claim'[a].pc \notin Sending
      PROVE  QuietStep(a)
  <2>1. CASE row' = row
    BY <1>0, <1>3, <2>1, SoftRows, PauseStays DEF QuietStep
  <2>2. CASE row' = Resolved(q, c.ans, owed)
    <3>0. /\ owed \in Epoch \cup {None}
          /\ owed # None => c.ans = "reset" /\ owed = c.epoch
      BY <1>1, <1>3 DEF Owed
    <3>1. /\ row[q].status \in {"pending", "unconfirmed"}
          /\ row'[q].grant = row[q].grant /\ row'[q].status = c.ans
          /\ row'[q].owed = owed
          /\ \A p \in Attempt \ {q} : row'[p] = row[p]
      BY <1>0, <1>3, <2>2, <3>0, ResolvedRow DEF c, q
    <3>2. \A b \in Account : claim'[b].q = q => claim'[b].pc \notin Sending
      BY <1>0, <1>3, OwnRequestId DEF q
    <3>3. c.ans # "not_sent"
      BY <1>3 DEF Resolving, Restoring
    <3>4. ClosedRow(q)
      BY <1>1, <1>3, <3>0, <3>1, <3>2, <3>3 DEF ClosedRow
    <3> QED BY <1>0, <1>3, <3>1, <3>4, SoftRows, PauseStays DEF QuietStep
  <2> QED BY <1>3, <2>1, <2>2
<1>4. ASSUME NEW owed \in Owed(c), c.ans \in Resolving,
             row' = row \/ row' = Resolved(q, c.ans, owed), EndClaim(a)
      PROVE  QuietStep(a)
  <2>1. /\ \A b \in Account \ {a} : claim'[b] = claim[b]
        /\ QuietClaim(a, claim'[a]) /\ claim'[a].pc = "idle"
    BY <1>0, <1>4, EndClaimIsQuiet DEF NoClaim
  <2> QED BY <1>3, <1>4, <2>1 DEF Sending
<1>5. ASSUME NEW owed \in Owed(c), c.ans \in Resolving, WindowsRestored(c),
             row' = row \/ row' = Resolved(q, c.ans, owed),
             claim' = [claim EXCEPT ![a].pc = IF owed = None THEN "restore" ELSE "owed",
                                    ![a].ans = "error", ![a].epoch = owed]
      PROVE  QuietStep(a)
  <2>1. /\ \A b \in Account \ {a} : claim'[b] = claim[b]
        /\ claim'[a].pc = IF owed = None THEN "restore" ELSE "owed"
        /\ claim'[a].q = c.q /\ claim'[a].grant = c.grant
        /\ claim'[a].epoch = owed /\ claim'[a].created = c.created
    BY <1>0, <1>5 DEF Claim, c
  <2>2. c.ans \in Restoring /\ (owed # None => c.ans = "reset" /\ owed = c.epoch)
    BY <1>5 DEF WindowsRestored, Restoring, Owed
  <2>3. MayRestore(a, claim'[a])
    BY <1>0, <1>1, <2>1, <2>2 DEF MayRestore, c, q
  <2>4. QuietClaim(a, claim'[a])
    BY <2>1, <2>3 DEF QuietClaim, c
  <2>5. claim'[a].pc \notin Sending
    BY <2>1 DEF Sending
  <2> QED BY <1>3, <1>5, <2>1, <2>4, <2>5
<1> QED BY <1>2, <1>4, <1>5 DEF RecordAnswer, WriteLedger, GiveUp, c, q

-----------------------------------------------------------------------------
(* Steps at which a claim is sent or answered *)

\* The claim of a is sent, or what was sent for it is answered: the ledger and
\* the pauses stay, and a reset is spent only by a claim that was sent.
ServerStep(a) ==
    LET c == claim[a] IN
    /\ UNCHANGED <<row, pause>>
    /\ \A b \in Account \ {a} : claim'[b] = claim[b]
    /\ c.pc \in Sending /\ claim'[a].pc \in Sent
    /\ claim'[a].q = c.q /\ claim'[a].grant = c.grant /\ claim'[a].epoch = c.epoch
    /\ ~claim'[a].created
    /\ \/ sentUnder' = sentUnder /\ c.pc \in Sent
       \/ /\ sentUnder' = [sentUnder EXCEPT ![c.q] = pause[a].epoch]
          /\ row[c.q].status = "pending"
    /\ \/ spentBy' = spentBy
       \/ /\ c.pc \in Sent /\ spentBy[c.grant] = None
          /\ spentBy' = [spentBy EXCEPT ![c.grant] = c.q]
    /\ stray' \subseteq stray \cup {c.q}
    /\ claim'[a].pc = "answered" /\ claim'[a].ans = "refused" => c.q \notin stray'
    /\ claim'[a].pc \in {"posted", "reposted"} => row[c.q].status = "pending"
    /\ claim'[a].pc = "rejected" => claim'[a].ans = "auth"
    /\ claim'[a].pc = "answered" =>
          /\ claim'[a].ans = "reset" => spentBy'[c.grant] = c.q
          /\ claim'[a].ans = "refused" => spentBy'[c.grant] # c.q
          /\ claim'[a].ans \in Restoring => spentBy'[c.grant] # None

\* They keep the core of the invariant: the row behind the claim is the
\* account's one live row, and the grant is the account's.
LEMMA ServerStepKeeps ==
    ASSUME TypeOK, TypeOK', CoreInv, NEW a \in Account, ServerStep(a)
    PROVE  CoreInv'
<1> DEFINE q == claim[a].q
           g == claim[a].grant
<1>0. /\ q \in Attempt /\ g \in Grant /\ OwnerOf[g] = a /\ row[q].grant = g
      /\ row[q].status \in {"pending", "unconfirmed"} /\ row[q].owed = None
      /\ \A b \in Account \ {a} : claim[b].q # q
  <2>1. claim[a].pc \in Sending
    BY DEF ServerStep
  <2>2. q \in Attempt /\ g \in Grant /\ OwnerOf[g] = a
    BY <2>1 DEF CoreInv, ClaimsAreBound, Sending
  <2>3. row[q].grant = g /\ row[q].status \in {"pending", "unconfirmed"}
    BY <2>1 DEF CoreInv, SentRowIsLive
  <2>4. row[q].owed = None
    BY <2>2, <2>3 DEF CoreInv, RowsAreTrue
  <2>5. \A b \in Account \ {a} : claim[b].q # q
    BY <2>2, NullsDistinct DEF CoreInv, ClaimsAreBound
  <2> QED BY <2>2, <2>3, <2>4, <2>5
<1>1. /\ row' = row /\ pause' = pause
      /\ \A b \in Account \ {a} : claim'[b] = claim[b]
      /\ claim[a].pc \in Sending /\ claim'[a].pc \in Sent
      /\ claim'[a].q = q /\ claim'[a].grant = g /\ claim'[a].epoch = claim[a].epoch
      /\ ~claim'[a].created
  BY DEF ServerStep
<1>2. /\ pause[a].epoch \in Nat /\ pause[a].epoch # None
      /\ \A p \in Attempt \ {q} : sentUnder'[p] = sentUnder[p]
      /\ \/ sentUnder'[q] = sentUnder[q] /\ claim[a].pc \in Sent
         \/ sentUnder'[q] = pause[a].epoch /\ row[q].status = "pending"
      /\ sentUnder'[q] # None
  <2>1. pause \in PauseType /\ sentUnder \in [Attempt -> Epoch \cup {None}]
    BY DEF TypeOK, PauseType
  <2>2. pause[a].epoch \in Nat
    BY <2>1 DEF PauseType, Epoch
  <2>3. pause[a].epoch # None
    BY <2>2, NullsDistinct
  <2>4. /\ \A p \in Attempt \ {q} : sentUnder'[p] = sentUnder[p]
        /\ \/ sentUnder'[q] = sentUnder[q] /\ claim[a].pc \in Sent
           \/ sentUnder'[q] = pause[a].epoch /\ row[q].status = "pending"
    BY <1>0, <2>1 DEF ServerStep
  <2> QED BY <2>2, <2>3, <2>4 DEF CoreInv, UnsentRows
<1>3. /\ \A h \in Grant \ {g} : spentBy'[h] = spentBy[h]
      /\ \/ spentBy'[g] = spentBy[g]
         \/ spentBy[g] = None /\ spentBy'[g] = q
  BY <1>0 DEF ServerStep, TypeOK
<1>4. /\ claim'[a].pc = "rejected" => claim'[a].ans = "auth"
      /\ claim'[a].pc = "answered" =>
            /\ claim'[a].ans = "reset" => spentBy'[g] = q
            /\ claim'[a].ans = "refused" => spentBy'[g] # q
            /\ claim'[a].ans \in Restoring => spentBy'[g] # None
  BY DEF ServerStep
<1> HIDE DEF q, g
<1>5. ClaimsAreBound'
  <2>1. ASSUME NEW b \in Account
        PROVE  /\ claim'[b].q = claim[b].q /\ claim'[b].grant = claim[b].grant
               /\ claim'[b].pc = "idle" <=> claim[b].pc = "idle"
               /\ claim'[b].created => claim[b].created /\ claim'[b] = claim[b]
    BY <1>1 DEF q, g, Sent, Sending
  <2> QED BY <2>1 DEF CoreInv, ClaimsAreBound
<1>6. RowsAreBound' /\ OnePending'
  <2>1. \A b \in Account : claim'[b].q = claim[b].q
    BY <1>1 DEF q
  <2> QED BY <1>1, <2>1 DEF CoreInv, RowsAreBound, OnePending, OwnerOfRow
<1>7. SentRowIsLive'
  <2> SUFFICES ASSUME NEW b \in Account, claim'[b].pc \in Sending
               PROVE  /\ row[claim'[b].q].grant = claim'[b].grant
                      /\ \/ row[claim'[b].q].status = "pending"
                         \/ /\ row[claim'[b].q].status = "unconfirmed"
                            /\ row[claim'[b].q].age = Window
                      /\ \A p \in Attempt \ {claim'[b].q} :
                            row[p].status = "pending" /\ OwnerOf[row[p].grant] = b
                            => sentUnder'[p] = None
    BY <1>1 DEF SentRowIsLive, OwnerOfRow
  <2>1. claim[b].pc \in Sending /\ claim'[b].q = claim[b].q /\ claim'[b].grant = claim[b].grant
    BY <1>1 DEF q, g
  <2>2. ASSUME NEW p \in Attempt \ {claim'[b].q}, row[p].status = "pending",
               OwnerOf[row[p].grant] = b
        PROVE  sentUnder'[p] = None
    <3>1. p # q
      BY <1>0, <1>1, <2>2
    <3>2. sentUnder[p] = None
      BY <2>1, <2>2 DEF CoreInv, SentRowIsLive, OwnerOfRow
    <3> QED BY <1>2, <3>1, <3>2
  <2> QED BY <2>1, <2>2 DEF CoreInv, SentRowIsLive
<1>8. UnsentRows'
  <2>1. ASSUME NEW p \in Attempt, row[p].status \in {"none", "not_sent"}
        PROVE  sentUnder'[p] = None
    BY <1>0, <1>2, <2>1 DEF CoreInv, UnsentRows
  <2>2. ASSUME NEW b \in Account, claim'[b].created
        PROVE  sentUnder'[claim'[b].q] = None
    <3>1. b # a /\ claim'[b] = claim[b] /\ claim[b].q \in Attempt /\ claim[b].q # q
      BY <1>0, <1>1, <2>2 DEF CoreInv, ClaimsAreBound
    <3> QED BY <1>2, <2>2, <3>1 DEF CoreInv, UnsentRows
  <2>3. ASSUME NEW b \in Account, claim'[b].pc \in Sent
        PROVE  sentUnder'[claim'[b].q] # None
    <3>1. CASE b = a
      BY <1>1, <1>2, <3>1
    <3>2. CASE b # a
      <4>1. claim'[b] = claim[b] /\ claim[b].q \in Attempt /\ claim[b].q # q
        BY <1>0, <1>1, <2>3, <3>2 DEF CoreInv, ClaimsAreBound, Sent, Sending
      <4> QED BY <1>2, <2>3, <4>1 DEF CoreInv, UnsentRows
    <3> QED BY <3>1, <3>2
  <2> QED BY <1>1, <2>1, <2>2, <2>3 DEF UnsentRows
<1>9. SpentWasSent'
  <2> SUFFICES ASSUME NEW h \in Grant, spentBy'[h] # None
               PROVE  /\ sentUnder'[spentBy'[h]] # None
                      /\ row[spentBy'[h]].status # "none"
                      /\ row[spentBy'[h]].grant = h
    BY <1>1 DEF SpentWasSent
  <2>1. CASE spentBy'[h] = spentBy[h]
    <3>1. spentBy[h] \in Attempt
      BY <2>1 DEF TypeOK
    <3> QED BY <1>2, <2>1, <3>1 DEF CoreInv, SpentWasSent
  <2>2. CASE h = g /\ spentBy'[h] = q
    BY <1>0, <1>2, <2>2
  <2> QED BY <1>3, <2>1, <2>2
<1>10. AnswersAreTrue'
  <2>1. ASSUME NEW b \in Account \ {a}, claim[b].pc # "idle"
        PROVE  claim'[b] = claim[b] /\ spentBy'[claim[b].grant] = spentBy[claim[b].grant]
    BY <1>0, <1>1, <1>3, <2>1 DEF CoreInv, ClaimsAreBound
  <2>2. claim'[a].pc \notin Restored
    BY <1>1 DEF Sent, Sending, Restored
  <2> SUFFICES ASSUME NEW b \in Account
               PROVE  /\ claim'[b].pc = "rejected" => claim'[b].ans = "auth"
                      /\ claim'[b].pc = "answered" =>
                         /\ claim'[b].ans = "reset" => spentBy'[claim'[b].grant] = claim'[b].q
                         /\ claim'[b].ans = "refused" => spentBy'[claim'[b].grant] # claim'[b].q
                         /\ claim'[b].ans \in Restoring => spentBy'[claim'[b].grant] # None
                      /\ claim'[b].pc = "owed" => spentBy'[claim'[b].grant] = claim'[b].q
                      /\ claim'[b].pc \in Restored => spentBy'[claim'[b].grant] # None
    BY DEF AnswersAreTrue
  <2>3. CASE b = a
    BY <1>1, <1>4, <2>2, <2>3 DEF Restored
  <2>4. CASE b # a /\ claim[b].pc # "idle"
    BY <2>1, <2>4 DEF CoreInv, AnswersAreTrue
  <2>5. CASE b # a /\ claim[b].pc = "idle"
    BY <1>1, <2>5 DEF Restored
  <2> QED BY <2>3, <2>4, <2>5
<1>11. RowsAreTrue'
  <2> SUFFICES ASSUME NEW p \in Attempt
               PROVE  /\ row[p].status = "reset" => spentBy'[row[p].grant] = p
                      /\ row[p].status = "refused" => spentBy'[row[p].grant] # p
                      /\ row[p].owed # None => row[p].status = "reset"
    BY <1>1 DEF RowsAreTrue
  <2>1. row[p].status # "none" => row[p].grant \in Grant
    BY DEF CoreInv, RowsAreBound
  <2>2. row[p].status \in {"reset", "refused"} => p # q
    BY <1>0
  <2>3. p # None
    BY NullsDistinct
  <2> QED BY <1>3, <2>1, <2>2, <2>3 DEF CoreInv, RowsAreTrue
<1>12. EpochsAreOrdered'
  <2>1. ASSUME NEW p \in Attempt
        PROVE  /\ sentUnder'[p] # None => sentUnder'[p] <= pause[OwnerOf[row[p].grant]].epoch
               /\ row[p].owed # None => row[p].owed <= sentUnder'[p]
    <3>1. CASE sentUnder'[p] = sentUnder[p]
      BY <3>1 DEF CoreInv, EpochsAreOrdered, OwnerOfRow
    <3>2. CASE p = q /\ sentUnder'[q] = pause[a].epoch
      BY <1>0, <1>2, <3>2
    <3> QED BY <1>2, <3>1, <3>2
  <2>2. ASSUME NEW b \in Account, claim'[b].epoch # None
        PROVE  /\ claim'[b].pc \in Sending \cup {"owed"}
               /\ claim'[b].epoch <= pause[b].epoch
               /\ claim'[b].pc # "look" => /\ sentUnder'[claim'[b].q] # None
                                           /\ claim'[b].epoch <= sentUnder'[claim'[b].q]
    <3>0. claim[b].epoch # None /\ claim[b].epoch = claim'[b].epoch /\ claim[b].q = claim'[b].q
      BY <1>1, <2>2 DEF q
    <3>1. /\ claim[b].pc \in Sending \cup {"owed"}
          /\ claim[b].epoch <= pause[b].epoch
          /\ claim[b].pc # "look" => /\ sentUnder[claim[b].q] # None
                                     /\ claim[b].epoch <= sentUnder[claim[b].q]
      BY <3>0 DEF CoreInv, EpochsAreOrdered
    <3>2. CASE b # a
      <4>1. claim'[b] = claim[b] /\ claim[b].q \in Attempt /\ claim[b].q # q
        BY <1>0, <1>1, <3>1, <3>2 DEF CoreInv, ClaimsAreBound, Sending
      <4> QED BY <1>2, <3>1, <4>1
    <3>3. CASE b = a
      <4>1. claim[a].pc \in Sent => claim[a].pc # "look"
        BY DEF Sent, Sending
      <4>2. claim'[a].pc \in Sending
        BY <1>1 DEF Sent
      <4> QED BY <1>1, <1>2, <3>0, <3>1, <3>3, <4>1, <4>2 DEF q
    <3> QED BY <3>2, <3>3
  <2> QED BY <1>1, <2>1, <2>2 DEF EpochsAreOrdered, OwnerOfRow
<1>13. StraysAreOpen'
  <2>1. /\ stray' \subseteq stray \cup {q} /\ stray \subseteq Attempt
        /\ claim'[a].pc = "answered" /\ claim'[a].ans = "refused" => q \notin stray'
    BY DEF ServerStep, TypeOK, q
  <2>2. \A p \in stray' : sentUnder'[p] # None
    BY <1>2, <2>1 DEF CoreInv, StraysAreOpen
  <2>3. ASSUME NEW b \in Account, claim'[b].pc = "answered", claim'[b].ans = "refused"
        PROVE  claim'[b].q \notin stray'
    <3>1. CASE b = a
      BY <1>1, <2>1, <2>3, <3>1
    <3>2. CASE b # a
      BY <1>0, <1>1, <2>1, <2>3, <3>2 DEF CoreInv, StraysAreOpen
    <3> QED BY <3>1, <3>2
  <2> QED BY <2>2, <2>3 DEF StraysAreOpen
<1> QED BY <1>5, <1>6, <1>7, <1>8, <1>9, <1>10, <1>11, <1>12, <1>13 DEF CoreInv

\* A POST of a claim whose row is still pending.
LEMMA PostIsServerStep ==
    ASSUME IInv, NEW a \in Account, NEW pc \in {"posted", "reposted"}, Post(a, pc),
           claim[a].pc \in Sending, ~WindowClosed(claim[a].q),
           UNCHANGED <<row, pause, spentBy, stray>>
    PROVE  ServerStep(a) /\ row[claim[a].q].status = "pending"
<1>1. claim \in [Account -> Claim]
  BY DEF IInv, TypeOK
<1>2. /\ \A b \in Account \ {a} : claim'[b] = claim[b]
      /\ claim'[a].pc = pc /\ ~claim'[a].created /\ claim'[a].q = claim[a].q
      /\ claim'[a].grant = claim[a].grant /\ claim'[a].epoch = claim[a].epoch
  BY <1>1 DEF Post, Claim
<1>3. row[claim[a].q].status = "pending"
  BY DEF IInv, CoreInv, SentRowIsLive, WindowClosed
<1> QED BY <1>2, <1>3 DEF ServerStep, Post, Sent, Sending

\* The POSTs and the server's answers.
LEMMA SendsAreServerSteps ==
    ASSUME IInv, NEW a \in Account,
           \/ LastLook(a) /\ Post(a, "posted")
           \/ Land(a) \/ RetryClaim(a)
    PROVE  ServerStep(a)
<1>0. claim \in [Account -> Claim] /\ claim[a] \in Claim
  BY DEF IInv, TypeOK
<1>1. CASE LastLook(a) /\ Post(a, "posted")
  <2>1. claim[a].pc = "look" /\ UNCHANGED <<pause, spentBy, stray>>
    BY <1>1 DEF LastLook, accountVars
  <2>2. claim'[a].pc = "posted"
    BY <1>0, <1>1 DEF Post, Claim
  <2>3. ~EndClaim(a)
    BY <1>0, <2>2 DEF EndClaim, NoClaim
  <2>4. ~WindowClosed(claim[a].q) /\ UNCHANGED row
    BY <1>1, <2>3 DEF LastLook
  <2> QED BY <1>1, <2>1, <2>4, PostIsServerStep DEF Sending
<1>2. CASE RetryClaim(a)
  <2>1. claim[a].pc = "rejected" /\ UNCHANGED <<row, pause, spentBy, stray>>
    BY <1>2 DEF RetryClaim, accountVars
  <2>2. CASE ~WindowClosed(claim[a].q) /\ Post(a, "reposted")
    BY <2>1, <2>2, PostIsServerStep DEF Sending
  <2>3. CASE At(a, "answered") /\ UNCHANGED sentUnder
    <3>1. /\ \A b \in Account \ {a} : claim'[b] = claim[b]
          /\ claim'[a].pc = "answered" /\ claim'[a].q = claim[a].q
          /\ claim'[a].grant = claim[a].grant /\ claim'[a].epoch = claim[a].epoch
          /\ claim'[a].ans = claim[a].ans /\ claim'[a].created = claim[a].created
      BY <1>0, <2>3 DEF At, Claim
    <3>2. claim[a].ans = "auth" /\ ~claim[a].created
      BY <2>1 DEF IInv, CoreInv, AnswersAreTrue, ClaimsAreBound
    <3> QED BY <2>1, <2>3, <3>1, <3>2 DEF ServerStep, Sent, Sending, Restoring
  <2> QED BY <1>2, <2>2, <2>3 DEF RetryClaim
<1>3. CASE Land(a)
  <2>1. /\ claim[a].pc \in {"posted", "reposted"}
        /\ UNCHANGED <<row, pause, sentUnder>>
    BY <1>3 DEF Land, accountVars
  <2>2. ~claim[a].created /\ claim[a].grant \in Grant /\ claim[a].q \in Attempt
    BY <2>1 DEF IInv, CoreInv, ClaimsAreBound
  <2>3. ASSUME NEW ans, Answer(a, ans),
               ans = "reset" => spentBy'[claim[a].grant] = claim[a].q,
               ans = "refused" => spentBy'[claim[a].grant] # claim[a].q,
               ans \in Restoring => spentBy'[claim[a].grant] # None,
               stray' \subseteq stray \cup {claim[a].q},
               ans = "refused" => claim[a].q \notin stray',
               \/ spentBy' = spentBy
               \/ /\ spentBy[claim[a].grant] = None
                  /\ spentBy' = [spentBy EXCEPT ![claim[a].grant] = claim[a].q]
        PROVE  ServerStep(a)
    <3>1. /\ \A b \in Account \ {a} : claim'[b] = claim[b]
          /\ claim'[a].pc \in {"rejected", "answered"}
          /\ claim'[a].pc = "rejected" => ans = "auth"
          /\ claim'[a].q = claim[a].q /\ claim'[a].ans = ans
          /\ claim'[a].grant = claim[a].grant /\ claim'[a].epoch = claim[a].epoch
          /\ claim'[a].created = claim[a].created
      BY <1>0, <2>3 DEF Answer, Claim
    <3> QED BY <2>1, <2>2, <2>3, <3>1 DEF ServerStep, Sent, Sending
  <2>4. spentBy \in [Grant -> Attempt \cup {None}]
    BY DEF IInv, TypeOK
  <2>5. claim[a].q # None
    BY <2>2, NullsDistinct
  <2> QED BY <1>3, <2>2, <2>3, <2>4, <2>5 DEF Land, Restoring
<1> QED BY <1>1, <1>2, <1>3

\* A POST that was given up on arrives: the row behind it is the account's one
\* pending row, no answer that is on record speaks of its request id, and the
\* grant it spends was free.
LEMMA LandLateKeeps ==
    ASSUME IInv, NEW q \in Attempt, LandLate(q)
    PROVE  IInv'
<1> DEFINE g == row[q].grant
<1>0. /\ row[q].status = "pending" /\ q \in stray /\ q # None /\ g \in Grant
      /\ spentBy[g] = None /\ spentBy' = [spentBy EXCEPT ![g] = q]
      /\ stray' = stray \ {q}
      /\ UNCHANGED <<row, claim, read, cache, accountVars, applier, sentUnder, faults, ops>>
  BY NullsDistinct DEF LandLate, IInv, CoreInv, RowsAreBound
<1> HIDE DEF g
<1>1. /\ TypeOK' /\ spentBy'[g] = q
      /\ \A h \in Grant \ {g} : spentBy'[h] = spentBy[h]
  BY <1>0 DEF IInv, TypeOK, accountVars
<1>2. SpentWasSent'
  BY <1>0, <1>1 DEF IInv, CoreInv, SpentWasSent, StraysAreOpen, g
<1>3. AnswersAreTrue'
  <2> SUFFICES ASSUME NEW a \in Account, claim[a].pc # "idle"
               PROVE  /\ claim[a].pc = "rejected" => claim[a].ans = "auth"
                      /\ claim[a].pc = "answered" =>
                         /\ claim[a].ans = "reset" => spentBy'[claim[a].grant] = claim[a].q
                         /\ claim[a].ans = "refused" => spentBy'[claim[a].grant] # claim[a].q
                         /\ claim[a].ans \in Restoring => spentBy'[claim[a].grant] # None
                      /\ claim[a].pc = "owed" => spentBy'[claim[a].grant] = claim[a].q
                      /\ claim[a].pc \in Restored => spentBy'[claim[a].grant] # None
    BY <1>0 DEF AnswersAreTrue, Restored
  <2>1. claim[a].grant \in Grant /\ claim[a].q \in Attempt /\ claim[a].q # None
    BY NullsDistinct DEF IInv, CoreInv, ClaimsAreBound
  <2>2. CASE claim[a].grant # g
    BY <1>1, <2>1, <2>2 DEF IInv, CoreInv, AnswersAreTrue
  <2>3. CASE claim[a].grant = g
    BY <1>0, <1>1, <2>1, <2>3 DEF IInv, CoreInv, AnswersAreTrue, StraysAreOpen
  <2> QED BY <2>2, <2>3
<1>4. RowsAreTrue'
  <2> SUFFICES ASSUME NEW p \in Attempt
               PROVE  /\ row[p].status = "reset" => spentBy'[row[p].grant] = p
                      /\ row[p].status = "refused" => spentBy'[row[p].grant] # p
                      /\ row[p].owed # None => row[p].status = "reset"
    BY <1>0 DEF RowsAreTrue
  <2>1. p # None /\ (row[p].status # "none" => row[p].grant \in Grant)
    BY NullsDistinct DEF IInv, CoreInv, RowsAreBound
  <2> QED BY <1>0, <1>1, <2>1 DEF IInv, CoreInv, RowsAreTrue
<1>5. StraysAreOpen'
  BY <1>0 DEF IInv, CoreInv, StraysAreOpen
<1>6. ClaimsAreBound' /\ RowsAreBound' /\ OnePending' /\ SentRowIsLive'
  BY <1>0 DEF IInv, CoreInv, ClaimsAreBound, RowsAreBound, OnePending, SentRowIsLive,
              OwnerOfRow
<1>7. UnsentRows' /\ EpochsAreOrdered'
  BY <1>0 DEF IInv, CoreInv, UnsentRows, EpochsAreOrdered, OwnerOfRow, accountVars
<1>8. TickIsBound' /\ ReadsAreFresh'
  BY <1>0 DEF IInv, TickIsBound, ReadsAreFresh
<1> QED BY <1>1, <1>2, <1>3, <1>4, <1>5, <1>6, <1>7, <1>8 DEF IInv, CoreInv

-----------------------------------------------------------------------------
(* The scheduler's tick and the reads after a claim *)

\* A step that neither chooses a grant to claim nor a pause to lift.
TickPasses == applier' = applier \/ applier'.pc \notin {"claiming", "lift"}

\* A read is left alone, begun or ended.
ReadPasses(b) == read'[b] = read[b] \/ read'[b].snap = NoStatus

\* A claim comes to its refresh only when no older read can answer it.
ClaimPasses(b) ==
    claim'[b].pc \in {"refresh", "refreshing"} =>
        \/ /\ claim[b].pc \in {"refresh", "refreshing"}
           /\ claim'[b].grant = claim[b].grant
        \/ read'[b].snap = NoStatus

\* Such steps keep what is known of the tick and the reads.
LEMMA PassesKeep ==
    ASSUME IInv
    PROVE  /\ TickPasses => TickIsBound'
           /\ (\A b \in Account : ReadPasses(b) /\ ClaimPasses(b)) => ReadsAreFresh'
<1>1. TickPasses => TickIsBound'
  BY DEF TickPasses, IInv, TickIsBound
<1>2. ASSUME \A b \in Account : ReadPasses(b) /\ ClaimPasses(b)
      PROVE  ReadsAreFresh'
  <2> SUFFICES ASSUME NEW b \in Account
               PROVE  /\ read'[b].pc \in {"idle", "waiting"} => read'[b].snap = NoStatus
                      /\ /\ claim'[b].pc \in {"refresh", "refreshing"}
                         /\ read'[b].snap # NoStatus
                         => claim'[b].grant \in read'[b].snap
    BY DEF ReadsAreFresh
  <2> QED BY <1>2 DEF ReadPasses, ClaimPasses, IInv, ReadsAreFresh
<1> QED BY <1>1, <1>2

\* The tick goes on to something else than claiming or lifting.
LEMMA TickGoesOn ==
    ASSUME NEW t \in Tick, NEW a, NEW ok, NEW trigger
    PROVE  /\ Continue(t).pc \in {"rank", "scan"}
           /\ AfterDispatch(t, trigger).pc \in {"idle", "rank", "scan"}
           /\ TickAfterClaim(a, t) = t \/ TickAfterClaim(a, t).pc \in {"idle", "rank", "scan"}
           /\ \/ TickAfterRead(a, ok, t) = t
              \/ TickAfterRead(a, ok, t).pc \in {"confirming", "rank", "scan"}
<1>1. Continue(t).pc \in {"rank", "scan"}
  BY DEF Continue, Tick
<1>2. \A x : AfterDispatch(t, x).pc \in {"idle", "rank", "scan"}
  BY <1>1 DEF AfterDispatch, NoTick
<1>3. TickAfterClaim(a, t) = t \/ TickAfterClaim(a, t).pc \in {"idle", "rank", "scan"}
  BY <1>2 DEF TickAfterClaim
<1>4. [t EXCEPT !.pc = "confirming", !.seen = @ \cup {a}].pc = "confirming"
  BY DEF Tick
<1> QED BY <1>1, <1>2, <1>3, <1>4 DEF TickAfterRead

\* Reads that end, and claims that end.
LEMMA EndsPass ==
    ASSUME TypeOK, NEW a \in Account
    PROVE  /\ EndClaim(a) => TickPasses /\ ClaimPasses(a)
           /\ \A ok : EndRead(a, ok) =>
                 /\ TickPasses
                 /\ \A b \in Account : ReadPasses(b) /\ ClaimPasses(b)
<1>0. applier \in Tick /\ claim \in [Account -> Claim] /\ read \in [Account -> Read]
  BY DEF TypeOK
<1>1. ASSUME EndClaim(a) PROVE TickPasses /\ ClaimPasses(a)
  <2>1. claim'[a].pc = "idle"
    BY <1>0, <1>1 DEF EndClaim, NoClaim
  <2>2. applier' = applier \/ applier'.pc \in {"idle", "rank", "scan"}
    BY <1>0, <1>1, TickGoesOn DEF EndClaim
  <2> QED BY <2>1, <2>2 DEF TickPasses, ClaimPasses
<1>2. ASSUME NEW ok, EndRead(a, ok)
      PROVE  /\ TickPasses
             /\ \A b \in Account : ReadPasses(b) /\ ClaimPasses(b)
  <2>1. /\ read'[a] = NoRead /\ \A b \in Account \ {a} : read'[b] = read[b]
        /\ \A b \in Account \ {a} : claim'[b] = claim[b]
    BY <1>0, <1>2 DEF EndRead
  <2> DEFINE t == TickAfterRead(a, ok, applier)
  <2>2. t = applier \/ t.pc \in {"confirming", "rank", "scan"}
    BY <1>0, TickGoesOn
  <2>3. t \in Tick
    BY <1>0, TickAfterType
  <2>4. applier' = t \/ applier' = TickAfterClaim(a, t)
    BY <1>2 DEF EndRead
  <2> HIDE DEF t
  <2>5. applier' = t \/ applier'.pc \in {"idle", "rank", "scan"}
    BY <2>3, <2>4, TickGoesOn
  <2>6. TickPasses
    BY <2>2, <2>5 DEF TickPasses
  <2>7. NoRead.snap = NoStatus
    BY DEF NoRead
  <2> QED BY <2>1, <2>6, <2>7 DEF ReadPasses, ClaimPasses
<1> QED BY <1>1, <1>2

\* A read that begins, and what is not touched.
LEMMA StartPasses ==
    ASSUME IInv
    PROVE  /\ \A a \in Account : StartRead(a) => \A b \in Account : ReadPasses(b)
           /\ UNCHANGED read => \A b \in Account : ReadPasses(b)
           /\ \A b \in Account : claim'[b] = claim[b] => ClaimPasses(b)
           /\ UNCHANGED claim => \A b \in Account : ClaimPasses(b)
           /\ UNCHANGED applier => TickPasses
<1>0. read \in [Account -> Read]
  BY DEF IInv, TypeOK
<1>1. ASSUME NEW a \in Account, StartRead(a), NEW b \in Account
      PROVE  ReadPasses(b)
  <2>1. read[a].pc = "idle" /\ read[a].snap = NoStatus
    BY <1>1 DEF StartRead, IInv, ReadsAreFresh
  <2>2. CASE b = a
    <3>1. read'[a] = [read[a] EXCEPT !.pc = "waiting"]
      BY <1>0, <1>1 DEF StartRead
    <3>2. read'[a].snap = read[a].snap
      BY <1>0, <3>1 DEF Read
    <3> QED BY <2>1, <2>2, <3>2 DEF ReadPasses
  <2>3. CASE b # a
    BY <1>0, <1>1, <2>3 DEF StartRead, ReadPasses
  <2> QED BY <2>2, <2>3
<1> QED BY <1>1 DEF ReadPasses, ClaimPasses, TickPasses

\* Status reads keep what is known of the tick and the reads: what is served
\* to a claim that is past its answer shows the grant it spent.
LEMMA ReadsPass ==
    ASSUME IInv, NEW a \in Account, Refresh(a) \/ ReadStep(a)
    PROVE  TickIsBound' /\ ReadsAreFresh'
<1>0. TypeOK /\ read \in [Account -> Read]
  BY DEF IInv, TypeOK
<1>1. CASE Refresh(a)
  BY <1>1, StartPasses, PassesKeep DEF Refresh
<1>2. CASE FailRead(a) \/ FinishRead(a)
  BY <1>0, <1>2, EndsPass, PassesKeep DEF FailRead, FinishRead
<1>3. CASE ServeRead(a)
  <2>1. TickIsBound'
    BY <1>3, StartPasses, PassesKeep DEF ServeRead
  <2>2. /\ read'[a].pc = "served"
        /\ read'[a].snap = {g \in Grant : OwnerOf[g] = a /\ spentBy[g] # None}
        /\ \A b \in Account \ {a} : read'[b] = read[b]
        /\ claim' = claim
    BY <1>0, <1>3 DEF ServeRead
  <2>3. claim[a].pc \in {"refresh", "refreshing"} => claim[a].grant \in read'[a].snap
    BY <2>2 DEF IInv, CoreInv, ClaimsAreBound, AnswersAreTrue, Restored
  <2>4. ReadsAreFresh'
    <3> SUFFICES ASSUME NEW b \in Account
                 PROVE  /\ read'[b].pc \in {"idle", "waiting"} => read'[b].snap = NoStatus
                        /\ /\ claim'[b].pc \in {"refresh", "refreshing"}
                           /\ read'[b].snap # NoStatus
                           => claim'[b].grant \in read'[b].snap
      BY DEF ReadsAreFresh
    <3> QED BY <2>2, <2>3 DEF IInv, ReadsAreFresh
  <2> QED BY <2>1, <2>4
<1> QED BY <1>1, <1>2, <1>3 DEF ReadStep

\* So do the steps of a claim.
LEMMA ClaimsPass ==
    ASSUME IInv, TypeOK', NEW a \in Account, ClaimStep(a)
    PROVE  TickIsBound' /\ ReadsAreFresh'
<1>0. TypeOK /\ claim \in [Account -> Claim] /\ claim[a] \in Claim
  BY DEF IInv, TypeOK
<1>1. TickPasses /\ \A b \in Account : ReadPasses(b)
  <2>1. CASE RefreshAfterClaim(a)
    BY <1>0, <2>1, EndsPass, StartPasses DEF RefreshAfterClaim
  <2>2. CASE ~RefreshAfterClaim(a)
    <3>1. UNCHANGED read
      BY <2>2 DEF ClaimStep, PrepareClaim, OpenLedgerRow, LastLook, Land, RetryClaim,
                  RecordAnswer, SettleOwedPause, SettleAgain
    <3>2. UNCHANGED applier \/ EndClaim(a)
      BY <2>2 DEF ClaimStep, PrepareClaim, OpenLedgerRow, LastLook, Land, RetryClaim,
                  RecordAnswer, SettleOwedPause, SettleAgain
    <3> QED BY <1>0, <3>1, <3>2, EndsPass, StartPasses
  <2> QED BY <2>1, <2>2
<1>3. ASSUME QuietStep(a), ~SettleAgain(a), claim[a].pc \notin {"restoring", "refreshing"}
      PROVE  \A b \in Account : ClaimPasses(b)
  <2>1. \A b \in Account \ {a} : claim'[b] = claim[b] \/ claim'[b] = NoClaim
    BY <1>3 DEF QuietStep
  <2>2. QuietClaim(a, claim'[a])
    BY <1>3 DEF QuietStep
  <2>3. NoClaim.pc = "idle"
    BY DEF NoClaim
  <2>4. CASE claim[a].pc = "restore"
    <3>1. FALSE
      BY <1>3, <2>4 DEF ClaimStep, PrepareClaim, OpenLedgerRow, LastLook, Land, RetryClaim,
                  RecordAnswer, SettleOwedPause, RefreshAfterClaim
    <3> QED BY <3>1
  <2>5. CASE claim[a].pc # "restore"
    BY <1>3, <2>1, <2>2, <2>3, <2>5
       DEF QuietClaim, MayStart, MayLook, MayRestore, Move, ClaimPasses
  <2> QED BY <2>4, <2>5
<1>4. CASE SettleAgain(a)
  <2>1. /\ \A b \in Account \ {a} : claim'[b] = claim[b]
        /\ read[a].pc # "idle" => claim'[a].pc = "restoring"
        /\ UNCHANGED read
    BY <1>0, <1>4 DEF SettleAgain, SettleStatusRead, At, Claim
  <2>2. read[a].pc = "idle" => read'[a].snap = NoStatus
    BY <2>1 DEF IInv, ReadsAreFresh
  <2>3. ClaimPasses(a)
    BY <2>1, <2>2 DEF ClaimPasses
  <2> QED BY <1>1, <2>1, <2>3, StartPasses, PassesKeep
<1>5. CASE ServerStep(a)
  <2>1. /\ \A b \in Account \ {a} : claim'[b] = claim[b]
        /\ claim'[a].pc \notin {"refresh", "refreshing"}
    BY <1>5 DEF ServerStep, Sent, Sending
  <2> QED BY <1>1, <2>1, StartPasses, PassesKeep DEF ClaimPasses
<1>6. CASE QuietStep(a) /\ ~SettleAgain(a)
  <2>1. claim[a].pc \notin {"restoring", "refreshing"}
    BY <1>6 DEF ClaimStep, PrepareClaim, OpenLedgerRow, LastLook, Land, RetryClaim,
                RecordAnswer, SettleOwedPause, RefreshAfterClaim
  <2> QED BY <1>1, <1>3, <1>6, <2>1, PassesKeep
<1>2. QuietStep(a) \/ ServerStep(a)
  BY ReadsAndMovesAreQuiet, OpenIsQuiet, LastLookIsQuiet, RecordIsQuiet,
     SendsAreServerSteps DEF ClaimStep
<1> QED BY <1>2, <1>4, <1>5, <1>6

\* So does the scheduler's tick: it claims a grant that the cached status of
\* the account shows.
LEMMA TickPass ==
    ASSUME IInv, TickStep
    PROVE  TickIsBound' /\ ReadsAreFresh'
<1>0. applier \in Tick /\ claim \in [Account -> Claim] /\ read \in [Account -> Read]
  BY DEF IInv, TypeOK
<1>1. ASSUME NEW t \in Tick, NEW x
      PROVE  /\ \A pc : [t EXCEPT !.pc = pc, !.a = x].pc = pc
             /\ [t EXCEPT !.weekly = @ \cup {x}].pc = t.pc
  BY DEF Tick
<1>2. ASSUME NEW t \in Tick, NEW a \in Account, NEW q, NEW r, NEW replay,
             Dispatch(t, a, q, r, replay)
      PROVE  TickPasses /\ \A b \in Account : ClaimPasses(b)
  <2>1. applier'.pc \in {"dispatch", "idle", "rank", "scan"}
    <3>1. \/ applier' = [t EXCEPT !.pc = "dispatch", !.a = a]
          \/ applier' = AfterDispatch(t, r.trigger)
      BY <1>2 DEF Dispatch
    <3>2. [t EXCEPT !.pc = "dispatch", !.a = a].pc = "dispatch"
      BY <1>1
    <3>3. AfterDispatch(t, r.trigger).pc \in {"idle", "rank", "scan"}
      BY TickGoesOn
    <3> QED BY <3>1, <3>2, <3>3
  <2>2. /\ \A b \in Account \ {a} : claim'[b] = claim[b]
        /\ claim'[a] = claim[a] \/ claim'[a].pc = "start"
    BY <1>0, <1>2 DEF Dispatch, Started, NoClaim
  <2> QED BY <2>1, <2>2 DEF TickPasses, ClaimPasses
<1>3. ASSUME NEW t \in Tick, NEW a \in Account, ConfirmRead(a, t)
      PROVE  TickPasses /\ \A b \in Account : ReadPasses(b)
  <2>1. applier'.pc = "reading"
    BY <1>1, <1>3 DEF ConfirmRead
  <2> QED BY <1>3, <2>1, StartPasses DEF ConfirmRead, TickPasses
<1>4. CASE TickStart \/ LiftOwedPause \/ ListCandidates \/ EndScan
  <2>1. applier'.pc \notin {"claiming", "lift"}
    <3>1. CASE TickStart
      BY <3>1 DEF TickStart, NoTick
    <3>2. CASE LiftOwedPause
      BY <1>0, <3>2 DEF LiftOwedPause, Tick
    <3>3. CASE ListCandidates
      BY <1>0, <3>3 DEF ListCandidates, Tick
    <3>4. CASE EndScan
      <4>1. CASE applier' = NoTick
        BY <4>1 DEF NoTick
      <4>2. CASE applier' = [applier EXCEPT !.pc = "rank", !.rank = TRUE,
                                            !.todo = applier.weekly, !.weekly = {}]
        BY <1>0, <4>2 DEF Tick
      <4> QED BY <3>4, <4>1, <4>2 DEF EndScan
    <3> QED BY <1>4, <3>1, <3>2, <3>3, <3>4
  <2>2. UNCHANGED <<claim, read>>
    BY <1>4 DEF TickStart, LiftOwedPause, ListCandidates, EndScan
  <2> QED BY <2>1, <2>2, StartPasses, PassesKeep DEF TickPasses
<1>5. ASSUME NEW q \in Attempt, SettleOwedRow(q)
      PROVE  TickIsBound' /\ ReadsAreFresh'
  <2>1. \/ applier'.pc = "owed"
        \/ applier'.pc = "lift" /\ applier'.q = q
    BY <1>0, <1>5 DEF SettleOwedRow, Tick
  <2>2. UNCHANGED <<claim, read>>
    BY <1>5 DEF SettleOwedRow
  <2>3. TickIsBound'
    BY <2>1 DEF TickIsBound
  <2> QED BY <2>2, <2>3, StartPasses, PassesKeep
<1>6. ASSUME NEW a \in Account, ProcessAccount(a)
      PROVE  TickIsBound' /\ ReadsAreFresh'
  <2> DEFINE held == \E q \in AutoPending(a) : row[q].trigger = "weekly" /\ MayReplay(a, q)
             t == [applier EXCEPT !.todo = @ \ {a}, !.held = @ \/ held]
  <2>1. t \in Tick /\ t.pc = "scan"
    <3>1. applier.pc = "scan" /\ held \in BOOLEAN
      BY <1>6 DEF ProcessAccount
    <3> HIDE DEF held
    <3>2. \A x \in BOOLEAN :
             LET u == [applier EXCEPT !.todo = @ \ {a}, !.held = @ \/ x]
             IN u \in Tick /\ u.pc = applier.pc
      BY <1>0 DEF Tick
    <3> QED BY <3>1, <3>2
  <2>2. \/ /\ \E q \in AutoPending(a) : Dispatch(t, a, q, row[q], TRUE)
           /\ UNCHANGED read
        \/ applier' = t /\ UNCHANGED <<claim, read>>
        \/ ConfirmRead(a, t) /\ UNCHANGED claim
        \/ applier' = [t EXCEPT !.weekly = @ \cup {a}] /\ UNCHANGED <<claim, read>>
    BY <1>6 DEF ProcessAccount
  <2> HIDE DEF t
  <2>3. TickPasses /\ \A b \in Account : ReadPasses(b) /\ ClaimPasses(b)
    <3>1. CASE \E q \in AutoPending(a) : Dispatch(t, a, q, row[q], TRUE) /\ UNCHANGED read
      BY <1>2, <2>1, <3>1, StartPasses
    <3>2. CASE applier' = t /\ UNCHANGED <<claim, read>>
      BY <2>1, <3>2, StartPasses DEF TickPasses
    <3>3. CASE ConfirmRead(a, t) /\ UNCHANGED claim
      BY <1>3, <2>1, <3>3, StartPasses
    <3>4. CASE applier' = [t EXCEPT !.weekly = @ \cup {a}] /\ UNCHANGED <<claim, read>>
      <4>1. applier'.pc = "scan"
        BY <1>1, <2>1, <3>4
      <4> QED BY <3>4, <4>1, StartPasses DEF TickPasses
    <3> QED BY <2>2, <3>1, <3>2, <3>3, <3>4
  <2> QED BY <2>3, PassesKeep
<1>7. CASE Rank
  <2>1. UNCHANGED claim
    BY <1>7 DEF Rank
  <2>2. CASE applier' = NoTick /\ UNCHANGED read
    BY <2>1, <2>2, StartPasses, PassesKeep DEF TickPasses, NoTick
  <2>3. ASSUME NEW a \in applier.todo, NEW t, t = [applier EXCEPT !.todo = @ \ {a}],
               \/ applier' = [t EXCEPT !.pc = "confirming", !.a = a] /\ UNCHANGED read
               \/ ConfirmRead(a, t)
               \/ applier' = t /\ UNCHANGED read
        PROVE  TickIsBound' /\ ReadsAreFresh'
    <3>1. a \in Account /\ t \in Tick /\ t.pc = "rank"
      BY <1>0, <1>7, <2>3 DEF Rank, Tick
    <3>2. CASE applier' = [t EXCEPT !.pc = "confirming", !.a = a] /\ UNCHANGED read
      <4>1. applier'.pc = "confirming"
        BY <1>1, <3>1, <3>2
      <4> QED BY <2>1, <3>2, <4>1, StartPasses, PassesKeep DEF TickPasses
    <3>3. CASE ConfirmRead(a, t)
      BY <1>3, <2>1, <3>1, <3>3, StartPasses, PassesKeep
    <3>4. CASE applier' = t /\ UNCHANGED read
      BY <2>1, <3>1, <3>4, StartPasses, PassesKeep DEF TickPasses
    <3> QED BY <2>3, <3>2, <3>3, <3>4
  <2> QED BY <1>7, <2>2, <2>3 DEF Rank
<1>8. CASE Evaluate
  <2>1. UNCHANGED <<claim, read>>
    BY <1>8 DEF Evaluate
  <2>2. CASE applier' = Continue(applier)
    <3>1. applier'.pc \in {"rank", "scan"}
      BY <1>0, <2>2, TickGoesOn
    <3> QED BY <2>1, <3>1, StartPasses, PassesKeep DEF TickPasses
  <2>3. ASSUME applier' = [Continue(applier) EXCEPT !.weekly = @ \cup {applier.a}]
        PROVE  TickIsBound' /\ ReadsAreFresh'
    <3>1. Continue(applier) \in Tick /\ Continue(applier).pc \in {"rank", "scan"}
      BY <1>0, ContinueType, TickGoesOn
    <3>2. applier'.pc \in {"rank", "scan"}
      BY <1>1, <2>3, <3>1
    <3> QED BY <2>1, <3>2, StartPasses, PassesKeep DEF TickPasses
  <2>4. ASSUME NEW g \in Grant, NEW cause \in Cause, OwnerOf[g] = applier.a,
               applier' = [applier EXCEPT !.pc = "claiming", !.g = g, !.cause = cause]
        PROVE  TickIsBound' /\ ReadsAreFresh'
    <3>1. /\ applier'.pc = "claiming" /\ applier'.a = applier.a /\ applier'.g = g
          /\ applier'.cause = cause
      BY <1>0, <2>4 DEF Tick
    <3>2. applier.a \in Account
      BY <2>4, GrantsAreOwned
    <3>3. TickIsBound'
      BY <2>4, <3>1, <3>2 DEF TickIsBound
    <3> QED BY <2>1, <3>3, StartPasses, PassesKeep
  <2> QED BY <1>8, <2>2, <2>3, <2>4 DEF Evaluate, MayClaim
<1>9. CASE ClaimAndDispatch
  <2>1. UNCHANGED read /\ applier.a \in Account
    BY <1>9 DEF ClaimAndDispatch, IInv, TickIsBound
  <2>2. \/ \E q, r, replay : Dispatch(applier, applier.a, q, r, replay)
        \/ applier' = Continue(applier) /\ UNCHANGED claim
    BY <1>9 DEF ClaimAndDispatch
  <2>3. CASE applier' = Continue(applier) /\ UNCHANGED claim
    <3>1. applier'.pc \in {"rank", "scan"}
      BY <1>0, <2>3, TickGoesOn
    <3> QED BY <2>1, <2>3, <3>1, StartPasses, PassesKeep DEF TickPasses
  <2> QED BY <1>0, <1>2, <2>1, <2>2, <2>3, StartPasses, PassesKeep
<1> QED BY <1>4, <1>5, <1>6, <1>7, <1>8, <1>9 DEF TickStep

\* So do users, time and restarts.
LEMMA OutsidePass ==
    ASSUME IInv,
           \/ \E a \in Account, q \in Attempt, g \in Grant : ManualClaim(a, q, g)
           \/ \E a \in Account, kind \in {"none", "overage", "other"} : SetPause(a, kind)
           \/ \E a \in Account : EditAccount(a)
           \/ \E q \in Attempt : Age(q) \/ WaitOver(q) \/ RecoveryWindowCloses(q)
           \/ Restart \/ UNCHANGED vars
    PROVE  TickIsBound' /\ ReadsAreFresh'
<1>0. claim \in [Account -> Claim]
  BY DEF IInv, TypeOK
<1>1. CASE UNCHANGED <<claim, read, applier>>
  BY <1>1, StartPasses, PassesKeep
<1>2. ASSUME NEW a \in Account, NEW q \in Attempt, NEW g \in Grant, ManualClaim(a, q, g)
      PROVE  TickIsBound' /\ ReadsAreFresh'
  <2>1. /\ \A b \in Account \ {a} : claim'[b] = claim[b]
        /\ claim'[a].pc = "start"
        /\ UNCHANGED <<read, applier>>
    BY <1>0, <1>2 DEF ManualClaim, Started, NoClaim
  <2> QED BY <2>1, StartPasses, PassesKeep DEF ClaimPasses
<1>3. CASE Restart
  <2>1. applier'.pc = "idle"
    BY <1>3 DEF Restart, NoTick
  <2>2. \A b \in Account : read'[b].snap = NoStatus /\ claim'[b].pc = "idle"
    BY <1>3 DEF Restart, NoRead, NoClaim
  <2> QED BY <2>1, <2>2, PassesKeep DEF TickPasses, ReadPasses, ClaimPasses
<1> QED BY <1>1, <1>2, <1>3
        DEF SetPause, EditAccount, Age, WaitOver, RecoveryWindowCloses, clockFrame, vars

-----------------------------------------------------------------------------
(* The invariant and what follows from it *)

\* The steps of the specification, sorted.
LEMMA StepKinds ==
    ASSUME IInv, [Next]_vars
    PROVE  \/ \E a \in Account \cup {None} : QuietStep(a)
           \/ \E a \in Account : ServerStep(a)
           \/ \E q \in Attempt : LandLate(q)
<1>1. ASSUME NEW a \in Account, ClaimStep(a)
      PROVE  QuietStep(a) \/ ServerStep(a)
  BY <1>1, ReadsAndMovesAreQuiet, OpenIsQuiet, LastLookIsQuiet, RecordIsQuiet,
     SendsAreServerSteps DEF ClaimStep
<1>2. ASSUME NEW a \in Account,
             \/ Refresh(a) \/ ReadStep(a)
             \/ \E q \in Attempt, g \in Grant : ManualClaim(a, q, g)
      PROVE  QuietStep(a)
  BY <1>2, ReadsAndMovesAreQuiet
<1> QED BY <1>1, <1>2, TickIsQuiet, OutsideIsQuiet DEF Next

\* IInv is inductive.
LEMMA InvStep ==
    ASSUME IInv, [Next]_vars
    PROVE  IInv'
<1>0. TypeOK /\ CoreInv /\ ClaimsAreBound
  BY DEF IInv, CoreInv
<1>1. CASE \E q \in Attempt : LandLate(q)
  BY <1>1, LandLateKeeps
<1>2. CASE ~\E q \in Attempt : LandLate(q)
  <2>1. TypeOK'
    BY <1>0, <1>2, ReadsType, ClaimMovesType, ClaimWritesType, TickSettlesType,
       TickSearchType, OutsideType DEF Next, ClaimStep, TickStep
  <2>2. CoreInv'
    BY <1>0, <1>2, <2>1, StepKinds, QuietStepKeeps, ServerStepKeeps
  <2>3. TickIsBound' /\ ReadsAreFresh'
    BY <1>2, <2>1, ReadsPass, ClaimsPass, TickPass, OutsidePass DEF Next
  <2> QED BY <2>1, <2>2, <2>3 DEF IInv
<1> QED BY <1>1, <1>2

\* It holds at the start: there is neither a row nor a claim.
LEMMA InvInit == Init => IInv
<1> SUFFICES ASSUME Init PROVE IInv
  OBVIOUS
<1>0. 0 \in Nat /\ 0 \in 0..MaxEvents
  BY BoundIsNat
<1>1. TypeOK
  <2>1. NoRow \in Row
    BY WindowIsPositive DEF NoRow, Row, Trigger
  <2>2. pause \in [Account -> [kind : {"none", "overage", "other"}, epoch : Epoch]]
    BY <1>0 DEF Init, Epoch
  <2>3. NoStatus \in (SUBSET Grant) \cup {NoStatus}
    OBVIOUS
  <2> QED BY <1>0, <2>1, <2>2, <2>3, NoClaimType DEF Init, TypeOK
<1>2. /\ \A q \in Attempt : /\ row[q].status = "none" /\ row[q].owed = None
                            /\ sentUnder[q] = None
      /\ \A a \in Account : /\ claim[a].pc = "idle" /\ claim[a].q = None
                            /\ ~claim[a].created /\ claim[a].epoch = None
                            /\ read[a].snap = NoStatus
      /\ \A g \in Grant : spentBy[g] = None
      /\ applier.pc = "idle" /\ stray = {}
  BY DEF Init, NoRow, NoClaim, NoRead, NoTick
<1>3. ClaimsAreBound /\ RowsAreBound /\ OnePending /\ SentRowIsLive
  BY <1>2 DEF ClaimsAreBound, RowsAreBound, OnePending, SentRowIsLive, Sending
<1>4. UnsentRows /\ SpentWasSent /\ AnswersAreTrue
  BY <1>2 DEF UnsentRows, SpentWasSent, AnswersAreTrue, Sent, Sending, Restored
<1>5. RowsAreTrue /\ EpochsAreOrdered /\ StraysAreOpen
  BY <1>2 DEF RowsAreTrue, EpochsAreOrdered, StraysAreOpen
<1>6. TickIsBound /\ ReadsAreFresh
  BY <1>2 DEF TickIsBound, ReadsAreFresh
<1> QED BY <1>1, <1>3, <1>4, <1>5, <1>6 DEF IInv, CoreInv

\* So it holds always.
LEMMA Invariance == Spec => []IInv
  BY InvInit, InvStep, PTL DEF Spec

\* What the ledger of claims says is true, whatever failed or was lost on the
\* way: resolveAttempt and giveUpAtWindow never record as not sent a claim
\* that left, nor as a reset one that did not spend its grant, nor as refused
\* one that did.
THEOREM LedgerTruth == Spec => []LedgerIsTruthful
<1>1. ASSUME IInv PROVE LedgerIsTruthful
  <2>1. TypeOK
    BY <1>1 DEF IInv
  <2>2. ASSUME NEW q \in Attempt, row[q].status = "refused", NEW g \in Grant,
               spentBy[g] = q
        PROVE  FALSE
    <3>1. q # None
      BY NullsDistinct
    <3>2. row[q].grant = g
      BY <1>1, <2>2, <3>1 DEF IInv, CoreInv, SpentWasSent
    <3> QED BY <1>1, <2>2, <3>2 DEF IInv, CoreInv, RowsAreTrue
  <2>3. \A q \in Attempt :
          /\ row[q].status = "not_sent" => sentUnder[q] = None
          /\ row[q].status = "reset" => spentBy[row[q].grant] = q
    BY <1>1 DEF IInv, CoreInv, UnsentRows, RowsAreTrue
  <2> QED BY <2>1, <2>2, <2>3 DEF LedgerIsTruthful, Spent
<1> QED BY <1>1, Invariance, PTL

\* No POST leaves for a request id that was given up or answered: neither the
\* last look nor the retry after an auth error finds the window open on a row
\* that is not pending.
THEOREM SendsArePending == Spec => OnlyPendingIsSent
<1>1. ASSUME IInv, [Next]_vars, NEW b \in Account,
             claim'[b].pc \in {"posted", "reposted"}, claim'[b].pc # claim[b].pc
      PROVE  row[claim[b].q].status = "pending"
  <2>1. ASSUME NEW a \in Account \cup {None}, QuietStep(a)
        PROVE  FALSE
    <3>1. QuietClaim(b, claim'[b])
      BY <2>1 DEF QuietStep, QuietClaim
    <3> QED BY <1>1, <3>1 DEF QuietClaim, MayStart, MayLook, MayRestore, Move, NoClaim
  <2>2. ASSUME NEW a \in Account, ServerStep(a)
        PROVE  row[claim[b].q].status = "pending"
    BY <1>1, <2>2 DEF ServerStep
  <2>3. ASSUME NEW q \in Attempt, LandLate(q)
        PROVE  FALSE
    BY <1>1, <2>3 DEF LandLate
  <2> QED BY <1>1, <2>1, <2>2, <2>3, StepKinds
<1>2. IInv /\ [Next]_vars =>
        [\A a \in Account :
               /\ claim'[a].pc \in {"posted", "reposted"}
               /\ claim'[a].pc # claim[a].pc
               => row[claim[a].q].status = "pending"]_vars
  BY <1>1
<1> QED BY <1>2, Invariance, PTL DEF Spec, OnlyPendingIsSent

\* A reset is spent only when no other claim of the account that spent one is
\* still pending in the ledger.
THEOREM OneSpendAtATime == Spec => NoSecondSpend
<1>1. ASSUME IInv, [Next]_vars, NEW g \in Grant, spentBy'[g] # spentBy[g],
             NEW p \in Of(OwnerOf[g]) \ {spentBy'[g]}, Spent(p)
      PROVE  row[p].status # "pending"
  <2>1. \A a : ~QuietStep(a)
    BY <1>1 DEF QuietStep, serverVars
  <2>2. ASSUME NEW a \in Account, ServerStep(a)
        PROVE  row[p].status # "pending"
    <3>1. /\ claim[a].pc \in Sending /\ claim[a].grant \in Grant
          /\ OwnerOf[claim[a].grant] = a
      BY <1>1, <2>2 DEF ServerStep, Sending, IInv, CoreInv, ClaimsAreBound
    <3>2. g = claim[a].grant /\ spentBy'[g] = claim[a].q
      BY <1>1, <2>2, <3>1 DEF ServerStep, IInv, TypeOK
    <3>3. p \in Attempt \ {claim[a].q} /\ OwnerOfRow(p) = a
      BY <1>1, <3>1, <3>2 DEF Of, OwnerOfRow
    <3>4. sentUnder[p] # None
      BY <1>1, <3>3, NullsDistinct DEF Spent, IInv, CoreInv, SpentWasSent
    <3> QED BY <1>1, <3>1, <3>3, <3>4 DEF IInv, CoreInv, SentRowIsLive
  <2>3. ASSUME NEW q \in Attempt, LandLate(q)
        PROVE  row[p].status # "pending"
    <3>1. row[q].status = "pending" /\ g = row[q].grant /\ spentBy'[g] = q
      BY <1>1, <2>3 DEF LandLate, IInv, TypeOK
    <3>2. p \in Attempt /\ p # q /\ OwnerOfRow(p) = OwnerOfRow(q)
      BY <1>1, <3>1 DEF Of, OwnerOfRow
    <3> QED BY <1>1, <3>1, <3>2 DEF IInv, CoreInv, OnePending
  <2> QED BY <1>1, <2>1, <2>2, <2>3, StepKinds
<1>2. IInv /\ [Next]_vars =>
        [\A g \in Grant : spentBy'[g] # spentBy[g] =>
               \A q \in Of(OwnerOf[g]) \ {spentBy'[g]} :
                   Spent(q) => row[q].status # "pending"]_vars
  BY <1>1
<1> QED BY <1>2, Invariance, PTL DEF Spec, NoSecondSpend

\* resumeIfOveragePausedAt ends no pause but the overage pause under which a
\* claim that spent a reset was last sent, whether the claim settles it or,
\* after a restart, the scheduler does.
THEOREM LiftsOnlyWhatIsOwed == Spec => OnlyTheOwedPauseIsLifted
<1>1. ASSUME IInv, [Next]_vars, NEW a \in Account, pause'[a] # pause[a], ops' = ops
      PROVE  /\ pause[a].kind = "overage"
             /\ \E q \in Of(a) : Spent(q) /\ sentUnder[q] = pause[a].epoch
  <2>0. /\ pause \in PauseType /\ pause[a].epoch \in Nat
        /\ ops \in Nat
    <3>1. pause \in PauseType /\ ops \in 0..MaxEvents
      BY <1>1 DEF IInv, TypeOK, PauseType
    <3>2. pause[a] \in [kind : {"none", "overage", "other"}, epoch : Epoch]
      BY <3>1 DEF PauseType
    <3> QED BY <3>1, <3>2 DEF Epoch
  <2>1. \/ \E b \in Account : SettleOwedPause(b)
        \/ LiftOwedPause
    <3>1. ~Operation
      BY <1>1, <2>0 DEF Operation
    <3>2. \A b \in Account : ClaimStep(b) => SettleOwedPause(b)
      BY <1>1 DEF ClaimStep, PrepareClaim, OpenLedgerRow, LastLook, Land, RetryClaim,
                  RecordAnswer, SettleAgain, RefreshAfterClaim, claimFrame, accountVars
    <3>3. TickStep => LiftOwedPause
      BY <1>1 DEF TickStep, TickStart, ListCandidates, SettleOwedRow, ProcessAccount,
                  EndScan, Rank, Evaluate, ClaimAndDispatch, tickFrame, accountVars
    <3>4. \A b \in Account : ~ReadStep(b)
      BY <1>1 DEF ReadStep, ServeRead, FailRead, FinishRead, accountVars
    <3>5. \A q \in Attempt : ~Age(q) /\ ~WaitOver(q) /\ ~RecoveryWindowCloses(q)
      BY <1>1 DEF Age, WaitOver, RecoveryWindowCloses, clockFrame, accountVars
    <3>6. ~Restart /\ ~UNCHANGED vars /\ \A q \in Attempt : ~LandLate(q)
      BY <1>1 DEF Restart, LandLate, vars, accountVars
    <3> QED BY <1>1, <3>1, <3>2, <3>3, <3>4, <3>5, <3>6
            DEF Next, Refresh, ManualClaim, SetPause, EditAccount
  <2>2. ASSUME NEW b, NEW epoch, pause' = ResumeAt(b, epoch)
        PROVE  b = a /\ pause[a].kind = "overage" /\ pause[a].epoch = epoch
    BY <1>1, <2>0, <2>2 DEF ResumeAt, PauseType
  <2>3. ASSUME NEW q \in Attempt, row[q].grant \in Grant, row[q].status # "none",
               OwnerOf[row[q].grant] = a, spentBy[row[q].grant] = q,
               pause[a].epoch <= sentUnder[q], pause[a].kind = "overage"
        PROVE  \E p \in Of(a) : Spent(p) /\ sentUnder[p] = pause[a].epoch
    <3>1. q \in Of(a) /\ Spent(q)
      BY <2>3 DEF Of, Spent
    <3>2. sentUnder[q] # None
      BY <1>1, <2>3, NullsDistinct DEF IInv, CoreInv, SpentWasSent
    <3>3. sentUnder[q] <= pause[a].epoch
      BY <1>1, <2>3, <3>2 DEF IInv, CoreInv, EpochsAreOrdered, OwnerOfRow
    <3>4. sentUnder[q] \in Nat
      BY <1>1, <3>2 DEF IInv, TypeOK, Epoch
    <3>5. sentUnder[q] = pause[a].epoch
      BY <2>0, <2>3, <3>3, <3>4
    <3> QED BY <3>1, <3>5
  <2>4. ASSUME NEW b \in Account, SettleOwedPause(b)
        PROVE  /\ pause[a].kind = "overage"
               /\ \E q \in Of(a) : Spent(q) /\ sentUnder[q] = pause[a].epoch
    <3>1. pause' = ResumeAt(b, claim[b].epoch) /\ claim[b].pc = "owed"
      BY <1>1, <2>4 DEF SettleOwedPause
    <3>2. b = a /\ pause[a].kind = "overage" /\ pause[a].epoch = claim[a].epoch
      BY <2>2, <3>1
    <3>3. claim[a].epoch # None
      BY <2>0, <3>2, NullsDistinct
    <3>4. /\ claim[a].q \in Attempt /\ claim[a].grant \in Grant
          /\ OwnerOf[claim[a].grant] = a
          /\ spentBy[claim[a].grant] = claim[a].q
          /\ claim[a].epoch <= sentUnder[claim[a].q]
      BY <1>1, <3>1, <3>2, <3>3
         DEF IInv, CoreInv, ClaimsAreBound, AnswersAreTrue, EpochsAreOrdered
    <3>5. row[claim[a].q].status # "none" /\ row[claim[a].q].grant = claim[a].grant
      BY <1>1, <3>4, NullsDistinct DEF IInv, CoreInv, SpentWasSent
    <3> QED BY <2>3, <3>2, <3>4, <3>5
  <2>5. CASE LiftOwedPause
    <3> DEFINE q == applier.q
    <3>1. /\ pause' = ResumeAt(OwnerOf[row[q].grant], row[q].owed)
          /\ q \in Attempt
      BY <1>1, <2>5 DEF LiftOwedPause, IInv, TickIsBound
    <3>2. /\ OwnerOf[row[q].grant] = a /\ pause[a].kind = "overage"
          /\ pause[a].epoch = row[q].owed
      BY <2>2, <3>1
    <3>3. row[q].owed # None
      BY <2>0, <3>2, NullsDistinct
    <3>4. /\ row[q].status = "reset" /\ spentBy[row[q].grant] = q
          /\ row[q].owed <= sentUnder[q] /\ row[q].grant \in Grant
      BY <1>1, <3>1, <3>3 DEF IInv, CoreInv, RowsAreTrue, RowsAreBound, EpochsAreOrdered
    <3> HIDE DEF q
    <3> QED BY <2>3, <3>1, <3>2, <3>4
  <2> QED BY <2>1, <2>4, <2>5
<1>2. IInv /\ [Next]_vars =>
        [\A a \in Account : pause'[a] # pause[a] =>
               \/ ops' # ops
               \/ /\ pause[a].kind = "overage"
                  /\ \E q \in Of(a) : Spent(q) /\ sentUnder[q] = pause[a].epoch]_vars
  BY <1>1
<1> QED BY <1>2, Invariance, PTL DEF Spec, OnlyTheOwedPauseIsLifted

\* The status that a claim's refresh caches is one that was read after the
\* server had answered the claim: a read that left before is waited for.
THEOREM RefreshIsFresh == Spec => RestoredStatusIsFresh
<1>1. ASSUME IInv, [Next]_vars, NEW a \in Account, claim[a].pc = "refreshing",
             claim'[a].pc = "idle", read[a].snap # NoStatus, cache'[a] # NoStatus
      PROVE  claim[a].grant \in cache'[a]
  <2>0. /\ claim \in [Account -> Claim] /\ cache \in [Account -> (SUBSET Grant) \cup {NoStatus}]
        /\ claim' # claim /\ claim'[a] # claim[a]
    BY <1>1 DEF IInv, TypeOK
  <2>1. ASSUME NEW b \in Account, ReadStep(b)
        PROVE  FinishRead(b) /\ b = a
    <3>1. FailRead(b) \/ FinishRead(b)
      BY <2>0, <2>1 DEF ReadStep, ServeRead
    <3>2. b = a
      BY <2>0, <3>1 DEF FailRead, FinishRead, EndRead
    <3>3. ~FailRead(a)
      BY <1>1 DEF FailRead, IInv, ReadsAreFresh
    <3> QED BY <3>1, <3>2, <3>3
  <2>2. ASSUME NEW b \in Account, ClaimStep(b)
        PROVE  FALSE
    <3>1. claim[b].pc # "refreshing"
      BY <2>2 DEF ClaimStep, PrepareClaim, OpenLedgerRow, LastLook, Land, RetryClaim,
                  RecordAnswer, SettleOwedPause, SettleAgain, RefreshAfterClaim
    <3>2. \A d \in Account \ {b} : claim'[d] = claim[d]
      BY <2>0, <2>2 DEF ClaimStep, PrepareClaim, SettleStatusRead, At, OpenLedgerRow,
           LastLook, Post, Land, Answer, RetryClaim, RecordAnswer, SettleOwedPause,
           SettleAgain, RefreshAfterClaim, EndClaim
    <3> QED BY <1>1, <2>0, <3>1, <3>2
  <2>3. ~TickStep
    <3>1. ASSUME NEW t, NEW b, NEW q, NEW r, NEW replay, Dispatch(t, b, q, r, replay)
          PROVE  FALSE
      BY <1>1, <2>0, <3>1 DEF Dispatch
    <3> QED BY <2>0, <3>1 DEF TickStep, TickStart, LiftOwedPause, ListCandidates,
              SettleOwedRow, ProcessAccount, EndScan, Rank, Evaluate, ClaimAndDispatch
  <2>4. \A b \in Account, q \in Attempt, g \in Grant : ~ManualClaim(b, q, g)
    BY <1>1, <2>0 DEF ManualClaim
  <2>5. ~Restart
    BY <1>1 DEF Restart
  <2>6. FinishRead(a)
    BY <1>1, <2>0, <2>1, <2>2, <2>3, <2>4, <2>5
       DEF Next, Refresh, SetPause, EditAccount, LandLate, Age, WaitOver,
           RecoveryWindowCloses, clockFrame, vars
  <2>7. cache'[a] = read[a].snap
    BY <2>0, <2>6 DEF FinishRead
  <2> QED BY <1>1, <2>7 DEF IInv, ReadsAreFresh
<1>2. IInv /\ [Next]_vars =>
        [\A a \in Account :
               /\ claim[a].pc = "refreshing" /\ claim'[a].pc = "idle"
               /\ read[a].snap # NoStatus /\ cache'[a] # NoStatus
               => claim[a].grant \in cache'[a]]_vars
  BY <1>1
<1> QED BY <1>2, Invariance, PTL DEF Spec, RestoredStatusIsFresh
=============================================================================
