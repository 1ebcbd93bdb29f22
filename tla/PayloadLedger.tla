----------------------------- MODULE PayloadLedger -----------------------------
(****************************************************************************)
(* What the payload writer promises to its owner (PayloadWriterLike in      *)
(* async-writer.ts): a payload it accepted stays in its hands until it has  *)
(* one terminal outcome, and that outcome is reported once (onSettled).     *)
(* PayloadWriter, with its worker generations, implements this; AsyncWriter *)
(* is composed with it.                                                     *)
(****************************************************************************)
CONSTANTS Payload

VARIABLES
    outcome,   \* of each payload: "none", "held" or a terminal outcome
    accepting, \* acceptsWork(): whether admission is open
    stage      \* "open", "closing" or "closed"

vars == <<outcome, accepting, stage>>

Terminal == {"committed", "dropped", "expired"}

TypeOK ==
    /\ outcome \in [Payload -> {"none", "held", "abandoned"} \cup Terminal]
    /\ accepting \in BOOLEAN
    /\ stage \in {"open", "closing", "closed"}

Held == {e \in Payload : outcome[e] = "held"}

Init ==
    /\ outcome = [e \in Payload |-> "none"]
    /\ accepting = TRUE
    /\ stage = "open"

\* A payload is accepted until disposal begins, even while admission is
\* suspended.
Publish(e) ==
    /\ stage = "open"
    /\ outcome[e] = "none"
    /\ outcome' = [outcome EXCEPT ![e] = "held"]
    /\ UNCHANGED <<accepting, stage>>

\* Payloads come to their outcome; admission may open or close.
Settle(S) ==
    /\ S \subseteq Held
    /\ \E f \in [S -> Terminal] :
         outcome' = [e \in Payload |-> IF e \in S THEN f[e] ELSE outcome[e]]
    /\ accepting' \in BOOLEAN
    /\ accepting' => stage = "open"
    /\ UNCHANGED stage

\* dispose: admission ends.
BeginClose ==
    /\ stage = "open"
    /\ stage' = "closing"
    /\ accepting' = FALSE
    /\ UNCHANGED outcome

\* The end of dispose: what is still held is abandoned.
Close ==
    /\ stage \in {"open", "closing"}
    /\ stage' = "closed"
    /\ accepting' = FALSE
    /\ outcome' = [e \in Payload |-> IF outcome[e] = "held" THEN "abandoned"
                                     ELSE outcome[e]]

Next ==
    \/ \E e \in Payload : Publish(e)
    \/ \E S \in SUBSET Payload : Settle(S)
    \/ BeginClose \/ Close

Spec == Init /\ [][Next]_vars
=============================================================================
