--------------------------- MODULE OutboundPromise ---------------------------
(***************************************************************************)
(* What outbound communication promises of each message, without requests, *)
(* versions or time: people revise an open message; one claim freezes its  *)
(* text; the provider is handed that text at most once, while the claim    *)
(* stands; a closed message is never reopened.  A claim may stand for ever *)
(* (the submission was interrupted), and that is never retried.            *)
(* (src/docs/PHASE-10-COMMUNICATION.md, "Failure handling".)               *)
(***************************************************************************)
EXTENDS Sequences

CONSTANTS Messages, Texts

VARIABLES
  phase,   \* message -> "absent", "open", "claimed" or "closed"
  text,    \* message -> its text
  sent     \* message -> the texts handed to the provider

vars == <<phase, text, sent>>

Init ==
  /\ phase = [m \in Messages |-> "absent"]
  /\ text \in [Messages -> Texts]
  /\ sent = [m \in Messages |-> <<>>]

\* A draft is created, or an open message is edited, scheduled or made ready.
Revise(m, t) ==
  /\ phase[m] \in {"absent", "open"}
  /\ phase' = [phase EXCEPT ![m] = "open"]
  /\ text' = [text EXCEPT ![m] = t]
  /\ UNCHANGED sent

Claim(m) ==
  /\ phase[m] = "open"
  /\ phase' = [phase EXCEPT ![m] = "claimed"]
  /\ UNCHANGED <<text, sent>>

Submit(m) ==
  /\ phase[m] = "claimed"
  /\ sent[m] = <<>>
  /\ sent' = [sent EXCEPT ![m] = <<text[m]>>]
  /\ UNCHANGED <<phase, text>>

\* An answer settles the claim; a message nobody claimed may be cancelled.
Close(m) ==
  /\ \/ phase[m] = "open"
     \/ phase[m] = "claimed" /\ sent[m] # <<>>
  /\ phase' = [phase EXCEPT ![m] = "closed"]
  /\ UNCHANGED <<text, sent>>

Next == \E m \in Messages :
  \/ \E t \in Texts : Revise(m, t)
  \/ Claim(m) \/ Submit(m) \/ Close(m)

Spec == Init /\ [][Next]_vars
=============================================================================
