----------------------------- MODULE MCProspecting -----------------------------
(* Small instances of Prospecting for TLC. *)
EXTENDS Prospecting, TLC

CONSTANT Later  \* operations this instance makes only to retry one that is over

Over == {o \in Operations : op[o].status \in {"completed", "failed"}}

Idle(o) ==
  /\ op'[o].live = (op'[o].status = "prepared")
  /\ \A w \in Requests : on'[w] = o => pc'[w] = "insert" /\ from'[w] \in Over

MCNext == Next /\ \A o \in Later : Idle(o)
MCSpec == Init /\ [][MCNext]_vars
MCFairSpec == MCSpec /\ Fairness
=============================================================================
