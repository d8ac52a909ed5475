-------------------------------- MODULE MCDesk --------------------------------
(* Small instances of Execution and Operations for TLC.  Both serve the order  *)
(* desk and share no row: a behaviour takes one of them, and of its commands   *)
(* those of one story.                                                         *)
EXTENDS Execution, Operations, TLC

CONSTANT
  Overlaps    \* bound: how often a handler may start while another is busy; an
              \* overlap counts for a command against MaxLead

VARIABLES story, overlaps
deskVars == <<dealVars, operationsVars, story, overlaps>>

Interchangeable == Permutations(Handlers) \cup Permutations(Offers)
                     \cup Permutations(Scenarios) \cup Permutations(Terms)

Doable ==
  [sourcing |-> {"candidate", "rfq", "offer"},
   pricing  |-> {"offer", "offer status", "scenario", "scenario status", "quotation"},
   stock    |-> {"purchase", "status", "movement", "reverse"},
   bills    |-> {"purchase", "status", "invoice", "payment"}]

MCInit == ExecutionInit /\ OperationsInit /\ overlaps = 0 /\ story \in DOMAIN Doable

-----------------------------------------------------------------------------
Busy == {h \in Handlers : at[h] # "idle"}

\* A request that the rules refuse when it arrives is left out: most of those
\* that overtake each other are refused later.  The lead is edited when that can
\* still disturb somebody, and statuses that no rule tells apart stand for each
\* other.
Worth(c) ==
  /\ c.do \in Doable[story] /\ Judged(c, Target(c))
  /\ c.do = "candidate" => c.status \in {"Candidate", "Removed"}
  /\ c.do = "offer status" => c.status # "Selected"

Deal ==
  /\ story \in {"sourcing", "pricing"} /\ ExecutionNext
  /\ overlaps' = IF Busy # {} /\ ~(Busy' \subseteq Busy) THEN overlaps + 1 ELSE overlaps
  /\ overlaps' <= Overlaps
  /\ \A h \in Handlers : at[h] = "idle" /\ at'[h] # "idle" =>
       Worth(asked'[h]) /\ lead + overlaps' < MaxLead
  /\ handlers' = handlers => \E h \in Handlers : at[h] \in {"rules", "commit"}
  /\ UNCHANGED <<operationsVars, story>>

-----------------------------------------------------------------------------
\* Ids are interchangeable: a new row takes the first that nobody uses.  A request
\* comes while the triggers would accept it, or comes again; managers are
\* interchangeable until one of them has ordered.
Timely(e) ==
  CASE e.do # "status" /\ Known(e) -> TRUE
    [] e.do = "purchase" -> AdmitsPurchase /\ e.by = "mo"
    [] e.do = "status" ->
         AdmitsStatus(e.on, [status |-> e.status, by |-> purchase[e.on].by,
           version |-> e.version + 1,
           approvedBy |-> IF e.status = "Approved" THEN e.by ELSE purchase[e.on].approvedBy])
    [] e.do \in {"movement", "reverse"} -> AdmitsMovement(Row(e))
    [] e.do = "invoice" -> AdmitsBill(Row(e))
    [] OTHER -> AdmitsPayment(Row(e))
Place == [m1 |-> 1, m2 |-> 2, m3 |-> 3, b1 |-> 1, b2 |-> 2, y1 |-> 1, y2 |-> 2]
InOrder(ids, on, table) ==
  on \in ids => \A i \in ids : Place[i] < Place[on] =>
    Written(table[i]) \/ \E c \in Clerks : doing[c] # "idle" /\ entry[c].on = i

Ledger ==
  /\ story \in {"stock", "bills"} /\ OperationsNext
  /\ \A c \in Clerks : doing[c] = "idle" /\ doing'[c] = "load" =>
       /\ entry'[c].do \in Doable[story] /\ Timely(entry'[c])
       /\ InOrder(Movements, entry'[c].on, movement)
       /\ InOrder(Bills, entry'[c].on, bill)
       /\ InOrder(Payments, entry'[c].on, payment)
  /\ UNCHANGED <<dealVars, story, overlaps>>

\* When the bounds are reached the desk rests.
Rest ==
  /\ Busy = {} /\ \A c \in Clerks : doing[c] = "idle"
  /\ UNCHANGED deskVars

MCNext == Deal \/ Rest \/ Ledger
MCSpec == MCInit /\ [][MCNext]_deskVars
=============================================================================
