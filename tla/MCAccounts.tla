------------------------------ MODULE MCAccounts ------------------------------
(* Small instances of Accounts for TLC: one person and the devices they sign in  *)
(* on, or two people who administer each other from one device.                  *)
EXTENDS Accounts, FiniteSets, TLC

CONSTANT Told     \* the stories of this instance

VARIABLE story

\* An MD, a second MD and an IT administrator, of whom each configuration takes
\* the ones it needs.
Roster == [mo |-> "MD", max |-> "MD", ivy |-> "IT Administrator"]
RoleOf == [p \in People |-> Roster[p]]

Interchangeable == Permutations(Requests) \cup Permutations(Ids) \cup Permutations(Links)

Heard ==
  [devices |-> {"sign in", "refresh", "sign out", "everywhere"},
   access  |-> {"sign in", "promote", "demote", "reactivate", "deactivate", "issue", "confirm"}]

MCInit == Init /\ story \in Told
MCNext ==
  /\ Next
  /\ \A w \in Requests : pc[w] = "idle" /\ pc'[w] # "idle" => req'[w].do \in Heard[story]
  /\ story = "devices" => \A i \in Ids : owner'[i] \in {NoId, "mo"}
  /\ story = "access" => Cardinality(Given') <= 1
  /\ UNCHANGED story
MCSpec == MCInit /\ [][MCNext]_<<vars, story>>
=============================================================================
