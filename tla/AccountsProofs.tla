---------------------------- MODULE AccountsProofs ----------------------------
(***************************************************************************)
(* For any people, ids, links and number of concurrent requests: a device  *)
(* renews from one place and keeps one session, a reset link is spent      *)
(* once, and while nobody is demoted an MD remains.                        *)
(*                                                                         *)
(* The three device properties are inductive together once it is known     *)
(* that a family is named by an id already given out (Families) and that   *)
(* requests name such ids (Where): a fresh id then starts a family nobody  *)
(* else is in.                                                             *)
(***************************************************************************)
EXTENDS Accounts, TLAPS

DevicePCs == {"earlier", "retire", "known", "allowed", "rotate", "family", "issued",
              "revoke", "delete", "everywhere"}

\* The commands that end in updateUserAndRevokeSessions.
Admin == {"promote", "demote", "reactivate"}

\* What a request names at each label.
Where(w) ==
  /\ pc[w] # "idle" => req[w].do \in Doable /\ req[w].on \in People
  /\ pc[w] \in DevicePCs => req[w].id \in Given
  /\ pc[w] = "target" => req[w].do \in Admin \cup {"deactivate", "issue"}
  /\ pc[w] \in {"count", "change"} => req[w].do \in Admin
  /\ pc[w] \in {"redeem", "consequences"} => req[w].id \in Links

Families == \A i \in Given : origin[i] \in Given /\ owner[i] \in People
TokensGiven == \A i \in Ids : token[i] # "none" => i \in Given

\* A link not yet issued is unclaimed; one whose consequences are pending is claimed.
LinksMade ==
  /\ \A l \in links : l.id \in made
  /\ \A l \in Links : l \notin made => claims[l] = 0
  /\ \A w \in Requests : pc[w] = "consequences" => claims[req[w].id] = 1

Base == TypeOK /\ (\A w \in Requests : Where(w)) /\ Families /\ TokensGiven

-----------------------------------------------------------------------------
(* What the building blocks leave typed *)

LEMMA GotoTyped ==
  ASSUME TypeOK, NEW w \in Requests, NEW l \in PCs, Goto(w, l)
  PROVE  /\ pc' \in [Requests -> PCs] /\ seen' \in [Requests -> SUBSET Ids]
         /\ req' \in [Requests -> [do: Commands \cup {"nothing"},
                                   id: Ids \cup Links \cup {NoId}, on: People \cup {NoId}]]
         /\ \A v \in Requests : req'[v] = req[v] /\ (v # w => pc'[v] = pc[v])
         /\ pc'[w] = l
BY DEF TypeOK, Goto

LEMMA ForgetTyped ==
  ASSUME TypeOK, NEW w \in Requests, Forget(w)
  PROVE  /\ pc' \in [Requests -> PCs] /\ seen' \in [Requests -> SUBSET Ids]
         /\ req' \in [Requests -> [do: Commands \cup {"nothing"},
                                   id: Ids \cup Links \cup {NoId}, on: People \cup {NoId}]]
         /\ \A v \in Requests : v # w => req'[v] = req[v] /\ pc'[v] = pc[v]
         /\ pc'[w] = "idle"
<1>1. Idle \in [do: Commands \cup {"nothing"}, id: Ids \cup Links \cup {NoId}, on: People \cup {NoId}]
  BY DEF Idle
<1>2. "idle" \in PCs
  BY DEF PCs
<1> QED BY <1>1, <1>2 DEF TypeOK, Forget

LEMMA AskTyped ==
  ASSUME TypeOK, NEW w \in Requests, NEW do \in Commands, NEW id \in Ids \cup Links \cup {NoId},
         NEW on \in People, NEW l \in PCs, Ask(w, do, id, on, l)
  PROVE  /\ pc' \in [Requests -> PCs] /\ seen' \in [Requests -> SUBSET Ids]
         /\ req' \in [Requests -> [do: Commands \cup {"nothing"},
                                   id: Ids \cup Links \cup {NoId}, on: People \cup {NoId}]]
         /\ \A v \in Requests : v # w => req'[v] = req[v] /\ pc'[v] = pc[v]
         /\ pc[w] = "idle" /\ pc'[w] = l
         /\ req'[w] = [do |-> do, id |-> id, on |-> on] /\ do \in Doable
         /\ UNCHANGED <<people, resets>>
<1>1. [do |-> do, id |-> id, on |-> on] \in
        [do: Commands \cup {"nothing"}, id: Ids \cup Links \cup {NoId}, on: People \cup {NoId}]
  OBVIOUS
<1> QED BY <1>1 DEF TypeOK, Ask

LEMMA RemoveTyped ==
  ASSUME TypeOK, NEW T, NEW G, Remove(T, G)
  PROVE  /\ sessions' \subseteq sessions /\ sessions' = sessions \ G
         /\ token' \in [Ids -> {"none", "fresh", "lapsed", "used"}]
         /\ \A i \in Ids : token'[i] = token[i] \/ token'[i] = "none"
         /\ origin' = origin /\ owner' = owner /\ Given' = Given
BY DEF TypeOK, Remove, Given

LEMMA InsertTyped ==
  ASSUME TypeOK, NEW i \in Ids, NEW f \in Ids \cup {NoId}, NEW p \in People,
         NEW remembered, NEW before, InsertPair(i, f, p, remembered, before)
  PROVE  /\ i \notin Given /\ Given' = Given \cup {i}
         /\ sessions' = (sessions \ {before}) \cup {i} /\ sessions' \subseteq Given'
         /\ token' \in [Ids -> {"none", "fresh", "lapsed", "used"}]
         /\ origin' \in [Ids -> Ids \cup {NoId}] /\ owner' \in [Ids -> People \cup {NoId}]
         /\ \A j \in Ids \ {i} : token'[j] = token[j] /\ origin'[j] = origin[j] /\ owner'[j] = owner[j]
         /\ origin'[i] = (IF f = NoId THEN i ELSE f) /\ owner'[i] = p
<1>1. /\ i \notin Given
      /\ sessions' = (sessions \ {before}) \cup {i}
      /\ token' \in [Ids -> {"none", "fresh", "lapsed", "used"}]
      /\ origin' \in [Ids -> Ids \cup {NoId}] /\ owner' \in [Ids -> People \cup {NoId}]
      /\ \A j \in Ids \ {i} : token'[j] = token[j] /\ origin'[j] = origin[j] /\ owner'[j] = owner[j]
      /\ origin'[i] = (IF f = NoId THEN i ELSE f) /\ owner'[i] = p
  BY DEF TypeOK, InsertPair
<1>2. origin'[i] # NoId
  BY <1>1, NoIdIsNone
<1>3. Given' = Given \cup {i}
  BY <1>1, <1>2 DEF Given
<1> QED BY <1>1, <1>3 DEF TypeOK

-----------------------------------------------------------------------------
(* Types, and what requests name *)

LocalTypes ==
  /\ pc \in [Requests -> PCs] /\ seen \in [Requests -> SUBSET Ids]
  /\ req \in [Requests -> [do: Commands \cup {"nothing"}, id: Ids \cup Links \cup {NoId},
                            on: People \cup {NoId}]]
DeviceTypes ==
  /\ sessions \subseteq Given
  /\ token \in [Ids -> {"none", "fresh", "lapsed", "used"}]
  /\ origin \in [Ids -> Ids \cup {NoId}]
  /\ owner \in [Ids -> People \cup {NoId}]
  /\ Families /\ TokensGiven
ResetTypes ==
  /\ links \subseteq [id: Links, user: People] /\ made \subseteq Links
  /\ claims \in [Links -> Nat] /\ password \in [People -> Links \cup {First}]
PeopleTypes == role \in [People -> Roles] /\ active \subseteq People

LEMMA BaseParts ==
  Base <=> LocalTypes /\ DeviceTypes /\ ResetTypes /\ PeopleTypes
           /\ (\A w \in Requests : Where(w))
BY DEF Base, TypeOK, LocalTypes, DeviceTypes, ResetTypes, PeopleTypes

LEMMA Kept ==
  ASSUME Base
  PROVE  /\ UNCHANGED devices => DeviceTypes' /\ Given' = Given
         /\ UNCHANGED resets => ResetTypes'
         /\ UNCHANGED people => PeopleTypes'
BY BaseParts DEF devices, resets, people, DeviceTypes, ResetTypes, PeopleTypes, Families,
                 TokensGiven, Given

LEMMA RemoveKeeps ==
  ASSUME Base, NEW T, NEW G, Remove(T, G)
  PROVE  DeviceTypes' /\ Given' = Given
<1>1. TypeOK
  BY DEF Base
<1>2. /\ sessions' \subseteq Given /\ Given' = Given
      /\ token' \in [Ids -> {"none", "fresh", "lapsed", "used"}]
      /\ \A i \in Ids : token'[i] # "none" => token[i] # "none"
      /\ origin' = origin /\ owner' = owner
  BY <1>1, RemoveTyped DEF TypeOK
<1> QED BY <1>2 DEF Base, TypeOK, DeviceTypes, Families, TokensGiven

LEMMA InsertKeeps ==
  ASSUME Base, NEW i \in Ids, NEW f \in Given \cup {NoId}, NEW p \in People,
         NEW remembered, NEW before, InsertPair(i, f, p, remembered, before)
  PROVE  DeviceTypes' /\ Given' = Given \cup {i}
<1>1. TypeOK /\ f \in Ids \cup {NoId}
  BY DEF Base, Given
<1>2. /\ i \notin Given /\ Given' = Given \cup {i}
      /\ sessions' \subseteq Given'
      /\ token' \in [Ids -> {"none", "fresh", "lapsed", "used"}]
      /\ origin' \in [Ids -> Ids \cup {NoId}] /\ owner' \in [Ids -> People \cup {NoId}]
      /\ \A j \in Ids \ {i} : token'[j] = token[j] /\ origin'[j] = origin[j] /\ owner'[j] = owner[j]
      /\ origin'[i] = (IF f = NoId THEN i ELSE f) /\ owner'[i] = p
  <2>1. i \notin Given /\ Given' = Given \cup {i} /\ sessions' \subseteq Given'
    BY <1>1, InsertTyped
  <2>2. token' \in [Ids -> {"none", "fresh", "lapsed", "used"}]
    BY <1>1, InsertTyped
  <2> QED BY <1>1, <2>1, <2>2, InsertTyped
<1>3. Given \subseteq Ids
  BY DEF Given
<1>4. Families'
  BY <1>2, <1>3 DEF Base, Families
<1>5. TokensGiven'
  BY <1>2 DEF Base, TokensGiven
<1> QED BY <1>2, <1>4, <1>5 DEF DeviceTypes

\* A request that moves on, is answered or is asked leaves the others alone.
LEMMA WhereKept ==
  ASSUME Base, NEW w \in Requests, Given \subseteq Given', Where(w)',
         \A v \in Requests : v # w => req'[v] = req[v] /\ pc'[v] = pc[v]
  PROVE  \A v \in Requests : Where(v)'
<1>1. ASSUME NEW v \in Requests, v # w PROVE Where(v)'
  BY <1>1 DEF Base, Where
<1> QED BY <1>1

LEMMA ForgetBase ==
  ASSUME Base, NEW w \in Requests, Forget(w), DeviceTypes', ResetTypes', PeopleTypes',
         Given \subseteq Given'
  PROVE  Base'
<1>1. TypeOK
  BY DEF Base
<1>2. LocalTypes' /\ pc'[w] = "idle"
      /\ \A v \in Requests : v # w => req'[v] = req[v] /\ pc'[v] = pc[v]
  BY <1>1, ForgetTyped DEF LocalTypes
<1>3. Where(w)'
  BY <1>2 DEF Where, DevicePCs
<1>4. \A v \in Requests : Where(v)'
  BY <1>2, <1>3, WhereKept
<1> QED BY <1>2, <1>4 DEF Base, TypeOK, LocalTypes, DeviceTypes, ResetTypes, PeopleTypes

\* From one label of a command to the next.
LEMMA GotoBase ==
  ASSUME Base, NEW w \in Requests, NEW l \in PCs, Goto(w, l),
         DeviceTypes', ResetTypes', PeopleTypes', Given \subseteq Given',
         pc[w] # "idle",
         l \in DevicePCs => pc[w] \in DevicePCs,
         l \in {"count", "change"} => req[w].do \in Admin, l # "target",
         l \in {"redeem", "consequences"} => pc[w] = "redeem"
  PROVE  Base'
<1>1. TypeOK
  BY DEF Base
<1>2. LocalTypes' /\ pc'[w] = l /\ req'[w] = req[w]
      /\ \A v \in Requests : v # w => req'[v] = req[v] /\ pc'[v] = pc[v]
  BY <1>1, GotoTyped DEF LocalTypes
<1>3. Where(w)'
  BY <1>2 DEF Where, Base
<1>4. \A v \in Requests : Where(v)'
  BY <1>2, <1>3, WhereKept
<1> QED BY <1>2, <1>4 DEF Base, TypeOK, LocalTypes, DeviceTypes, ResetTypes, PeopleTypes

LEMMA AskBase ==
  ASSUME Base, NEW w \in Requests, NEW do \in Commands, NEW id \in Ids \cup Links \cup {NoId},
         NEW on \in People, NEW l \in PCs, Ask(w, do, id, on, l), DeviceTypes',
         Given \subseteq Given',
         l \in DevicePCs => id \in Given,
         l \notin {"count", "change"}, l = "target" => do \in Admin \cup {"deactivate", "issue"},
         l = "redeem" => id \in Links, l # "consequences"
  PROVE  Base'
<1>1. TypeOK
  BY DEF Base
<1>2. /\ LocalTypes' /\ pc'[w] = l /\ req'[w] = [do |-> do, id |-> id, on |-> on]
      /\ do \in Doable
      /\ \A v \in Requests : v # w => req'[v] = req[v] /\ pc'[v] = pc[v]
      /\ UNCHANGED <<people, resets>>
  BY <1>1, AskTyped DEF LocalTypes
<1>3. Where(w)'
  BY <1>2 DEF Where
<1>4. \A v \in Requests : Where(v)'
  BY <1>2, <1>3, WhereKept
<1>5. ResetTypes' /\ PeopleTypes'
  BY <1>2, Kept
<1> QED BY <1>2, <1>4, <1>5 DEF Base, TypeOK, LocalTypes, DeviceTypes, ResetTypes, PeopleTypes

LEMMA BaseInit == Init => Base
<1>1. Idle \in [do: Commands \cup {"nothing"}, id: Ids \cup Links \cup {NoId}, on: People \cup {NoId}]
  BY DEF Idle
<1>2. "idle" \in PCs
  BY DEF PCs
<1> QED BY <1>1, <1>2, RolesGiven
        DEF Init, Base, TypeOK, Where, Families, TokensGiven, Given, DevicePCs, First, NoId

LEMMA BaseStep == Base /\ [Next]_vars => Base'
<1> SUFFICES ASSUME Base, [Next]_vars PROVE Base'
  OBVIOUS
<1>t. TypeOK /\ Given \subseteq Ids /\ NoId \notin Given
  BY NoIdIsNone DEF Base, Given
<1>n. /\ {"earlier", "retire", "start", "known", "allowed", "rotate", "family", "issued", "revoke",
           "delete", "everywhere", "target", "count", "change", "deactivate", "after",
           "revokeAll", "issue", "redeem", "consequences", "idle"} = PCs
      /\ DevicePCs \subseteq PCs
  BY DEF PCs, DevicePCs
<1>a. ASSUME NEW w \in Requests, Answer(w) PROVE Base'
  BY <1>a, Kept, ForgetBase DEF Answer
<1>g. ASSUME NEW w \in Requests, NEW l \in PCs, Goto(w, l), UNCHANGED <<people, devices, resets>>,
             pc[w] # "idle", l \in DevicePCs => pc[w] \in DevicePCs,
             l \in {"count", "change"} => req[w].do \in Admin, l # "target",
             l \notin {"redeem", "consequences"}
      PROVE  Base'
  BY <1>g, Kept, GotoBase
<1>1. ASSUME NEW w \in Requests, AskSignIn(w) PROVE Base'
  <2>1. PICK p \in active, earlier \in Given \cup {NoId} :
          /\ Ask(w, "sign in", earlier, p, IF earlier = NoId THEN "start" ELSE "earlier")
          /\ UNCHANGED devices
    BY <1>1 DEF AskSignIn
  <2>2. p \in People /\ earlier \in Ids \cup Links \cup {NoId} /\ "sign in" \in Commands
    BY <1>t DEF TypeOK, Commands
  <2>3. DeviceTypes' /\ Given' = Given
    BY <2>1, Kept
  <2>4. CASE earlier = NoId
    BY <1>n, <2>1, <2>2, <2>3, <2>4, AskBase DEF DevicePCs
  <2>5. CASE earlier # NoId
    BY <1>n, <2>1, <2>2, <2>3, <2>5, AskBase DEF DevicePCs
  <2> QED BY <2>4, <2>5
<1>2. ASSUME NEW w \in Requests, FindEarlier(w) \/ CheckAllowed(w) \/ FindFamily(w) PROVE Base'
  BY <1>2, <1>g, <1>n DEF FindEarlier, CheckAllowed, FindFamily, DevicePCs
<1>3. ASSUME NEW w \in Requests, Retire(w) PROVE Base'
  BY <1>3, <1>n, RemoveKeeps, Kept, GotoBase DEF Retire, DevicePCs
<1>4. ASSUME NEW w \in Requests, Start(w) PROVE Base'
  <2>1. PICK i \in Ids, remember \in BOOLEAN : InsertPair(i, NoId, req[w].on, remember, NoId)
    BY <1>4 DEF Start
  <2>2. req[w].on \in People
    BY <1>4 DEF Start, Base, Where
  <2>3. DeviceTypes' /\ Given \subseteq Given'
    BY <2>1, <2>2, InsertKeeps
  <2> QED BY <1>4, <2>3, Kept, ForgetBase DEF Start
<1>5. ASSUME NEW w \in Requests, AskRefresh(w) PROVE Base'
  <2>1. PICK i \in Given :
          /\ Ask(w, "refresh", i, owner[i], IF Claimable(i) THEN "allowed" ELSE "known")
          /\ token' = IF Claimable(i) THEN [token EXCEPT ![i] = "used"] ELSE token
          /\ UNCHANGED <<sessions, origin, owner>>
    BY <1>5 DEF AskRefresh
  <2>2. owner[i] \in People /\ "refresh" \in Commands /\ i \in Ids \cup Links \cup {NoId}
    BY <1>t DEF Base, Families, Commands
  <2>3. DeviceTypes' /\ Given' = Given
    BY <2>1 DEF Base, TypeOK, DeviceTypes, Families, TokensGiven, Given
  <2>4. CASE Claimable(i)
    BY <1>n, <2>1, <2>2, <2>3, <2>4, AskBase DEF DevicePCs
  <2>5. CASE ~Claimable(i)
    BY <1>n, <2>1, <2>2, <2>3, <2>5, AskBase DEF DevicePCs
  <2> QED BY <2>4, <2>5
<1>6. ASSUME NEW w \in Requests, Known(w) PROVE Base'
  BY <1>6, <1>a, <1>g, <1>n DEF Known, DevicePCs
<1>7. ASSUME NEW w \in Requests, Rotate(w) PROVE Base'
  <2>1. PICK i \in Ids : InsertPair(i, origin[req[w].id], req[w].on, TRUE, Previous(w))
    BY <1>7 DEF Rotate
  <2>2. req[w].on \in People /\ origin[req[w].id] \in Given
    BY <1>7 DEF Rotate, Base, Where, Families, DevicePCs
  <2>3. DeviceTypes' /\ Given \subseteq Given'
    BY <2>1, <2>2, InsertKeeps
  <2> QED BY <1>7, <2>3, Kept, ForgetBase DEF Rotate
<1>8. ASSUME NEW w \in Requests, AskSignOut(w) \/ AskEverywhere(w) PROVE Base'
  <2>1. PICK i \in Given, do \in {"sign out", "everywhere"}, l \in {"family", "everywhere"} :
          Ask(w, do, i, owner[i], l) /\ UNCHANGED devices
    BY <1>8, <1>t DEF AskSignOut, AskEverywhere, TypeOK
  <2>2. owner[i] \in People /\ do \in Commands /\ i \in Ids \cup Links \cup {NoId}
    BY <1>t DEF Base, Families, Commands
  <2>3. DeviceTypes' /\ Given' = Given
    BY <2>1, Kept
  <2> QED BY <1>n, <2>1, <2>2, <2>3, AskBase
<1>9. ASSUME NEW w \in Requests, Everywhere(w) PROVE Base'
  BY <1>9, <1>n, RemoveKeeps, Kept, GotoBase DEF Everywhere, DevicePCs
<1>10. ASSUME NEW w \in Requests, ReadIssued(w) PROVE Base'
  <2>1. /\ pc'[w] = "revoke" /\ req' = req
        /\ \A v \in Requests : v # w => pc'[v] = pc[v]
        /\ pc' \in [Requests -> PCs] /\ seen' \in [Requests -> SUBSET Ids]
    BY <1>10, <1>n, <1>t DEF ReadIssued, TypeOK, Family
  <2>2. LocalTypes' /\ Where(w)'
    BY <1>10, <1>t, <2>1 DEF ReadIssued, TypeOK, LocalTypes, Where, Base, Given, DevicePCs, devices
  <2>3. DeviceTypes' /\ ResetTypes' /\ PeopleTypes' /\ Given' = Given
    BY <1>10, Kept DEF ReadIssued
  <2>4. \A v \in Requests : Where(v)'
    BY <2>1, <2>2, <2>3, WhereKept
  <2> QED BY <2>2, <2>3, <2>4 DEF Base, TypeOK, LocalTypes, DeviceTypes, ResetTypes, PeopleTypes
<1>11. ASSUME NEW w \in Requests, RevokeFamily(w) PROVE Base'
  BY <1>11, <1>n, RemoveKeeps, Kept, GotoBase, ForgetBase DEF RevokeFamily, DevicePCs
<1>12. ASSUME NEW w \in Requests, DeleteSession(w) PROVE Base'
  BY <1>12, RemoveKeeps, Kept, ForgetBase DEF DeleteSession
<1>13. ASSUME NEW w \in Requests, AskAdmin(w) PROVE Base'
  <2>1. PICK i \in sessions, p \in People,
             do \in Admin \cup {"deactivate", "issue"} :
          Ask(w, do, i, p, "target") /\ UNCHANGED devices
    BY <1>13 DEF AskAdmin, Admin
  <2>2. do \in Commands /\ i \in Ids \cup Links \cup {NoId}
    BY <1>t DEF TypeOK, Commands, Admin
  <2>3. DeviceTypes' /\ Given' = Given
    BY <2>1, Kept
  <2> QED BY <1>n, <2>1, <2>2, <2>3, AskBase DEF DevicePCs
<1>14. ASSUME NEW w \in Requests, ReadTarget(w) PROVE Base'
  <2>1. CASE Answer(w)
    BY <1>a, <2>1
  <2>2. CASE ~Answer(w)
    <3>1. PICK l \in {"issue", "deactivate", "count", "change"} :
            /\ Goto(w, l) /\ UNCHANGED <<people, devices, resets>>
            /\ l \in {"count", "change"} => req[w].do \notin {"issue", "deactivate"}
      BY <1>14, <2>2 DEF ReadTarget
    <3>2. pc[w] = "target" /\ req[w].do \in Admin \cup {"deactivate", "issue"}
      BY <1>14 DEF ReadTarget, Base, Where
    <3> QED BY <3>1, <3>2, <1>g, <1>n DEF DevicePCs
  <2> QED BY <2>1, <2>2
<1>15. ASSUME NEW w \in Requests, CountMDs(w) PROVE Base'
  <2>1. req[w].do \in Admin /\ pc[w] = "count"
    BY <1>15 DEF CountMDs, Base, Where
  <2> QED BY <1>15, <2>1, <1>a, <1>g, <1>n DEF CountMDs, DevicePCs
<1>16. ASSUME NEW p \in People, RevokeAll(p)
       PROVE  DeviceTypes' /\ ResetTypes' /\ Given' = Given
  BY <1>16, <1>t, RemoveKeeps DEF RevokeAll, TypeOK, ResetTypes
<1>17. ASSUME NEW w \in Requests, Change(w) PROVE Base'
  <2>1. req[w].on \in People
    BY <1>17 DEF Change, Base, Where
  <2>2. PeopleTypes'
    <3>1. CASE req[w].do = "promote"
      BY <1>17, <1>t, <2>1, <3>1 DEF Change, TypeOK, PeopleTypes, Roles
    <3>2. CASE req[w].do = "demote"
      BY <1>17, <1>t, <2>1, <3>2 DEF Change, TypeOK, PeopleTypes, Roles
    <3>3. CASE req[w].do \notin {"promote", "demote"}
      BY <1>17, <1>t, <2>1, <3>3 DEF Change, TypeOK, PeopleTypes
    <3> QED BY <3>1, <3>2, <3>3
  <2>3. RevokeAll(req[w].on) /\ Forget(w)
    BY <1>17 DEF Change
  <2> QED BY <1>16, <2>1, <2>2, <2>3, ForgetBase
<1>18. ASSUME NEW w \in Requests, Deactivate(w) PROVE Base'
  <2>1. PeopleTypes' /\ pc[w] = "deactivate" /\ Goto(w, "after") /\ UNCHANGED <<devices, resets>>
    BY <1>18, <1>t DEF Deactivate, TypeOK, PeopleTypes
  <2> QED BY <2>1, <1>n, Kept, GotoBase DEF DevicePCs, Admin
<1>19. ASSUME NEW w \in Requests, ReadAfter(w) PROVE Base'
  BY <1>19, <1>a, <1>g, <1>n DEF ReadAfter, DevicePCs
<1>20. ASSUME NEW w \in Requests, RevokeDeactivated(w) PROVE Base'
  <2>1. req[w].on \in People
    BY <1>20 DEF RevokeDeactivated, Base, Where
  <2> QED BY <1>20, <1>16, <2>1, Kept, ForgetBase DEF RevokeDeactivated
<1>21. ASSUME NEW w \in Requests, Issue(w) PROVE Base'
  <2>1. req[w].on \in People
    BY <1>21 DEF Issue, Base, Where
  <2>2. ResetTypes'
    BY <1>21, <1>t, <2>1 DEF Issue, Others, TypeOK, ResetTypes
  <2> QED BY <1>21, <2>2, Kept, ForgetBase DEF Issue
<1>22. ASSUME NEW w \in Requests, AskConfirm(w) PROVE Base'
  <2>1. PICK l \in links : Ask(w, "confirm", l.id, l.user, "redeem") /\ UNCHANGED devices
    BY <1>22 DEF AskConfirm
  <2>2. l.id \in Links /\ l.user \in People /\ "confirm" \in Commands
    BY <1>t DEF TypeOK, Commands
  <2>3. DeviceTypes' /\ Given' = Given
    BY <2>1, Kept
  <2> QED BY <1>n, <2>1, <2>2, <2>3, AskBase DEF DevicePCs
<1>23. ASSUME NEW w \in Requests, Redeem(w) PROVE Base'
  <2>1. CASE Redeemable(w)
    <3>1. req[w].id \in Links
      BY <1>23 DEF Redeem, Base, Where
    <3>2. /\ links' \subseteq links /\ made' = made /\ password' = password
          /\ claims' = [claims EXCEPT ![req[w].id] = @ + 1]
      BY <1>23, <2>1 DEF Redeem
    <3>3. ResetTypes'
      BY <1>t, <3>1, <3>2 DEF TypeOK, ResetTypes
    <3> QED BY <1>23, <2>1, <1>n, <3>3, Kept, GotoBase DEF Redeem, DevicePCs, Admin
  <2>2. CASE ~Redeemable(w)
    BY <1>23, <1>a, <2>2 DEF Redeem
  <2> QED BY <2>1, <2>2
<1>24. ASSUME NEW w \in Requests, Consequences(w) PROVE Base'
  <2>1. req[w].id \in Links /\ req[w].on \in People
    BY <1>24 DEF Consequences, Base, Where
  <2>2. ResetTypes'
    BY <1>24, <1>t, <2>1 DEF Consequences, TypeOK, ResetTypes
  <2> QED BY <1>24, <2>2, RemoveKeeps, Kept, ForgetBase DEF Consequences
<1>25. ASSUME NEW w \in Requests, Lose(w) PROVE Base'
  BY <1>25, <1>a DEF Lose
<1>26. ASSUME Time PROVE Base'
  <2>1. UNCHANGED local /\ UNCHANGED people
    BY <1>26 DEF Time, LapseSession, LapseToken, PurgeToken, LapseLink
  <2>2. DeviceTypes' /\ Given' = Given
    <3>1. ASSUME NEW i \in Ids, LapseSession(i) \/ PurgeToken(i) PROVE DeviceTypes' /\ Given' = Given
      BY <3>1, RemoveKeeps DEF LapseSession, PurgeToken
    <3>2. ASSUME NEW i \in Ids, LapseToken(i) PROVE DeviceTypes' /\ Given' = Given
      BY <3>2 DEF LapseToken, Base, TypeOK, DeviceTypes, Families, TokensGiven, Given
    <3>3. ASSUME NEW l \in links, LapseLink(l) PROVE DeviceTypes' /\ Given' = Given
      BY <3>3, Kept DEF LapseLink
    <3> QED BY <1>26, <3>1, <3>2, <3>3 DEF Time
  <2>3. ResetTypes'
    BY <1>26, <1>t, Kept DEF Time, LapseSession, LapseToken, PurgeToken, LapseLink, TypeOK, ResetTypes
  <2> QED BY <2>1, <2>2, <2>3, Kept
          DEF Base, TypeOK, DeviceTypes, ResetTypes, PeopleTypes, local, Where
<1>27. CASE UNCHANGED vars
  BY <1>27, Kept DEF vars, local, Base, TypeOK, DeviceTypes, ResetTypes, PeopleTypes, Where
<1> QED BY <1>1, <1>2, <1>3, <1>4, <1>5, <1>6, <1>7, <1>8, <1>9, <1>10, <1>11, <1>12, <1>13, <1>14,
           <1>15, <1>17, <1>18, <1>19, <1>20, <1>21, <1>22, <1>23, <1>24, <1>25, <1>26, <1>27
        DEF Next, Step

-----------------------------------------------------------------------------
(* One place to renew from, one session *)

Devices == OneRenewalPerDevice /\ OneSessionPerDevice

\* Steps that hand out nothing: rows only go, and nobody starts to renew.
LEMMA Quiet ==
  ASSUME Devices, origin' = origin, Unused' \subseteq Unused, sessions' \subseteq sessions,
         \A w \in Requests : Renewing(w)' => Renewing(w) /\ req'[w] = req[w]
  PROVE  Devices'
BY DEF Devices, OneRenewalPerDevice, OneSessionPerDevice, FamilyOf

LEMMA QuietRemove ==
  ASSUME Base, Devices, NEW T, NEW G, Remove(T, G),
         \A w \in Requests : Renewing(w)' => Renewing(w) /\ req'[w] = req[w]
  PROVE  Devices'
<1>1. TypeOK
  BY DEF Base
<1>2. /\ sessions' \subseteq sessions /\ origin' = origin
      /\ \A i \in Ids : token'[i] = token[i] \/ token'[i] = "none"
  BY <1>1, RemoveTyped
<1>3. Unused' \subseteq Unused
  BY <1>2 DEF Unused
<1> QED BY <1>2, <1>3, Quiet

LEMMA DevicesStep == Base /\ Devices /\ [Next]_vars => Devices'
<1> SUFFICES ASSUME Base, Devices, [Next]_vars PROVE Devices'
  OBVIOUS
<1>t. TypeOK /\ Given \subseteq Ids /\ sessions \subseteq Given /\ Unused \subseteq Given
  BY DEF Base, TypeOK, Given, TokensGiven, Unused
\* Requests: who moves to a label that does not renew.
<1>q. ASSUME NEW w \in Requests, pc'[w] \notin {"allowed", "rotate"},
             \A v \in Requests : v # w => pc'[v] = pc[v] /\ req'[v] = req[v]
      PROVE  \A v \in Requests : Renewing(v)' => Renewing(v) /\ req'[v] = req[v]
  BY <1>q DEF Renewing
<1>k. ASSUME UNCHANGED devices,
             \A v \in Requests : Renewing(v)' => Renewing(v) /\ req'[v] = req[v]
      PROVE  Devices'
  BY <1>k, Quiet DEF devices, Unused
<1>f. ASSUME NEW w \in Requests, Forget(w)
      PROVE  \A v \in Requests : Renewing(v)' => Renewing(v) /\ req'[v] = req[v]
  BY <1>t, <1>f, <1>q, ForgetTyped
<1>g. ASSUME NEW w \in Requests, NEW l \in PCs \ {"allowed", "rotate"}, Goto(w, l)
      PROVE  \A v \in Requests : Renewing(v)' => Renewing(v) /\ req'[v] = req[v]
  BY <1>t, <1>g, <1>q, GotoTyped
<1>n. {"earlier", "retire", "start", "known", "family", "issued", "revoke", "idle",
       "delete", "everywhere", "target", "count", "change", "deactivate", "after",
       "revokeAll", "issue", "redeem", "consequences"} = PCs \ {"allowed", "rotate"}
  BY DEF PCs
<1>a. ASSUME NEW w \in Requests, Answer(w) PROVE Devices'
  BY <1>a, <1>f, <1>k DEF Answer
<1>s. ASSUME NEW w \in Requests, NEW do, NEW id, NEW on, NEW l \in PCs \ {"allowed", "rotate"},
             Ask(w, do, id, on, l), UNCHANGED devices
      PROVE  Devices'
  <2>1. pc'[w] = l /\ \A v \in Requests : v # w => pc'[v] = pc[v] /\ req'[v] = req[v]
    BY <1>t, <1>s DEF Ask, TypeOK
  <2> QED BY <1>q, <1>k, <1>s, <2>1
<1>1. ASSUME NEW w \in Requests, AskSignIn(w) PROVE Devices'
  <2>1. PICK p \in active, earlier \in Given \cup {NoId} :
          /\ Ask(w, "sign in", earlier, p, IF earlier = NoId THEN "start" ELSE "earlier")
          /\ UNCHANGED devices
    BY <1>1 DEF AskSignIn
  <2>2. CASE earlier = NoId
    BY <1>n, <1>s, <2>1, <2>2
  <2>3. CASE earlier # NoId
    BY <1>n, <1>s, <2>1, <2>3
  <2> QED BY <2>2, <2>3
<1>2. ASSUME NEW w \in Requests, FindEarlier(w) \/ FindFamily(w) PROVE Devices'
  BY <1>2, <1>g, <1>k, <1>n DEF FindEarlier, FindFamily
<1>3. ASSUME NEW w \in Requests, CheckAllowed(w) PROVE Devices'
  <2>1. PICK l \in PCs : Goto(w, l) /\ UNCHANGED devices /\ pc[w] = "allowed"
    BY <1>3 DEF CheckAllowed, PCs
  <2>2. \A v \in Requests : req'[v] = req[v] /\ (v # w => pc'[v] = pc[v])
    BY <1>t, <2>1, GotoTyped
  <2>3. \A v \in Requests : Renewing(v)' => Renewing(v) /\ req'[v] = req[v]
    BY <2>1, <2>2 DEF Renewing
  <2> QED BY <1>k, <2>1, <2>3
<1>4. ASSUME NEW w \in Requests, Retire(w) \/ RevokeFamily(w) \/ DeleteSession(w) \/ Everywhere(w)
      PROVE  Devices'
  <2>1. PICK T, G : Remove(T, G)
    BY <1>4 DEF Retire, RevokeFamily, DeleteSession, Everywhere
  <2>2. \A v \in Requests : Renewing(v)' => Renewing(v) /\ req'[v] = req[v]
    BY <1>4, <1>f, <1>g, <1>n DEF Retire, RevokeFamily, DeleteSession, Everywhere
  <2> QED BY <2>1, <2>2, QuietRemove
<1>5. ASSUME NEW w \in Requests, Start(w) PROVE Devices'
  <2>1. PICK i \in Ids, remember \in BOOLEAN : InsertPair(i, NoId, req[w].on, remember, NoId)
    BY <1>5 DEF Start
  <2>2. /\ i \notin Given
        /\ sessions' = (sessions \ {NoId}) \cup {i}
        /\ \A j \in Ids \ {i} : token'[j] = token[j] /\ origin'[j] = origin[j]
        /\ origin'[i] = i
    BY <1>t, <2>1 DEF InsertPair, TypeOK
  <2>3. \A j \in Given : j # i /\ origin'[j] = origin[j] /\ origin'[j] # i
    BY <1>t, <2>2 DEF Base, Families
  <2>4. Unused' \subseteq Unused \cup {i} /\ sessions' \subseteq sessions \cup {i}
    BY <2>2 DEF Unused
  <2>5. \A v \in Requests : Renewing(v)' => Renewing(v) /\ FamilyOf(v)' = FamilyOf(v)
                                            /\ FamilyOf(v)' # i /\ req'[v] = req[v]
    BY <1>5, <1>f, <2>3 DEF Start, Renewing, FamilyOf, Base, Where, DevicePCs
  <2> QED BY <1>t, <2>2, <2>3, <2>4, <2>5 DEF Devices, OneRenewalPerDevice, OneSessionPerDevice
<1>6. ASSUME NEW w \in Requests, AskRefresh(w) PROVE Devices'
  <2>1. PICK i \in Given :
          /\ Ask(w, "refresh", i, owner[i], IF Claimable(i) THEN "allowed" ELSE "known")
          /\ token' = IF Claimable(i) THEN [token EXCEPT ![i] = "used"] ELSE token
          /\ UNCHANGED <<sessions, origin, owner>>
    BY <1>6 DEF AskRefresh
  <2>2. CASE ~Claimable(i)
    BY <1>n, <1>s, <2>1, <2>2 DEF devices
  <2>3. CASE Claimable(i)
    <3>1. /\ pc[w] = "idle" /\ pc'[w] = "allowed" /\ req'[w].id = i
          /\ \A v \in Requests : v # w => pc'[v] = pc[v] /\ req'[v] = req[v]
      BY <1>t, <2>1, <2>3 DEF Ask, TypeOK
    <3>2. i \in Unused /\ Unused' = Unused \ {i}
      BY <1>t, <2>1, <2>3 DEF Claimable, Unused, TypeOK
    <3>3. FamilyOf(w)' = origin[i] /\ \A v \in Requests : v # w => FamilyOf(v)' = FamilyOf(v)
      BY <2>1, <3>1 DEF FamilyOf
    <3>4. \A v \in Requests : v # w => (Renewing(v)' <=> Renewing(v))
      BY <3>1 DEF Renewing
    <3>5. OneRenewalPerDevice'
      BY <1>t, <2>1, <3>1, <3>2, <3>3, <3>4 DEF Devices, OneRenewalPerDevice
    <3>6. OneSessionPerDevice'
      BY <1>t, <2>1, <3>1, <3>2, <3>3, <3>4 DEF Devices, OneSessionPerDevice
    <3> QED BY <3>5, <3>6 DEF Devices
  <2> QED BY <2>2, <2>3
<1>7. ASSUME NEW w \in Requests, Known(w) PROVE Devices'
  BY <1>7, <1>a, <1>g, <1>k, <1>n DEF Known
<1>8. ASSUME NEW w \in Requests, Rotate(w) PROVE Devices'
  <2>1. PICK i \in Ids : InsertPair(i, origin[req[w].id], req[w].on, TRUE, Previous(w))
    BY <1>8 DEF Rotate
  <2>2. /\ req[w].id \in Given /\ FamilyOf(w) \in Given /\ Renewing(w)
    BY <1>8 DEF Rotate, Base, Where, Families, DevicePCs, FamilyOf, Renewing
  <2>3. /\ i \notin Given
        /\ sessions' = (sessions \ {req[w].id}) \cup {i}
        /\ \A j \in Ids \ {i} : token'[j] = token[j] /\ origin'[j] = origin[j]
        /\ origin'[i] = FamilyOf(w)
    BY <1>t, <2>1, <2>2, NoIdIsNone DEF InsertPair, TypeOK, Previous, FamilyOf
  <2>4. \A j \in Given : j # i /\ origin'[j] = origin[j]
    BY <1>t, <2>3
  <2>5. Unused' \subseteq Unused \cup {i}
    BY <2>3 DEF Unused
  <2>6. \A v \in Requests : Renewing(v)' => /\ Renewing(v) /\ v # w
                                            /\ FamilyOf(v)' = FamilyOf(v) /\ req'[v] = req[v]
    <3>1. pc'[w] = "idle" /\ \A v \in Requests : v # w => pc'[v] = pc[v] /\ req'[v] = req[v]
      BY <1>8, <1>t, ForgetTyped DEF Rotate
    <3> QED BY <2>4, <3>1 DEF Renewing, FamilyOf, Base, Where, DevicePCs
  <2>7. \A j \in Unused : origin[j] # FamilyOf(w)
    BY <2>2 DEF Devices, OneRenewalPerDevice
  <2>8. \A j \in sessions' \ {i} : j \in sessions /\ j # req[w].id /\ origin[j] # FamilyOf(w)
    BY <2>2, <2>3 DEF Devices, OneSessionPerDevice
  <2>9. OneRenewalPerDevice'
    BY <1>t, <2>2, <2>3, <2>4, <2>5, <2>6, <2>7 DEF Devices, OneRenewalPerDevice
  <2>10. OneSessionPerDevice'
    BY <1>t, <2>2, <2>3, <2>4, <2>5, <2>6, <2>7, <2>8 DEF Devices, OneRenewalPerDevice, OneSessionPerDevice
  <2> QED BY <2>9, <2>10 DEF Devices
<1>9. ASSUME NEW w \in Requests, AskSignOut(w) \/ AskEverywhere(w) PROVE Devices'
  BY <1>9, <1>n, <1>s DEF AskSignOut, AskEverywhere
<1>10. ASSUME NEW w \in Requests, ReadIssued(w) PROVE Devices'
  <2>1. pc'[w] = "revoke" /\ \A v \in Requests : v # w => pc'[v] = pc[v] /\ req'[v] = req[v]
    BY <1>10, <1>t DEF ReadIssued, TypeOK
  <2> QED BY <1>10, <1>q, <1>k, <2>1 DEF ReadIssued
<1>11. ASSUME NEW w \in Requests, AskAdmin(w) \/ AskConfirm(w) PROVE Devices'
  BY <1>11, <1>n, <1>s DEF AskAdmin, AskConfirm
<1>12. ASSUME NEW w \in Requests, ReadTarget(w) PROVE Devices'
  <2>1. CASE Answer(w)
    BY <1>a, <2>1
  <2>2. CASE ~Answer(w)
    <3>1. PICK l \in {"issue", "deactivate", "count", "change"} :
            Goto(w, l) /\ UNCHANGED <<people, devices, resets>>
      BY <1>12, <2>2 DEF ReadTarget
    <3> QED BY <3>1, <1>g, <1>k, <1>n
  <2> QED BY <2>1, <2>2
<1>13. ASSUME NEW w \in Requests, CountMDs(w) \/ ReadAfter(w) \/ Deactivate(w) PROVE Devices'
  BY <1>13, <1>a, <1>g, <1>k, <1>n DEF CountMDs, ReadAfter, Deactivate
<1>14. ASSUME NEW w \in Requests, Change(w) \/ RevokeDeactivated(w) PROVE Devices'
  <2>1. RevokeAll(req[w].on) /\ Forget(w)
    BY <1>14 DEF Change, RevokeDeactivated
  <2> QED BY <1>f, <2>1, QuietRemove DEF RevokeAll
<1>15. ASSUME NEW w \in Requests, Issue(w) PROVE Devices'
  BY <1>15, <1>f, <1>k DEF Issue
<1>16. ASSUME NEW w \in Requests, Redeem(w) PROVE Devices'
  BY <1>16, <1>a, <1>g, <1>k, <1>n DEF Redeem
<1>17. ASSUME NEW w \in Requests, Consequences(w) PROVE Devices'
  BY <1>17, <1>f, QuietRemove DEF Consequences
<1>18. ASSUME NEW w \in Requests, Lose(w) PROVE Devices'
  BY <1>18, <1>a DEF Lose
<1>19. ASSUME Time PROVE Devices'
  <2>1. \A v \in Requests : Renewing(v)' => Renewing(v) /\ req'[v] = req[v]
    BY <1>19 DEF Time, LapseSession, LapseToken, PurgeToken, LapseLink, local, Renewing
  <2>2. ASSUME NEW i \in Ids, LapseSession(i) \/ PurgeToken(i) PROVE Devices'
    BY <2>1, <2>2, QuietRemove DEF LapseSession, PurgeToken
  <2>3. ASSUME NEW i \in Ids, LapseToken(i) PROVE Devices'
    <3>1. Unused' \subseteq Unused /\ origin' = origin /\ sessions' = sessions
      BY <1>t, <2>3 DEF LapseToken, Unused, TypeOK
    <3> QED BY <2>1, <3>1, Quiet
  <2>4. ASSUME NEW l \in links, LapseLink(l) PROVE Devices'
    BY <1>k, <2>1, <2>4 DEF LapseLink
  <2> QED BY <1>19, <2>2, <2>3, <2>4 DEF Time
<1>20. CASE UNCHANGED vars
  BY <1>20, <1>k DEF vars, local, Renewing
<1> QED BY <1>1, <1>2, <1>3, <1>4, <1>5, <1>6, <1>7, <1>8, <1>9, <1>10, <1>11, <1>12, <1>13, <1>14,
           <1>15, <1>16, <1>17, <1>18, <1>19, <1>20 DEF Next, Step

LEMMA DevicesInit == Init => Devices
BY DEF Init, Devices, OneRenewalPerDevice, OneSessionPerDevice, Unused, Renewing

-----------------------------------------------------------------------------
(* Reset links *)

LinksSpent == LinkIsSpentOnce /\ LinksMade

LEMMA LinksInit == Base /\ Init => LinksSpent
BY DEF Init, LinksSpent, LinkIsSpentOnce, LinksMade, Base, TypeOK

\* Links may go and requests may move, short of a claim.
LEMMA QuietLinks ==
  ASSUME LinksSpent, links' \subseteq links, UNCHANGED <<made, claims, password>>,
         \A v \in Requests : pc'[v] = "consequences" => pc[v] = "consequences" /\ req'[v] = req[v]
  PROVE  LinksSpent'
<1>1. LinksMade'
  BY DEF LinksSpent, LinksMade
<1>2. LinkIsSpentOnce'
  BY DEF LinksSpent, LinkIsSpentOnce
<1> QED BY <1>1, <1>2 DEF LinksSpent

LEMMA LinksStep == Base /\ LinksSpent /\ [Next]_vars => LinksSpent'
<1> SUFFICES ASSUME Base, LinksSpent, [Next]_vars PROVE LinksSpent'
  OBVIOUS
<1>t. TypeOK
  BY DEF Base
<1>g. ASSUME NEW w \in Requests, NEW l \in PCs, Goto(w, l), l # "consequences"
      PROVE  \A v \in Requests : pc'[v] = "consequences" => pc[v] = "consequences" /\ req'[v] = req[v]
  BY <1>g, <1>t DEF Goto, TypeOK
<1>f. ASSUME NEW w \in Requests, Forget(w)
      PROVE  \A v \in Requests : pc'[v] = "consequences"
                                   => v # w /\ pc[v] = "consequences" /\ req'[v] = req[v]
  BY <1>f, <1>t, ForgetTyped
<1>k. ASSUME NEW w \in Requests, NEW do, NEW id, NEW on, NEW l \in PCs, Ask(w, do, id, on, l),
             l # "consequences"
      PROVE  LinksSpent'
  <2>1. \A v \in Requests : pc'[v] = "consequences" => pc[v] = "consequences" /\ req'[v] = req[v]
    BY <1>k, <1>t DEF Ask, TypeOK
  <2> QED BY <1>k, <2>1, QuietLinks DEF Ask, resets
<1>n. {"earlier", "retire", "start", "known", "allowed", "rotate", "family", "issued", "revoke",
       "delete", "everywhere", "target", "count", "change", "deactivate", "after", "revokeAll",
       "issue", "redeem", "idle"} \subseteq PCs
  BY DEF PCs
<1>a. ASSUME NEW w \in Requests, Answer(w) PROVE LinksSpent'
  BY <1>a, <1>f, QuietLinks DEF Answer, resets
<1>m. ASSUME NEW w \in Requests, NEW l \in PCs, Goto(w, l), l # "consequences", UNCHANGED resets
      PROVE  LinksSpent'
  BY <1>m, <1>g, QuietLinks DEF resets
<1>r. ASSUME NEW w \in Requests, Forget(w), UNCHANGED resets PROVE LinksSpent'
  BY <1>r, <1>f, QuietLinks DEF resets
<1>1. ASSUME NEW w \in Requests,
             AskSignIn(w) \/ AskRefresh(w) \/ AskSignOut(w) \/ AskEverywhere(w) \/ AskAdmin(w)
             \/ AskConfirm(w)
      PROVE  LinksSpent'
  <2>1. CASE AskSignIn(w)
    <3>1. PICK p \in active, earlier \in Given \cup {NoId} :
            Ask(w, "sign in", earlier, p, IF earlier = NoId THEN "start" ELSE "earlier")
      BY <2>1 DEF AskSignIn
    <3> QED BY <3>1, <1>k, <1>n
  <2>2. CASE AskRefresh(w)
    <3>1. PICK i \in Given : Ask(w, "refresh", i, owner[i], IF Claimable(i) THEN "allowed" ELSE "known")
      BY <2>2 DEF AskRefresh
    <3> QED BY <3>1, <1>k, <1>n
  <2>3. CASE AskSignOut(w) \/ AskEverywhere(w)
    BY <2>3, <1>k, <1>n DEF AskSignOut, AskEverywhere
  <2>4. CASE AskAdmin(w) \/ AskConfirm(w)
    BY <2>4, <1>k, <1>n DEF AskAdmin, AskConfirm
  <2> QED BY <1>1, <2>1, <2>2, <2>3, <2>4
<1>2. ASSUME NEW w \in Requests,
             FindEarlier(w) \/ Retire(w) \/ CheckAllowed(w) \/ Everywhere(w) \/ FindFamily(w)
      PROVE  LinksSpent'
  BY <1>2, <1>m, <1>n DEF FindEarlier, Retire, CheckAllowed, Everywhere, FindFamily
<1>3. ASSUME NEW w \in Requests, Start(w) \/ Rotate(w) \/ DeleteSession(w) PROVE LinksSpent'
  BY <1>3, <1>r DEF Start, Rotate, DeleteSession
<1>4. ASSUME NEW w \in Requests, Known(w) \/ CountMDs(w) \/ ReadAfter(w) PROVE LinksSpent'
  BY <1>4, <1>a, <1>m, <1>n DEF Known, CountMDs, ReadAfter
<1>5. ASSUME NEW w \in Requests, RevokeFamily(w) PROVE LinksSpent'
  BY <1>5, <1>m, <1>r, <1>n DEF RevokeFamily
<1>6. ASSUME NEW w \in Requests, ReadIssued(w) PROVE LinksSpent'
  <2>1. \A v \in Requests : pc'[v] = "consequences" => pc[v] = "consequences" /\ req'[v] = req[v]
    BY <1>6, <1>t DEF ReadIssued, TypeOK
  <2> QED BY <1>6, <2>1, QuietLinks DEF ReadIssued, resets
<1>7. ASSUME NEW w \in Requests, ReadTarget(w) PROVE LinksSpent'
  <2>1. CASE Answer(w)
    BY <1>a, <2>1
  <2>2. CASE ~Answer(w)
    <3>1. PICK l \in {"issue", "deactivate", "count", "change"} :
            Goto(w, l) /\ UNCHANGED <<people, devices, resets>>
      BY <1>7, <2>2 DEF ReadTarget
    <3> QED BY <3>1, <1>m, <1>n
  <2> QED BY <2>1, <2>2
<1>8. ASSUME NEW w \in Requests, Deactivate(w) PROVE LinksSpent'
  BY <1>8, <1>m, <1>n DEF Deactivate
<1>9. ASSUME NEW w \in Requests, Change(w) \/ RevokeDeactivated(w) PROVE LinksSpent'
  BY <1>9, <1>f, QuietLinks DEF Change, RevokeDeactivated, RevokeAll
<1>10. ASSUME NEW w \in Requests, Issue(w) PROVE LinksSpent'
  <2>1. PICK l \in Links \ made :
          /\ links' = Others(req[w].on) \cup {[id |-> l, user |-> req[w].on]}
          /\ made' = made \cup {l}
    BY <1>10 DEF Issue
  <2>2. claims' = claims /\ password' = password /\ Forget(w)
    BY <1>10 DEF Issue
  <2>3. \A k \in links' : (k \in links /\ k.user # req[w].on)
                          \/ k = [id |-> l, user |-> req[w].on]
    BY <2>1 DEF Others
  <2>4. claims[l] = 0
    BY <2>1 DEF LinksSpent, LinksMade
  <2>5. LinksMade'
    BY <1>f, <2>1, <2>2, <2>3 DEF LinksSpent, LinksMade
  <2>6. LinkIsSpentOnce'
    BY <2>2, <2>3, <2>4 DEF LinksSpent, LinkIsSpentOnce
  <2> QED BY <2>5, <2>6 DEF LinksSpent
<1>11. ASSUME NEW w \in Requests, Redeem(w) PROVE LinksSpent'
  <2>1. CASE ~Redeemable(w)
    BY <1>11, <1>a, <2>1 DEF Redeem
  <2>2. CASE Redeemable(w)
    <3>1. PICK l \in links : l.id = req[w].id
      BY <2>2 DEF Redeemable
    <3>2. /\ links' = {k \in links : k.id # l.id}
          /\ claims' = [claims EXCEPT ![l.id] = @ + 1]
          /\ Goto(w, "consequences")
          /\ UNCHANGED <<made, password>>
      BY <1>11, <2>2, <3>1 DEF Redeem
    <3>3. l.id \in Links /\ l.id \in made /\ claims[l.id] = 0
      BY <1>t, <3>1 DEF TypeOK, LinksSpent, LinksMade, LinkIsSpentOnce
    <3>4. claims'[l.id] = 1 /\ \A k \in Links : k # l.id => claims'[k] = claims[k]
      BY <1>t, <3>2, <3>3 DEF TypeOK
    <3>5. \A v \in Requests : pc'[v] = "consequences" =>
            claims'[req'[v].id] = 1
      <4>1. req' = req /\ \A v \in Requests : v # w => pc'[v] = pc[v]
        BY <1>t, <3>2 DEF Goto, TypeOK
      <4>2. ASSUME NEW v \in Requests, v # w, pc'[v] = "consequences" PROVE claims'[req'[v].id] = 1
        <5>1. pc[v] = "consequences" /\ req'[v].id \in Links
          BY <4>1, <4>2 DEF Base, Where
        <5>2. claims[req'[v].id] = 1
          BY <4>1, <5>1 DEF LinksSpent, LinksMade
        <5> QED BY <3>4, <5>1, <5>2
      <4> QED BY <3>1, <3>4, <4>1, <4>2
    <3>6. LinksMade'
      BY <3>2, <3>3, <3>4, <3>5 DEF LinksSpent, LinksMade
    <3>7. \A p \in People : password[p] # First => password[p] \in Links
      BY <1>t DEF TypeOK
    <3>8. LinkIsSpentOnce'
      <4>1. \A k \in links' : k \in links /\ k.id # l.id /\ k.id \in Links
        BY <1>t, <3>2 DEF TypeOK
      <4>2. \A k \in links' : claims'[k.id] = 0
        BY <3>4, <4>1 DEF LinksSpent, LinkIsSpentOnce
      <4>3. \A k \in Links : claims'[k] <= 1
        BY <3>4 DEF LinksSpent, LinkIsSpentOnce
      <4>4. \A p \in People : password'[p] # First => claims'[password'[p]] = 1
        BY <3>2, <3>4, <3>7 DEF LinksSpent, LinkIsSpentOnce
      <4>5. \A j, k \in links' : j.user = k.user => j = k
        BY <4>1 DEF LinksSpent, LinkIsSpentOnce
      <4> QED BY <4>2, <4>3, <4>4, <4>5 DEF LinkIsSpentOnce
    <3> QED BY <3>6, <3>8 DEF LinksSpent
  <2> QED BY <2>1, <2>2
<1>12. ASSUME NEW w \in Requests, Consequences(w) PROVE LinksSpent'
  <2>1. claims[req[w].id] = 1 /\ req[w].on \in People
    BY <1>12 DEF Consequences, LinksSpent, LinksMade, Base, Where
  <2>2. UNCHANGED <<links, made, claims>> /\ Forget(w)
        /\ password' = [password EXCEPT ![req[w].on] = req[w].id]
    BY <1>12 DEF Consequences
  <2>3. LinksMade'
    BY <1>f, <2>2 DEF LinksSpent, LinksMade
  <2>4. \A p \in People : password'[p] = password[p] \/ password'[p] = req[w].id
    BY <1>t, <2>2 DEF TypeOK
  <2>5. LinkIsSpentOnce'
    BY <2>1, <2>2, <2>4 DEF LinksSpent, LinkIsSpentOnce
  <2> QED BY <2>3, <2>5 DEF LinksSpent
<1>13. ASSUME NEW w \in Requests, Lose(w) PROVE LinksSpent'
  BY <1>13, <1>a DEF Lose
<1>14. ASSUME Time PROVE LinksSpent'
  BY <1>14, QuietLinks
     DEF Time, LapseSession, LapseToken, PurgeToken, LapseLink, local, resets
<1>15. CASE UNCHANGED vars
  BY <1>15, QuietLinks DEF vars, resets, local
<1> QED BY <1>1, <1>2, <1>3, <1>4, <1>5, <1>6, <1>7, <1>8, <1>9, <1>10, <1>11, <1>12, <1>13, <1>14,
           <1>15 DEF Next, Step

-----------------------------------------------------------------------------
(* The MDs *)

\* Who is MD and who is active change only where an administrator's request ends.
LEMMA MDsStep ==
  ASSUME Base, AnMDRemains, [Next]_vars, "demote" \notin Doable
  PROVE  AnMDRemains'
<1>t. TypeOK
  BY DEF Base
<1>1. ASSUME UNCHANGED people PROVE AnMDRemains'
  BY <1>1 DEF people, AnMDRemains
<1>2. ASSUME NEW w \in Requests, Change(w) PROVE AnMDRemains'
  <2>1. req[w].do # "demote" /\ req[w].on \in People
    BY <1>2 DEF Change, Base, Where
  <2>2. CASE req[w].do = "promote"
    <3>1. role' = [role EXCEPT ![req[w].on] = "MD"] /\ active' = active
      BY <1>2, <2>2 DEF Change
    <3> QED BY <1>t, <3>1 DEF AnMDRemains, TypeOK
  <2>3. CASE req[w].do # "promote"
    <3>1. active' = active \cup {req[w].on} /\ role' = role
      BY <1>2, <2>1, <2>3 DEF Change
    <3> QED BY <3>1 DEF AnMDRemains
  <2> QED BY <2>2, <2>3
<1>3. ASSUME NEW w \in Requests, Deactivate(w) PROVE AnMDRemains'
  <2>1. role' = role
        /\ active' = IF MayDeactivate(req[w].on) THEN active \ {req[w].on} ELSE active
    BY <1>3 DEF Deactivate
  <2>2. CASE ~MayDeactivate(req[w].on)
    BY <2>1, <2>2 DEF AnMDRemains
  <2>3. CASE role[req[w].on] # "MD"
    BY <2>1, <2>3 DEF AnMDRemains, MayDeactivate
  <2>4. CASE OtherMD(req[w].on)
    BY <2>1, <2>4 DEF AnMDRemains, MayDeactivate, OtherMD
  <2> QED BY <2>2, <2>3, <2>4 DEF MayDeactivate
<1>4. ASSUME NEW w \in Requests,
             AskSignIn(w) \/ AskRefresh(w) \/ AskSignOut(w) \/ AskEverywhere(w) \/ AskAdmin(w)
             \/ AskConfirm(w)
      PROVE  UNCHANGED people
  BY <1>4 DEF AskSignIn, AskRefresh, AskSignOut, AskEverywhere, AskAdmin, AskConfirm, Ask
<1>5. ASSUME NEW w \in Requests,
             FindEarlier(w) \/ Retire(w) \/ Start(w) \/ Known(w) \/ CheckAllowed(w) \/ Rotate(w)
             \/ Everywhere(w) \/ FindFamily(w) \/ ReadIssued(w) \/ RevokeFamily(w)
             \/ DeleteSession(w)
      PROVE  UNCHANGED people
  BY <1>5 DEF FindEarlier, Retire, Start, Known, CheckAllowed, Rotate, Everywhere, FindFamily,
              ReadIssued, RevokeFamily, DeleteSession, Answer
<1>6. ASSUME NEW w \in Requests,
             ReadTarget(w) \/ CountMDs(w) \/ ReadAfter(w) \/ RevokeDeactivated(w) \/ Issue(w)
             \/ Redeem(w) \/ Consequences(w) \/ Lose(w)
      PROVE  UNCHANGED people
  BY <1>6 DEF ReadTarget, CountMDs, ReadAfter, RevokeDeactivated, Issue, Redeem, Consequences,
              Lose, Answer
<1>7. Time => UNCHANGED people
  BY DEF Time, LapseSession, LapseToken, PurgeToken, LapseLink
<1> QED BY <1>1, <1>2, <1>3, <1>4, <1>5, <1>6, <1>7 DEF Next, Step, vars

-----------------------------------------------------------------------------
(* Theorems *)

LEMMA BaseAlways == Spec => []Base
<1> QED BY BaseInit, BaseStep, PTL DEF Spec

LEMMA DevicesAlways == Spec => []Devices
<1> QED BY BaseAlways, DevicesInit, DevicesStep, PTL DEF Spec

LEMMA LinksAlways == Spec => []LinksSpent
<1> QED BY BaseInit, BaseAlways, LinksInit, LinksStep, PTL DEF Spec

\* Every row and every request is of its kind: in particular no session exists
\* without the pair it was handed out in.
THEOREM Types == Spec => []TypeOK
<1>1. Base => TypeOK
  BY DEF Base
<1> QED BY <1>1, BaseAlways, PTL

\* For any number of tabs, people and requests in flight, a device renews from
\* one unused token or one claim: claimRefreshToken's single UPDATE suffices.
THEOREM OneRenewal == Spec => []OneRenewalPerDevice
<1>1. Devices => OneRenewalPerDevice
  BY DEF Devices
<1> QED BY <1>1, DevicesAlways, PTL

\* A device never has two live sessions, whatever overlapped its renewal:
\* rotateDevice deletes the earlier one in the batch that inserts the next.
THEOREM OneSession == Spec => []OneSessionPerDevice
<1>1. Devices => OneSessionPerDevice
  BY DEF Devices
<1> QED BY <1>1, DevicesAlways, PTL

\* A reset link is claimed at most once and no password is set without a
\* claim, for any number of links and confirmations: the DELETE is the claim.
THEOREM LinkSpent == Spec => []LinkIsSpentOnce
<1>1. LinksSpent => LinkIsSpentOnce
  BY DEF LinksSpent
<1> QED BY <1>1, LinksAlways, PTL

\* As long as nobody changes an MD's role, however many deactivations run at
\* once, an active MD remains: deactivateUnlessLastAdmin counts inside its UPDATE.
THEOREM MDRemains ==
  ASSUME "demote" \notin Doable
  PROVE  Spec => []AnMDRemains
<1>1. Init => AnMDRemains
  BY SomeMD, RolesGiven DEF Init, AnMDRemains
<1>2. Base /\ AnMDRemains /\ [Next]_vars => AnMDRemains'
  BY MDsStep
<1> QED BY <1>1, <1>2, BaseAlways, PTL DEF Spec
=============================================================================
