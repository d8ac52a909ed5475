------------------------------- MODULE Accounts -------------------------------
(***************************************************************************)
(* Accounts, devices and reset links: who may sign in, the sessions and    *)
(* rotating refresh tokens of each device, and the administration of other *)
(* people's access (src/src/lib/auth.ts, data.ts and their routes).        *)
(*                                                                         *)
(* Each await on the database is a step; a batch() is one step, and so is  *)
(* a single statement that checks and writes ("the count lives inside the  *)
(* statement rather than in a preceding read").  A session and the refresh *)
(* token inserted with it share one id here, as the token row names its    *)
(* session; a family is named by its first id.  The browser may present    *)
(* any pair it was ever given.  Everybody is in one company and branch,    *)
(* without module overrides, and types the right password.                 *)
(***************************************************************************)
EXTENDS Naturals

CONSTANTS
  People,       \* accounts
  FirstRole,    \* person -> role at the start
  Ids,          \* random ids of sessions and refresh tokens
  Links,        \* random ids of reset links
  Requests,     \* Worker invocations
  Doable        \* the commands people give in this instance

\* MD, MD Assistant and IT Administrator administer accounts alike (isFullAdmin).
Roles    == {"MD", "IT Administrator", "Sales Executive"}
Managers == {"MD", "IT Administrator"}
Commands == {"sign in", "refresh", "sign out", "everywhere", "promote", "demote",
             "reactivate", "deactivate", "issue", "confirm"}

NoId == "none"
ASSUME NoIdIsNone == NoId \notin Ids
ASSUME RolesGiven == FirstRole \in [People -> Roles]
ASSUME SomeMD     == \E p \in People : FirstRole[p] = "MD"
ASSUME CommandsKnown == Doable \subseteq Commands

VARIABLES
  role, active,  \* User
  sessions,      \* Session: ids of the unexpired rows
  token,         \* RefreshToken: id -> "none", "fresh", "lapsed" (expired unused), "used"
  origin,        \* history: id -> the first id of its family
  owner,         \* history: id -> whose it is
  links,         \* PasswordReset: unexpired rows
  made,          \* history: links ever issued
  claims,        \* history: link -> how often it was claimed
  password,      \* person -> the link their password was set with
  pc,            \* request -> what it does next
  req,           \* request -> its command
  seen           \* request -> the session ids revokeRefreshFamily read

people  == <<role, active>>
devices == <<sessions, token, origin, owner>>
resets  == <<links, made, claims, password>>
local   == <<pc, req, seen>>
vars    == <<people, devices, resets, local>>

First == "first"
Idle == [do |-> "nothing", id |-> NoId, on |-> NoId]
PCs == {"idle", "earlier", "retire", "start", "known", "allowed", "rotate", "family",
        "issued", "revoke", "delete", "everywhere", "target", "count", "change",
        "deactivate", "after", "revokeAll", "issue", "redeem", "consequences"}

Init ==
  /\ role = FirstRole
  /\ active = People
  /\ sessions = {}
  /\ token = [i \in Ids |-> "none"]
  /\ origin = [i \in Ids |-> NoId]
  /\ owner = [i \in Ids |-> NoId]
  /\ links = {} /\ made = {}
  /\ claims = [l \in Links |-> 0]
  /\ password = [p \in People |-> First]
  /\ pc = [w \in Requests |-> "idle"]
  /\ req = [w \in Requests |-> Idle]
  /\ seen = [w \in Requests |-> {}]

Given     == {i \in Ids : origin[i] # NoId}
Unused    == {i \in Ids : token[i] \in {"fresh", "lapsed"}}
Family(f) == {i \in Ids : origin[i] = f}
Own(p)    == {i \in Ids : owner[i] = p}

\* The request moves on, or is answered (or its Worker is lost).
Goto(w, label) ==
  pc' = [pc EXCEPT ![w] = label] /\ UNCHANGED <<req, seen>>
Forget(w) ==
  /\ pc' = [pc EXCEPT ![w] = "idle"]
  /\ req' = [req EXCEPT ![w] = Idle]
  /\ seen' = [seen EXCEPT ![w] = {}]
Answer(w) == Forget(w) /\ UNCHANGED <<people, devices, resets>>
Lose(w)   == pc[w] # "idle" /\ Answer(w)

\* A command together with its first read, whose outcome is the label.
Ask(w, do, id, on, label) ==
  /\ pc[w] = "idle" /\ do \in Doable
  /\ pc' = [pc EXCEPT ![w] = label]
  /\ req' = [req EXCEPT ![w] = [do |-> do, id |-> id, on |-> on]]
  /\ UNCHANGED <<seen, people, resets>>

\* Rows that go: tokens and sessions of some ids.
Remove(tokens, gone) ==
  /\ token' = [i \in Ids |-> IF i \in tokens THEN "none" ELSE token[i]]
  /\ sessions' = sessions \ gone
  /\ UNCHANGED <<origin, owner>>

-----------------------------------------------------------------------------
(* Signing in *)

\* The credentials are verified; an earlier pair of this browser may be presented.
AskSignIn(w) == \E p \in active, earlier \in Given \cup {NoId} :
  /\ Ask(w, "sign in", earlier, p, IF earlier = NoId THEN "start" ELSE "earlier")
  /\ UNCHANGED devices

FindEarlier(w) ==
  /\ pc[w] = "earlier"
  /\ Goto(w, IF token[req[w].id] # "none" THEN "retire" ELSE "start")
  /\ UNCHANGED <<people, devices, resets>>

\* Nothing may renew from the earlier family; its session is left to expire.
Retire(w) ==
  /\ pc[w] = "retire"
  /\ Remove(Family(origin[req[w].id]), {})
  /\ Goto(w, "start")
  /\ UNCHANGED <<people, resets>>

\* A pair inserted for p in family f (NoId: a new one), with or without the
\* refresh token; the session of the id before is deleted in the same batch.
InsertPair(i, f, p, remembered, before) ==
  /\ i \notin Given
  /\ sessions' = (sessions \ {before}) \cup {i}
  /\ token' = [token EXCEPT ![i] = IF remembered THEN "fresh" ELSE "none"]
  /\ origin' = [origin EXCEPT ![i] = IF f = NoId THEN i ELSE f]
  /\ owner' = [owner EXCEPT ![i] = p]

\* startSession: createSession, or rotateDevice with a new family.
Start(w) ==
  /\ pc[w] = "start"
  /\ \E i \in Ids, remember \in BOOLEAN : InsertPair(i, NoId, req[w].on, remember, NoId)
  /\ Forget(w)
  /\ UNCHANGED <<people, resets>>

-----------------------------------------------------------------------------
(* Renewing *)

\* claimRefreshToken: one UPDATE that checks and marks.
\* Mutant: a used token can be claimed again.
ClaimableAgain(i) == token[i] \in {"fresh", "used"}
Claimable(i) == token[i] = "fresh"

AskRefresh(w) == \E i \in Given :
  /\ Ask(w, "refresh", i, owner[i], IF Claimable(i) THEN "allowed" ELSE "known")
  /\ token' = IF Claimable(i) THEN [token EXCEPT ![i] = "used"] ELSE token
  /\ UNCHANGED <<sessions, origin, owner>>

\* A used token within the grace is another tab's; otherwise the family goes.
Known(w) ==
  /\ pc[w] = "known"
  /\ \/ token[req[w].id] \in {"none", "used"} /\ Answer(w)
     \/ /\ token[req[w].id] # "none"
        /\ Goto(w, "issued")
        /\ UNCHANGED <<people, devices, resets>>

\* The person must still be allowed in.
CheckAllowed(w) ==
  /\ pc[w] = "allowed"
  /\ Goto(w, IF req[w].on \in active THEN "rotate" ELSE "issued")
  /\ UNCHANGED <<people, devices, resets>>

\* Mutant: the earlier session is left to expire.
PreviousKept(w) == NoId
Previous(w) == req[w].id

Rotate(w) ==
  /\ pc[w] = "rotate"
  /\ \E i \in Ids : InsertPair(i, origin[req[w].id], req[w].on, TRUE, Previous(w))
  /\ Forget(w)
  /\ UNCHANGED <<people, resets>>

-----------------------------------------------------------------------------
(* Signing out *)

AskSignOut(w) == \E i \in Given :
  Ask(w, "sign out", i, owner[i], "family") /\ UNCHANGED devices

\* currentActor: a live session of an active person.
AskEverywhere(w) == \E i \in sessions :
  /\ owner[i] \in active
  /\ Ask(w, "everywhere", i, owner[i], "everywhere")
  /\ UNCHANGED devices

Everywhere(w) ==
  /\ pc[w] = "everywhere"
  /\ Remove(Own(req[w].on), Own(req[w].on))
  /\ Goto(w, "family")
  /\ UNCHANGED <<people, resets>>

FindFamily(w) ==
  /\ pc[w] = "family"
  /\ Goto(w, IF token[req[w].id] # "none" THEN "issued" ELSE "delete")
  /\ UNCHANGED <<people, devices, resets>>

\* revokeRefreshFamily: the sessions its tokens were issued with, then the batch.
ReadIssued(w) ==
  /\ pc[w] = "issued"
  /\ seen' = [seen EXCEPT ![w] = {i \in Family(origin[req[w].id]) : token[i] # "none"}]
  /\ pc' = [pc EXCEPT ![w] = "revoke"]
  /\ UNCHANGED <<req, people, devices, resets>>

RevokeFamily(w) ==
  /\ pc[w] = "revoke"
  /\ Remove(Family(origin[req[w].id]), seen[w])
  /\ IF req[w].do = "refresh" THEN Forget(w) ELSE Goto(w, "delete")
  /\ UNCHANGED <<people, resets>>

DeleteSession(w) ==
  /\ pc[w] = "delete"
  /\ Remove({}, {req[w].id})
  /\ Forget(w)
  /\ UNCHANGED <<people, resets>>

-----------------------------------------------------------------------------
(* Administration *)

\* Someone who manages users, with a live session; never of their own account.
AskAdmin(w) == \E i \in sessions, p \in People,
                  do \in {"promote", "demote", "reactivate", "deactivate", "issue"} :
  /\ owner[i] \in active /\ role[owner[i]] \in Managers /\ owner[i] # p
  /\ Ask(w, do, i, p, "target")
  /\ UNCHANGED devices

\* findUserById: what the checks that follow are about.
ReadTarget(w) ==
  /\ pc[w] = "target"
  /\ IF req[w].do = "issue" /\ req[w].on \notin active
       THEN Answer(w)
       ELSE /\ Goto(w, CASE req[w].do = "issue"      -> "issue"
                         [] req[w].do = "deactivate" -> "deactivate"
                         [] req[w].do = "demote"     ->
                              IF role[req[w].on] = "MD" THEN "count" ELSE "change"
                         [] OTHER                    -> "change")
            /\ UNCHANGED <<people, devices, resets>>

OtherMD(p) == \E q \in active : q # p /\ role[q] = "MD"

\* isLastActiveAdmin.
CountMDs(w) ==
  /\ pc[w] = "count"
  /\ IF OtherMD(req[w].on)
       THEN Goto(w, "change") /\ UNCHANGED <<people, devices, resets>>
       ELSE Answer(w)

\* Every credential of a person goes with the change.
RevokeAll(p) ==
  /\ Remove(Own(p), Own(p))
  /\ links' = {l \in links : l.user # p}
  /\ UNCHANGED <<made, claims, password>>

\* updateUserAndRevokeSessions.
Change(w) == LET p == req[w].on IN
  /\ pc[w] = "change"
  /\ CASE req[w].do = "promote" -> role' = [role EXCEPT ![p] = "MD"] /\ UNCHANGED active
       [] req[w].do = "demote"  -> /\ \E r \in Roles \ {"MD"} : role' = [role EXCEPT ![p] = r]
                                   /\ UNCHANGED active
       [] OTHER                 -> active' = active \cup {p} /\ UNCHANGED role
  /\ RevokeAll(p)
  /\ Forget(w)

\* deactivateUnlessLastAdmin: the guarded UPDATE, a read of what it did, and
\* the batch.
MayDeactivate(p) == role[p] # "MD" \/ OtherMD(p)
Deactivate(w) ==
  /\ pc[w] = "deactivate"
  /\ active' = IF MayDeactivate(req[w].on) THEN active \ {req[w].on} ELSE active
  /\ Goto(w, "after")
  /\ UNCHANGED <<role, devices, resets>>

ReadAfter(w) ==
  /\ pc[w] = "after"
  /\ IF req[w].on \in active
       THEN Answer(w)
       ELSE Goto(w, "revokeAll") /\ UNCHANGED <<people, devices, resets>>

RevokeDeactivated(w) ==
  pc[w] = "revokeAll" /\ RevokeAll(req[w].on) /\ Forget(w) /\ UNCHANGED people

-----------------------------------------------------------------------------
(* Reset links *)

\* issuePasswordReset: the person's other links go in the same batch.
Others(p) == {l \in links : l.user # p}
Issue(w) ==
  /\ pc[w] = "issue"
  /\ \E l \in Links \ made :
       /\ links' = Others(req[w].on) \cup {[id |-> l, user |-> req[w].on]}
       /\ made' = made \cup {l}
  /\ Forget(w)
  /\ UNCHANGED <<claims, password, people, devices>>

\* findPasswordReset, before the new password is hashed.
AskConfirm(w) == \E l \in links :
  l.user \in active /\ Ask(w, "confirm", l.id, l.user, "redeem") /\ UNCHANGED devices

\* redeemPasswordReset: deleting the link is the claim.
\* Mutant: the claim trusts the read before the hashing.
RedeemableAnyway(w) == req[w].id \in made
Redeemable(w) == \E l \in links : l.id = req[w].id
Redeem(w) ==
  /\ pc[w] = "redeem"
  /\ IF Redeemable(w)
       THEN /\ links' = {l \in links : l.id # req[w].id}
            /\ claims' = [claims EXCEPT ![req[w].id] = @ + 1]
            /\ Goto(w, "consequences")
            /\ UNCHANGED <<made, password, people, devices>>
       ELSE Answer(w)

Consequences(w) ==
  /\ pc[w] = "consequences"
  /\ password' = [password EXCEPT ![req[w].on] = req[w].id]
  /\ Remove(Own(req[w].on), Own(req[w].on))
  /\ Forget(w)
  /\ UNCHANGED <<links, made, claims, people>>

-----------------------------------------------------------------------------
(* Time: expiry, and the daily purge of what is used or expired *)

LapseSession(i) ==
  /\ i \in sessions /\ Remove({}, {i})
  /\ UNCHANGED <<people, resets, local>>
LapseToken(i) ==
  /\ token[i] = "fresh"
  /\ token' = [token EXCEPT ![i] = "lapsed"]
  /\ UNCHANGED <<sessions, origin, owner, people, resets, local>>
PurgeToken(i) ==
  /\ token[i] \in {"used", "lapsed"} /\ Remove({i}, {})
  /\ UNCHANGED <<people, resets, local>>
LapseLink(l) ==
  /\ links' = links \ {l}
  /\ UNCHANGED <<made, claims, password, people, devices, local>>

-----------------------------------------------------------------------------
Step(w) ==
  \/ AskSignIn(w) \/ FindEarlier(w) \/ Retire(w) \/ Start(w)
  \/ AskRefresh(w) \/ Known(w) \/ CheckAllowed(w) \/ Rotate(w)
  \/ AskSignOut(w) \/ AskEverywhere(w) \/ Everywhere(w) \/ FindFamily(w)
  \/ ReadIssued(w) \/ RevokeFamily(w) \/ DeleteSession(w)
  \/ AskAdmin(w) \/ ReadTarget(w) \/ CountMDs(w) \/ Change(w)
  \/ Deactivate(w) \/ ReadAfter(w) \/ RevokeDeactivated(w)
  \/ Issue(w) \/ AskConfirm(w) \/ Redeem(w) \/ Consequences(w)
  \/ Lose(w)
Time ==
  \/ \E i \in Ids : LapseSession(i) \/ LapseToken(i) \/ PurgeToken(i)
  \/ \E l \in links : LapseLink(l)
Next == Time \/ \E w \in Requests : Step(w)
Spec == Init /\ [][Next]_vars

-----------------------------------------------------------------------------
(* Properties *)

TypeOK ==
  /\ role \in [People -> Roles]
  /\ active \subseteq People
  /\ sessions \subseteq Given
  /\ token \in [Ids -> {"none", "fresh", "lapsed", "used"}]
  /\ origin \in [Ids -> Ids \cup {NoId}]
  /\ owner \in [Ids -> People \cup {NoId}]
  /\ links \subseteq [id: Links, user: People]
  /\ made \subseteq Links
  /\ claims \in [Links -> Nat]
  /\ password \in [People -> Links \cup {First}]
  /\ pc \in [Requests -> PCs]
  /\ req \in [Requests -> [do: Commands \cup {"nothing"}, id: Ids \cup Links \cup {NoId},
                           on: People \cup {NoId}]]
  /\ seen \in [Requests -> SUBSET Ids]

\* A request that has claimed a token and not yet inserted the next pair.
Renewing(w) == pc[w] \in {"allowed", "rotate"}
FamilyOf(w) == origin[req[w].id]

\* However many tabs renew one device at once, while it signs out, is signed
\* out by an administrator or signs in again: its family has one place to renew
\* from, an unused token or one request that holds the claim.
OneRenewalPerDevice ==
  /\ \A i, j \in Unused : origin[i] = origin[j] => i = j
  /\ \A w \in Requests, i \in Unused : Renewing(w) => origin[i] # FamilyOf(w)
  /\ \A v, w \in Requests : Renewing(v) /\ Renewing(w) /\ FamilyOf(v) = FamilyOf(w) => v = w

\* A device has one live session at most, and it is the one it renews from: no
\* renewal leaves an earlier session behind, whatever it overlapped.
OneSessionPerDevice ==
  \A i \in sessions :
    /\ \A j \in sessions \cup Unused : origin[i] = origin[j] => i = j
    /\ \A w \in Requests : Renewing(w) /\ origin[i] = FamilyOf(w) => i = req[w].id

\* A person has one reset link at most, a link is claimed once at most by
\* however many confirmations, and no password was set without a claim.
LinkIsSpentOnce ==
  /\ \A k, l \in links : k.user = l.user => k = l
  /\ \A l \in Links : claims[l] <= 1
  /\ \A l \in links : claims[l.id] = 0
  /\ \A p \in People : password[p] # First => claims[password[p]] = 1

\* "Two administrators deactivating each other at the same moment cannot both
\* pass a check and leave the organisation with no administrator", and
\* "changing the last MD's role is the same hazard as deactivating them".
AnMDRemains == \E p \in active : role[p] = "MD"
=============================================================================
