--------------------------------- MODULE Rooms ---------------------------------
(***************************************************************************)
(* The people of one workspace room (app/api/collab/conversations and its  *)
(* members route, over collab-access.ts and collab-data.ts).  A request    *)
(* reads the room, its own membership and the member list in three awaits, *)
(* then writes by (room, person) alone; an owner's leaving takes a second  *)
(* write, and so does the last person's.                                   *)
(***************************************************************************)
EXTENDS Integers, FiniteSets

CONSTANTS
  People,
  Visits,          \* Worker invocations serving these routes
  RoomMemberMax,
  MaxGone          \* bound: how many invocations are lost

ASSUME RoomBounds == RoomMemberMax \in Nat /\ MaxGone \in Nat
ASSUME RoomPeople == IsFiniteSet(People) /\ "nobody" \notin People

VARIABLES
  created,    \* there is a Conversation row
  archived,   \* its archivedAt is set
  role,       \* person -> role of the ConversationMember row, "none" without one
  before,     \* pairs of members, the longer-serving first (joinedAt, rowid)
  active,     \* people whose account is active
  visit,      \* request -> its next await
  wish,       \* request -> what it was asked
  seen,       \* request -> what it has read
  gone,
  crossed     \* history: an owner's leave was lost, or another request came between

room == <<created, archived, role, before>>
visits == <<visit, wish, seen>>
roomVars == <<room, active, visits, gone, crossed>>

Roles == {"owner", "admin", "member"}
NoWish == [do |-> "none"]
Wishes ==
  [do: {"create"}, by: People, with: SUBSET People]
    \cup [do: {"join", "archive", "restore"}, by: People]
    \cup [do: {"add", "remove"}, by: People, whom: People]
    \cup [do: {"appoint"}, by: People, whom: People, as: {"admin", "member"}]
NotSeen == [archived |-> FALSE, mine |-> "none", target |-> "none",
            empty |-> FALSE, heir |-> "nobody"]

RoomsInit ==
  /\ created = FALSE /\ archived = FALSE
  /\ role = [p \in People |-> "none"]
  /\ before = {}
  /\ active = People
  /\ visit = [r \in Visits |-> "idle"]
  /\ wish = [r \in Visits |-> NoWish]
  /\ seen = [r \in Visits |-> NotSeen]
  /\ gone = 0
  /\ crossed = FALSE

-----------------------------------------------------------------------------
In(p) == role[p] # "none"
Members == {p \in People : In(p)}
Owners == {p \in People : role[p] = "owner"}
Leaving(r) == wish[r].do = "remove" /\ wish[r].by = wish[r].whom
\* An owner on the way out: the list is read, and not everything is written.
Handing(r) == visit[r] \in {"write", "heir", "close"} /\ Leaving(r) /\ seen[r].target = "owner"

Await(r, label) == visit' = [visit EXCEPT ![r] = label] /\ UNCHANGED wish
Answer(r) ==
  /\ visit' = [visit EXCEPT ![r] = "idle"]
  /\ wish' = [wish EXCEPT ![r] = NoWish]
  /\ seen' = [seen EXCEPT ![r] = NotSeen]
\* A check that refuses answers at once; the other awaits only read.
Decide(r, allowed, label, found) ==
  /\ IF allowed THEN Await(r, label) /\ seen' = [seen EXCEPT ![r] = found] ELSE Answer(r)
  /\ UNCHANGED <<room, active, gone>>

\* The session of the caller is an active account's.
Visit(r) == \E w \in Wishes :
  /\ visit[r] = "idle" /\ w.by \in active
  /\ w.do = "create" <=> ~created
  /\ w.do = "create" => w.by \notin w.with /\ w.with \subseteq active
  /\ w.do = "create" => \A q \in Visits : visit[q] = "idle"
  /\ visit' = [visit EXCEPT ![r] = IF w.do = "create" THEN "write" ELSE "room"]
  /\ wish' = [wish EXCEPT ![r] = w]
  /\ UNCHANGED <<room, active, seen, gone>>

\* conversationAccess: the room, then the caller's membership.
ReadRoom(r) ==
  /\ visit[r] = "room"
  /\ Decide(r, TRUE, "membership", [seen[r] EXCEPT !.archived = archived])

\* requireRead, requireAdmin and canJoin.
Admitted(w, mine, closed) ==
  CASE w.do = "join" -> mine = "none" /\ ~closed
    [] w.do = "add"  -> mine \in {"owner", "admin"} /\ ~closed
    [] w.do = "remove" /\ w.by = w.whom -> mine # "none"
    [] OTHER -> mine \in {"owner", "admin"}
ReadMembership(r) ==
  /\ visit[r] = "membership"
  /\ LET w == wish[r]
         changes == w.do \notin {"archive", "restore"} \/ seen[r].archived # (w.do = "archive")
     IN  Decide(r, Admitted(w, role[w.by], seen[r].archived) /\ changes,
               IF w.do \in {"archive", "restore"} THEN "write" ELSE "list",
               [seen[r] EXCEPT !.mine = role[w.by]])

First(S) == CHOOSE p \in S : \A q \in S \ {p} : <<p, q>> \in before
\* The longest-serving active admin, else the longest-serving active member.
Heir(others) ==
  LET actives == others \cap active
      admins == {p \in actives : role[p] = "admin"}
  IN  CASE admins # {}  -> First(admins)
        [] admins = {} /\ actives # {} -> First(actives)
        [] actives = {} /\ others # {} -> First(others)
        [] others = {} -> "nobody"

\* What the member list must say.
\* Mutant: the owner's role may be changed.
ListAllowsAnyRole(r, w) ==
  CASE w.do = "join" -> Cardinality(Members) < RoomMemberMax
    [] w.do = "add"  -> ~In(w.whom) /\ Cardinality(Members) < RoomMemberMax /\ w.whom \in active
    [] Leaving(r)    -> In(w.whom)
    [] OTHER         -> In(w.whom) /\ (role[w.whom] = "admin" => seen[r].mine = "owner")
ListAllows(r, w) ==
  CASE w.do = "join" -> Cardinality(Members) < RoomMemberMax
    [] w.do = "add"  -> ~In(w.whom) /\ Cardinality(Members) < RoomMemberMax /\ w.whom \in active
    [] Leaving(r)    -> In(w.whom)
    [] OTHER         -> /\ role[w.whom] \in {"admin", "member"}
                        /\ role[w.whom] = "admin" => seen[r].mine = "owner"
                        /\ w.do = "appoint" => role[w.whom] # w.as
ListMembers(r) ==
  /\ visit[r] = "list"
  /\ LET w == wish[r]
         others == Members \ {w.whom}
         hands == Leaving(r) /\ role[w.whom] = "owner"
         found == IF w.do # "remove" THEN seen[r]
                  ELSE [seen[r] EXCEPT !.target = role[w.whom], !.empty = (others = {}),
                          !.heir = IF hands THEN Heir(others) ELSE "nobody"]
     IN  Decide(r, ListAllows(r, w), "write", found)

-----------------------------------------------------------------------------
(* The writes.                                                              *)

\* createConversation: the creator owns it.
Orders(S) == {o \in SUBSET (S \X S) :
  /\ \A p, q \in S : p # q => (<<p, q>> \in o <=> <<q, p>> \notin o)
  /\ \A p, q, x \in S : <<p, q>> \in o /\ <<q, x>> \in o => <<p, x>> \in o
  /\ \A p \in S : <<p, p>> \notin o}
Create(r) ==
  LET by == wish[r].by
  IN  /\ wish[r].do = "create" /\ created' = TRUE
      /\ role' = [p \in People |-> IF p = by THEN "owner"
                                   ELSE IF p \in wish[r].with THEN "member" ELSE "none"]
      /\ \E o \in Orders(wish[r].with) : before' = o \cup ({by} \X wish[r].with)
      /\ Answer(r) /\ UNCHANGED archived

\* addMembers: somebody who is there already stays as they are.
Add(r, p) ==
  /\ IF In(p) THEN UNCHANGED <<role, before>>
              ELSE role' = [role EXCEPT ![p] = "member"] /\ before' = before \cup (Members \X {p})
  /\ Answer(r) /\ UNCHANGED <<created, archived>>

\* setMemberRole, on whatever row there is.
Named(p, as) == role' = [role EXCEPT ![p] = IF In(p) THEN as ELSE @]

\* removeMember, and what follows it.
Remove(r, p) ==
  /\ role' = [role EXCEPT ![p] = "none"]
  /\ before' = {e \in before : p \notin {e[1], e[2]}}
  /\ CASE seen[r].empty /\ ~seen[r].archived -> Await(r, "close") /\ UNCHANGED seen
       [] seen[r].heir # "nobody"             -> Await(r, "heir") /\ UNCHANGED seen
       [] OTHER -> Answer(r)
  /\ UNCHANGED <<created, archived>>

Fulfil(r) ==
  /\ visit[r] = "write"
  /\ LET w == wish[r]
     IN  \/ Create(r)
         \/ w.do = "join" /\ Add(r, w.by)
         \/ w.do = "add" /\ Add(r, w.whom)
         \/ w.do = "appoint" /\ Named(w.whom, w.as) /\ Answer(r) /\ UNCHANGED <<created, archived, before>>
         \/ w.do = "remove" /\ Remove(r, w.whom)
         \/ /\ w.do \in {"archive", "restore"}
            /\ archived' = (w.do = "archive") /\ Answer(r) /\ UNCHANGED <<created, role, before>>
  /\ UNCHANGED <<active, gone>>

HandOver(r) ==
  /\ visit[r] = "heir"
  /\ Named(seen[r].heir, "owner")
  /\ Answer(r) /\ UNCHANGED <<created, archived, before, active, gone>>
CloseRoom(r) ==
  /\ visit[r] = "close"
  /\ archived' = TRUE
  /\ Answer(r) /\ UNCHANGED <<created, role, before, active, gone>>

Lose(r) ==
  /\ visit[r] # "idle" /\ gone < MaxGone /\ gone' = gone + 1
  /\ Answer(r) /\ UNCHANGED <<room, active>>

\* Administration; memberships stay as they are.
Suspend(p) ==
  /\ p \in active /\ active' = active \ {p}
  /\ UNCHANGED <<room, visits, gone>>
Reinstate(p) ==
  /\ p \notin active /\ active' = active \cup {p}
  /\ UNCHANGED <<room, visits, gone>>

\* Two requests, one of them an owner's leave, between their reads and writes.
Crossing == \E r, q \in Visits : r # q /\ Handing(r) /\ visit[q] \notin {"idle", "room"}
LostHanding == gone' # gone /\ \E r \in Visits : Handing(r) /\ visit'[r] = "idle"

\* The room is archived or restored after an owner's leave has read it.
Reopened ==
  /\ archived' # archived
  /\ \E r \in Visits : /\ Leaving(r) /\ visit[r] \in {"membership", "list"}
                       /\ role[wish[r].by] = "owner"

RoomsNext ==
  /\ \/ \E r \in Visits :
          \/ Visit(r) \/ ReadRoom(r) \/ ReadMembership(r) \/ ListMembers(r)
          \/ Fulfil(r) \/ HandOver(r) \/ CloseRoom(r) \/ Lose(r)
     \/ \E p \in People : Suspend(p) \/ Reinstate(p)
  /\ crossed' = (crossed \/ Crossing' \/ LostHanding \/ Reopened)

RoomsSpec == RoomsInit /\ [][RoomsNext]_roomVars

-----------------------------------------------------------------------------
RoomsTypeOK ==
  /\ created \in BOOLEAN /\ archived \in BOOLEAN /\ crossed \in BOOLEAN
  /\ role \in [People -> Roles \cup {"none"}]
  /\ before \in Orders(Members)
  /\ active \subseteq People
  /\ visit \in [Visits -> {"idle", "room", "membership", "list", "write", "heir", "close"}]
  /\ wish \in [Visits -> Wishes \cup {NoWish}]
  /\ seen \in [Visits -> [archived: BOOLEAN, mine: Roles \cup {"none"},
                          target: Roles \cup {"none"}, empty: BOOLEAN, heir: People \cup {"nobody"}]]
  /\ gone \in 0..MaxGone

\* "An owner who leaves hands the room to the longest-serving admin, else the
\* longest-serving member.  The last person out archives it": a room with people
\* has one owner and an empty one is archived, however the requests of owners,
\* admins and members overlap, unless an owner's own leave overlapped another
\* request or was lost halfway, or the room was archived or restored meanwhile.
RoomKeepsAnOwner ==
  (created /\ ~crossed /\ \A r \in Visits : ~Handing(r)) =>
    IF Members = {} THEN archived ELSE Cardinality(Owners) = 1
=============================================================================
