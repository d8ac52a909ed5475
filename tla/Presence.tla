-------------------------------- MODULE Presence --------------------------------
(***************************************************************************)
(* One person's presence (realtime/collab-hub.ts): their hub, a Durable    *)
(* Object with the person's sockets, a stored status and an alarm, and the *)
(* directory object that answers lookups.  The runtime hands an object no  *)
(* event while it waits for its own storage, so what an event does up to   *)
(* its calls of other objects is one step; those calls may be answered in  *)
(* any order, or fail unnoticed.                                           *)
(***************************************************************************)
EXTENDS Integers

CONSTANTS
  Sockets,       \* tabs and devices
  Heartbeat,     \* HEARTBEAT_MS, STALE_MS and TTL_MS in ticks of half a minute
  StaleAfter,
  Ttl

ASSUME TimingsFit == Heartbeat \in Nat \ {0} /\ StaleAfter \in Nat /\ Ttl \in Nat /\ Heartbeat <= Ttl

VARIABLES
  socket,     \* tab -> its socket as the hub sees it
  hubStatus,  \* the status the hub has stored, "none" before the first
  alarm,      \* ticks until the hub wakes, or NoAlarm
  calls,      \* statuses on their way to the directory
  entry,      \* the directory's entry and its age
  \* History, in ticks: since the hub's count of time or its status was last
  \* disturbed, and since a live tab was last connected.
  calm,
  alone

presenceVars == <<socket, hubStatus, alarm, calls, entry, calm, alone>>

Activities == {"active", "idle"}
Online == {"online", "away"}
NoAlarm == Heartbeat + 1
\* A tab that pings, one that no longer does, and one whose session is over.
NoSocket == [is |-> "none", activity |-> "idle", silent |-> 0]
Here(a) == [is |-> "here", activity |-> a, silent |-> 0]
Ended == [NoSocket EXCEPT !.is = "ended"]

PresenceInit ==
  /\ socket = [s \in Sockets |-> NoSocket]
  /\ hubStatus = "none"
  /\ alarm = NoAlarm
  /\ calls = {}
  /\ entry = [status |-> "offline", age |-> 0]
  /\ calm = 0
  /\ alone = StaleAfter + Ttl + 1

-----------------------------------------------------------------------------
Counted(held) == {s \in Sockets : held[s].is \in {"here", "lost"} /\ held[s].silent <= StaleAfter}
StatusOf(held) ==
  IF Counted(held) = {} THEN "offline"
  ELSE IF \E s \in Counted(held) : held[s].activity = "active" THEN "online" ELSE "away"
\* A tab that has not pinged for too long is closed.
Kept(held) ==
  [s \in Sockets |-> IF held[s].silent > StaleAfter THEN NoSocket ELSE held[s]]

\* A heartbeat tells the directory again what has not changed.
\* Mutant: it does not.
ReportsChange(changed, heartbeat) == changed
Reports(changed, heartbeat) == changed \/ heartbeat

\* refreshPresence, with the sockets it is to find.
Refresh(held, heartbeat) ==
  LET now == StatusOf(held)
  IN  /\ socket' = Kept(held)
      /\ hubStatus' = now
      /\ alarm' = IF Counted(held) = {} THEN NoAlarm ELSE Heartbeat
      /\ calls' = IF Reports(hubStatus # now, heartbeat) THEN calls \cup {now} ELSE calls
      /\ calm' = IF hubStatus # now \/ ~heartbeat THEN 0 ELSE calm
      /\ UNCHANGED entry

\* A tab connects: active, whatever it will report.
Connect(s) ==
  /\ socket[s] = NoSocket
  /\ Refresh([socket EXCEPT ![s] = Here("active")], FALSE)
  /\ alone' = 0
\* webSocketMessage: a tab is hidden, unused for a while, or used again.
Report(s) ==
  /\ socket[s].is = "here"
  /\ \E a \in Activities \ {socket[s].activity} :
       Refresh([socket EXCEPT ![s] = Here(a)], FALSE)
  /\ UNCHANGED alone
\* webSocketClose and webSocketError; the last may never come.
HangUp(s) ==
  /\ socket[s] # NoSocket
  /\ Refresh([socket EXCEPT ![s] = NoSocket], FALSE)
  /\ UNCHANGED alone
\* alarm(); the runtime keeps it across restarts.
Beat ==
  /\ alarm = 0
  /\ Refresh(socket, TRUE)
  /\ UNCHANGED alone

\* The connection breaks, or a publish closed it and the tab does not answer; the
\* last ping was at most 45 seconds ago.
Break(s) ==
  /\ socket[s].is = "here"
  /\ \E n \in 0..1 : socket' = [socket EXCEPT ![s].is = "lost", ![s].silent = n]
  /\ UNCHANGED <<hubStatus, alarm, calls, entry, calm, alone>>
\* The session's expiry passes; nothing closes the socket before a publish.
Lapse(s) ==
  /\ socket[s].is \in {"here", "lost"}
  /\ socket' = [socket EXCEPT ![s] = Ended]
  /\ UNCHANGED <<hubStatus, alarm, calls, entry, calm, alone>>
\* "A hub disappears without a clean close": its storage stays.
Vanish ==
  /\ socket' = [s \in Sockets |-> NoSocket]
  /\ calm' = 0
  /\ UNCHANGED <<hubStatus, alarm, calls, entry, alone>>

-----------------------------------------------------------------------------
\* directorySet
DirectorySet(st) ==
  /\ st \in calls
  /\ calls' = calls \ {st}
  /\ entry' = [status |-> st, age |-> 0]
  /\ UNCHANGED <<socket, hubStatus, alarm, calm, alone>>
\* allSettled: a call that fails is forgotten.
CallFails(st) ==
  /\ st \in calls
  /\ calls' = calls \ {st}
  /\ calm' = 0
  /\ UNCHANGED <<socket, hubStatus, alarm, entry, alone>>

\* directoryGet: an entry that nobody confirmed in time reads as offline.
\* Mutant: it is read as it stands.
ReadsAsStands(e) == e.status
Reads(e) == IF e.age > Ttl THEN "offline" ELSE e.status

\* Half a minute passes.  A connected tab pings every 45 seconds and counts as
\* heard; an alarm that is due has fired; a call has been answered or has failed.
Reached(count, bound) == IF count < bound THEN count + 1 ELSE bound
HalfMinute ==
  /\ alarm # 0 /\ calls = {}
  /\ socket' = [s \in Sockets |-> IF socket[s].is = "lost"
                  THEN [socket[s] EXCEPT !.silent = Reached(@, StaleAfter + 1)] ELSE socket[s]]
  /\ alarm' = IF alarm = NoAlarm THEN NoAlarm ELSE alarm - 1
  /\ entry' = [entry EXCEPT !.age = Reached(@, Ttl + 1)]
  /\ calm' = Reached(calm, Heartbeat + 1)
  /\ alone' = IF \E s \in Sockets : socket[s].is = "here" THEN 0
              ELSE Reached(alone, StaleAfter + Ttl + 1)
  /\ UNCHANGED <<hubStatus, calls>>

PresenceNext ==
  \/ \E s \in Sockets : Connect(s) \/ Report(s) \/ HangUp(s) \/ Break(s) \/ Lapse(s)
  \/ Beat \/ Vanish \/ HalfMinute
  \/ \E st \in calls : DirectorySet(st) \/ CallFails(st)
PresenceSpec == PresenceInit /\ [][PresenceNext]_presenceVars

-----------------------------------------------------------------------------
PresenceTypeOK ==
  /\ socket \in [Sockets -> [is: {"none", "here", "lost", "ended"}, activity: Activities,
                             silent: 0..(StaleAfter + 1)]]
  /\ hubStatus \in Online \cup {"none", "offline"}
  /\ alarm \in 0..NoAlarm
  /\ calls \subseteq Online \cup {"offline"}
  /\ entry \in [status: Online \cup {"offline"}, age: 0..(Ttl + 1)]
  /\ calm \in 0..(Heartbeat + 1)
  /\ alone \in 0..(StaleAfter + Ttl + 1)

\* "Presence expiry, so nobody stays online after an abnormal disconnect":
\* STALE_MS and TTL_MS after the last live tab the directory says offline,
\* whatever was closed, lost, overtaken or restarted.
NobodyLingers == alone > StaleAfter + Ttl => Reads(entry) = "offline"

\* While a person has sockets, their hub re-confirms their entry: a heartbeat
\* after anything happened to them the directory shows what the hub knows, and
\* goes on showing it.
ConnectedIsShown ==
  hubStatus \in Online /\ calm > Heartbeat => Reads(entry) = hubStatus
=============================================================================
