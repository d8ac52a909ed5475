------------------------------- MODULE Meetings -------------------------------
(***************************************************************************)
(* The life of the meetings of one conversation: started or scheduled,     *)
(* joined, rescheduled, cancelled, ended, missed (meeting-data.ts,         *)
(* meeting-service.ts, the routes under api/collab, the webhook and the    *)
(* cron sweep of meeting-sweep.ts).  A handler reads the row, decides, and *)
(* writes awaits later; only goLive names the status it expects.  Telling  *)
(* the others comes after that write, outside of any transaction.          *)
(***************************************************************************)
EXTENDS Integers

CONSTANTS
  Meetings,
  Requests,      \* Worker invocations serving the API and the webhook
  MaxMoves,      \* bound: how often meetings are rescheduled
  MaxLosses      \* bound: how many invocations are lost

ASSUME MeetingBounds == MaxMoves \in Nat /\ MaxLosses \in Nat

VARIABLES
  status,     \* meeting -> its row's status, "none" before there is a row
  window,     \* meeting -> where the present is: "early", "open" to join, or "over"
  starts,     \* meeting -> how often its row went live
  notices,    \* meeting -> how often everybody was told it started
  attended,   \* meeting -> whether a session is open
  quiet,      \* meeting -> nobody has been in for IDLE_MS
  long,       \* meeting -> live for more than MAX_MS
  at,         \* request -> what it does next
  task,       \* request -> what it was asked
  sweep,      \* what the cron sweep does next
  listed,     \* the meetings its last query returned
  ending,     \* the meeting whose sessions it closes next
  moves, losses

rows == <<status, starts, notices, attended>>
time == <<window, quiet, long>>
requests == <<at, task>>
sweeper == <<sweep, listed, ending>>
meetingVars == <<rows, time, requests, sweeper, moves, losses>>

Over == {"ended", "cancelled", "missed"}
Statuses == {"none", "scheduled", "live"} \cup Over
NoTask == [do |-> "none"]
Tasks == [do: {"start", "schedule", "join", "cancel", "move", "end"}, on: Meetings]
Steps == {"idle", "read", "write", "announce", "sessions"}
Phases == {"missed", "stale", "sessions", "idle"}

MeetingsInit ==
  /\ status = [m \in Meetings |-> "none"]
  /\ window = [m \in Meetings |-> "early"]
  /\ starts = [m \in Meetings |-> 0]
  /\ notices = [m \in Meetings |-> 0]
  /\ attended = [m \in Meetings |-> FALSE]
  /\ quiet = [m \in Meetings |-> FALSE]
  /\ long = [m \in Meetings |-> FALSE]
  /\ at = [r \in Requests |-> "idle"]
  /\ task = [r \in Requests |-> NoTask]
  /\ sweep = "idle"
  /\ listed = {}
  /\ ending = {}
  /\ moves = 0
  /\ losses = 0

-----------------------------------------------------------------------------
(* Requests.                                                                *)

Live(m) == status[m] = "live"
Running == {m \in Meetings : Live(m)}

Done(r) ==
  /\ at' = [at EXCEPT ![r] = "idle"]
  /\ task' = [task EXCEPT ![r] = NoTask]
Go(r, label) == at' = [at EXCEPT ![r] = label] /\ UNCHANGED task
Respond(r) == Done(r) /\ UNCHANGED <<rows, time, sweeper, moves, losses>>

\* A new meeting takes an id nobody has; the others are for a meeting in a list.
Request(r) == \E t \in Tasks :
  /\ at[r] = "idle"
  /\ IF t.do \in {"start", "schedule"}
       THEN status[t.on] = "none" /\ ~\E q \in Requests : at[q] # "idle" /\ task[q].on = t.on
       ELSE status[t.on] # "none"
  /\ IF t.do = "move" THEN moves < MaxMoves /\ moves' = moves + 1 ELSE UNCHANGED moves
  /\ at' = [at EXCEPT ![r] = "read"]
  /\ task' = [task EXCEPT ![r] = t]
  /\ UNCHANGED <<rows, time, sweeper, losses>>

\* requireMeeting, and what each handler refuses.
Joinable(m) == Live(m) \/ (status[m] = "scheduled" /\ window[m] = "open")
Allows(t) ==
  CASE t.do = "start"    -> Running = {}
    [] t.do = "schedule" -> TRUE
    [] t.do = "join"     -> Joinable(t.on)
    [] t.do \in {"cancel", "move"} -> status[t.on] = "scheduled"
    [] OTHER             -> status[t.on] \notin Over
ReadMeeting(r) ==
  /\ at[r] = "read"
  /\ IF Allows(task[r]) /\ ~(task[r].do = "join" /\ Live(task[r].on))
       THEN Go(r, "write") /\ UNCHANGED <<rows, time, sweeper, moves, losses>>
       ELSE Respond(r)

\* Meeting_one_live_per_conversation.
OneLive(m) == Running \subseteq {m}

GoLive(m) ==
  /\ status' = [status EXCEPT ![m] = "live"]
  /\ starts' = [starts EXCEPT ![m] = @ + 1]

\* insertMeeting; a live one that the index refuses leaves the caller the winner.
Insert(r, m) ==
  /\ task[r].do \in {"start", "schedule"}
  /\ IF task[r].do = "schedule"
       THEN status' = [status EXCEPT ![m] = "scheduled"] /\ Done(r) /\ UNCHANGED starts
       ELSE IF OneLive(m) THEN GoLive(m) /\ Go(r, "announce")
            ELSE Done(r) /\ UNCHANGED <<status, starts>>
  /\ UNCHANGED <<notices, attended, time, moves>>

\* goLive: only a scheduled meeting, and only this call will tell everybody.
\* Mutant: whatever its status.
MayGoLiveAnyhow(m) == OneLive(m)
MayGoLive(m) == status[m] = "scheduled" /\ OneLive(m)
Join(r, m) ==
  /\ task[r].do = "join"
  /\ IF MayGoLive(m) THEN GoLive(m) /\ Go(r, "announce")
     ELSE Done(r) /\ UNCHANGED <<status, starts>>
  /\ UNCHANGED <<notices, attended, time, moves>>

\* meetingStarted, whatever became of the meeting since; best effort, so one that
\* fails is a lost one (Drop).
Announce(r) ==
  /\ at[r] = "announce"
  /\ notices' = [notices EXCEPT ![task[r].on] = @ + 1]
  /\ Done(r) /\ UNCHANGED <<status, starts, attended, time, sweeper, moves, losses>>

\* updateMeeting, by id alone.
Cancel(r, m) ==
  /\ task[r].do = "cancel"
  /\ status' = [status EXCEPT ![m] = "cancelled"]
  /\ Done(r) /\ UNCHANGED <<starts, notices, attended, time, moves>>
Move(r, m) ==
  /\ task[r].do = "move"
  /\ window' = [window EXCEPT ![m] = "early"]
  /\ Done(r) /\ UNCHANGED <<rows, quiet, long, moves>>

\* endMeeting: the row, then the sessions.
End(r, m) ==
  /\ task[r].do = "end"
  /\ status' = [status EXCEPT ![m] = "ended"]
  /\ Go(r, "sessions") /\ UNCHANGED <<starts, notices, attended, time, moves>>
Write(r) ==
  /\ at[r] = "write"
  /\ LET m == task[r].on
     IN  Insert(r, m) \/ Join(r, m) \/ Cancel(r, m) \/ Move(r, m) \/ End(r, m)
  /\ UNCHANGED <<sweeper, losses>>
CloseSessions(r) ==
  /\ at[r] = "sessions"
  /\ attended' = [attended EXCEPT ![task[r].on] = FALSE]
  /\ Done(r) /\ UNCHANGED <<status, starts, notices, time, sweeper, moves, losses>>

Drop(r) ==
  /\ at[r] # "idle" /\ losses < MaxLosses /\ losses' = losses + 1
  /\ Done(r) /\ UNCHANGED <<rows, time, sweeper, moves>>

\* The provider's webhooks: people with a token enter and leave the room, also
\* while the meeting is being ended.
Joined(m) ==
  /\ starts[m] > 0 /\ ~attended[m]
  /\ attended' = [attended EXCEPT ![m] = TRUE]
  /\ quiet' = [quiet EXCEPT ![m] = FALSE]
  /\ UNCHANGED <<status, starts, notices, window, long, requests, sweeper, moves, losses>>
Left(m) ==
  /\ attended[m]
  /\ attended' = [attended EXCEPT ![m] = FALSE]
  /\ UNCHANGED <<status, starts, notices, time, requests, sweeper, moves, losses>>

-----------------------------------------------------------------------------
(* The sweep, every five minutes: what it lists it writes row by row.       *)

Missed == {m \in Meetings : status[m] = "scheduled" /\ window[m] = "over"}
\* Mutant: one whose last leave webhook was lost is never closed.
StaleWhenLeft == {m \in Meetings : Live(m) /\ ~attended[m] /\ quiet[m]}
Stale == {m \in Meetings : Live(m) /\ (long[m] \/ (~attended[m] /\ quiet[m]))}

Phase(p) == sweep' = p
Begin ==
  /\ sweep = "idle" /\ Missed \cup Stale # {}
  /\ Phase("missed") /\ listed' = Missed
  /\ UNCHANGED <<rows, time, requests, ending, moves, losses>>
MarkMissed(m) ==
  /\ sweep = "missed" /\ m \in listed
  /\ status' = [status EXCEPT ![m] = "missed"]
  /\ listed' = listed \ {m}
  /\ UNCHANGED <<starts, notices, attended, time, requests, sweep, ending, moves, losses>>
ListStale ==
  /\ sweep = "missed" /\ listed = {}
  /\ Phase("stale") /\ listed' = Stale
  /\ UNCHANGED <<rows, time, requests, ending, moves, losses>>
EndStale(m) ==
  /\ sweep = "stale" /\ m \in listed
  /\ status' = [status EXCEPT ![m] = "ended"]
  /\ Phase("sessions") /\ listed' = listed \ {m} /\ ending' = {m}
  /\ UNCHANGED <<starts, notices, attended, time, requests, moves, losses>>
CloseStale ==
  /\ sweep = "sessions"
  /\ attended' = [m \in Meetings |-> attended[m] /\ m \notin ending]
  /\ Phase("stale") /\ ending' = {}
  /\ UNCHANGED <<status, starts, notices, time, requests, listed, moves, losses>>
Rest ==
  /\ sweep = "stale" /\ listed = {}
  /\ Phase("idle")
  /\ UNCHANGED <<rows, time, requests, listed, ending, moves, losses>>
DropSweep ==
  /\ sweep # "idle" /\ losses < MaxLosses /\ losses' = losses + 1
  /\ Phase("idle") /\ listed' = {} /\ ending' = {}
  /\ UNCHANGED <<rows, time, requests, moves>>
Sweep ==
  \/ Begin \/ ListStale \/ CloseStale \/ Rest
  \/ \E m \in Meetings : MarkMissed(m) \/ EndStale(m)

-----------------------------------------------------------------------------
(* Time.                                                                    *)

Opens(m) ==
  /\ status[m] = "scheduled" /\ window[m] = "early"
  /\ window' = [window EXCEPT ![m] = "open"]
  /\ UNCHANGED <<rows, quiet, long, requests, sweeper, moves, losses>>
Closes(m) ==
  /\ status[m] = "scheduled" /\ window[m] = "open"
  /\ window' = [window EXCEPT ![m] = "over"]
  /\ UNCHANGED <<rows, quiet, long, requests, sweeper, moves, losses>>
FallsQuiet(m) ==
  /\ Live(m) /\ ~attended[m] /\ ~quiet[m]
  /\ quiet' = [quiet EXCEPT ![m] = TRUE]
  /\ UNCHANGED <<rows, window, long, requests, sweeper, moves, losses>>
RunsLong(m) ==
  /\ Live(m) /\ ~long[m]
  /\ long' = [long EXCEPT ![m] = TRUE]
  /\ UNCHANGED <<rows, window, quiet, requests, sweeper, moves, losses>>
Passes(m) == Opens(m) \/ Closes(m) \/ RunsLong(m)

MeetingsNext ==
  \/ \E r \in Requests :
       \/ Request(r) \/ ReadMeeting(r) \/ Write(r) \/ Announce(r)
       \/ CloseSessions(r) \/ Drop(r)
  \/ Sweep \/ DropSweep
  \/ \E m \in Meetings : Joined(m) \/ Left(m) \/ FallsQuiet(m) \/ Passes(m)
MeetingsSpec == MeetingsInit /\ [][MeetingsNext]_meetingVars

\* The cron calls the sweep again and again, and time passes.
MeetingsFairness == WF_meetingVars(Sweep) /\ \A m \in Meetings : WF_meetingVars(Passes(m))
FairMeetings == MeetingsSpec /\ MeetingsFairness

-----------------------------------------------------------------------------
\* A row goes live once at most and everybody is told of it once at most, however
\* many people join at the same moment.  A start that nobody was told of is being
\* announced, or the announcement was lost with its invocation.
MeetingsTypeOK ==
  /\ status \in [Meetings -> Statuses]
  /\ window \in [Meetings -> {"early", "open", "over"}]
  /\ starts \in [Meetings -> 0..1]
  /\ notices \in [Meetings -> 0..1]
  /\ \A m \in Meetings : notices[m] <= starts[m]
  /\ \A m \in Meetings : notices[m] < starts[m] =>
       losses > 0 \/ \E r \in Requests : at[r] = "announce" /\ task[r].on = m
  /\ attended \in [Meetings -> BOOLEAN]
  /\ quiet \in [Meetings -> BOOLEAN]
  /\ long \in [Meetings -> BOOLEAN]
  /\ at \in [Requests -> Steps]
  /\ task \in [Requests -> Tasks \cup {NoTask}]
  /\ sweep \in Phases
  /\ listed \subseteq Meetings /\ ending \subseteq Meetings
  /\ moves \in 0..MaxMoves /\ losses \in 0..MaxLosses

\* Every meeting is over some day, although leave webhooks, cancellations and
\* whole sweeps are lost: no conversation stays blocked by its live meeting.
EveryMeetingSettles ==
  \A m \in Meetings : status[m] \in {"scheduled", "live"} ~> status[m] \in Over

\* "Only an upcoming meeting can be rescheduled or cancelled", and a meeting
\* that somebody started is not missed.
LiveMeetingsAreEnded ==
  [][\A m \in Meetings : Live(m) => status'[m] \in {"live", "ended"}]_meetingVars
=============================================================================
