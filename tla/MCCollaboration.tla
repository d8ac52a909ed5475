--------------------------- MODULE MCCollaboration ---------------------------
(* Small instances of Meetings, Rooms, Messages and Presence for TLC.  They    *)
(* serve one conversation and share no row: a behaviour takes one.  Of         *)
(* meetings there are two requests at a time on one, or two that stay where    *)
(* they were scheduled and one request at a time that is not lost, each with   *)
(* the sweep, the webhooks and the passing of time; of messages the words, or  *)
(* the files.                                                                  *)
EXTENDS Collaboration, TLC

CONSTANTS
  Told,      \* the stories of this instance
  MaxWishes  \* bound: requests about a room's people

VARIABLES story, wishes
collabVars == <<meetingVars, roomVars, messagesVars, presenceVars, story, wishes>>

MCInit ==
  /\ CollabInit
  /\ story \in Told /\ wishes = 0

-----------------------------------------------------------------------------
\* Requests are interchangeable: the first free one is taken; so are meetings, and
\* one is made first.
FirstFree(table, r) == table[r] = "idle" /\ \A q \in DOMAIN table : table[q] = "idle" => q >= r
Shared == CHOOSE m \in Meetings : TRUE
Meet ==
  /\ story \in {"one meeting", "one request"} /\ MeetingsNext
  /\ \A r \in Requests : at[r] = "idle" /\ at'[r] # "idle" =>
       /\ FirstFree(at, r)
       /\ IF story = "one meeting" THEN task'[r].on = Shared
          ELSE /\ task'[r].do # "move" /\ \A q \in Requests : r <= q
               /\ task'[r].on = Shared \/ status[Shared] # "none"
  /\ story = "one request" /\ losses' # losses => UNCHANGED requests
  /\ UNCHANGED <<roomVars, messagesVars, presenceVars, story, wishes>>

-----------------------------------------------------------------------------
\* People are interchangeable: one founds the room and one may be suspended.  What
\* the rules refuse on arrival is left out.
Sensible(w) ==
  IF w.do = "create" THEN w.by = "ann" /\ ("cas" \in w.with => "bob" \in w.with)
  ELSE /\ Admitted(w, role[w.by], archived)
       /\ w.do = "add" => ~In(w.whom)
       /\ w.do \in {"remove", "appoint"} => In(w.whom)
       /\ w.do \in {"archive", "restore"} => archived # (w.do = "archive")
Gather ==
  /\ story = "people" /\ RoomsNext
  /\ People \ active' \subseteq {"bob"}
  /\ ~created => before' \subseteq {<<"ann", "bob">>, <<"ann", "cas">>, <<"bob", "cas">>}
  /\ \A r \in Visits : visit[r] = "idle" /\ visit'[r] # "idle" =>
       FirstFree(visit, r) /\ Sensible(wish'[r])
  /\ wishes' = wishes + Cardinality({r \in Visits : visit[r] = "idle" /\ visit'[r] # "idle"})
  /\ wishes' <= MaxWishes
  /\ UNCHANGED <<meetingVars, messagesVars, presenceVars, story>>

-----------------------------------------------------------------------------
Talk ==
  /\ story \in {"words", "files"} /\ MessagesNext
  /\ \A t \in Tabs : tab[t] = "idle" /\ tab'[t] # "idle" =>
       /\ FirstFree(tab, t)
       /\ CASE asks'[t].do = "send"   -> IF story = "words" THEN asks'[t].files = {}
                                         ELSE asks'[t].files # {} /\ ~asks'[t].body
            [] asks'[t].do = "delete" -> TRUE
            [] OTHER                  -> asks'[t].do = "discard" <=> story = "files"
       /\ asks'[t].do = "send" /\ asks'[t].key = "k2" =>
            \E q \in Tabs : KeyTaken("k1") \/ (asks[q].do = "send" /\ asks[q].key = "k1")
  /\ Sent("i2")' => Sent("i1")'
  /\ story = "words" => file' = file
  /\ UNCHANGED <<meetingVars, roomVars, presenceVars, story, wishes>>

Attend ==
  /\ story = "presence" /\ PresenceNext
  /\ UNCHANGED <<meetingVars, roomVars, messagesVars, story, wishes>>

\* When the bounds are reached there is nothing left to ask.
Silence ==
  /\ story \in {"people", "words", "files"}
  /\ \A r \in Visits : visit[r] = "idle"
  /\ \A t \in Tabs : tab[t] = "idle"
  /\ UNCHANGED collabVars

MCNext == Meet \/ Gather \/ Talk \/ Attend \/ Silence
MCSpec == MCInit /\ [][MCNext]_collabVars
MCFairSpec == MCSpec /\ MeetingsFairness
=============================================================================
