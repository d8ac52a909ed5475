------------------------------- MODULE Outbound -------------------------------
(***************************************************************************)
(* Controlled outbound communication of one sender: OutboundMessage rows,  *)
(* their OutboundEvent history, and the requests that draft, revise and    *)
(* send them (src/src/lib/outbound/store.ts).  Messages are private to     *)
(* their owner and the hourly limit counts the owner's own rows, so other  *)
(* senders cannot be told apart from no sender at all.                     *)
(*                                                                         *)
(* Every await on the database or the provider is a step of its own, so    *)
(* other requests of the same person run between any two of them; the      *)
(* batch of an update and its event is one step.  A row that does not      *)
(* exist has status "none" and version 0; 0 stands for a null time.        *)
(*                                                                         *)
(* All messages of the model are linked to one CRM record: what matters of *)
(* it is the address it gives now, or that it gives none, or that it is    *)
(* deleted, moved or out of the sender's reach ("gone").                   *)
(***************************************************************************)
EXTENDS Naturals, Sequences, FiniteSets

CONSTANTS
  Messages,    \* client-generated message ids
  Templated,   \* the WhatsApp messages made from the shared template
  Texts,       \* subject and body
  Addresses,   \* e-mail addresses or phone numbers of the linked record
  Requests,    \* Worker invocations serving outboundCommand
  Commands,    \* what people ask for in this instance
  Limit,       \* submissions per window (20)
  Window,      \* the hour
  MaxClock,    \* bound: the times of the model are 1..MaxClock
  MaxVersion,  \* bound: people stop revising a row at this version
  MaxLosses    \* bound: invocations that end part-way

ASSUME SomeTemplated == Templated \subseteq Messages
ASSUME SomeCommands  == Commands \subseteq {"draft", "edit", "schedule", "ready", "cancel", "send"}
ASSUME SomeBounds    == /\ Limit \in Nat \ {0} /\ Window \in Nat \ {0}
                        /\ MaxClock \in Nat \ {0} /\ MaxVersion \in Nat
                        /\ MaxLosses \in Nat
ASSUME SomeText      == Texts # {}
ASSUME FiniteMessages == IsFiniteSet(Messages)

VARIABLES
  status, version, text, scheduledAt, updatedAt, recipient,  \* OutboundMessage
  history,     \* message -> the states its events record, oldest first
  template,    \* the shared template: "absent", "active" or "archived"
  contact,     \* what the linked record gives: an address, "invalid" or "gone"
  clock,
  submitted,   \* message -> texts handed to the provider, in order
  claimedAt,   \* message -> the time its claim recorded, 0 for none
  pc,          \* request -> what it does next
  on,          \* request -> its message
  cmd,         \* request -> its action
  to,          \* request -> the address its draft will have
  reviewed,    \* request -> the text its sender had on screen
  revision,    \* request -> c.version, then m.version
  began,       \* request -> now
  was,         \* request -> m.status
  body,        \* request -> m.subject and m.body
  losses

rowVars  == <<status, version, text, scheduledAt, updatedAt, recipient, history>>
pastVars == <<submitted, claimedAt>>
envVars  == <<template, contact, clock>>
reqVars  == <<pc, on, cmd, to, reviewed, revision, began, was, body>>
vars == <<rowVars, pastVars, envVars, reqVars, losses>>

Open  == {"draft", "scheduled", "ready"}
Final == {"accepted", "captured", "uncertain", "rejected"}
Spent == Final \cup {"sending"}
Statuses == Open \cup Spent \cup {"none", "cancelled"}
Times == 1..MaxClock
PCs == {"idle", "insert", "load", "linked", "apply", "template", "count",
        "open", "claim", "submit", "settle"}

NoMessage == <<>>
SomeWords == CHOOSE t \in Texts : TRUE

Init ==
  /\ status = [m \in Messages |-> "none"]
  /\ version = [m \in Messages |-> 0]
  /\ text = [m \in Messages |-> SomeWords]
  /\ scheduledAt = [m \in Messages |-> 0]
  /\ updatedAt = [m \in Messages |-> 0]
  /\ recipient = [m \in Messages |-> "invalid"]
  /\ history = [m \in Messages |-> <<>>]
  /\ template = "absent"
  /\ contact \in Addresses
  /\ clock = 1
  /\ submitted = [m \in Messages |-> <<>>]
  /\ claimedAt = [m \in Messages |-> 0]
  /\ pc = [w \in Requests |-> "idle"]
  /\ on = [w \in Requests |-> NoMessage]
  /\ cmd = [w \in Requests |-> "none"]
  /\ to = [w \in Requests |-> "invalid"]
  /\ reviewed = [w \in Requests |-> SomeWords]
  /\ revision = [w \in Requests |-> 0]
  /\ began = [w \in Requests |-> 0]
  /\ was = [w \in Requests |-> "none"]
  /\ body = [w \in Requests |-> SomeWords]
  /\ losses = 0

-----------------------------------------------------------------------------
(* The world *)

Tick ==
  /\ clock < MaxClock
  /\ clock' = clock + 1
  /\ UNCHANGED <<rowVars, pastVars, template, contact, reqVars, losses>>

\* The linked record is edited, deleted, restored or reassigned.
ChangeContact(c) ==
  /\ contact' = c
  /\ UNCHANGED <<rowVars, pastVars, template, clock, reqVars, losses>>

\* A manager creates the template; a repeated identical request changes nothing.
CreateTemplate ==
  /\ template = "absent"
  /\ template' = "active"
  /\ UNCHANGED <<rowVars, pastVars, contact, clock, reqVars, losses>>

\* One guarded UPDATE; the guard trigger makes archiving final.
ArchiveTemplate ==
  /\ template = "active"
  /\ template' = "archived"
  /\ UNCHANGED <<rowVars, pastVars, contact, clock, reqVars, losses>>

-----------------------------------------------------------------------------
(* Requests *)

Goto(w, label) == pc' = [pc EXCEPT ![w] = label]

\* The request is answered; what it held is forgotten.
Answer(w) ==
  /\ Goto(w, "idle")
  /\ on' = [on EXCEPT ![w] = NoMessage]
  /\ cmd' = [cmd EXCEPT ![w] = "none"]
  /\ to' = [to EXCEPT ![w] = "invalid"]
  /\ reviewed' = [reviewed EXCEPT ![w] = SomeWords]
  /\ revision' = [revision EXCEPT ![w] = 0]
  /\ began' = [began EXCEPT ![w] = 0]
  /\ was' = [was EXCEPT ![w] = "none"]
  /\ body' = [body EXCEPT ![w] = SomeWords]

Refuse(w) ==
  Answer(w) /\ UNCHANGED <<rowVars, pastVars, envVars, losses>>

\* A command carries the version its sender reviewed, which is the row as some
\* screen showed it: the row now, since anything may happen before it is read.
Ask(w, m, c) ==
  /\ pc[w] = "idle" /\ status[m] # "none" /\ c \in Commands \ {"draft"}
  /\ c \in {"edit", "schedule", "ready"} => version[m] < MaxVersion
  /\ Goto(w, "load")
  /\ on' = [on EXCEPT ![w] = m]
  /\ cmd' = [cmd EXCEPT ![w] = c]
  /\ reviewed' = [reviewed EXCEPT ![w] = text[m]]
  /\ revision' = [revision EXCEPT ![w] = version[m]]
  /\ began' = [began EXCEPT ![w] = clock]
  /\ UNCHANGED <<rowVars, pastVars, envVars, to, was, body, losses>>

-----------------------------------------------------------------------------
(* Drafting *)

\* The record must give a valid address.  The template and prior-id reads only
\* refuse: the insert trigger and the primary key decide again.
AskDraft(w, m, t) ==
  /\ pc[w] = "idle" /\ status[m] = "none"
  /\ contact \in Addresses
  /\ Goto(w, "insert")
  /\ on' = [on EXCEPT ![w] = m]
  /\ to' = [to EXCEPT ![w] = contact]
  /\ body' = [body EXCEPT ![w] = t]
  /\ began' = [began EXCEPT ![w] = clock]
  /\ UNCHANGED <<rowVars, pastVars, envVars, cmd, reviewed, revision, was, losses>>

Insertable(m) ==
  /\ status[m] = "none"
  /\ contact # "gone"
  /\ m \in Templated => template = "active"

InsertDraft(w) ==
  /\ pc[w] = "insert"
  /\ IF Insertable(on[w])
       THEN /\ status' = [status EXCEPT ![on[w]] = "draft"]
            /\ version' = [version EXCEPT ![on[w]] = 1]
            /\ text' = [text EXCEPT ![on[w]] = body[w]]
            /\ updatedAt' = [updatedAt EXCEPT ![on[w]] = began[w]]
            /\ recipient' = [recipient EXCEPT ![on[w]] = to[w]]
            /\ history' = [history EXCEPT ![on[w]] = <<"draft">>]
            /\ UNCHANGED scheduledAt
       ELSE UNCHANGED rowVars
  /\ Answer(w)
  /\ UNCHANGED <<pastVars, envVars, losses>>

-----------------------------------------------------------------------------
(* Reading the message and its record *)

\* Mutant: the version on the sender's screen is not compared.
UnchangedAnyway(w) == TRUE
Unchanged(w) == version[on[w]] = revision[w]

\* Mutant: a message left in sending by a lost invocation may be taken up again.
RevisableStuck(s) == s \in Open \cup {"sending"}
Revisable(s) == s \in Open

\* owned reads the row.  A changed or locked message is refused, and so is a
\* send of one that is neither ready nor scheduled for review and due.
Load(w) ==
  LET m == on[w] IN
  /\ pc[w] = "load"
  /\ IF /\ Unchanged(w) /\ Revisable(status[m])
        /\ cmd[w] = "send" =>
             \/ status[m] = "ready"
             \/ status[m] = "scheduled" /\ scheduledAt[m] <= began[w]
       THEN /\ was' = [was EXCEPT ![w] = status[m]]
            /\ body' = [body EXCEPT ![w] = text[m]]
            /\ revision' = [revision EXCEPT ![w] = version[m]]
            /\ Goto(w, "linked")
            /\ UNCHANGED <<rowVars, pastVars, envVars, on, cmd, to, reviewed,
                           began, losses>>
       ELSE Refuse(w)

\* linked reads the record afterwards; a send also compares its address.
CheckLinked(w) ==
  /\ pc[w] = "linked"
  /\ IF contact = "gone" \/ (cmd[w] = "send" /\ contact # recipient[on[w]])
       THEN Refuse(w)
       ELSE /\ Goto(w, IF cmd[w] # "send" THEN "apply"
                       ELSE IF on[w] \in Templated THEN "template" ELSE "count")
            /\ UNCHANGED <<rowVars, pastVars, envVars, on, cmd, to, reviewed,
                           revision, began, was, body, losses>>

-----------------------------------------------------------------------------
(* The guarded update and its event *)

Matches(w) == version[on[w]] = revision[w] /\ status[on[w]] = was[w]

Write(m, s, t, at, now) ==
  /\ status' = [status EXCEPT ![m] = s]
  /\ version' = [version EXCEPT ![m] = @ + 1]
  /\ text' = [text EXCEPT ![m] = t]
  /\ scheduledAt' = [scheduledAt EXCEPT ![m] = at]
  /\ updatedAt' = [updatedAt EXCEPT ![m] = now]
  /\ history' = [history EXCEPT ![m] = Append(@, s)]
  /\ UNCHANGED recipient

\* The update did not match: nothing is written, not even the event.
\* Mutant: the event is inserted whatever changes() says.
StaleRecorded(w) ==
  /\ Answer(w)
  /\ history' = [history EXCEPT ![on[w]] = Append(@, was[w])]
  /\ UNCHANGED <<status, version, text, scheduledAt, updatedAt, recipient,
                 pastVars, envVars, losses>>
Stale(w) == Refuse(w)

\* edit, schedule, ready and cancel.
Apply(w) ==
  /\ pc[w] = "apply"
  /\ IF Matches(w)
       THEN /\ \/ /\ cmd[w] = "edit"
                  /\ \E t \in Texts : Write(on[w], "draft", t, 0, began[w])
               \/ /\ cmd[w] = "schedule"
                  /\ \E at \in Times : /\ at > began[w]
                                       /\ Write(on[w], "scheduled", body[w], at, began[w])
               \/ /\ cmd[w] = "cancel"
                  /\ Write(on[w], "cancelled", body[w], 0, began[w])
               \/ /\ cmd[w] = "ready"
                  /\ Write(on[w], "ready", body[w], 0, began[w])
            /\ Answer(w)
            /\ UNCHANGED <<pastVars, envVars, losses>>
       ELSE Stale(w)

\* A review time that is not in the future is refused.
RefuseSchedule(w) ==
  pc[w] = "apply" /\ cmd[w] = "schedule" /\ Refuse(w)

-----------------------------------------------------------------------------
(* Sending *)

\* The same request, one label further.
Advance(w, label) ==
  /\ Goto(w, label)
  /\ UNCHANGED <<on, cmd, to, reviewed, began, body>>

CheckTemplate(w) ==
  /\ pc[w] = "template"
  /\ IF template = "active"
       THEN Advance(w, "count") /\ UNCHANGED <<rowVars, pastVars, envVars, revision, was, losses>>
       ELSE Refuse(w)

Recent(now) ==
  {m \in Messages : status[m] \in Spent /\ updatedAt[m] + Window > now}
UnderLimit(now) == Cardinality(Recent(now)) < Limit

CountRecent(w) ==
  /\ pc[w] = "count"
  /\ IF UnderLimit(began[w])
       THEN /\ Advance(w, IF was[w] = "scheduled" THEN "open" ELSE "claim")
            /\ UNCHANGED <<rowVars, pastVars, envVars, revision, was, losses>>
       ELSE Refuse(w)

\* prepareSubmission refuses: sending is disabled, the channel is not
\* configured, or the body no longer renders from the approved template.
RefuseConfiguration(w) == pc[w] = "count" /\ Refuse(w)

\* update, then m.status = s and m.version++.
\* Mutant: the local version is not counted on.
WriteOnForgetting(w, s, label) ==
  /\ Write(on[w], s, body[w], 0, began[w])
  /\ Advance(w, label)
  /\ was' = [was EXCEPT ![w] = s]
  /\ UNCHANGED <<revision, envVars, submitted, losses>>
WriteOn(w, s, label) ==
  /\ Write(on[w], s, body[w], 0, began[w])
  /\ Advance(w, label)
  /\ was' = [was EXCEPT ![w] = s]
  /\ revision' = [revision EXCEPT ![w] = @ + 1]
  /\ UNCHANGED <<envVars, submitted, losses>>

OpenReview(w) ==
  /\ pc[w] = "open"
  /\ IF Matches(w)
       THEN WriteOn(w, "ready", "claim") /\ UNCHANGED claimedAt
       ELSE Stale(w)

\* OutboundMessage_rate counts again inside the claiming UPDATE.
\* Mutant: only the service counts.
RateTriggerOff(now) == TRUE
RateTrigger(now) == UnderLimit(now)

Claim(w) ==
  /\ pc[w] = "claim"
  /\ IF Matches(w) /\ RateTrigger(began[w])
       THEN /\ WriteOn(w, "sending", "submit")
            /\ claimedAt' = [claimedAt EXCEPT ![on[w]] = began[w]]
       ELSE Stale(w)

\* The provider, or in the sandbox the local capture, is handed the message.
Submit(w) ==
  /\ pc[w] = "submit"
  /\ submitted' = [submitted EXCEPT ![on[w]] = Append(@, body[w])]
  /\ Advance(w, "settle")
  /\ UNCHANGED <<rowVars, claimedAt, envVars, revision, was, losses>>

\* Whatever the answer was, the row takes it and is final.
Settle(w) ==
  /\ pc[w] = "settle"
  /\ IF Matches(w)
       THEN /\ \E o \in Final : Write(on[w], o, body[w], 0, clock)
            /\ Answer(w)
            /\ UNCHANGED <<pastVars, envVars, losses>>
       ELSE Stale(w)

\* The invocation ends part-way.
Lose(w) ==
  /\ pc[w] # "idle" /\ losses < MaxLosses
  /\ losses' = losses + 1
  /\ Answer(w)
  /\ UNCHANGED <<rowVars, pastVars, envVars>>

-----------------------------------------------------------------------------
Step(w) ==
  \/ InsertDraft(w) \/ Load(w) \/ CheckLinked(w) \/ Apply(w) \/ RefuseSchedule(w)
  \/ CheckTemplate(w) \/ CountRecent(w) \/ RefuseConfiguration(w)
  \/ OpenReview(w) \/ Claim(w) \/ Submit(w) \/ Settle(w)

World ==
  \/ Tick \/ CreateTemplate \/ ArchiveTemplate
  \/ \E c \in Addresses \cup {"invalid", "gone"} : ChangeContact(c)

Next ==
  \/ World
  \/ \E w \in Requests :
       \/ Step(w) \/ Lose(w)
       \/ \E m \in Messages :
            \/ \E c \in Commands : Ask(w, m, c)
            \/ \E t \in Texts : AskDraft(w, m, t)

Spec == Init /\ [][Next]_vars

\* An invocation that is not lost goes on: a fetch or a socket is given up
\* after 15 seconds, so every await returns.
Fairness == \A w \in Requests : WF_vars(Step(w))
FairSpec == Spec /\ Fairness

-----------------------------------------------------------------------------
(* Properties *)

\* Types; and a review time is kept exactly while a review is scheduled, so a
\* due time left behind can never make another state sendable.
TypeOK ==
  /\ status \in [Messages -> Statuses]
  /\ version \in [Messages -> Nat]
  /\ text \in [Messages -> Texts]
  /\ scheduledAt \in [Messages -> Times \cup {0}]
  /\ updatedAt \in [Messages -> Times \cup {0}]
  /\ recipient \in [Messages -> Addresses \cup {"invalid"}]
  /\ history \in [Messages -> Seq(Statuses)]
  /\ template \in {"absent", "active", "archived"}
  /\ contact \in Addresses \cup {"invalid", "gone"}
  /\ clock \in Times
  /\ submitted \in [Messages -> Seq(Texts)]
  /\ claimedAt \in [Messages -> Times \cup {0}]
  /\ pc \in [Requests -> PCs]
  /\ on \in [Requests -> Messages \cup {NoMessage}]
  /\ cmd \in [Requests -> Commands \cup {"none"}]
  /\ to \in [Requests -> Addresses \cup {"invalid"}]
  /\ reviewed \in [Requests -> Texts]
  /\ revision \in [Requests -> Nat]
  /\ began \in [Requests -> Times \cup {0}]
  /\ was \in [Requests -> Statuses]
  /\ body \in [Requests -> Texts]
  /\ losses \in 0..MaxLosses
  /\ \A m \in Messages : status[m] = "scheduled" <=> scheduledAt[m] # 0

\* A request that claimed a message is the only one that can still write it:
\* its answer always finds the row it claimed (no update after the network call
\* is refused), and no other request submits that message.
ClaimerOwnsTheRow ==
  \A w \in Requests : pc[w] \in {"submit", "settle"} =>
    /\ status[on[w]] = "sending" /\ Matches(w)
    /\ \A v \in Requests : pc[v] \in {"submit", "settle"} /\ on[v] = on[w] => v = w

\* What is handed to the provider is word for word what its sender had on the
\* screen when they confirmed it, and what the row then holds for ever.
SubmittedAsReviewed ==
  /\ \A w \in Requests : pc[w] = "submit" => body[w] = reviewed[w]
  /\ \A m \in Messages, i \in 1..2 :
       i \in DOMAIN submitted[m] => i = 1 /\ submitted[m][i] = text[m]

\* "Twenty submissions per sender per hour, enforced in both service and
\* database": no window of an hour holds more claims than the limit, however
\* many requests counted before any of them claimed.
HourlyLimit ==
  \A t \in Times :
    Cardinality({m \in Messages : claimedAt[m] # 0 /\ t <= claimedAt[m]
                                  /\ claimedAt[m] < t + Window}) <= Limit

\* What OutboundMessage_guard allows of one step of a row.
LegalStep(old, new) ==
  \/ old = "none" /\ new = "draft"
  \/ old \in Open /\ new \in Open \cup {"cancelled"}
  \/ old = "ready" /\ new = "sending"
  \/ old = "sending" /\ new \in Final

\* The immutable history tells every version of the row, in order: nothing the
\* code refused is in it, and nothing it did is missing.
HistoryTellsEveryVersion ==
  \A m \in Messages :
    /\ Len(history[m]) = version[m]
    /\ version[m] > 0 => history[m][1] = "draft" /\ history[m][version[m]] = status[m]
    /\ \A i \in 1..(Len(history[m]) - 1) : LegalStep(history[m][i], history[m][i + 1])

\* The service never asks for an update the guard trigger would abort: a row
\* moves along legal transitions, one version at a time, and the words of a
\* locked message never change.
RowsMoveLegally ==
  [][\A m \in Messages :
       /\ version'[m] # version[m] =>
            version'[m] = version[m] + 1 /\ LegalStep(status[m], status'[m])
       /\ version'[m] = version[m] => status'[m] = status[m]
       /\ text'[m] # text[m] => status[m] \in Open \cup {"none"}
       /\ recipient'[m] # recipient[m] => status[m] = "none"]_vars

\* Abstractly: one claim, at most one submission of the claimed text, no way back.
PhaseOf(s) ==
  IF s = "none" THEN "absent" ELSE IF s \in Open THEN "open"
  ELSE IF s = "sending" THEN "claimed" ELSE "closed"

Promise == INSTANCE OutboundPromise
  WITH phase <- [m \in Messages |-> PhaseOf(status[m])], sent <- submitted

\* Outbound implements OutboundPromise: with lost invocations and concurrent
\* confirmed requests, a message is submitted at most once and never reopened.
KeepsThePromise == Promise!Spec

\* While no invocation is lost, every claimed message gets its outcome.
EveryClaimIsSettled ==
  \A m \in Messages : status[m] = "sending" ~> status[m] \in Final
=============================================================================
