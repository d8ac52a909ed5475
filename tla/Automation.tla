------------------------------ MODULE Automation ------------------------------
(***************************************************************************)
(* Task automation of one company: the outbox of AutomationEvent rows, the *)
(* workers that process it, the lead follow-up sweep and the AutomationRun *)
(* and Task rows they write (src/src/lib/tasks/automation.ts).             *)
(*                                                                         *)
(* D1 has no interactive transaction.  Every await that reads or writes    *)
(* the database is a step of its own here, so that any other request or    *)
(* sweep may run between two of them; a batch() is one step.               *)
(*                                                                         *)
(* One company has at most one rule per preset (a unique index), so a rule *)
(* is named by its preset, and (rule, dedupe key) by the key alone.  The   *)
(* audit row of a task is written in the task's own batch and is never     *)
(* read here: the task row stands for both.                                *)
(***************************************************************************)
EXTENDS Naturals, FiniteSets

CONSTANTS
  Tickets,       \* IT tickets: their creation raises RECORD_CREATED
  Quotations,    \* quotations: their acceptance raises STATUS_CHANGED
  Leads,         \* leads with a follow-up date
  Workers,       \* Worker invocations: after-response hooks and cron sweeps
  TaskIds,       \* random task ids
  MaxAttempts,   \* MAX_ATTEMPTS
  MaxDay,        \* the days of the model are 0..MaxDay
  Lookback,      \* lookbackDays of the lead rule
  MaxLosses      \* bound: invocations that end part-way, and lost answers

ASSUME SourcesDisjoint ==
  /\ Tickets \cap Quotations = {}
  /\ (Tickets \cup Quotations) \cap Leads = {}
ASSUME BoundsAreNaturals ==
  /\ MaxAttempts \in Nat \ {0}
  /\ MaxDay \in Nat
  /\ Lookback \in Nat
  /\ MaxLosses \in Nat

Records == Tickets \cup Quotations
Sources == Records \cup Leads
Days    == 0..MaxDay

PresetOf(s) == IF s \in Tickets THEN "it_ticket_triage"
               ELSE IF s \in Quotations THEN "quotation_handoff"
               ELSE "lead_follow_up"
\* A rule whose preset has no source here would never be looked at.
Presets == {PresetOf(s) : s \in Sources}

VARIABLES
  rule,       \* preset -> "absent", "off" or "on"
  matching,   \* sources that meet their rule's conditions
  eligible,   \* sources whose assignee passes assigneeProblem
  record,     \* source -> "none", "live" or "gone": the record a task would link
  due,        \* lead -> its follow-up date
  today,      \* the Dubai business day
  change,     \* record -> progress of the business change that raises its event
  queued,     \* records whose AutomationEvent row exists
  attempts,   \* record -> attempts column of its event
  processed,  \* records whose event has processedAt
  lastError,  \* records whose event has lastError
  runs,       \* AutomationRun rows
  tasks,      \* Task rows made by automation
  notified,   \* ids of tasks whose assignee has a task.assigned notification
  pc,         \* worker -> what it does next
  todo,       \* worker -> items of the list it read and has not reached
  item,       \* worker -> the item it works on
  target,     \* worker -> what it read of the record the task would link
  drafts,     \* worker -> tasks it created and has not announced
  losses      \* invocations lost so far

configVars == <<rule, matching, eligible, record, due, today, change>>
outboxVars == <<queued, attempts, processed, lastError>>
resultVars == <<runs, tasks, notified>>
workerVars == <<pc, todo, item, target, drafts>>
vars == <<configVars, outboxVars, resultVars, workerVars, losses>>

-----------------------------------------------------------------------------
(* Items, keys and rows *)

NoItem == <<>>
\* A lead with the due date listed, or an event with the attempts it had.
LeadItems  == Leads \X Days
EventItems == Records \X (0..MaxAttempts)
Items      == LeadItems \cup EventItems

\* FOLLOW_UP_DUE:{lead}:{date}, RECORD_CREATED:{id} or STATUS_CHANGED:{id}
Keys     == (Leads \X Days) \cup (Records \X {0})
KeyOf(i) == IF i[1] \in Leads THEN i ELSE <<i[1], 0>>

TaskRows == [id : TaskIds, key : Keys, open : BOOLEAN]
RunRows  ==
  [key : Keys, status : {"success"}, task : TaskIds] \cup
  [key : Keys, status : {"skipped", "failed"}, task : {NoItem}]

HasRun(k)  == \E r \in runs : r.key = k
HasTask(k) == \E t \in tasks : t.key = k
FreshIds   == {id \in TaskIds : \A t \in tasks : t.id # id}
OpenFor(s) == \E t \in tasks : t.key[1] = s /\ t.open

PCs == {"idle", "leads", "select", "events", "plan", "load", "seen", "person",
        "open", "commit", "skip", "finish", "caught", "fail", "deliver"}
\* Inside the try block of processEvents, after the claim.
Trying  == {"plan", "load", "seen", "person", "open", "commit", "skip", "finish"}
\* Holding an event: from its claim until its row is settled or left.
Holding == Trying \cup {"caught", "fail"}

Init ==
  /\ rule = [p \in Presets |-> "absent"]
  /\ matching = Sources
  /\ eligible = Sources
  /\ record = [s \in Sources |-> IF s \in Leads THEN "live" ELSE "none"]
  /\ due \in [Leads -> Days]
  /\ today = 0
  /\ change = [r \in Records |-> "none"]
  /\ queued = {} /\ processed = {} /\ lastError = {}
  /\ attempts = [r \in Records |-> 0]
  /\ runs = {} /\ tasks = {} /\ notified = {}
  /\ pc = [w \in Workers |-> "idle"]
  /\ todo = [w \in Workers |-> {}]
  /\ item = [w \in Workers |-> NoItem]
  /\ target = [w \in Workers |-> "none"]
  /\ drafts = [w \in Workers |-> {}]
  /\ losses = 0

-----------------------------------------------------------------------------
(* What people do meanwhile *)

\* Someone creates, edits, enables or disables a rule.  The version guard makes
\* the read and the batch of saveRule one step.
SaveRule(p) ==
  /\ \E state \in {"off", "on"}, m \in SUBSET {s \in Sources : PresetOf(s) = p} :
       /\ rule' = [rule EXCEPT ![p] = state]
       /\ matching' = {s \in matching : PresetOf(s) # p} \cup m
  /\ UNCHANGED <<eligible, record, due, today, change, outboxVars, resultVars,
                 workerVars, losses>>

\* An administrator changes a person's account, or a lead changes its owner.
ChangePeople(s) ==
  /\ eligible' = IF s \in eligible THEN eligible \ {s} ELSE eligible \cup {s}
  /\ UNCHANGED <<rule, matching, record, due, today, change, outboxVars,
                 resultVars, workerVars, losses>>

\* The record is deleted (softly), or the lead leaves the open stages.
RemoveRecord(s) ==
  /\ record[s] = "live"
  /\ record' = [record EXCEPT ![s] = "gone"]
  /\ UNCHANGED <<rule, matching, eligible, due, today, change, outboxVars,
                 resultVars, workerVars, losses>>

MoveFollowUp(l, d) ==
  /\ due' = [due EXCEPT ![l] = d]
  /\ UNCHANGED <<rule, matching, eligible, record, today, change, outboxVars,
                 resultVars, workerVars, losses>>

NextDay ==
  /\ today < MaxDay
  /\ today' = today + 1
  /\ UNCHANGED <<rule, matching, eligible, record, due, change, outboxVars,
                 resultVars, workerVars, losses>>

\* updateTask closes a task or reopens it.
ToggleTask(t) ==
  /\ tasks' = (tasks \ {t}) \cup {[t EXCEPT !.open = ~t.open]}
  /\ UNCHANGED <<configVars, outboxVars, runs, notified, workerVars, losses>>

-----------------------------------------------------------------------------
(* The business change and its outbox row *)

\* automationOutbox reads the rule before the batch is built.
ReadRule(r) ==
  /\ record[r] = "none" /\ change[r] = "none"
  /\ change' = [change EXCEPT ![r] =
                  IF rule[PresetOf(r)] = "on" THEN "enqueue" ELSE "plain"]
  /\ UNCHANGED <<rule, matching, eligible, record, due, today, outboxVars,
                 resultVars, workerVars, losses>>

\* The batch: the ticket, or the acceptance with its sales order, and the event.
CommitChange(r) ==
  /\ change[r] \in {"plain", "enqueue"}
  /\ record' = [record EXCEPT ![r] = "live"]
  /\ IF change[r] = "enqueue"
       THEN /\ queued' = queued \cup {r}
            /\ change' = [change EXCEPT ![r] = "after"]
       ELSE /\ change' = [change EXCEPT ![r] = "done"]
            /\ UNCHANGED queued
  /\ UNCHANGED <<rule, matching, eligible, due, today, attempts, processed,
                 lastError, resultVars, workerVars, losses>>

\* A stale version or an error rolls back the record and the event together.
RefuseChange(r) ==
  /\ change[r] \in {"plain", "enqueue"}
  /\ change' = [change EXCEPT ![r] = "none"]
  /\ UNCHANGED <<rule, matching, eligible, record, due, today, outboxVars,
                 resultVars, workerVars, losses>>

-----------------------------------------------------------------------------
(* Starting and selecting *)

Pending(ids) ==
  {<<r, attempts[r]>> : r \in {q \in ids \cap queued :
                                 q \notin processed /\ attempts[q] < MaxAttempts}}

\* leadCandidates: due within the catch-up window and meeting the conditions.
Candidates ==
  {<<l, due[l]>> : l \in {c \in Leads : /\ rule[PresetOf(c)] = "on"
                                        /\ record[c] = "live"
                                        /\ due[c] <= today
                                        /\ today <= due[c] + Lookback
                                        /\ c \in matching}}

\* runAutomation, after the response of the change.
StartHook(w, r) ==
  /\ pc[w] = "idle" /\ change[r] = "after"
  /\ change' = [change EXCEPT ![r] = "done"]
  /\ pc' = [pc EXCEPT ![w] = "events"]
  /\ todo' = [todo EXCEPT ![w] = Pending({r})]
  /\ UNCHANGED <<rule, matching, eligible, record, due, today, outboxVars,
                 resultVars, item, target, drafts, losses>>

\* automationSweep starts with the leads.
StartSweep(w) ==
  /\ pc[w] = "idle"
  /\ pc' = [pc EXCEPT ![w] = "leads"]
  /\ todo' = [todo EXCEPT ![w] = Candidates]
  /\ UNCHANGED <<configVars, outboxVars, resultVars, item, target, drafts, losses>>

NextLead(w) ==
  /\ pc[w] = "leads"
  /\ IF todo[w] = {}
       THEN /\ pc' = [pc EXCEPT ![w] = "select"]
            /\ UNCHANGED <<todo, item, target>>
       ELSE \E i \in todo[w] :
            /\ item' = [item EXCEPT ![w] = i]
            /\ todo' = [todo EXCEPT ![w] = @ \ {i}]
            /\ target' = [target EXCEPT ![w] = "live"]
            /\ pc' = [pc EXCEPT ![w] = "seen"]
  /\ UNCHANGED <<configVars, outboxVars, resultVars, drafts, losses>>

SelectEvents(w) ==
  /\ pc[w] = "select"
  /\ todo' = [todo EXCEPT ![w] = Pending(Records)]
  /\ pc' = [pc EXCEPT ![w] = "events"]
  /\ UNCHANGED <<configVars, outboxVars, resultVars, item, target, drafts, losses>>

\* The claim succeeds only on the attempts the list showed.  createdAt orders
\* the list; any order is allowed here.
Claimable(i) == attempts[i[1]] = i[2] /\ i[1] \notin processed

Claim(w) ==
  /\ pc[w] = "events"
  /\ \E i \in todo[w] :
       /\ todo' = [todo EXCEPT ![w] = @ \ {i}]
       /\ IF Claimable(i)
            THEN /\ attempts' = [attempts EXCEPT ![i[1]] = @ + 1]
                 /\ item' = [item EXCEPT ![w] = i]
                 /\ pc' = [pc EXCEPT ![w] = "plan"]
            ELSE UNCHANGED <<attempts, item, pc>>
  /\ UNCHANGED <<configVars, queued, processed, lastError, resultVars, target,
                 drafts, losses>>

\* Mutant: processEvents returns without the drafts it collected.
EndOfListDropping(w) ==
  /\ pc[w] = "events" /\ todo[w] = {}
  /\ pc' = [pc EXCEPT ![w] = "deliver"]
  /\ drafts' = [drafts EXCEPT ![w] = {}]
  /\ UNCHANGED <<configVars, outboxVars, resultVars, todo, item, target, losses>>
EndOfList(w) ==
  /\ pc[w] = "events" /\ todo[w] = {}
  /\ pc' = [pc EXCEPT ![w] = "deliver"]
  /\ UNCHANGED <<configVars, outboxVars, resultVars, todo, item, target, drafts, losses>>

-----------------------------------------------------------------------------
(* One condition: processEvents' try block and execute *)

Src(w) == item[w][1]
Key(w) == KeyOf(item[w])
\* execute returned: on to the event's update, or to the next lead.
Returned(w) == IF Src(w) \in Leads THEN "leads" ELSE "finish"

\* What was read of one item is forgotten where the next one is taken.
LoopHeads == {"leads", "events", "idle"}
Goto(w, label) ==
  /\ pc' = [pc EXCEPT ![w] = label]
  /\ IF label \in LoopHeads
       THEN /\ item' = [item EXCEPT ![w] = NoItem]
            /\ target' = [target EXCEPT ![w] = "none"]
       ELSE UNCHANGED <<item, target>>

\* The rules are read and the event planned: nothing to do when the rule is
\* disabled or its conditions do not hold.
Plan(w) ==
  /\ pc[w] = "plan"
  /\ Goto(w, IF rule[PresetOf(Src(w))] = "on" /\ Src(w) \in matching
               THEN "load" ELSE "finish")
  /\ UNCHANGED <<configVars, outboxVars, resultVars, todo, drafts, losses>>

LoadTarget(w) ==
  /\ pc[w] = "load"
  /\ target' = [target EXCEPT ![w] = record[Src(w)]]
  /\ pc' = [pc EXCEPT ![w] = "seen"]
  /\ UNCHANGED <<configVars, outboxVars, resultVars, todo, item, drafts, losses>>

CheckSeen(w) ==
  /\ pc[w] = "seen"
  /\ Goto(w, IF HasRun(Key(w)) THEN Returned(w)
             ELSE IF target[w] = "live" THEN "person" ELSE "skip")
  /\ UNCHANGED <<configVars, outboxVars, resultVars, todo, drafts, losses>>

CheckPerson(w) ==
  /\ pc[w] = "person"
  /\ Goto(w, IF Src(w) \notin eligible THEN "skip"
             ELSE IF Src(w) \in Leads THEN "open" ELSE "commit")
  /\ UNCHANGED <<configVars, outboxVars, resultVars, todo, drafts, losses>>

\* A lead whose earlier follow-up is still open gets no second task.
CheckOpen(w) ==
  /\ pc[w] = "open"
  /\ Goto(w, IF OpenFor(Src(w)) THEN "skip" ELSE "commit")
  /\ UNCHANGED <<configVars, outboxVars, resultVars, todo, drafts, losses>>

\* Mutant: a run row inserted without the conflict.
AddRunAlways(k, status) ==
  runs' = runs \cup {[key |-> k, status |-> status, task |-> NoItem]}
\* onConflictDoNothing: the run row is written unless the key has one.
AddRun(k, status) ==
  runs' = IF HasRun(k) THEN runs
          ELSE runs \cup {[key |-> k, status |-> status, task |-> NoItem]}

SkipRun(w) ==
  /\ pc[w] = "skip"
  /\ AddRun(Key(w), "skipped")
  /\ Goto(w, Returned(w))
  /\ UNCHANGED <<configVars, outboxVars, tasks, notified, todo, drafts, losses>>

\* Task and run in one batch; a UNIQUE violation of either rolls back both.
\* Mutant: no unique index on the keys.
ConflictUnindexed(k) == FALSE
Conflict(k) == HasTask(k) \/ HasRun(k)

WriteTask(k, id) ==
  /\ tasks' = tasks \cup {[id |-> id, key |-> k, open |-> TRUE]}
  /\ runs' = runs \cup {[key |-> k, status |-> "success", task |-> id]}

CommitTask(w) ==
  /\ pc[w] = "commit"
  /\ IF Conflict(Key(w))
       THEN UNCHANGED <<tasks, runs, drafts>>
       ELSE \E id \in FreshIds :
            /\ WriteTask(Key(w), id)
            /\ drafts' = [drafts EXCEPT ![w] = @ \cup {id}]
  /\ Goto(w, Returned(w))
  /\ UNCHANGED <<configVars, outboxVars, notified, todo, losses>>

Finish(w) ==
  /\ pc[w] = "finish"
  /\ processed' = processed \cup {Src(w)}
  /\ lastError' = lastError \ {Src(w)}
  /\ Goto(w, "events")
  /\ UNCHANGED <<configVars, queued, attempts, resultVars, todo, drafts, losses>>

-----------------------------------------------------------------------------
(* Errors, and invocations that end part-way *)

\* Any await of the try block may throw.
Throw(w) ==
  /\ pc[w] \in Trying /\ Src(w) \in Records
  /\ Goto(w, "caught")
  /\ UNCHANGED <<configVars, outboxVars, resultVars, todo, drafts, losses>>

\* Mutant: the last attempt is never reached.
IsLastAttemptNever(i) == i[2] + 1 > MaxAttempts
IsLastAttempt(i) == i[2] + 1 >= MaxAttempts

Caught(w) ==
  /\ pc[w] = "caught"
  /\ lastError' = lastError \cup {Src(w)}
  /\ IF IsLastAttempt(item[w])
       THEN processed' = processed \cup {Src(w)} /\ Goto(w, "fail")
       ELSE Goto(w, "events") /\ UNCHANGED processed
  /\ UNCHANGED <<configVars, queued, attempts, resultVars, todo, drafts, losses>>

\* recordFailure writes to the history of the rule if it is enabled.
RecordFailure(w) ==
  /\ pc[w] = "fail"
  /\ IF rule[PresetOf(Src(w))] = "on" THEN AddRun(Key(w), "failed") ELSE UNCHANGED runs
  /\ Goto(w, "events")
  /\ UNCHANGED <<configVars, outboxVars, tasks, notified, todo, drafts, losses>>

\* createNotifications for the drafts of the whole run.
Deliver(w) ==
  /\ pc[w] = "deliver"
  /\ notified' = notified \cup drafts[w]
  /\ drafts' = [drafts EXCEPT ![w] = {}]
  /\ Goto(w, "idle")
  /\ UNCHANGED <<configVars, outboxVars, runs, tasks, todo, losses>>

\* The invocation ends with its list and its drafts: the platform stops it, or
\* an error escapes (any error of a lead or of the catch block does).
Lose(w) ==
  /\ pc[w] # "idle" /\ losses < MaxLosses
  /\ losses' = losses + 1
  /\ Goto(w, "idle")
  /\ todo' = [todo EXCEPT ![w] = {}]
  /\ drafts' = [drafts EXCEPT ![w] = {}]
  /\ UNCHANGED <<configVars, outboxVars, resultVars>>

\* The batch commits but its answer is lost: to the worker it is an error, and
\* the draft was never made.
CommitUnheard(w) ==
  /\ pc[w] = "commit" /\ Src(w) \in Records /\ losses < MaxLosses
  /\ ~Conflict(Key(w))
  /\ \E id \in FreshIds : WriteTask(Key(w), id)
  /\ losses' = losses + 1
  /\ Goto(w, "caught")
  /\ UNCHANGED <<configVars, outboxVars, notified, todo, drafts>>

-----------------------------------------------------------------------------
Step(w) ==
  \/ NextLead(w) \/ SelectEvents(w) \/ Claim(w) \/ EndOfList(w)
  \/ Plan(w) \/ LoadTarget(w) \/ CheckSeen(w) \/ CheckPerson(w) \/ CheckOpen(w)
  \/ SkipRun(w) \/ CommitTask(w) \/ Finish(w)
  \/ Caught(w) \/ RecordFailure(w) \/ Deliver(w)

People ==
  \/ \E p \in Presets : SaveRule(p)
  \/ \E s \in Sources : ChangePeople(s) \/ RemoveRecord(s)
  \/ \E l \in Leads, d \in Days : MoveFollowUp(l, d)
  \/ NextDay
  \/ \E t \in tasks : ToggleTask(t)
  \/ \E r \in Records : ReadRule(r) \/ CommitChange(r) \/ RefuseChange(r)

Next ==
  \/ People
  \/ \E w \in Workers :
       \/ StartSweep(w) \/ Step(w) \/ Throw(w) \/ Lose(w) \/ CommitUnheard(w)
       \/ \E r \in Records : StartHook(w, r)

Spec == Init /\ [][Next]_vars

\* The cron fires for ever, and an invocation that is not lost goes on.
Fairness ==
  /\ WF_vars(\E w \in Workers : StartSweep(w))
  /\ \A w \in Workers : WF_vars(Step(w))

FairSpec == Spec /\ Fairness

-----------------------------------------------------------------------------
(* Properties *)

TypeOK ==
  /\ rule \in [Presets -> {"absent", "off", "on"}]
  /\ matching \subseteq Sources
  /\ eligible \subseteq Sources
  /\ record \in [Sources -> {"none", "live", "gone"}]
  /\ due \in [Leads -> Days]
  /\ today \in Days
  /\ change \in [Records -> {"none", "plain", "enqueue", "after", "done"}]
  /\ queued \subseteq Records
  /\ attempts \in [Records -> 0..MaxAttempts]
  /\ processed \subseteq Records
  /\ lastError \subseteq Records
  /\ runs \subseteq RunRows
  /\ tasks \subseteq TaskRows
  /\ notified \subseteq TaskIds
  /\ pc \in [Workers -> PCs]
  /\ todo \in [Workers -> SUBSET Items]
  /\ item \in [Workers -> Items \cup {NoItem}]
  /\ target \in [Workers -> {"none", "live", "gone"}]
  /\ drafts \in [Workers -> SUBSET TaskIds]
  /\ losses \in 0..MaxLosses

\* However many sweeps and hooks overlap, one condition of one rule never has
\* two tasks.
OneTaskPerKey == \A t, u \in tasks : t.key = u.key => t = u

\* A rule's history agrees with the tasks: a task has exactly one run, which is
\* a success naming it, and a skipped or failed run ("create it by hand") never
\* stands beside a task made after all by an attempt still in flight.
HistoryTellsTheTruth ==
  /\ \A r, q \in runs : r.key = q.key => r = q
  /\ \A t \in tasks : \E r \in runs : r.key = t.key /\ r.task = t.id
  /\ \A r \in runs : r.status = "success" =>
       \E t \in tasks : t.key = r.key /\ t.id = r.task

\* The claim numbers attempts: two workers may hold one event, but never on the
\* same attempt, so only one of them can be the last that records the failure.
AttemptIsExclusive ==
  \A v, w \in Workers :
    (v # w /\ pc[v] \in Holding /\ pc[w] \in Holding) =>
      (Src(v) \in Records /\ Src(v) = Src(w) => item[v][2] # item[w][2])

\* A worker on its way to record a failure holds the last attempt of an event
\* that is already settled: nobody can claim that event again.
FailureIsFinal ==
  \A w \in Workers : pc[w] = "fail" =>
    /\ Src(w) \in processed
    /\ attempts[Src(w)] = MaxAttempts

\* A settled event stays settled, its attempts only grow, and no outcome in a
\* rule's history is changed or removed.
OutcomesAreFinal ==
  [][ /\ processed \subseteq processed'
      /\ runs \subseteq runs'
      /\ \A r \in Records : attempts'[r] >= attempts[r] ]_vars

\* Every event is settled in the end, whatever the sweeps overlap and the try
\* block throws, unless an invocation was lost on the way.  (One loss can be
\* enough: the holder of the last attempt is lost and an earlier holder throws.)
SettledUnlessLost ==
  \A r \in Records : r \in queued ~> (r \in processed \/ losses > 0)

\* Every task a rule makes is announced to its assignee in the end, unless an
\* invocation, or the answer to its batch, was lost.
ToldUnlessLost ==
  \A id \in TaskIds :
    (\E t \in tasks : t.id = id) ~> (id \in notified \/ losses > 0)
=============================================================================
