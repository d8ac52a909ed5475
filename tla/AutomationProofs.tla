--------------------------- MODULE AutomationProofs ---------------------------
(***************************************************************************)
(* Proofs about Automation, for any number of records, leads, workers and  *)
(* attempts, any number of lost invocations and any people's actions.      *)
(*                                                                         *)
(* The invariants the runs check are not inductive alone: a claim keeps    *)
(* attempts within MaxAttempts only because of what the worker's list may  *)
(* hold, and two holders differ in their attempt only because every holder *)
(* is below the stored count.  Shape says both.                            *)
(***************************************************************************)
EXTENDS Automation, TLAPS

\* Events as a list may hold them: with attempts left.
OpenItems == Records \X (0..(MaxAttempts - 1))

OnLead(w) ==
  /\ item[w] \in LeadItems
  /\ todo[w] \subseteq LeadItems
  /\ pc[w] \in {"seen", "person", "open", "commit", "skip"}

OnEvent(w) ==
  /\ item[w] \in OpenItems
  /\ todo[w] \subseteq OpenItems
  /\ item[w][2] < attempts[item[w][1]]

Shape ==
  \A w \in Workers :
    /\ pc[w] = "leads" => todo[w] \subseteq LeadItems
    /\ pc[w] = "events" => todo[w] \subseteq OpenItems
    /\ pc[w] \in Holding => OnLead(w) \/ OnEvent(w)

Failing ==
  \A w \in Workers : pc[w] = "fail" =>
    /\ OnEvent(w)
    /\ Src(w) \in processed
    /\ IsLastAttempt(item[w])

Rows == OneTaskPerKey /\ HistoryTellsTheTruth

IInv == TypeOK /\ Shape /\ AttemptIsExclusive /\ Failing /\ Rows

USE DEF Records, Sources, Days, LeadItems, EventItems, Items, OpenItems, PCs,
        Trying, Holding, LoopHeads

-----------------------------------------------------------------------------
(* What one item's key is, and where execute returns to *)

\* A listed lead or event has a dedupe key of its own kind.
LEMMA KeyInKeys ==
  ASSUME NEW i \in LeadItems \cup OpenItems
  PROVE  KeyOf(i) \in Keys
  BY SourcesDisjoint, BoundsAreNaturals DEF KeyOf, Keys

\* The keys of the items a worker may hold, and its next label after execute.
LEMMA HolderFacts ==
  ASSUME TypeOK, Shape, NEW w \in Workers, pc[w] \in Holding
  PROVE  /\ item[w] \in LeadItems \cup OpenItems
         /\ Key(w) \in Keys
         /\ OnLead(w) => Src(w) \in Leads /\ Returned(w) = "leads"
         /\ OnEvent(w) => Src(w) \in Records /\ Src(w) \notin Leads
                          /\ Returned(w) = "finish"
<1>1. item[w] \in LeadItems \cup OpenItems
  BY DEF Shape, OnLead, OnEvent
<1>2. Key(w) \in Keys
  BY <1>1, KeyInKeys DEF Key
<1>3. OnLead(w) => Src(w) \in Leads /\ Returned(w) = "leads"
  BY DEF OnLead, Src, Returned
<1>4. OnEvent(w) => /\ Src(w) \in Records /\ Src(w) \notin Leads
                    /\ Returned(w) = "finish"
  BY SourcesDisjoint DEF OnEvent, Src, Returned
<1> QED BY <1>1, <1>2, <1>3, <1>4

\* Everything a list of pending events shows has attempts left.
LEMMA PendingIsOpen ==
  ASSUME TypeOK, NEW ids \in SUBSET Records
  PROVE  Pending(ids) \subseteq OpenItems
  BY BoundsAreNaturals DEF Pending, TypeOK

LEMMA InitInv == Init => IInv
<1> SUFFICES ASSUME Init PROVE IInv
  OBVIOUS
<1>1. TypeOK
  BY BoundsAreNaturals DEF Init, TypeOK, Presets
<1>2. Shape /\ AttemptIsExclusive /\ Failing
  BY DEF Init, Shape, AttemptIsExclusive, Failing
<1>3. Rows
  BY DEF Init, Rows, OneTaskPerKey, HistoryTellsTheTruth
<1> QED BY <1>1, <1>2, <1>3 DEF IInv

-----------------------------------------------------------------------------
(* Type correctness *)

\* The batch writes a task row and a run row.
LEMMA WriteTaskType ==
  ASSUME TypeOK, NEW k \in Keys, NEW id \in TaskIds, WriteTask(k, id)
  PROVE  tasks' \subseteq TaskRows /\ runs' \subseteq RunRows
<1>1. [id |-> id, key |-> k, open |-> TRUE] \in TaskRows
  BY DEF TaskRows
<1>2. [key |-> k, status |-> "success", task |-> id] \in RunRows
  BY DEF RunRows
<1> QED BY <1>1, <1>2 DEF WriteTask, TypeOK

LEMMA TypeStep == IInv /\ [Next]_vars => TypeOK'
<1> SUFFICES ASSUME IInv, [Next]_vars PROVE TypeOK'
  OBVIOUS
<1>a. \A w \in Workers : pc[w] \in Holding =>
        /\ Key(w) \in Keys
        /\ Src(w) \in Leads => Returned(w) = "leads"
        /\ Src(w) \notin Leads => Src(w) \in Records /\ Returned(w) = "finish"
  BY HolderFacts DEF IInv, Shape, Returned
<1>b. \A w \in Workers : pc[w] \in {"finish", "caught", "fail"} => Src(w) \in Records
  BY HolderFacts DEF IInv, Shape, OnLead
<1> USE DEF IInv, TypeOK, configVars, outboxVars, resultVars, workerVars
<1>1. ASSUME NEW p \in Presets, SaveRule(p) PROVE TypeOK'
  BY <1>1 DEF SaveRule
<1>2. ASSUME NEW s \in Sources, ChangePeople(s) \/ RemoveRecord(s) PROVE TypeOK'
  BY <1>2 DEF ChangePeople, RemoveRecord
<1>3. ASSUME NEW l \in Leads, NEW d \in Days, MoveFollowUp(l, d) PROVE TypeOK'
  BY <1>3 DEF MoveFollowUp
<1>4. CASE NextDay
  BY <1>4, BoundsAreNaturals DEF NextDay
<1>5. ASSUME NEW t \in tasks, ToggleTask(t) PROVE TypeOK'
  BY <1>5 DEF ToggleTask, TaskRows
<1>6. ASSUME NEW r \in Records, ReadRule(r) \/ CommitChange(r) \/ RefuseChange(r)
      PROVE TypeOK'
  BY <1>6 DEF ReadRule, CommitChange, RefuseChange
<1>7. ASSUME NEW w \in Workers, NEW r \in Records, StartHook(w, r) PROVE TypeOK'
  BY <1>7, PendingIsOpen, BoundsAreNaturals DEF StartHook
<1>8. ASSUME NEW w \in Workers, StartSweep(w) PROVE TypeOK'
  BY <1>8 DEF StartSweep, Candidates
<1>9. ASSUME NEW w \in Workers, NextLead(w) PROVE TypeOK'
  BY <1>9 DEF NextLead
<1>10. ASSUME NEW w \in Workers, SelectEvents(w) \/ EndOfList(w) PROVE TypeOK'
  BY <1>10, PendingIsOpen, BoundsAreNaturals DEF SelectEvents, EndOfList
<1>11. ASSUME NEW w \in Workers, Claim(w) PROVE TypeOK'
  <2> PICK i \in todo[w] : i \in OpenItems
    BY <1>11 DEF Claim, Shape
  <2> QED BY <1>11, BoundsAreNaturals DEF Claim, Claimable, Shape
<1>12. ASSUME NEW w \in Workers, Plan(w) \/ LoadTarget(w) PROVE TypeOK'
  BY <1>12, <1>a, <1>b DEF Plan, LoadTarget, Goto
<1>13. ASSUME NEW w \in Workers, CheckSeen(w) \/ CheckPerson(w) \/ CheckOpen(w)
       PROVE TypeOK'
  BY <1>13 DEF CheckSeen, CheckPerson, CheckOpen, Goto, Returned
<1>14. ASSUME NEW w \in Workers, SkipRun(w) \/ RecordFailure(w) PROVE TypeOK'
  BY <1>14, <1>a, <1>b DEF SkipRun, RecordFailure, AddRun, RunRows, Goto, Returned
<1>15. ASSUME NEW w \in Workers, CommitTask(w) PROVE TypeOK'
  <2>1. tasks' \subseteq TaskRows /\ runs' \subseteq RunRows
    BY <1>15, <1>a, WriteTaskType DEF CommitTask, FreshIds
  <2> QED BY <1>15, <1>a, <2>1 DEF CommitTask, FreshIds, Goto
<1>16. ASSUME NEW w \in Workers, CommitUnheard(w) PROVE TypeOK'
  <2>1. tasks' \subseteq TaskRows /\ runs' \subseteq RunRows
    BY <1>16, <1>a, WriteTaskType DEF CommitUnheard, FreshIds
  <2> QED BY <1>16, <1>a, <2>1, BoundsAreNaturals DEF CommitUnheard, FreshIds, Goto
<1>17. ASSUME NEW w \in Workers, Finish(w) \/ Caught(w) PROVE TypeOK'
  BY <1>17, <1>a, <1>b DEF Finish, Caught, Goto
<1>18. ASSUME NEW w \in Workers, Throw(w) PROVE TypeOK'
  BY <1>18 DEF Throw, Goto
<1>19. ASSUME NEW w \in Workers, Deliver(w) \/ Lose(w) PROVE TypeOK'
  BY <1>19, BoundsAreNaturals DEF Deliver, Lose, Goto
<1>20. CASE UNCHANGED vars
  BY <1>20 DEF vars
<1> QED
  BY <1>1, <1>2, <1>3, <1>4, <1>5, <1>6, <1>7, <1>8, <1>9, <1>10, <1>11, <1>12,
     <1>13, <1>14, <1>15, <1>16, <1>17, <1>18, <1>19, <1>20 DEF Next, People, Step

-----------------------------------------------------------------------------
(* What workers hold *)

\* Steps that leave every worker and every attempt count alone.
Aside == UNCHANGED <<workerVars, attempts>> /\ processed \subseteq processed'

\* Every step is aside, one worker's own, or the start of a hook.
LEMMA StepKinds ==
  ASSUME TypeOK, [Next]_vars
  PROVE  \/ Aside
         \/ \E w \in Workers : \/ StartSweep(w) \/ Step(w) \/ Throw(w) \/ Lose(w)
                               \/ CommitUnheard(w)
                               \/ \E r \in Records : StartHook(w, r)
<1>1. CASE People
  BY <1>1 DEF People, SaveRule, ChangePeople, RemoveRecord, MoveFollowUp, NextDay,
     ToggleTask, ReadRule, CommitChange, RefuseChange, outboxVars, Aside
<1>2. CASE UNCHANGED vars
  BY <1>2 DEF vars, outboxVars, Aside
<1> QED BY <1>1, <1>2 DEF Next

\* One worker's step leaves what the others hold alone.
LEMMA Others ==
  ASSUME TypeOK, NEW w \in Workers,
         \/ StartSweep(w) \/ Step(w) \/ Throw(w) \/ Lose(w) \/ CommitUnheard(w)
         \/ \E r \in Records : StartHook(w, r)
  PROVE  /\ \A v \in Workers \ {w} : /\ pc'[v] = pc[v]
                                     /\ item'[v] = item[v]
                                     /\ todo'[v] = todo[v]
         /\ \A r \in Records : attempts'[r] >= attempts[r]
         /\ processed \subseteq processed'
<1> USE DEF TypeOK, Goto, configVars, outboxVars, resultVars
<1>1. CASE StartSweep(w) \/ NextLead(w) \/ SelectEvents(w) \/ EndOfList(w)
  BY <1>1 DEF StartSweep, NextLead, SelectEvents, EndOfList
<1>7. CASE \E r \in Records : StartHook(w, r)
  BY <1>7 DEF StartHook
<1>2. CASE Claim(w)
  BY <1>2 DEF Claim
<1>3. CASE Plan(w) \/ LoadTarget(w) \/ CheckSeen(w) \/ CheckPerson(w) \/ CheckOpen(w)
  BY <1>3 DEF Plan, LoadTarget, CheckSeen, CheckPerson, CheckOpen
<1>4. CASE SkipRun(w) \/ CommitTask(w) \/ CommitUnheard(w) \/ RecordFailure(w)
  BY <1>4 DEF SkipRun, CommitTask, CommitUnheard, RecordFailure
<1>5. CASE Finish(w) \/ Caught(w) \/ Throw(w)
  BY <1>5 DEF Finish, Caught, Throw
<1>6. CASE Deliver(w) \/ Lose(w)
  BY <1>6 DEF Deliver, Lose
<1> QED BY <1>1, <1>2, <1>3, <1>4, <1>5, <1>6, <1>7 DEF Step

\* What Shape and Failing say of one worker.
ShapeAt(w) ==
  /\ pc[w] = "leads" => todo[w] \subseteq LeadItems
  /\ pc[w] = "events" => todo[w] \subseteq OpenItems
  /\ pc[w] \in Holding => OnLead(w) \/ OnEvent(w)
  /\ pc[w] = "fail" => /\ OnEvent(w)
                       /\ Src(w) \in processed
                       /\ IsLastAttempt(item[w])

\* A worker's own step keeps its own shape.
LEMMA OwnShape ==
  ASSUME IInv, NEW w \in Workers,
         \/ StartSweep(w) \/ Step(w) \/ Throw(w) \/ Lose(w) \/ CommitUnheard(w)
         \/ \E r \in Records : StartHook(w, r)
  PROVE  ShapeAt(w)'
<1>a. TypeOK /\ ShapeAt(w)
  BY DEF IInv, Shape, Failing, ShapeAt
<1>b. pc[w] \in Holding => OnLead(w) \/ OnEvent(w)
  BY DEF IInv, Shape
<1>c. /\ pc[w] \in Holding /\ OnLead(w) => Src(w) \in Leads /\ Returned(w) = "leads"
      /\ pc[w] \in Holding /\ OnEvent(w) => /\ Src(w) \in Records /\ Src(w) \notin Leads
                                            /\ Returned(w) = "finish"
  BY HolderFacts DEF IInv
<1>d. pc[w] \in Holding /\ Src(w) \in Records => OnEvent(w)
  BY <1>b, SourcesDisjoint DEF OnLead, Src
<1> USE DEF TypeOK, ShapeAt, Goto, configVars, outboxVars, resultVars, OnLead, OnEvent, Src
<1>1. CASE StartSweep(w)
  BY <1>1, <1>a DEF StartSweep, Candidates
<1>2. CASE \E r \in Records : StartHook(w, r)
  BY <1>2, <1>a, PendingIsOpen DEF StartHook
<1>3. CASE NextLead(w)
  BY <1>3, <1>a DEF NextLead
<1>4. CASE SelectEvents(w) \/ EndOfList(w)
  BY <1>4, <1>a, PendingIsOpen DEF SelectEvents, EndOfList
<1>5. CASE Claim(w)
  <2>1. PICK i \in todo[w] : /\ todo' = [todo EXCEPT ![w] = @ \ {i}]
                             /\ IF Claimable(i)
                                  THEN /\ attempts' = [attempts EXCEPT ![i[1]] = @ + 1]
                                       /\ item' = [item EXCEPT ![w] = i]
                                       /\ pc' = [pc EXCEPT ![w] = "plan"]
                                  ELSE UNCHANGED <<attempts, item, pc>>
    BY <1>5 DEF Claim
  <2>2. i \in OpenItems /\ pc[w] = "events" /\ todo[w] \subseteq OpenItems
    BY <1>5, <1>a DEF Claim
  <2> QED BY <2>1, <2>2, <1>a, BoundsAreNaturals DEF Claimable
<1>6. CASE Plan(w) \/ LoadTarget(w)
  BY <1>6, <1>a, <1>b DEF Plan, LoadTarget
<1>7. CASE CheckSeen(w) \/ CheckPerson(w) \/ CheckOpen(w)
  BY <1>7, <1>a, <1>b, <1>c DEF CheckSeen, CheckPerson, CheckOpen
<1>8. CASE SkipRun(w) \/ CommitTask(w)
  BY <1>8, <1>a, <1>b, <1>c DEF SkipRun, CommitTask
<1>9. CASE CommitUnheard(w) \/ Throw(w)
  <2>1. OnEvent(w) /\ pc'[w] = "caught" /\ UNCHANGED <<item, todo, attempts>>
    <3>1. CASE CommitUnheard(w)
      BY <3>1, <1>a, <1>d DEF CommitUnheard
    <3>2. CASE Throw(w)
      BY <3>2, <1>a, <1>d DEF Throw
    <3> QED BY <1>9, <3>1, <3>2
  <2> QED BY <2>1, <1>a
<1>10. CASE Caught(w)
  BY <1>10, <1>a, <1>b, <1>c DEF Caught
<1>11. CASE Finish(w) \/ RecordFailure(w)
  BY <1>11, <1>a, <1>b, <1>c DEF Finish, RecordFailure
<1>12. CASE Deliver(w) \/ Lose(w)
  BY <1>12, <1>a DEF Deliver, Lose
<1> QED BY <1>1, <1>2, <1>3, <1>4, <1>5, <1>6, <1>7, <1>8, <1>9, <1>10, <1>11, <1>12
        DEF Step

LEMMA ShapeStep == IInv /\ [Next]_vars => Shape' /\ Failing'
<1> SUFFICES ASSUME IInv, [Next]_vars, NEW v \in Workers PROVE ShapeAt(v)'
  BY DEF ShapeAt, Shape, Failing
<1>1. TypeOK /\ ShapeAt(v)
  BY DEF IInv, Shape, Failing, ShapeAt
<1>2. CASE Aside
  BY <1>1, <1>2 DEF Aside, ShapeAt, OnLead, OnEvent, Src, IsLastAttempt, workerVars
<1>3. ASSUME NEW w \in Workers,
             \/ StartSweep(w) \/ Step(w) \/ Throw(w) \/ Lose(w) \/ CommitUnheard(w)
             \/ \E r \in Records : StartHook(w, r)
      PROVE ShapeAt(v)'
  <2>1. CASE v = w
    BY <1>3, <2>1, OwnShape
  <2>2. CASE v # w
    <3>1. /\ pc'[v] = pc[v] /\ item'[v] = item[v] /\ todo'[v] = todo[v]
          /\ \A r \in Records : attempts'[r] >= attempts[r]
          /\ processed \subseteq processed'
      BY <1>1, <1>3, <2>2, Others
    <3>2. \A r \in Records : attempts[r] \in Nat /\ attempts'[r] \in Nat
      BY <1>1, TypeStep, BoundsAreNaturals DEF TypeOK
    <3> QED BY <1>1, <3>1, <3>2, BoundsAreNaturals
            DEF ShapeAt, OnLead, OnEvent, Src, IsLastAttempt
  <2> QED BY <2>1, <2>2
<1> QED BY <1>1, <1>2, <1>3, StepKinds

-----------------------------------------------------------------------------
(* Attempts *)

\* A claim takes an attempt number above every number held; nothing else
\* starts to hold an event.
LEMMA ExclusiveStep == IInv /\ [Next]_vars => AttemptIsExclusive'
<1> SUFFICES ASSUME IInv, [Next]_vars PROVE AttemptIsExclusive'
  OBVIOUS
<1>1. TypeOK /\ AttemptIsExclusive
  BY DEF IInv
<1>2. \A v \in Workers : /\ pc[v] \in Holding => OnLead(v) \/ OnEvent(v)
                         /\ pc[v] = "events" => todo[v] \subseteq OpenItems
                         /\ pc[v] = "leads" => todo[v] \subseteq LeadItems
  BY DEF IInv, Shape
<1>3. CASE Aside
  BY <1>1, <1>3 DEF Aside, AttemptIsExclusive, Src, workerVars
<1>4. ASSUME NEW w \in Workers,
             \/ StartSweep(w) \/ Step(w) \/ Throw(w) \/ Lose(w) \/ CommitUnheard(w)
             \/ \E r \in Records : StartHook(w, r)
      PROVE AttemptIsExclusive'
  <2>1. \A v \in Workers \ {w} : pc'[v] = pc[v] /\ item'[v] = item[v]
    BY <1>1, <1>4, Others
  <2>2. CASE Claim(w)
    <3>1. PICK i \in todo[w] :
            IF Claimable(i)
              THEN item' = [item EXCEPT ![w] = i] /\ pc' = [pc EXCEPT ![w] = "plan"]
              ELSE UNCHANGED <<item, pc>>
      BY <2>2 DEF Claim
    <3>2. i \in OpenItems
      BY <2>2, <1>2 DEF Claim
    <3>3. ASSUME NEW v \in Workers, v # w, pc[v] \in Holding, Src(v) = i[1],
                 Claimable(i)
          PROVE  item[v][2] # i[2]
      <4>1. OnEvent(v)
        BY <1>2, <3>2, <3>3, SourcesDisjoint DEF OnLead, Src
      <4> QED BY <4>1, <3>2, <3>3, <1>1, BoundsAreNaturals DEF OnEvent, Claimable, Src, TypeOK
    <3> QED BY <1>1, <2>1, <3>1, <3>2, <3>3 DEF AttemptIsExclusive, TypeOK, Src
  <2>3. CASE NextLead(w)
    <3>1. pc'[w] \in Holding => item'[w] \in LeadItems
      BY <2>3, <1>1, <1>2 DEF NextLead, TypeOK
    <3>2. pc'[w] \in Holding => Src(w)' \notin Records
      BY <3>1, SourcesDisjoint DEF Src
    <3> QED BY <1>1, <2>1, <3>2 DEF AttemptIsExclusive, Src
  <2>4. CASE ~Claim(w) /\ ~NextLead(w)
    <3>1. pc'[w] \in Holding => pc[w] \in Holding /\ item'[w] = item[w]
      <4> USE <1>1 DEF TypeOK, Goto
      <4>1. CASE StartSweep(w) \/ SelectEvents(w) \/ EndOfList(w)
        BY <4>1 DEF StartSweep, SelectEvents, EndOfList
      <4>2. CASE \E r \in Records : StartHook(w, r)
        BY <4>2 DEF StartHook
      <4>3. CASE Plan(w) \/ LoadTarget(w) \/ CheckSeen(w) \/ CheckPerson(w) \/ CheckOpen(w)
        BY <4>3 DEF Plan, LoadTarget, CheckSeen, CheckPerson, CheckOpen, Returned
      <4>4. CASE SkipRun(w) \/ CommitTask(w) \/ CommitUnheard(w) \/ RecordFailure(w)
        BY <4>4 DEF SkipRun, CommitTask, CommitUnheard, RecordFailure, Returned
      <4>5. CASE Finish(w) \/ Caught(w) \/ Throw(w) \/ Deliver(w) \/ Lose(w)
        BY <4>5 DEF Finish, Caught, Throw, Deliver, Lose
      <4> QED BY <1>4, <2>4, <4>1, <4>2, <4>3, <4>4, <4>5 DEF Step
    <3> QED BY <1>1, <2>1, <3>1 DEF AttemptIsExclusive, Src
  <2> QED BY <2>2, <2>3, <2>4
<1> QED BY <1>1, <1>3, <1>4, StepKinds

-----------------------------------------------------------------------------
(* Tasks and runs *)

\* A run row added without a task leaves the history true.
LEMMA AddRunRows ==
  ASSUME Rows, NEW k, NEW status \in {"skipped", "failed"},
         AddRun(k, status), UNCHANGED tasks
  PROVE  Rows' /\ runs \subseteq runs'
  BY DEF Rows, OneTaskPerKey, HistoryTellsTheTruth, AddRun, HasRun

\* So does the batch of a task and its run when no unique index refuses it.
LEMMA WriteTaskRows ==
  ASSUME Rows, NEW k, NEW id \in FreshIds, ~Conflict(k), WriteTask(k, id)
  PROVE  Rows' /\ runs \subseteq runs'
<1> DEFINE t == [id |-> id, key |-> k, open |-> TRUE]
           r == [key |-> k, status |-> "success", task |-> id]
<1>1. t.id = id /\ t.key = k /\ r.key = k /\ r.task = id
  OBVIOUS
<1>2. tasks' = tasks \cup {t} /\ runs' = runs \cup {r}
  BY DEF WriteTask
<1>3. /\ \A u \in tasks : u.key # k
      /\ \A q \in runs : q.key # k
  BY DEF Conflict, HasTask, HasRun
<1> HIDE DEF t, r
<1> QED BY <1>1, <1>2, <1>3 DEF Rows, OneTaskPerKey, HistoryTellsTheTruth

\* Closing or reopening a task changes neither its id nor its key.
LEMMA ToggleRows ==
  ASSUME TypeOK, Rows, NEW t \in tasks, ToggleTask(t)
  PROVE  Rows' /\ runs' = runs
<1> DEFINE u == [t EXCEPT !.open = ~t.open]
<1>1. u.id = t.id /\ u.key = t.key
  BY DEF TypeOK, TaskRows
<1>2. tasks' = (tasks \ {t}) \cup {u} /\ runs' = runs
  BY DEF ToggleTask
<1> HIDE DEF u
<1> QED BY <1>1, <1>2 DEF Rows, OneTaskPerKey, HistoryTellsTheTruth

LEMMA RowsStep == IInv /\ [Next]_vars => Rows' /\ runs \subseteq runs'
<1> SUFFICES ASSUME IInv, [Next]_vars PROVE Rows' /\ runs \subseteq runs'
  OBVIOUS
<1>1. TypeOK /\ Rows
  BY DEF IInv
<1>2. CASE UNCHANGED <<runs, tasks>>
  BY <1>1, <1>2 DEF Rows, OneTaskPerKey, HistoryTellsTheTruth
<1>3. ASSUME NEW t \in tasks, ToggleTask(t) PROVE Rows' /\ runs \subseteq runs'
  BY <1>1, <1>3, ToggleRows
<1>4. ASSUME NEW w \in Workers, SkipRun(w) PROVE Rows' /\ runs \subseteq runs'
  BY <1>1, <1>4, AddRunRows DEF SkipRun
<1>5. ASSUME NEW w \in Workers, RecordFailure(w) PROVE Rows' /\ runs \subseteq runs'
  <2>1. CASE rule[PresetOf(Src(w))] = "on"
    BY <1>1, <1>5, <2>1, AddRunRows DEF RecordFailure
  <2> QED BY <1>2, <1>5, <2>1 DEF RecordFailure
<1>6. ASSUME NEW w \in Workers, CommitTask(w) PROVE Rows' /\ runs \subseteq runs'
  <2>1. CASE Conflict(Key(w))
    BY <1>2, <1>6, <2>1 DEF CommitTask
  <2> QED BY <1>1, <1>6, <2>1, WriteTaskRows DEF CommitTask
<1>7. ASSUME NEW w \in Workers, CommitUnheard(w) PROVE Rows' /\ runs \subseteq runs'
  BY <1>1, <1>7, WriteTaskRows DEF CommitUnheard
<1>8. CASE People
  BY <1>2, <1>3, <1>8 DEF People, SaveRule, ChangePeople, RemoveRecord, MoveFollowUp,
     NextDay, ReadRule, CommitChange, RefuseChange, resultVars
<1>9. ASSUME NEW w \in Workers,
             \/ StartSweep(w) \/ NextLead(w) \/ SelectEvents(w) \/ Claim(w)
             \/ EndOfList(w) \/ Plan(w) \/ LoadTarget(w) \/ CheckSeen(w)
             \/ CheckPerson(w) \/ CheckOpen(w) \/ Finish(w) \/ Caught(w)
             \/ Deliver(w) \/ Throw(w) \/ Lose(w)
             \/ \E r \in Records : StartHook(w, r)
      PROVE Rows' /\ runs \subseteq runs'
  <2>1. UNCHANGED <<runs, tasks>>
    BY <1>9 DEF StartSweep, NextLead, SelectEvents, Claim, EndOfList, Plan, LoadTarget,
       CheckSeen, CheckPerson, CheckOpen, Finish, Caught, Deliver, Throw, Lose,
       StartHook, resultVars
  <2> QED BY <1>2, <2>1
<1>10. CASE UNCHANGED vars
  BY <1>2, <1>10 DEF vars, resultVars
<1> QED BY <1>4, <1>5, <1>6, <1>7, <1>8, <1>9, <1>10 DEF Next, Step

-----------------------------------------------------------------------------
(* The theorems *)

\* IInv holds of every reachable state.
THEOREM Invariant == Spec => []IInv
<1>1. IInv /\ [Next]_vars => IInv'
  BY TypeStep, ShapeStep, ExclusiveStep, RowsStep DEF IInv
<1> QED BY InitInv, <1>1, PTL DEF Spec

\* Every variable keeps to its columns' types; attempts never pass MaxAttempts.
THEOREM TypeCorrect == Spec => []TypeOK
BY Invariant, PTL DEF IInv

\* "a repeated run, a replayed event or two concurrent sweeps can never create
\* two tasks", and each task has its one success run.
THEOREM OneTaskAndTrueHistory == Spec => [](OneTaskPerKey /\ HistoryTellsTheTruth)
<1>1. IInv => OneTaskPerKey /\ HistoryTellsTheTruth
  BY DEF IInv, Rows
<1> QED BY Invariant, <1>1, PTL

\* No two tasks are stored for one key, however many hooks and sweeps overlap.
THEOREM OneTask == Spec => []OneTaskPerKey
BY OneTaskAndTrueHistory, PTL

\* Overlapping holders of one event are on different attempts.
THEOREM ExclusiveAttempts == Spec => []AttemptIsExclusive
BY Invariant, PTL DEF IInv

\* Only the holder of attempt MaxAttempts of a settled event records a failure.
THEOREM FinalFailure == Spec => []FailureIsFinal
<1>1. IInv => FailureIsFinal
  <2> SUFFICES ASSUME IInv, NEW w \in Workers, pc[w] = "fail"
               PROVE  Src(w) \in processed /\ attempts[Src(w)] = MaxAttempts
    BY DEF FailureIsFinal
  <2>1. OnEvent(w) /\ Src(w) \in processed /\ IsLastAttempt(item[w])
    BY DEF IInv, Failing
  <2>2. attempts[Src(w)] \in 0..MaxAttempts /\ item[w][2] \in 0..(MaxAttempts - 1)
    BY <2>1 DEF IInv, TypeOK, OnEvent, Src
  <2> QED BY <2>1, <2>2, BoundsAreNaturals DEF OnEvent, Src, IsLastAttempt
<1> QED BY Invariant, <1>1, PTL

\* Settled events, counted attempts and recorded outcomes are never undone.
THEOREM FinalOutcomes == Spec => OutcomesAreFinal
<1> DEFINE Kept == /\ processed \subseteq processed'
                   /\ runs \subseteq runs'
                   /\ \A r \in Records : attempts'[r] >= attempts[r]
<1>1. IInv /\ [Next]_vars => Kept
  <2> SUFFICES ASSUME IInv, [Next]_vars PROVE Kept
    OBVIOUS
  <2>1. runs \subseteq runs'
    BY RowsStep
  <2>2. \A r \in Records : attempts[r] \in Nat
    BY BoundsAreNaturals DEF IInv, TypeOK
  <2>3. /\ processed \subseteq processed'
        /\ \A r \in Records : attempts'[r] >= attempts[r]
    <3>1. CASE Aside
      BY <3>1, <2>2 DEF Aside
    <3> QED BY <3>1, StepKinds, Others DEF IInv
  <2> QED BY <2>1, <2>3
<1> QED BY Invariant, <1>1, PTL DEF Spec, OutcomesAreFinal
=============================================================================
