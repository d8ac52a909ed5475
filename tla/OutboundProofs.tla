---------------------------- MODULE OutboundProofs ----------------------------
(***************************************************************************)
(* Proofs about Outbound, for any number of messages, requests, texts and  *)
(* lost invocations, any limit and any window.                             *)
(*                                                                         *)
(* IInv strengthens the checked invariants with what a request knows at    *)
(* each label (Local) and what each row's state says of its past (Row).    *)
(* The heart of it: versions only grow, so a request whose version still   *)
(* matches has read the row as it is; and a row in "sending" matches the   *)
(* one request that claimed it and no other.                               *)
(***************************************************************************)
EXTENDS Outbound, FiniteSetTheorems, TLAPS

Reading == {"linked", "apply", "template", "count", "open", "claim"}
Sending == {"template", "count", "open", "claim", "submit", "settle"}
Holding == {"submit", "settle"}

\* What request w knows at its label.
Local(w) ==
  /\ pc[w] # "idle" => on[w] \in Messages /\ began[w] \in 1..clock
  /\ pc[w] = "insert" => to[w] \in Addresses
  /\ pc[w] = "load" => /\ 1 <= revision[w] /\ revision[w] <= version[on[w]]
                       /\ revision[w] = version[on[w]] => reviewed[w] = text[on[w]]
  /\ pc[w] \in Reading =>
       /\ body[w] = reviewed[w] /\ was[w] \in Open
       /\ 1 <= revision[w] /\ revision[w] <= version[on[w]]
       /\ revision[w] = version[on[w]] => body[w] = text[on[w]]
  /\ pc[w] \in Sending => cmd[w] = "send"
  /\ pc[w] \in Reading /\ cmd[w] = "send" => was[w] \in {"ready", "scheduled"}
  /\ pc[w] = "open" => was[w] = "scheduled"
  /\ pc[w] = "claim" => was[w] = "ready"
  /\ pc[w] \in Holding =>
       /\ status[on[w]] = "sending" /\ Matches(w)
       /\ body[w] = text[on[w]] /\ body[w] = reviewed[w]
  /\ pc[w] = "submit" => submitted[on[w]] = <<>>
  /\ pc[w] = "settle" => submitted[on[w]] = <<text[on[w]]>>

OneHolder ==
  \A v, w \in Requests :
    pc[v] \in Holding /\ pc[w] \in Holding /\ on[v] = on[w] => v = w

\* What a row's state says of its past.
Row(m) ==
  /\ status[m] = "none" <=> version[m] = 0
  /\ submitted[m] = <<>> \/ submitted[m] = <<text[m]>>
  /\ status[m] \in Final => submitted[m] # <<>>
  /\ status[m] \notin Spent => submitted[m] = <<>> /\ claimedAt[m] = 0
  /\ status[m] \in Spent => /\ claimedAt[m] \in 1..clock
                            /\ claimedAt[m] <= updatedAt[m]

Locals == \A w \in Requests : Local(w)
Rows   == \A m \in Messages : Row(m)

Core == TypeOK /\ Locals /\ OneHolder /\ Rows
IInv == Core /\ HistoryTellsEveryVersion /\ HourlyLimit

USE DEF Open, Final, Spent, Statuses, Times, PCs, Reading, Sending, Holding

-----------------------------------------------------------------------------
(* Initially *)

LEMMA InitCore == Init => Core
<1> SUFFICES ASSUME Init PROVE Core
  OBVIOUS
<1> USE SomeBounds, SomeText DEF Init
<1>a. SomeWords \in Texts
  BY DEF SomeWords
<1>1. TypeOK
  BY <1>a DEF TypeOK
<1>2. Locals /\ OneHolder
  BY DEF Locals, Local, OneHolder
<1>3. Rows
  BY DEF Rows, Row
<1> QED BY <1>1, <1>2, <1>3 DEF Core

-----------------------------------------------------------------------------
(* Types *)

LEMMA TypePreserved == TypeOK /\ Locals /\ [Next]_vars => TypeOK'
<1> SUFFICES ASSUME TypeOK, Locals, [Next]_vars PROVE TypeOK'
  OBVIOUS
<1> USE SomeBounds, SomeCommands, SomeTemplated
<1>a. SomeWords \in Texts
  BY SomeText DEF SomeWords
<1>b. ASSUME NEW w \in Requests, Refuse(w) PROVE TypeOK'
  BY <1>a, <1>b DEF TypeOK, Refuse, Answer, Goto, rowVars, pastVars, envVars
<1>1. ASSUME World PROVE TypeOK'
  BY <1>1 DEF TypeOK, World, Tick, CreateTemplate, ArchiveTemplate, ChangeContact,
              rowVars, pastVars, reqVars
<1>2. ASSUME NEW w \in Requests, NEW m \in Messages, NEW c \in Commands, Ask(w, m, c)
      PROVE  TypeOK'
  BY <1>2 DEF TypeOK, Ask, Goto, rowVars, pastVars, envVars
<1>3. ASSUME NEW w \in Requests, NEW m \in Messages, NEW t \in Texts, AskDraft(w, m, t)
      PROVE  TypeOK'
  BY <1>3 DEF TypeOK, AskDraft, Goto, rowVars, pastVars, envVars
<1>4. ASSUME NEW w \in Requests, Lose(w) PROVE TypeOK'
  BY <1>4, <1>a DEF TypeOK, Lose, Answer, Goto, rowVars, pastVars, envVars
<1>5. ASSUME NEW w \in Requests, InsertDraft(w) PROVE TypeOK'
  <2>1. on[w] \in Messages /\ began[w] \in Times
    BY <1>5 DEF InsertDraft, Locals, Local, TypeOK
  <2>2. CASE Insertable(on[w])
    <3>1. <<"draft">> \in Seq(Statuses)
      OBVIOUS
    <3>2. /\ status' = [status EXCEPT ![on[w]] = "draft"]
          /\ version' = [version EXCEPT ![on[w]] = 1]
          /\ text' = [text EXCEPT ![on[w]] = body[w]]
          /\ updatedAt' = [updatedAt EXCEPT ![on[w]] = began[w]]
          /\ recipient' = [recipient EXCEPT ![on[w]] = to[w]]
          /\ history' = [history EXCEPT ![on[w]] = <<"draft">>]
          /\ scheduledAt' = scheduledAt /\ status[on[w]] = "none"
      BY <1>5, <2>2 DEF InsertDraft, Insertable
    <3>3. Answer(w) /\ UNCHANGED <<pastVars, envVars, losses>>
      BY <1>5 DEF InsertDraft
    <3> HIDE DEF Statuses, Times
    <3>4. {"draft", "none", "invalid"} \subseteq Statuses \cup {"invalid"} /\ 0 \notin Times
      BY DEF Statuses, Times
    <3>5. /\ history' \in [Messages -> Seq(Statuses)] /\ status' \in [Messages -> Statuses]
          /\ version' \in [Messages -> Nat] /\ text' \in [Messages -> Texts]
          /\ scheduledAt' \in [Messages -> Times \cup {0}]
          /\ updatedAt' \in [Messages -> Times \cup {0}]
          /\ recipient' \in [Messages -> Addresses \cup {"invalid"}]
          /\ \A m \in Messages : status'[m] = "scheduled" <=> scheduledAt'[m] # 0
      BY <2>1, <3>1, <3>2, <3>4 DEF TypeOK, Statuses
    <3> QED BY <1>a, <3>3, <3>5 DEF TypeOK, Answer, Goto, pastVars, envVars, Statuses
  <2>3. CASE ~Insertable(on[w])
    BY <1>5, <1>a, <2>1, <2>3 DEF TypeOK, InsertDraft, Answer, Goto, rowVars, pastVars, envVars
  <2> QED BY <2>2, <2>3
<1>6. ASSUME NEW w \in Requests, Load(w) PROVE TypeOK'
  <2>1. on[w] \in Messages
    BY <1>6 DEF Load, Locals, Local
  <2>2. CASE Refuse(w)
    BY <1>b, <2>2
  <2>3. CASE ~Refuse(w)
    <3>1. /\ was' = [was EXCEPT ![w] = status[on[w]]]
          /\ body' = [body EXCEPT ![w] = text[on[w]]]
          /\ revision' = [revision EXCEPT ![w] = version[on[w]]]
          /\ pc' = [pc EXCEPT ![w] = "linked"]
          /\ UNCHANGED <<rowVars, pastVars, envVars, on, cmd, to, reviewed, began, losses>>
      BY <1>6, <2>3 DEF Load, Goto
    <3> QED BY <2>1, <3>1 DEF TypeOK, rowVars, pastVars, envVars
  <2> QED BY <2>2, <2>3
<1>c. ASSUME NEW w \in Requests, NEW l \in PCs, Goto(w, l),
             UNCHANGED <<rowVars, pastVars, envVars, on, cmd, to, reviewed, revision,
                         began, was, body, losses>>
      PROVE  TypeOK'
  BY <1>c DEF TypeOK, Goto, rowVars, pastVars, envVars
<1>7. ASSUME NEW w \in Requests, CheckLinked(w) PROVE TypeOK'
  <2>1. CASE Refuse(w)
    BY <1>b, <2>1
  <2>2. CASE ~Refuse(w)
    BY <1>7, <1>c, <2>2 DEF CheckLinked
  <2> QED BY <2>1, <2>2
<1>8. ASSUME NEW w \in Requests, CheckTemplate(w) \/ CountRecent(w) PROVE TypeOK'
  <2>1. CASE Refuse(w)
    BY <1>b, <2>1
  <2>2. CASE ~Refuse(w)
    BY <1>8, <1>c, <2>2 DEF CheckTemplate, CountRecent, Advance
  <2> QED BY <2>1, <2>2
<1>9. ASSUME NEW w \in Requests, RefuseSchedule(w) \/ RefuseConfiguration(w) PROVE TypeOK'
  BY <1>9, <1>b DEF RefuseSchedule, RefuseConfiguration
<1>d. ASSUME NEW w \in Requests, NEW m \in Messages, NEW s \in Statuses, NEW t \in Texts,
             NEW at \in Times \cup {0}, NEW now \in Times, s = "scheduled" <=> at # 0,
             Write(m, s, t, at, now), Answer(w), UNCHANGED <<pastVars, envVars, losses>>
      PROVE  TypeOK'
  <2>1. Append(history[m], s) \in Seq(Statuses)
    BY <1>d DEF TypeOK
  <2>2. /\ status' = [status EXCEPT ![m] = s]
        /\ version' = [version EXCEPT ![m] = @ + 1]
        /\ text' = [text EXCEPT ![m] = t]
        /\ scheduledAt' = [scheduledAt EXCEPT ![m] = at]
        /\ updatedAt' = [updatedAt EXCEPT ![m] = now]
        /\ history' = [history EXCEPT ![m] = Append(@, s)]
        /\ recipient' = recipient
    BY <1>d DEF Write
  <2>3. /\ status' \in [Messages -> Statuses]
        /\ version' \in [Messages -> Nat]
        /\ text' \in [Messages -> Texts]
        /\ scheduledAt' \in [Messages -> Times \cup {0}]
        /\ updatedAt' \in [Messages -> Times \cup {0}]
        /\ recipient' \in [Messages -> Addresses \cup {"invalid"}]
        /\ history' \in [Messages -> Seq(Statuses)]
    BY <2>1, <2>2 DEF TypeOK
  <2>4. \A n \in Messages : status'[n] = "scheduled" <=> scheduledAt'[n] # 0
    BY <1>d, <2>2 DEF TypeOK
  <2>5. /\ pc' = [pc EXCEPT ![w] = "idle"]
        /\ on' = [on EXCEPT ![w] = NoMessage]
        /\ cmd' = [cmd EXCEPT ![w] = "none"]
        /\ to' = [to EXCEPT ![w] = "invalid"]
        /\ reviewed' = [reviewed EXCEPT ![w] = SomeWords]
        /\ revision' = [revision EXCEPT ![w] = 0]
        /\ began' = [began EXCEPT ![w] = 0]
        /\ was' = [was EXCEPT ![w] = "none"]
        /\ body' = [body EXCEPT ![w] = SomeWords]
    BY <1>d DEF Answer, Goto
  <2>6. "idle" \in PCs /\ "none" \in Statuses /\ SomeWords \in Texts
    BY <1>a DEF PCs, Statuses
  <2>7. /\ pc' \in [Requests -> PCs]
        /\ on' \in [Requests -> Messages \cup {NoMessage}]
        /\ cmd' \in [Requests -> Commands \cup {"none"}]
        /\ to' \in [Requests -> Addresses \cup {"invalid"}]
        /\ reviewed' \in [Requests -> Texts]
        /\ revision' \in [Requests -> Nat]
        /\ began' \in [Requests -> Times \cup {0}]
        /\ was' \in [Requests -> Statuses]
        /\ body' \in [Requests -> Texts]
    BY <2>5, <2>6 DEF TypeOK
  <2>8. UNCHANGED <<template, contact, clock, submitted, claimedAt, losses>>
    BY <1>d DEF pastVars, envVars
  <2> QED BY <2>3, <2>4, <2>7, <2>8 DEF TypeOK
<1>10. ASSUME NEW w \in Requests, Apply(w) PROVE TypeOK'
  <2>1. on[w] \in Messages /\ began[w] \in Times
    BY <1>10 DEF Apply, Locals, Local, TypeOK
  <2>2. CASE ~Matches(w)
    BY <1>10, <1>b, <2>2 DEF Apply, Stale
  <2>3. ASSUME NEW s \in {"draft", "ready", "cancelled"}, NEW t \in Texts,
               Write(on[w], s, t, 0, began[w]), Answer(w), UNCHANGED <<pastVars, envVars, losses>>
        PROVE  TypeOK'
    <3>1. s \in Statuses /\ s # "scheduled"
      BY DEF Statuses, Open
    <3> QED BY <2>1, <2>3, <3>1, <1>d
  <2>4. ASSUME NEW at \in Times, Write(on[w], "scheduled", body[w], at, began[w]),
               Answer(w), UNCHANGED <<pastVars, envVars, losses>>
        PROVE  TypeOK'
    <3>1. "scheduled" \in Statuses /\ at # 0 /\ at \in Times \cup {0} /\ body[w] \in Texts
      BY DEF Statuses, Open, Times, TypeOK
    <3> QED BY <2>1, <2>4, <3>1, <1>d
  <2>5. body[w] \in Texts
    BY DEF TypeOK
  <2> QED BY <1>10, <2>2, <2>3, <2>4, <2>5 DEF Apply
<1>11. ASSUME NEW w \in Requests, NEW s \in {"ready", "sending"}, NEW l \in {"claim", "submit"},
              on[w] \in Messages, began[w] \in Times, WriteOn(w, s, l),
              claimedAt' \in [Messages -> Times \cup {0}]
       PROVE  TypeOK'
  <2>1. Append(history[on[w]], s) \in Seq(Statuses)
    BY <1>11 DEF TypeOK
  <2>2. /\ status' = [status EXCEPT ![on[w]] = s]
        /\ version' = [version EXCEPT ![on[w]] = @ + 1]
        /\ text' = [text EXCEPT ![on[w]] = body[w]]
        /\ scheduledAt' = [scheduledAt EXCEPT ![on[w]] = 0]
        /\ updatedAt' = [updatedAt EXCEPT ![on[w]] = began[w]]
        /\ history' = [history EXCEPT ![on[w]] = Append(@, s)]
        /\ recipient' = recipient
    BY <1>11 DEF WriteOn, Write
  <2>3. /\ pc' = [pc EXCEPT ![w] = l]
        /\ was' = [was EXCEPT ![w] = s]
        /\ revision' = [revision EXCEPT ![w] = @ + 1]
        /\ UNCHANGED <<on, cmd, to, reviewed, began, body>>
        /\ UNCHANGED <<template, contact, clock, submitted, losses>>
    BY <1>11 DEF WriteOn, Advance, Goto, envVars
  <2>4. s \in Statuses /\ s # "scheduled" /\ l \in PCs
    BY DEF Statuses, Open, Spent, Final, PCs
  <2>5. /\ status' \in [Messages -> Statuses]
        /\ version' \in [Messages -> Nat]
        /\ text' \in [Messages -> Texts]
        /\ scheduledAt' \in [Messages -> Times \cup {0}]
        /\ updatedAt' \in [Messages -> Times \cup {0}]
        /\ recipient' \in [Messages -> Addresses \cup {"invalid"}]
        /\ history' \in [Messages -> Seq(Statuses)]
        /\ \A m \in Messages : status'[m] = "scheduled" <=> scheduledAt'[m] # 0
    BY <1>11, <2>1, <2>2, <2>4 DEF TypeOK
  <2>6. /\ pc' \in [Requests -> PCs]
        /\ was' \in [Requests -> Statuses]
        /\ revision' \in [Requests -> Nat]
    BY <2>3, <2>4 DEF TypeOK
  <2> QED BY <1>11, <2>3, <2>5, <2>6 DEF TypeOK
<1>12. ASSUME NEW w \in Requests, OpenReview(w) \/ Claim(w) PROVE TypeOK'
  <2>1. on[w] \in Messages /\ began[w] \in Times
    BY <1>12 DEF OpenReview, Claim, Locals, Local, TypeOK
  <2>2. CASE OpenReview(w)
    <3>1. CASE Refuse(w)
      BY <1>b, <3>1
    <3>2. CASE ~Refuse(w)
      <4>1. WriteOn(w, "ready", "claim") /\ claimedAt' = claimedAt
        BY <2>2, <3>2 DEF OpenReview, Stale
      <4>2. claimedAt' \in [Messages -> Times \cup {0}]
        BY <4>1 DEF TypeOK
      <4> QED BY <2>1, <4>1, <4>2, <1>11
    <3> QED BY <3>1, <3>2
  <2>3. CASE Claim(w)
    <3>1. CASE Refuse(w)
      BY <1>b, <3>1
    <3>2. CASE ~Refuse(w)
      <4>1. WriteOn(w, "sending", "submit") /\ claimedAt' = [claimedAt EXCEPT ![on[w]] = began[w]]
        BY <2>3, <3>2 DEF Claim, Stale
      <4>2. claimedAt' \in [Messages -> Times \cup {0}]
        BY <2>1, <4>1 DEF TypeOK
      <4> QED BY <2>1, <4>1, <4>2, <1>11
    <3> QED BY <3>1, <3>2
  <2> QED BY <1>12, <2>2, <2>3
<1>13. ASSUME NEW w \in Requests, Submit(w) PROVE TypeOK'
  <2>1. on[w] \in Messages
    BY <1>13 DEF Submit, Locals, Local
  <2>2. Append(submitted[on[w]], body[w]) \in Seq(Texts)
    BY <2>1 DEF TypeOK
  <2> QED BY <1>13, <2>1, <2>2 DEF TypeOK, Submit, Advance, Goto, rowVars, envVars
<1>14. ASSUME NEW w \in Requests, Settle(w) PROVE TypeOK'
  <2>1. on[w] \in Messages
    BY <1>14 DEF Settle, Locals, Local
  <2>2. ASSUME NEW o \in Final, Write(on[w], o, body[w], 0, clock), Answer(w),
               UNCHANGED <<pastVars, envVars, losses>>
        PROVE  TypeOK'
    <3>1. /\ o \in Statuses /\ o # "scheduled" /\ clock \in Times /\ body[w] \in Texts
      BY DEF TypeOK, Final, Statuses, Spent
    <3> QED BY <2>1, <2>2, <3>1, <1>d
  <2> QED BY <1>14, <1>b, <2>2 DEF Settle, Stale
<1>15. CASE UNCHANGED vars
  BY <1>15 DEF TypeOK, vars, rowVars, pastVars, envVars, reqVars
<1> QED BY <1>1, <1>2, <1>3, <1>4, <1>5, <1>6, <1>7, <1>8, <1>9, <1>10, <1>12,
           <1>13, <1>14, <1>15 DEF Next, Step

-----------------------------------------------------------------------------
(* What a step of one request leaves alone *)

\* The other requests' state is as it was.
Aside(w) ==
  \A v \in Requests \ {w} :
    /\ pc'[v] = pc[v] /\ on'[v] = on[v] /\ cmd'[v] = cmd[v] /\ to'[v] = to[v]
    /\ reviewed'[v] = reviewed[v] /\ revision'[v] = revision[v]
    /\ began'[v] = began[v] /\ was'[v] = was[v] /\ body'[v] = body[v]

\* The other messages' rows are as they were.
Apart(m) ==
  \A k \in Messages \ {m} :
    /\ status'[k] = status[k] /\ version'[k] = version[k] /\ text'[k] = text[k]
    /\ updatedAt'[k] = updatedAt[k]
    /\ submitted'[k] = submitted[k] /\ claimedAt'[k] = claimedAt[k]

\* No row changed at all.
RowsSame ==
  UNCHANGED <<status, version, text, updatedAt, submitted, claimedAt>>

LEMMA OthersWhenQuiet ==
  ASSUME Core, NEW w \in Requests, Aside(w), RowsSame, clock' = clock
  PROVE  \A v \in Requests \ {w} : Local(v)'
<1> SUFFICES ASSUME NEW v \in Requests \ {w} PROVE Local(v)'
  OBVIOUS
<1>1. Local(v)
  BY DEF Core, Locals
<1> QED BY <1>1 DEF Local, Aside, RowsSame, Matches

\* A request that read the row before the write finds its version passed; one
\* that holds it is the writer itself.
LEMMA OthersWhenWritten ==
  ASSUME Core, NEW w \in Requests, Aside(w), clock' = clock,
         on[w] \in Messages, Apart(on[w]),
         version'[on[w]] = version[on[w]] + 1,
         pc[w] \in Holding \/ status[on[w]] # "sending"
  PROVE  \A v \in Requests \ {w} : Local(v)'
<1> SUFFICES ASSUME NEW v \in Requests \ {w} PROVE Local(v)'
  OBVIOUS
<1>1. Local(v) /\ TypeOK
  BY DEF Core, Locals
<1>2. CASE on[v] # on[w]
  BY <1>1, <1>2 DEF Local, Aside, Apart, Matches
<1>3. CASE on[v] = on[w]
  <2>1. pc[v] \notin Holding
    BY <1>1, <1>3 DEF Core, OneHolder, Local
  <2>2. version[on[w]] \in Nat /\ revision[v] \in Nat
    BY DEF Core, TypeOK
  <2> QED BY <1>1, <1>3, <2>1, <2>2 DEF Local, Aside, TypeOK
<1> QED BY <1>2, <1>3

LEMMA AsideOf ==
  ASSUME TypeOK, NEW w \in Requests, Answer(w)
  PROVE  Aside(w) /\ pc'[w] = "idle"
BY DEF TypeOK, Aside, Answer, Goto

\* Locals and OneHolder together, once the writer's own part is known.
LEMMA Assemble ==
  ASSUME Core, NEW w \in Requests, Aside(w), Local(w)',
         \A v \in Requests \ {w} : Local(v)',
         pc'[w] \in Holding => /\ on'[w] = on[w]
                               /\ pc[w] \in Holding \/ status[on[w]] # "sending"
  PROVE  Locals' /\ OneHolder'
<1>1. Locals'
  BY DEF Locals
<1>2. OneHolder'
  <2> SUFFICES ASSUME NEW u \in Requests, NEW v \in Requests, pc'[u] \in Holding,
                      pc'[v] \in Holding, on'[u] = on'[v], u # v
               PROVE  FALSE
    BY DEF OneHolder
  <2>1. \A x \in Requests : pc[x] \in Holding => status[on[x]] = "sending"
    BY DEF Core, Locals, Local
  <2>2. CASE u # w /\ v # w
    BY <2>2 DEF Aside, Core, OneHolder
  <2>3. CASE u = w
    BY <2>1, <2>3 DEF Aside, Core, OneHolder
  <2>4. CASE v = w
    BY <2>1, <2>4 DEF Aside, Core, OneHolder
  <2> QED BY <2>2, <2>3, <2>4
<1> QED BY <1>1, <1>2

-----------------------------------------------------------------------------
(* Requests and rows *)

LEMMA QuietCore ==
  ASSUME Core, NEW w \in Requests, Aside(w), RowsSame, clock' = clock, Local(w)',
         pc'[w] \in Holding => pc[w] \in Holding /\ on'[w] = on[w]
  PROVE  Locals' /\ OneHolder' /\ Rows'
<1>1. Rows'
  BY DEF Core, Rows, Row, RowsSame
<1> QED BY <1>1, OthersWhenQuiet, Assemble

LEMMA RefuseCore ==
  ASSUME Core, NEW w \in Requests, Answer(w), UNCHANGED <<rowVars, pastVars, envVars>>
  PROVE  Locals' /\ OneHolder' /\ Rows'
<1>1. Aside(w) /\ pc'[w] = "idle"
  BY AsideOf DEF Core
<1>2. Local(w)' /\ RowsSame /\ clock' = clock
  BY <1>1 DEF Local, RowsSame, rowVars, pastVars, envVars
<1> QED BY <1>1, <1>2, QuietCore

\* A write that keeps the message unsubmitted and answers its request.
LEMMA RowsAfterWrite ==
  ASSUME Core, NEW m \in Messages, Apart(m), clock' = clock, Row(m)'
  PROVE  Rows'
BY DEF Core, Rows, Row, Apart

LEMMA WriteApart ==
  ASSUME TypeOK, NEW m \in Messages, NEW s, NEW t, NEW at, NEW now,
         Write(m, s, t, at, now), submitted' = submitted,
         \A k \in Messages \ {m} : claimedAt'[k] = claimedAt[k]
  PROVE  /\ Apart(m)
         /\ status'[m] = s /\ version'[m] = version[m] + 1 /\ text'[m] = t
         /\ updatedAt'[m] = now
BY DEF TypeOK, Write, Apart

LEMMA AskCore ==
  ASSUME Core, NEW w \in Requests, NEW m \in Messages,
         \/ \E c \in Commands : Ask(w, m, c)
         \/ \E t \in Texts : AskDraft(w, m, t)
  PROVE  Locals' /\ OneHolder' /\ Rows'
<1>1. TypeOK /\ Local(w) /\ Row(m)
  BY DEF Core, Locals, Rows
<1>2. Aside(w) /\ RowsSame /\ clock' = clock /\ pc'[w] \in {"load", "insert"}
  BY <1>1 DEF TypeOK, Aside, Ask, AskDraft, Goto, RowsSame, rowVars, pastVars, envVars
<1>3. CASE \E c \in Commands : Ask(w, m, c)
  <2>1. /\ pc'[w] = "load" /\ on'[w] = m /\ began'[w] = clock
        /\ reviewed'[w] = text[m] /\ revision'[w] = version[m] /\ status[m] # "none"
    BY <1>1, <1>3 DEF TypeOK, Ask, Goto
  <2>2. clock \in 1..clock /\ version[m] \in Nat /\ version[m] >= 1
    BY <1>1, <2>1, SomeBounds DEF TypeOK, Row
  <2>3. Local(w)'
    BY <1>2, <2>1, <2>2 DEF Local, RowsSame
  <2> QED BY <1>2, <2>3, QuietCore
<1>4. CASE \E t \in Texts : AskDraft(w, m, t)
  <2>1. pc'[w] = "insert" /\ on'[w] = m /\ began'[w] = clock /\ to'[w] \in Addresses
    BY <1>1, <1>4 DEF TypeOK, AskDraft, Goto
  <2>2. clock \in 1..clock
    BY <1>1, SomeBounds DEF TypeOK
  <2>3. Local(w)'
    BY <1>2, <2>1, <2>2 DEF Local, RowsSame
  <2> QED BY <1>2, <2>3, QuietCore
<1> QED BY <1>3, <1>4

LEMMA InsertCore ==
  ASSUME Core, NEW w \in Requests, InsertDraft(w)
  PROVE  Locals' /\ OneHolder' /\ Rows'
<1>1. CASE ~Insertable(on[w])
  BY <1>1, RefuseCore DEF InsertDraft
<1>2. CASE Insertable(on[w])
  <2>1. TypeOK /\ Local(w) /\ on[w] \in Messages
    BY DEF Core, Locals, Local, InsertDraft
  <2> PICK m \in Messages : m = on[w]
    BY <2>1
  <2>2. Aside(w) /\ pc'[w] = "idle"
    BY <2>1, AsideOf DEF InsertDraft
  <2>3. Row(m)
    BY DEF Core, Rows
  <2>4. /\ status[m] = "none" /\ status'[m] = "draft" /\ version'[m] = 1
        /\ Apart(m) /\ clock' = clock
        /\ submitted' = submitted /\ claimedAt' = claimedAt
    BY <1>2, <2>1 DEF TypeOK, InsertDraft, Insertable, Apart, pastVars, envVars
  <2>5. version'[m] = version[m] + 1
    BY <2>3, <2>4 DEF Row
  <2>6. Row(m)'
    BY <2>3, <2>4 DEF Row
  <2>7. Local(w)'
    BY <2>2 DEF Local
  <2>8. \A v \in Requests \ {w} : Local(v)'
    BY <2>1, <2>2, <2>4, <2>5, OthersWhenWritten
  <2>9. Rows'
    BY <2>4, <2>6, RowsAfterWrite
  <2> QED BY <2>2, <2>7, <2>8, <2>9, Assemble
<1> QED BY <1>1, <1>2

\* Nobody can disturb what a request was told: a request that goes on without
\* touching the rows.
LEMMA AdvanceCore ==
  ASSUME Core, NEW w \in Requests,
         Load(w) \/ CheckLinked(w) \/ CheckTemplate(w) \/ CountRecent(w), ~Refuse(w)
  PROVE  Locals' /\ OneHolder' /\ Rows'
<1>1. TypeOK /\ Local(w) /\ on[w] \in Messages
  BY DEF Core, Locals, Local, Load, CheckLinked, CheckTemplate, CountRecent
<1> PICK m \in Messages : m = on[w]
  BY <1>1
<1>2. Row(m)
  BY DEF Core, Rows
<1>3. CASE Load(w)
  <2>1. /\ pc'[w] = "linked" /\ was'[w] = status[m] /\ body'[w] = text[m]
        /\ revision'[w] = version[m] /\ on' = on /\ reviewed' = reviewed
        /\ cmd' = cmd /\ began' = began /\ RowsSame /\ clock' = clock /\ Aside(w)
    BY <1>1, <1>3 DEF TypeOK, Load, Goto, Aside, RowsSame, rowVars, pastVars, envVars
  <2>2. /\ version[m] = revision[w] /\ status[m] \in Open
        /\ cmd[w] = "send" => status[m] \in {"ready", "scheduled"}
    BY <1>3 DEF Load, Unchanged, Revisable
  <2>3. Local(w)'
    BY <1>1, <1>2, <1>3, <2>1, <2>2 DEF Local, Load, RowsSame
  <2> QED BY <2>1, <2>3, QuietCore
<1>4. ASSUME NEW l \in Reading \ {"linked"}, Goto(w, l), pc[w] \in Reading,
             UNCHANGED <<rowVars, pastVars, envVars, on, cmd, to, reviewed, revision,
                         began, was, body>>,
             l # "apply" => cmd[w] = "send",
             l = "open" => was[w] = "scheduled",
             l = "claim" => was[w] = "ready"
      PROVE  Locals' /\ OneHolder' /\ Rows'
  <2>1. /\ pc'[w] = l /\ RowsSame /\ clock' = clock /\ Aside(w)
    BY <1>1, <1>4 DEF TypeOK, Goto, Aside, RowsSame, rowVars, pastVars, envVars
  <2>2. Local(w)'
    BY <1>1, <1>4, <2>1 DEF Local, RowsSame
  <2> QED BY <2>1, <2>2, QuietCore
<1>5. CASE CheckLinked(w)
  BY <1>4, <1>5 DEF CheckLinked
<1>6. CASE CheckTemplate(w)
  BY <1>1, <1>4, <1>6 DEF CheckTemplate, Advance, Local
<1>7. CASE CountRecent(w)
  BY <1>1, <1>4, <1>7 DEF CountRecent, Advance, Local
<1> QED BY <1>3, <1>5, <1>6, <1>7

\* edit, schedule, ready and cancel write an open message and answer.
LEMMA ApplyCore ==
  ASSUME Core, NEW w \in Requests, Apply(w)
  PROVE  Locals' /\ OneHolder' /\ Rows'
<1>1. TypeOK /\ Local(w) /\ on[w] \in Messages /\ was[w] \in Open
  BY DEF Core, Locals, Local, Apply
<1> PICK m \in Messages : m = on[w]
  BY <1>1
<1>2. CASE ~Matches(w)
  BY <1>2, RefuseCore DEF Apply, Stale, Refuse
<1>3. CASE Matches(w)
  <2>1. status[m] \in Open /\ Row(m)
    BY <1>1, <1>3 DEF Matches, Core, Rows
  <2>2. Answer(w) /\ UNCHANGED <<pastVars, envVars>>
    BY <1>3 DEF Apply
  <2>3. Aside(w) /\ pc'[w] = "idle"
    BY <1>1, <2>2, AsideOf
  <2>4. \E s, t, at : s \in Open \cup {"cancelled"} /\ Write(m, s, t, at, began[w])
    BY <1>3 DEF Apply
  <2>5. PICK s, t, at : s \in Open \cup {"cancelled"} /\ Write(m, s, t, at, began[w])
    BY <2>4
  <2>6. /\ Apart(m) /\ status'[m] = s /\ version'[m] = version[m] + 1 /\ text'[m] = t
        /\ clock' = clock /\ submitted' = submitted /\ claimedAt' = claimedAt
    BY <1>1, <2>2, <2>5, WriteApart DEF pastVars, envVars
  <2>7. Row(m)'
    BY <1>1, <2>1, <2>5, <2>6 DEF Row, TypeOK
  <2>8. \A v \in Requests \ {w} : Local(v)'
    BY <1>1, <2>1, <2>3, <2>6, OthersWhenWritten
  <2>9. Local(w)' /\ Rows'
    BY <2>3, <2>6, <2>7, RowsAfterWrite DEF Local
  <2> QED BY <2>3, <2>8, <2>9, Assemble
<1> QED BY <1>2, <1>3

\* The two updates of the send chain before the provider is called.
LEMMA ClaimCore ==
  ASSUME Core, NEW w \in Requests, OpenReview(w) \/ Claim(w)
  PROVE  Locals' /\ OneHolder' /\ Rows'
<1>1. /\ TypeOK /\ Local(w) /\ on[w] \in Messages /\ was[w] \in Open
      /\ began[w] \in 1..clock
  BY DEF Core, Locals, Local, OpenReview, Claim
<1> PICK m \in Messages : m = on[w]
  BY <1>1
<1>2. CASE Refuse(w)
  BY <1>2, RefuseCore DEF Refuse
<1>3. CASE ~Refuse(w)
  <2>1. PICK s \in {"ready", "sending"}, l \in {"claim", "submit"} :
          /\ WriteOn(w, s, l)
          /\ s = "ready" => pc[w] = "open" /\ l = "claim" /\ claimedAt' = claimedAt
          /\ s = "sending" => /\ pc[w] = "claim" /\ l = "submit"
                              /\ claimedAt' = [claimedAt EXCEPT ![m] = began[w]]
    BY <1>3 DEF OpenReview, Claim, Stale
  <2>2. Matches(w)
    BY <1>3 DEF OpenReview, Claim, Stale
  <2>3. status[m] \in Open /\ Row(m) /\ body[w] = text[m] /\ body[w] = reviewed[w]
    BY <1>1, <2>1, <2>2 DEF Matches, Core, Rows, Local
  <2>4. /\ Write(m, s, body[w], 0, began[w]) /\ submitted' = submitted /\ clock' = clock
        /\ pc'[w] = l /\ was'[w] = s /\ revision'[w] = revision[w] + 1
        /\ on' = on /\ cmd' = cmd /\ began' = began /\ reviewed' = reviewed /\ body' = body
        /\ Aside(w)
    BY <1>1, <2>1 DEF TypeOK, WriteOn, Advance, Goto, Aside, envVars
  <2>5. /\ \A k \in Messages \ {m} : claimedAt'[k] = claimedAt[k]
        /\ s = "sending" => claimedAt'[m] = began[w]
        /\ s = "ready" => claimedAt'[m] = claimedAt[m]
    BY <1>1, <2>1 DEF TypeOK
  <2>6. /\ Apart(m) /\ status'[m] = s /\ version'[m] = version[m] + 1
        /\ text'[m] = body[w] /\ updatedAt'[m] = began[w]
    BY <1>1, <2>4, <2>5, WriteApart
  <2>7. Row(m)'
    BY <1>1, <2>3, <2>4, <2>5, <2>6 DEF Row, TypeOK
  <2>8. \A v \in Requests \ {w} : Local(v)'
    BY <1>1, <2>3, <2>4, <2>6, OthersWhenWritten
  <2>9. Local(w)'
    BY <1>1, <2>1, <2>2, <2>3, <2>4, <2>6 DEF Local, Matches, Row, TypeOK
  <2>10. Rows'
    BY <2>4, <2>6, <2>7, RowsAfterWrite
  <2> QED BY <2>3, <2>4, <2>8, <2>9, <2>10, Assemble
<1> QED BY <1>2, <1>3

\* The provider is handed the text the row holds.
LEMMA SubmitCore ==
  ASSUME Core, NEW w \in Requests, Submit(w)
  PROVE  Locals' /\ OneHolder' /\ Rows'
<1>1. TypeOK /\ Local(w) /\ on[w] \in Messages /\ pc[w] = "submit"
  BY DEF Core, Locals, Local, Submit
<1> PICK m \in Messages : m = on[w]
  BY <1>1
<1>2. /\ status[m] = "sending" /\ body[w] = text[m] /\ submitted[m] = <<>> /\ Row(m)
  BY <1>1 DEF Local, Core, Rows
<1>3. Append(submitted[m], body[w]) = <<text[m]>>
  BY <1>2
<1>4. /\ submitted' = [submitted EXCEPT ![m] = <<text[m]>>]
      /\ pc'[w] = "settle" /\ Aside(w) /\ clock' = clock
      /\ UNCHANGED <<status, version, text, updatedAt, claimedAt, on, cmd, reviewed, began,
                     body, revision, was>>
  BY <1>1, <1>3 DEF TypeOK, Submit, Advance, Goto, Aside, rowVars, envVars
<1>5. submitted'[m] = <<text[m]>> /\ \A k \in Messages \ {m} : submitted'[k] = submitted[k]
  BY <1>1, <1>4 DEF TypeOK
<1>6. Rows'
  <2>1. Row(m)'
    BY <1>2, <1>4, <1>5 DEF Row
  <2>2. Apart(m)
    BY <1>4, <1>5 DEF Apart
  <2> QED BY <1>4, <2>1, <2>2, RowsAfterWrite
<1>7. Local(w)'
  BY <1>1, <1>2, <1>4, <1>5 DEF Local, Matches
<1>8. ASSUME NEW v \in Requests \ {w} PROVE Local(v)'
  <2>1. Local(v) /\ (pc[v] \in Holding => on[v] # m)
    BY <1>1 DEF Core, Locals, OneHolder
  <2> QED BY <2>1, <1>4, <1>5 DEF Local, Aside, Matches
<1> QED BY <1>1, <1>2, <1>4, <1>6, <1>7, <1>8, Assemble

\* The answer finds the row its request claimed.
LEMMA SettleCore ==
  ASSUME Core, NEW w \in Requests, Settle(w)
  PROVE  Locals' /\ OneHolder' /\ Rows'
<1>1. TypeOK /\ Local(w) /\ on[w] \in Messages /\ pc[w] = "settle"
  BY DEF Core, Locals, Local, Settle
<1> PICK m \in Messages : m = on[w]
  BY <1>1
<1>2. /\ Matches(w) /\ status[m] = "sending" /\ Row(m)
      /\ submitted[m] = <<text[m]>> /\ body[w] = text[m]
  BY <1>1 DEF Local, Core, Rows
<1>3. PICK o \in Final : Write(m, o, body[w], 0, clock)
  BY <1>2 DEF Settle
<1>4. Answer(w) /\ UNCHANGED <<pastVars, envVars>>
  BY <1>2 DEF Settle
<1>5. Aside(w) /\ pc'[w] = "idle"
  BY <1>1, <1>4, AsideOf
<1>6. /\ Apart(m) /\ status'[m] = o /\ version'[m] = version[m] + 1 /\ text'[m] = text[m]
      /\ updatedAt'[m] = clock
      /\ clock' = clock /\ submitted' = submitted /\ claimedAt' = claimedAt
  BY <1>1, <1>2, <1>3, <1>4, WriteApart DEF pastVars, envVars
<1>7. Row(m)'
  <2>1. <<text[m]>> # <<>>
    OBVIOUS
  <2>2. claimedAt[m] \in 1..clock /\ clock \in Nat /\ version[m] \in Nat
    BY <1>1, <1>2, SomeBounds DEF Row, TypeOK
  <2>3. submitted'[m] = <<text'[m]>> /\ submitted'[m] # <<>>
    BY <1>2, <1>6, <2>1
  <2>4. status'[m] \in Final /\ version'[m] # 0 /\ clock' = clock
    BY <1>6, <2>2
  <2>5. claimedAt'[m] \in 1..clock /\ claimedAt'[m] <= updatedAt'[m]
    BY <1>6, <2>2
  <2> QED BY <2>3, <2>4, <2>5 DEF Row
<1>8. \A v \in Requests \ {w} : Local(v)'
  BY <1>1, <1>5, <1>6, OthersWhenWritten
<1>9. Local(w)' /\ Rows'
  BY <1>5, <1>6, <1>7, RowsAfterWrite DEF Local
<1> QED BY <1>5, <1>8, <1>9, Assemble

LEMMA CorePreserved == Core /\ [Next]_vars => Core'
<1> SUFFICES ASSUME Core, [Next]_vars PROVE Locals' /\ OneHolder' /\ Rows'
  BY TypePreserved DEF Core
<1>1. CASE World
  <2>1. /\ UNCHANGED <<rowVars, pastVars, reqVars>> /\ clock \in Nat /\ clock' \in Nat
        /\ clock <= clock'
    BY <1>1, SomeBounds DEF World, Tick, CreateTemplate, ArchiveTemplate, ChangeContact, envVars,
           Core, TypeOK
  <2>2. Locals'
    <3> SUFFICES ASSUME NEW w \in Requests PROVE Local(w)'
      BY DEF Locals
    <3>1. Local(w)
      BY DEF Core, Locals
    <3>2. began[w] \in 1..clock => began[w] \in 1..clock'
      BY <2>1
    <3> QED BY <2>1, <3>1, <3>2 DEF Local, Matches, rowVars, pastVars, reqVars
  <2>3. OneHolder'
    BY <2>1 DEF Core, OneHolder, reqVars
  <2>4. Rows'
    BY <2>1 DEF Core, Rows, Row, rowVars, pastVars
  <2> QED BY <2>2, <2>3, <2>4
<1>2. ASSUME NEW w \in Requests, Step(w) PROVE Locals' /\ OneHolder' /\ Rows'
  <2>1. CASE Refuse(w)
    BY <2>1, RefuseCore DEF Refuse
  <2>2. CASE ~Refuse(w)
    BY <1>2, <2>2, InsertCore, AdvanceCore, ApplyCore, ClaimCore, SubmitCore, SettleCore
    DEF Step, RefuseSchedule, RefuseConfiguration
  <2> QED BY <2>1, <2>2
<1>3. ASSUME NEW w \in Requests, Lose(w) PROVE Locals' /\ OneHolder' /\ Rows'
  BY <1>3, RefuseCore DEF Lose
<1>4. ASSUME NEW w \in Requests, NEW m \in Messages, NEW c \in Commands, Ask(w, m, c)
      PROVE  Locals' /\ OneHolder' /\ Rows'
  BY <1>4, AskCore
<1>5. ASSUME NEW w \in Requests, NEW m \in Messages, NEW t \in Texts, AskDraft(w, m, t)
      PROVE  Locals' /\ OneHolder' /\ Rows'
  BY <1>5, AskCore
<1>6. CASE UNCHANGED vars
  BY <1>6 DEF Core, Locals, Local, Matches, OneHolder, Rows, Row, vars, rowVars,
              pastVars, reqVars, envVars
<1> QED BY <1>1, <1>2, <1>3, <1>4, <1>5, <1>6 DEF Next

-----------------------------------------------------------------------------
(* What one step does to the rows *)

Kept(m) ==
  /\ status'[m] = status[m] /\ version'[m] = version[m] /\ text'[m] = text[m]
  /\ recipient'[m] = recipient[m] /\ history'[m] = history[m]
  /\ submitted'[m] = submitted[m]

Drafted(m) ==
  /\ status[m] = "none" /\ status'[m] = "draft" /\ version'[m] = 1
  /\ history'[m] = <<"draft">> /\ submitted'[m] = submitted[m]

Rewritten(m) ==
  /\ status[m] # "none" /\ LegalStep(status[m], status'[m])
  /\ version'[m] = version[m] + 1
  /\ history'[m] = Append(history[m], status'[m])
  /\ text'[m] # text[m] => status[m] \in Open /\ status'[m] \in Open
  /\ recipient'[m] = recipient[m] /\ submitted'[m] = submitted[m]

Handed(m) ==
  /\ status[m] = "sending" /\ submitted[m] = <<>>
  /\ submitted'[m] = <<text[m]>>
  /\ status'[m] = status[m] /\ version'[m] = version[m] /\ text'[m] = text[m]
  /\ recipient'[m] = recipient[m] /\ history'[m] = history[m]

OneRowMoves ==
  \E m \in Messages :
    /\ Drafted(m) \/ Rewritten(m) \/ Handed(m)
    /\ \A k \in Messages \ {m} : Kept(k)

NoRowMoves == \A m \in Messages : Kept(m)

LEMMA WriteMoves ==
  ASSUME Core, NEW m \in Messages, NEW s, NEW t, NEW at, NEW now,
         Write(m, s, t, at, now), submitted' = submitted,
         status[m] # "none", LegalStep(status[m], s),
         t = text[m] \/ (status[m] \in Open /\ s \in Open)
  PROVE  OneRowMoves
<1>1. TypeOK
  BY DEF Core
<1>2. Rewritten(m)
  BY <1>1 DEF TypeOK, Write, Rewritten
<1>3. \A k \in Messages \ {m} : Kept(k)
  BY <1>1 DEF TypeOK, Write, Kept
<1> QED BY <1>2, <1>3 DEF OneRowMoves

LEMMA RowsStep == Core /\ [Next]_vars => NoRowMoves \/ OneRowMoves
<1> SUFFICES ASSUME Core, [Next]_vars PROVE NoRowMoves \/ OneRowMoves
  OBVIOUS
<1>1. CASE UNCHANGED <<rowVars, pastVars>>
  BY <1>1 DEF NoRowMoves, Kept, rowVars, pastVars
<1>2. ASSUME NEW w \in Requests, Step(w), ~UNCHANGED <<rowVars, pastVars>>
      PROVE  OneRowMoves
  <2>1. TypeOK /\ Local(w)
    BY DEF Core, Locals
  <2>2. ~Refuse(w)
    BY <1>2 DEF Refuse
  <2>3. ~(Load(w) \/ CheckLinked(w) \/ CheckTemplate(w) \/ CountRecent(w))
    BY <1>2, <2>2 DEF Load, CheckLinked, CheckTemplate, CountRecent
  <2>4. on[w] \in Messages
    BY <1>2, <2>1 DEF Step, InsertDraft, Load, CheckLinked, Apply, RefuseSchedule,
       CheckTemplate, CountRecent, RefuseConfiguration, OpenReview, Claim, Submit, Settle, Local
  <2> PICK m \in Messages : m = on[w]
    BY <2>4
  <2>5. CASE InsertDraft(w)
    <3>1. Drafted(m) /\ \A k \in Messages \ {m} : Kept(k)
      BY <1>2, <2>1, <2>5 DEF TypeOK, InsertDraft, Insertable, Drafted, Kept, pastVars, rowVars
    <3> QED BY <3>1 DEF OneRowMoves
  <2>6. CASE Apply(w)
    <3>1. Matches(w) /\ was[w] \in Open /\ status[m] \in Open /\ body[w] = text[m]
      BY <2>1, <2>2, <2>6 DEF Apply, Stale, Local, Matches
    <3>2. PICK s, t, at :
            /\ s \in Open \cup {"cancelled"}
            /\ Write(m, s, t, at, began[w])
            /\ t = text[m] \/ s \in Open
      BY <2>6, <3>1 DEF Apply
    <3>3. submitted' = submitted
      BY <2>6, <3>1 DEF Apply, pastVars
    <3>4. LegalStep(status[m], s)
      BY <3>1, <3>2 DEF LegalStep
    <3> QED BY <3>1, <3>2, <3>3, <3>4, WriteMoves
  <2>7. CASE OpenReview(w) \/ Claim(w)
    <3>1. Matches(w) /\ was[w] \in Open /\ status[m] \in Open /\ body[w] = text[m]
      BY <2>1, <2>2, <2>7 DEF OpenReview, Claim, Stale, Local, Matches
    <3>2. PICK s \in {"ready", "sending"} :
            /\ Write(m, s, body[w], 0, began[w]) /\ submitted' = submitted
            /\ s = "sending" => was[w] = "ready"
      BY <2>1, <2>7, <3>1, <2>2 DEF OpenReview, Claim, WriteOn, Local, Stale
    <3>3. LegalStep(status[m], s)
      BY <3>1, <3>2 DEF LegalStep, Matches
    <3> QED BY <3>1, <3>2, <3>3, WriteMoves
  <2>8. CASE Submit(w)
    <3>1. status[m] = "sending" /\ submitted[m] = <<>> /\ body[w] = text[m]
      BY <2>1, <2>8 DEF Submit, Local
    <3>2. Append(submitted[m], body[w]) = <<text[m]>>
      BY <3>1
    <3>3. submitted' = [submitted EXCEPT ![m] = <<text[m]>>] /\ UNCHANGED rowVars
      BY <2>8, <3>2 DEF Submit
    <3>4. Handed(m) /\ \A k \in Messages \ {m} : Kept(k)
      BY <2>1, <3>1, <3>3 DEF TypeOK, Handed, Kept, rowVars
    <3> QED BY <3>4 DEF OneRowMoves
  <2>9. CASE Settle(w)
    <3>1. status[m] = "sending" /\ Matches(w) /\ body[w] = text[m]
      BY <2>1, <2>9 DEF Settle, Local
    <3>2. PICK o \in Final : Write(m, o, body[w], 0, clock)
      BY <2>9, <3>1 DEF Settle
    <3>3. submitted' = submitted
      BY <2>9, <3>1 DEF Settle, pastVars
    <3>4. LegalStep(status[m], o)
      BY <3>1 DEF LegalStep
    <3> QED BY <3>1, <3>2, <3>3, <3>4, WriteMoves
  <2> QED BY <1>2, <2>2, <2>3, <2>5, <2>6, <2>7, <2>8, <2>9
          DEF Step, RefuseSchedule, RefuseConfiguration
<1>3. ~(\E w \in Requests : Step(w)) => UNCHANGED <<rowVars, pastVars>>
  BY DEF Next, World, Tick, CreateTemplate, ArchiveTemplate, ChangeContact, Lose, Ask,
         AskDraft, vars
<1> QED BY <1>1, <1>2, <1>3

-----------------------------------------------------------------------------
(* The history, and legal moves *)

History(m) ==
  /\ Len(history[m]) = version[m]
  /\ version[m] > 0 => history[m][1] = "draft" /\ history[m][version[m]] = status[m]
  /\ \A i \in 1..(Len(history[m]) - 1) : LegalStep(history[m][i], history[m][i + 1])

LEMMA HistoryPreserved ==
  Core /\ HistoryTellsEveryVersion /\ [Next]_vars => HistoryTellsEveryVersion'
<1> SUFFICES ASSUME Core, HistoryTellsEveryVersion, [Next]_vars, NEW m \in Messages
             PROVE  History(m)'
  BY DEF HistoryTellsEveryVersion, History
<1>1. History(m) /\ TypeOK /\ Row(m)
  BY DEF HistoryTellsEveryVersion, History, Core, Rows
<1>2. Kept(m) \/ Drafted(m) \/ Rewritten(m) \/ Handed(m)
  BY RowsStep DEF NoRowMoves, OneRowMoves
<1>3. CASE Kept(m) \/ Handed(m)
  BY <1>1, <1>3 DEF History, Kept, Handed
<1>4. CASE Drafted(m)
  BY <1>4 DEF History, Drafted
<1>5. CASE Rewritten(m)
  <2>1. /\ history[m] \in Seq(Statuses) /\ version[m] \in Nat /\ version[m] > 0
        /\ Len(history[m]) = version[m]
    BY <1>1, <1>5 DEF TypeOK, Row, History, Rewritten
  <2>2. /\ Len(history'[m]) = version'[m]
        /\ history'[m][version'[m]] = status'[m]
        /\ \A i \in 1..version[m] : history'[m][i] = history[m][i]
    BY <2>1, <1>5 DEF Rewritten
  <2>3. ASSUME NEW i \in 1..(Len(history'[m]) - 1)
        PROVE  LegalStep(history'[m][i], history'[m][i + 1])
    <3>1. CASE i = version[m]
      BY <1>1, <1>5, <2>1, <2>2, <3>1 DEF Rewritten, History
    <3>2. CASE i # version[m]
      <4>1. i \in 1..(Len(history[m]) - 1) /\ i + 1 \in 1..version[m] /\ i \in 1..version[m]
        BY <2>1, <2>2, <3>2, <1>5 DEF Rewritten
      <4> QED BY <1>1, <2>2, <4>1 DEF History
    <3> QED BY <3>1, <3>2
  <2> QED BY <1>1, <2>1, <2>2, <2>3 DEF History
<1> QED BY <1>2, <1>3, <1>4, <1>5

LEMMA MovesLegally ==
  Core /\ [Next]_vars =>
    \A m \in Messages :
      /\ version'[m] # version[m] =>
           version'[m] = version[m] + 1 /\ LegalStep(status[m], status'[m])
      /\ version'[m] = version[m] => status'[m] = status[m]
      /\ text'[m] # text[m] => status[m] \in Open \cup {"none"}
      /\ recipient'[m] # recipient[m] => status[m] = "none"
<1> SUFFICES ASSUME Core, [Next]_vars, NEW m \in Messages
             PROVE  /\ version'[m] # version[m] =>
                         version'[m] = version[m] + 1 /\ LegalStep(status[m], status'[m])
                    /\ version'[m] = version[m] => status'[m] = status[m]
                    /\ text'[m] # text[m] => status[m] \in Open \cup {"none"}
                    /\ recipient'[m] # recipient[m] => status[m] = "none"
  OBVIOUS
<1>1. Kept(m) \/ Drafted(m) \/ Rewritten(m) \/ Handed(m)
  BY RowsStep DEF NoRowMoves, OneRowMoves
<1>2. version[m] \in Nat /\ (status[m] = "none" <=> version[m] = 0)
  BY DEF Core, TypeOK, Rows, Row
<1> QED BY <1>1, <1>2 DEF Kept, Drafted, Rewritten, Handed, LegalStep

-----------------------------------------------------------------------------
(* The hourly limit *)

ClaimedIn(t) ==
  {m \in Messages : claimedAt[m] # 0 /\ t <= claimedAt[m] /\ claimedAt[m] < t + Window}

\* Whatever was claimed within a window before now is still counted at now:
\* rows leave "sending" only for another counted state, and only forwards in time.
LEMMA CountedAgain ==
  ASSUME Core, NEW t \in Times, NEW now \in Times, t <= now, now < t + Window
  PROVE  ClaimedIn(t) \subseteq Recent(now)
<1> SUFFICES ASSUME NEW m \in ClaimedIn(t) PROVE m \in Recent(now)
  OBVIOUS
<1>1. m \in Messages /\ claimedAt[m] # 0 /\ t <= claimedAt[m]
  BY DEF ClaimedIn
<1>2. /\ status[m] \in Spent /\ claimedAt[m] <= updatedAt[m]
      /\ claimedAt[m] \in Nat /\ updatedAt[m] \in Nat
  BY <1>1, SomeBounds DEF Core, Rows, Row, TypeOK
<1>3. updatedAt[m] + Window > now
  BY <1>1, <1>2, SomeBounds
<1> QED BY <1>1, <1>2, <1>3 DEF Recent

LEMMA HourlyPreserved ==
  Core /\ HourlyLimit /\ [Next]_vars => HourlyLimit'
<1> SUFFICES ASSUME Core, HourlyLimit, [Next]_vars, NEW t \in Times
             PROVE  Cardinality(ClaimedIn(t)') <= Limit
  BY DEF HourlyLimit, ClaimedIn
<1>1. Cardinality(ClaimedIn(t)) <= Limit
  BY DEF HourlyLimit, ClaimedIn
<1>2. CASE claimedAt' = claimedAt
  BY <1>1, <1>2 DEF ClaimedIn
<1>3. CASE claimedAt' # claimedAt
  <2>1. PICK w \in Requests : Claim(w)
    BY <1>3 DEF Next, Step, World, Tick, CreateTemplate, ArchiveTemplate, ChangeContact,
         Lose, Ask, AskDraft, InsertDraft, Load, CheckLinked, Apply, RefuseSchedule,
         CheckTemplate, CountRecent, RefuseConfiguration, OpenReview, Submit, Settle,
         Stale, Refuse, vars, pastVars
  <2>a. ~Stale(w)
    BY <1>3 DEF Stale, Refuse, pastVars
  <2>2. /\ Matches(w) /\ UnderLimit(began[w])
        /\ claimedAt' = [claimedAt EXCEPT ![on[w]] = began[w]]
    BY <2>1, <2>a DEF Claim, RateTrigger
  <2>3. TypeOK /\ Local(w) /\ on[w] \in Messages /\ began[w] \in Times /\ was[w] = "ready"
    <3>1. TypeOK /\ Local(w) /\ pc[w] = "claim"
      BY <2>1 DEF Core, Locals, Claim
    <3>2. on[w] \in Messages /\ began[w] \in 1..clock /\ was[w] = "ready"
      BY <3>1 DEF Local
    <3>3. clock \in Times
      BY <3>1 DEF TypeOK
    <3> QED BY <3>1, <3>2, <3>3, SomeBounds DEF Times
  <2> PICK m \in Messages : m = on[w]
    BY <2>3
  <2> PICK now \in Times : now = began[w]
    BY <2>3
  <2>4. claimedAt[m] = 0
    BY <2>2, <2>3 DEF Matches, Core, Rows, Row
  <2>5. claimedAt'[m] = now /\ \A k \in Messages \ {m} : claimedAt'[k] = claimedAt[k]
    BY <2>2, <2>3 DEF TypeOK
  <2>6. CASE t <= now /\ now < t + Window
    <3>1. ClaimedIn(t)' \subseteq ClaimedIn(t) \cup {m}
      BY <2>5 DEF ClaimedIn
    <3>2. IsFiniteSet(Recent(now)) /\ Cardinality(Recent(now)) \in Nat
          /\ Cardinality(Recent(now)) < Limit
      <4>1. Recent(now) \in SUBSET Messages
        BY DEF Recent
      <4>2. IsFiniteSet(Recent(now)) /\ Cardinality(Recent(now)) \in Nat
        BY <4>1, FiniteMessages, FS_Subset, FS_CardinalityType
      <4> QED BY <2>2, <4>2 DEF UnderLimit
    <3>3. /\ IsFiniteSet(ClaimedIn(t)) /\ Cardinality(ClaimedIn(t)) \in Nat
          /\ Cardinality(ClaimedIn(t)) <= Cardinality(Recent(now))
      BY <3>2, <2>6, CountedAgain, FS_Subset, FS_CardinalityType
    <3>4. /\ IsFiniteSet(ClaimedIn(t) \cup {m})
          /\ Cardinality(ClaimedIn(t) \cup {m}) <= Cardinality(ClaimedIn(t)) + 1
          /\ Cardinality(ClaimedIn(t) \cup {m}) \in Nat
      <4>1. m \notin ClaimedIn(t)
        BY <2>4 DEF ClaimedIn
      <4>2. /\ IsFiniteSet(ClaimedIn(t) \cup {m})
            /\ Cardinality(ClaimedIn(t) \cup {m}) = Cardinality(ClaimedIn(t)) + 1
        BY <3>3, <4>1, FS_AddElement
      <4> QED BY <3>3, <4>2
    <3>5. /\ Cardinality(ClaimedIn(t)') <= Cardinality(ClaimedIn(t) \cup {m})
          /\ Cardinality(ClaimedIn(t)') \in Nat
      BY <3>1, <3>4, FS_Subset, FS_CardinalityType
    <3> QED BY <3>2, <3>3, <3>4, <3>5, SomeBounds
  <2>7. CASE ~(t <= now /\ now < t + Window)
    <3>1. ClaimedIn(t)' = ClaimedIn(t)
      BY <2>4, <2>5, <2>7 DEF ClaimedIn
    <3> QED BY <1>1, <3>1
  <2> QED BY <2>6, <2>7
<1> QED BY <1>2, <1>3

LEMMA InitHourly == Init => HourlyLimit
<1> SUFFICES ASSUME Init, NEW t \in Times PROVE Cardinality(ClaimedIn(t)) <= Limit
  BY DEF HourlyLimit, ClaimedIn
<1>1. ClaimedIn(t) = {}
  BY DEF Init, ClaimedIn
<1> QED BY <1>1, FS_EmptySet, SomeBounds

-----------------------------------------------------------------------------
(* The results *)

\* IInv is an invariant of every behaviour.
THEOREM Invariant == Spec => []IInv
<1>1. Init => IInv
  <2>1. Init => HistoryTellsEveryVersion
    BY DEF Init, HistoryTellsEveryVersion
  <2> QED BY <2>1, InitCore, InitHourly DEF IInv
<1>2. IInv /\ [Next]_vars => IInv'
  BY CorePreserved, HistoryPreserved, HourlyPreserved DEF IInv
<1> QED BY <1>1, <1>2, PTL DEF Spec

\* Every variable keeps its type, and a review time is kept exactly while one
\* is scheduled.
THEOREM TypeCorrect == Spec => []TypeOK
<1>1. IInv => TypeOK
  BY DEF IInv, Core
<1> QED BY <1>1, Invariant, PTL

\* The request that claimed a message owns its row until it settles it: update
\* after the provider's answer never finds a stale version.
THEOREM ClaimIsOwned == Spec => []ClaimerOwnsTheRow
<1>1. IInv => ClaimerOwnsTheRow
  BY DEF IInv, Core, Locals, Local, OneHolder, ClaimerOwnsTheRow
<1> QED BY <1>1, Invariant, PTL

\* The provider is handed the text its sender reviewed, once, and the row
\* keeps it: outboundCommand's version check, claim and frozen body together.
THEOREM ReviewedTextIsSubmitted == Spec => []SubmittedAsReviewed
<1>1. ASSUME IInv PROVE SubmittedAsReviewed
  <2>1. \A w \in Requests : pc[w] = "submit" => body[w] = reviewed[w]
    BY <1>1 DEF IInv, Core, Locals, Local
  <2>2. \A m \in Messages : submitted[m] = <<>> \/ submitted[m] = <<text[m]>>
    BY <1>1 DEF IInv, Core, Rows, Row
  <2>3. ASSUME NEW m \in Messages, NEW i \in 1..2, i \in DOMAIN submitted[m]
        PROVE  i = 1 /\ submitted[m][i] = text[m]
    <3>1. CASE submitted[m] = <<>>
      BY <2>3, <3>1
    <3>2. CASE submitted[m] = <<text[m]>>
      BY <2>3, <3>2
    <3> QED BY <2>2, <3>1, <3>2
  <2> QED BY <2>1, <2>3 DEF SubmittedAsReviewed
<1> QED BY <1>1, Invariant, PTL

\* The trigger's count keeps the hourly limit for any number of concurrent
\* requests that counted before any of them claimed.
THEOREM LimitIsKept == Spec => []HourlyLimit
<1>1. IInv => HourlyLimit
  BY DEF IInv
<1> QED BY <1>1, Invariant, PTL

\* The events of a message are its versions, in order.
THEOREM HistoryIsTrue == Spec => []HistoryTellsEveryVersion
<1>1. IInv => HistoryTellsEveryVersion
  BY DEF IInv
<1> QED BY <1>1, Invariant, PTL

\* The service never asks for an update that the guard trigger would abort.
THEOREM LegalMoves == Spec => RowsMoveLegally
<1>1. IInv /\ [Next]_vars =>
        [\A m \in Messages :
           /\ version'[m] # version[m] =>
                version'[m] = version[m] + 1 /\ LegalStep(status[m], status'[m])
           /\ version'[m] = version[m] => status'[m] = status[m]
           /\ text'[m] # text[m] => status[m] \in Open \cup {"none"}
           /\ recipient'[m] # recipient[m] => status[m] = "none"]_vars
  BY MovesLegally DEF IInv
<1> QED BY <1>1, Invariant, PTL DEF Spec, RowsMoveLegally

-----------------------------------------------------------------------------
(* Outbound implements OutboundPromise *)

LEMMA PromiseInit == Init => Promise!Init
<1> SUFFICES ASSUME Init PROVE Promise!Init
  OBVIOUS
<1>1. text \in [Messages -> Texts]
  BY InitCore DEF Core, TypeOK
<1> QED BY <1>1 DEF Init, Promise!Init, PhaseOf

LEMMA PromiseStep == Core /\ Core' /\ [Next]_vars => [Promise!Next]_(Promise!vars)
<1> SUFFICES ASSUME Core, Core', [Next]_vars PROVE [Promise!Next]_(Promise!vars)
  OBVIOUS
<1> DEFINE phase == [m \in Messages |-> PhaseOf(status[m])]
<1>1. TypeOK /\ TypeOK'
  BY DEF Core
<1>2. CASE NoRowMoves
  <2>1. text' = text /\ submitted' = submitted /\ phase' = phase
    BY <1>1, <1>2 DEF NoRowMoves, Kept, TypeOK
  <2> QED BY <2>1 DEF Promise!vars
<1>3. CASE OneRowMoves
  <2>1. PICK m \in Messages : /\ Drafted(m) \/ Rewritten(m) \/ Handed(m)
                              /\ \A k \in Messages \ {m} : Kept(k)
    BY <1>3 DEF OneRowMoves
  <2>2. /\ text' = [text EXCEPT ![m] = text'[m]]
        /\ submitted' = [submitted EXCEPT ![m] = submitted'[m]]
        /\ phase' = [phase EXCEPT ![m] = PhaseOf(status'[m])]
        /\ phase[m] = PhaseOf(status[m]) /\ text'[m] \in Texts
    <3>1. text' = [text EXCEPT ![m] = text'[m]] /\ text'[m] \in Texts
      BY <1>1, <2>1 DEF Kept, TypeOK
    <3>2. submitted' = [submitted EXCEPT ![m] = submitted'[m]]
      BY <1>1, <2>1 DEF Kept, TypeOK
    <3>3. phase' = [phase EXCEPT ![m] = PhaseOf(status'[m])] /\ phase[m] = PhaseOf(status[m])
      BY <2>1 DEF Kept
    <3> QED BY <3>1, <3>2, <3>3
  <2>3. submitted'[m] = submitted[m] => submitted' = submitted
    BY <1>1, <2>2 DEF TypeOK
  <2>4. text'[m] = text[m] => text' = text
    BY <1>1, <2>2 DEF TypeOK
  <2>5. CASE Drafted(m)
    <3>1. Promise!Revise(m, text'[m])
      BY <2>2, <2>3, <2>5 DEF Drafted, Promise!Revise, PhaseOf
    <3> QED BY <2>2, <3>1 DEF Promise!Next
  <2>6. CASE Handed(m)
    <3>1. PhaseOf(status'[m]) = PhaseOf(status[m]) /\ PhaseOf(status[m]) = "claimed"
      BY <2>6 DEF Handed, PhaseOf
    <3>2. phase' = phase
      BY <2>2, <3>1
    <3>3. Promise!Submit(m)
      BY <2>2, <2>4, <2>6, <3>1, <3>2 DEF Handed, Promise!Submit
    <3> QED BY <3>3 DEF Promise!Next
  <2>7. CASE Rewritten(m)
    <3>1. CASE status[m] \in Open /\ status'[m] \in Open
      <4>1. Promise!Revise(m, text'[m])
        BY <2>2, <2>3, <2>7, <3>1 DEF Rewritten, Promise!Revise, PhaseOf
      <4> QED BY <2>2, <4>1 DEF Promise!Next
    <3>2. CASE status[m] \in Open /\ status'[m] = "cancelled"
      <4>1. Promise!Close(m)
        BY <2>2, <2>3, <2>4, <2>7, <3>2 DEF Rewritten, Promise!Close, PhaseOf
      <4> QED BY <4>1 DEF Promise!Next
    <3>3. CASE status[m] = "ready" /\ status'[m] = "sending"
      <4>1. Promise!Claim(m)
        BY <2>2, <2>3, <2>4, <2>7, <3>3 DEF Rewritten, Promise!Claim, PhaseOf
      <4> QED BY <4>1 DEF Promise!Next
    <3>4. CASE status[m] = "sending" /\ status'[m] \in Final
      <4>1. Row(m)'
        BY DEF Core, Rows
      <4>2. submitted[m] # <<>>
        BY <4>1, <2>7, <3>4 DEF Row, Rewritten
      <4>3. Promise!Close(m)
        BY <2>2, <2>3, <2>4, <2>7, <3>4, <4>2 DEF Rewritten, Promise!Close, PhaseOf
      <4> QED BY <4>3 DEF Promise!Next
    <3> QED BY <2>7, <3>1, <3>2, <3>3, <3>4 DEF Rewritten, LegalStep
  <2> QED BY <2>1, <2>5, <2>6, <2>7
<1> QED BY <1>2, <1>3, RowsStep

\* Whatever concurrent requests and lost invocations do, a message is claimed
\* once, handed over at most once with the claimed text, and never reopened.
THEOREM PromiseIsKept == Spec => KeepsThePromise
<1>1. IInv /\ IInv' /\ [Next]_vars => [Promise!Next]_(Promise!vars)
  BY PromiseStep DEF IInv
<1> QED BY <1>1, PromiseInit, Invariant, PTL DEF Spec, KeepsThePromise, Promise!Spec
=============================================================================
