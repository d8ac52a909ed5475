--------------------------- MODULE ProspectingProofs ---------------------------
(***************************************************************************)
(* For any prospects, operations, chunks and invocations: no prospect is   *)
(* handed to the provider twice by one operation, every call has a row of  *)
(* the ledger of its own, chunks run one at a time, what the provider said *)
(* stands, and the page shows no more than that and what is still on its   *)
(* way.                                                                    *)
(*                                                                         *)
(* An operation has one invocation at work at most, and what that holds of *)
(* it is the stored row (Works); what any other holds is never newer       *)
(* (Reads), and older once somebody is at work (Behind).                   *)
(***************************************************************************)
EXTENDS Prospecting, FiniteSetTheorems, TLAPS

\* The row is claimed; another request has a copy it may still write by.
AtWork(w) == pc[w] \in {"mark", "reserve", "call", "answer", "book"}
HasRead(w) == pc[w] \in {"gate", "claim", "ask"}

Uncharged(o, S) == \A i \in S : charged[o][i] = 0
\* What the row says of the items, unless the purge dropped them.
Written(w) == IF pc[w] = "book" THEN Give(seen[w], chunk[w], "running").item
              ELSE seen[w].item
Ledger(w, row, n) == usage[on[w]][Number(w)] = row /\ calls[on[w]][Number(w)] = n

Drafts(w) == pc[w] = "insert" =>
  on[w] \in Operations /\ \E S \in SUBSET Items : seen[w] = Draft(S)

Reads(w) == HasRead(w) =>
  /\ on[w] \in Operations /\ op[on[w]].status # "none"
  /\ cmd[w] \in {"advance", "poll"} /\ (pc[w] = "claim" => cmd[w] = "advance")
  /\ pc[w] = "ask" => cmd[w] = "poll"
  /\ seen[w].status \notin {"none", "expired", "running"}
  /\ seen[w].version <= op[on[w]].version
  /\ seen[w].version = op[on[w]].version =>
       /\ \/ op[on[w]].status = "expired"
          \/ op[on[w]].status = seen[w].status /\ op[on[w]].item = seen[w].item
       /\ Uncharged(on[w], With(seen[w], "pending"))

Works(w) == AtWork(w) =>
  /\ on[w] \in Operations /\ cmd[w] = "advance"
  /\ op[on[w]].status \in {"running", "expired"}
  /\ op[on[w]].version = seen[w].version
  /\ \/ op[on[w]].item = Written(w)
     \/ op[on[w]].item = NoData /\ op[on[w]].status = "expired"
  /\ Uncharged(on[w], With(seen[w], "pending"))
  /\ pc[w] \in {"reserve", "call", "answer"} => chunk[w] \subseteq With(seen[w], "running")
  /\ pc[w] = "book" => /\ seen[w].status \in {"failed", "unknown"}
                       /\ chunk[w] \subseteq With(seen[w], seen[w].status)
  /\ pc[w] \in {"reserve", "call"} => Uncharged(on[w], chunk[w])
  /\ pc[w] = "call" => Ledger(w, "reserved", 0)
  /\ pc[w] \in {"answer", "book"} => Ledger(w, "reserved", 1)

Behind == \A v, w \in Requests : AtWork(v) /\ HasRead(w) /\ on[v] = on[w] =>
  seen[w].version < op[on[w]].version
OneAtWork == \A v, w \in Requests : v # w /\ AtWork(v) /\ AtWork(w) => on[v] # on[w]

\* An operation that was not made yet has left no trace.
Made(o) ==
  /\ op[o].status = "none" => /\ Uncharged(o, Items) /\ op[o].item = NoData
                              /\ \A n \in Numbers : usage[o][n] = "none" /\ calls[o][n] = 0
  /\ op[o].live => op[o].status \notin {"none", "expired"}
  /\ Uncharged(o, With(op[o], "pending"))

Held == \A w \in Requests :
  PastTheGate(w) /\ w \notin overrun => gate.token = w /\ gate.lease = "held"

Local == \A w \in Requests : Drafts(w) /\ Reads(w) /\ Works(w)
Stored == \A o \in Operations : Made(o)
ProspectingInv == /\ TypeOK /\ Local /\ Behind /\ OneAtWork /\ Stored /\ Held
                  /\ ChargedOnce

-----------------------------------------------------------------------------
(* The operators on rows. *)

LEMMA NumberIsOne ==
  ASSUME NEW w \in Requests
  PROVE  Number(w) \in Numbers
<1> DEFINE S == Items \ (With(seen[w], "pending") \cup With(seen[w], "absent"))
<1>1. S \subseteq Items
  OBVIOUS
<1>2. IsFiniteSet(S) /\ Cardinality(S) <= Cardinality(Items)
  BY <1>1, FiniteItems, FS_Subset
<1>3. Cardinality(S) \in Nat /\ Cardinality(Items) \in Nat
  BY <1>2, FiniteItems, FS_CardinalityType
<1> QED BY <1>2, <1>3 DEF Number, Numbers

LEMMA Given ==
  ASSUME NEW r \in Row, NEW S \in SUBSET Items, NEW s \in ItemStates
  PROVE  /\ Give(r, S, s) \in Row
         /\ Give(r, S, s).version = r.version /\ Give(r, S, s).status = r.status
         /\ Give(r, S, s).live = r.live /\ Give(r, S, s).jobs = r.jobs
         /\ Give(r, S, s).prospect = r.prospect
         /\ \A i \in Items : Give(r, S, s).item[i] = (IF i \in S THEN s ELSE r.item[i])
  BY DEF Give, Row

LEMMA Drafted ==
  ASSUME NEW S \in SUBSET Items
  PROVE  /\ Draft(S) \in Row /\ Draft(S).status = "prepared" /\ Draft(S).live
         /\ \A i \in Items : Draft(S).item[i] \in {"pending", "absent"}
  BY DEF Draft, Row, NoRow, NoData, Bare, Statuses, ItemStates

LEMMA Claimed ==
  ASSUME NEW r \in Row, NEW n \in Nat
  PROVE  LET r2 == [r EXCEPT !.status = "running", !.version = n + 1]
         IN  /\ r2 \in Row /\ r2.status = "running" /\ r2.version = n + 1
             /\ r2.live = r.live /\ r2.item = r.item
             /\ r2.prospect = r.prospect /\ r2.jobs = r.jobs
<1> DEFINE r1 == [r EXCEPT !.status = "running"]
<1>1. /\ r1 \in Row /\ r1.status = "running" /\ r1.live = r.live /\ r1.item = r.item
      /\ r1.prospect = r.prospect /\ r1.jobs = r.jobs
  BY DEF Row, Statuses
<1>2. [r EXCEPT !.status = "running", !.version = n + 1] = [r1 EXCEPT !.version = n + 1]
  OBVIOUS
<1> HIDE DEF r1
<1> QED BY <1>1, <1>2 DEF Row

\* A row that takes its data from a copy; the status or the version may change too.
Filled(x, r, g) == /\ x \in Row /\ x.live = r.live
                   /\ x.item = g.item /\ x.prospect = g.prospect /\ x.jobs = g.jobs
LEMMA Refilled ==
  ASSUME NEW r \in Row, NEW g \in Row
  PROVE  LET r1 == [r EXCEPT !.item = g.item, !.prospect = g.prospect, !.jobs = g.jobs]
             r2 == [r EXCEPT !.item = g.item, !.prospect = g.prospect, !.jobs = g.jobs,
                             !.status = g.status]
             r3 == [r EXCEPT !.item = g.item, !.prospect = g.prospect, !.jobs = g.jobs,
                             !.version = g.version]
         IN  /\ Filled(r1, r, g) /\ r1.status = r.status /\ r1.version = r.version
             /\ Filled(r2, r, g) /\ r2.status = g.status /\ r2.version = r.version
             /\ Filled(r3, r, g) /\ r3.status = r.status /\ r3.version = g.version
<1> DEFINE a == [r EXCEPT !.item = g.item]
           b == [a EXCEPT !.prospect = g.prospect]
           r1 == [b EXCEPT !.jobs = g.jobs]
           r2 == [r1 EXCEPT !.status = g.status]
           r3 == [r1 EXCEPT !.version = g.version]
<1>1. /\ r1 = [r EXCEPT !.item = g.item, !.prospect = g.prospect, !.jobs = g.jobs]
      /\ r2 = [r EXCEPT !.item = g.item, !.prospect = g.prospect, !.jobs = g.jobs,
                        !.status = g.status]
      /\ r3 = [r EXCEPT !.item = g.item, !.prospect = g.prospect, !.jobs = g.jobs,
                        !.version = g.version]
  OBVIOUS
<1>2. /\ a \in Row /\ a.live = r.live /\ a.status = r.status /\ a.version = r.version
      /\ a.item = g.item
  BY DEF Row
<1> HIDE DEF a
<1>3. /\ b \in Row /\ b.live = r.live /\ b.status = r.status /\ b.version = r.version
      /\ b.item = g.item /\ b.prospect = g.prospect
  BY <1>2 DEF Row
<1> HIDE DEF b
<1>4. /\ r1 \in Row /\ r1.live = r.live /\ r1.status = r.status /\ r1.version = r.version
      /\ r1.item = g.item /\ r1.prospect = g.prospect /\ r1.jobs = g.jobs
  BY <1>3 DEF Row
<1> HIDE DEF r1
<1>5. /\ r2 \in Row /\ r2.live = r.live /\ r2.status = g.status /\ r2.version = r.version
      /\ r2.item = g.item /\ r2.prospect = g.prospect /\ r2.jobs = g.jobs
  BY <1>4 DEF Row
<1>6. /\ r3 \in Row /\ r3.live = r.live /\ r3.status = r.status /\ r3.version = g.version
      /\ r3.item = g.item /\ r3.prospect = g.prospect /\ r3.jobs = g.jobs
  BY <1>4 DEF Row
<1> HIDE DEF r2, r3
<1> QED BY <1>1, <1>4, <1>5, <1>6 DEF Filled

\* mergeEnrichment and its counterpart touch what was made of the prospects only.
LEMMA Merged ==
  ASSUME NEW r \in Row, NEW S \in SUBSET Items, NEW t \in {"answer", "number"}
  PROVE  LET m == Merge(r, S, t)
         IN  /\ m \in Row /\ m.version = r.version /\ m.status = r.status
             /\ m.live = r.live /\ m.item = r.item /\ m.jobs = r.jobs
             /\ \A i \in Items :
                  m.prospect[i] = (IF i \in S THEN (r.prospect[i] \ {"failed"}) \cup {t}
                                   ELSE r.prospect[i])
  BY DEF Merge, Row, Tags

LEMMA Spoiled ==
  ASSUME NEW r \in Row, NEW S \in SUBSET Items
  PROVE  LET m == Spoil(r, S)
         IN  /\ m \in Row /\ m.version = r.version /\ m.status = r.status
             /\ m.live = r.live /\ m.item = r.item /\ m.jobs = r.jobs
             /\ \A i \in Items :
                  m.prospect[i] = (IF i \in S THEN r.prospect[i] \cup {"failed"}
                                   ELSE r.prospect[i])
  BY DEF Spoil, Row, Tags

\* The copy with the provider's answers.
LEMMA AnswersRow ==
  ASSUME NEW w \in Requests, seen[w] \in Row, chunk[w] \in SUBSET Items, NEW c \in Answers(w)
  PROVE  /\ c \in Row /\ c.version = seen[w].version
         /\ \A i \in Items : IF i \in chunk[w] THEN c.item[i] \in Outcomes
                                               ELSE c.item[i] = seen[w].item[i]
         /\ seen[w].jobs \subseteq c.jobs
         /\ \A i \in Items :
              /\ "number" \in c.prospect[i] <=> "number" \in seen[w].prospect[i]
              /\ "answer" \in seen[w].prospect[i] => "answer" \in c.prospect[i]
              /\ "answer" \in c.prospect[i] =>
                   "answer" \in seen[w].prospect[i] \/ i \in chunk[w]
<1>10. PICK f \in [chunk[w] -> Outcomes], phones \in BOOLEAN : c = Answered(seen[w], f, phones)
  BY DEF Answers
<1> DEFINE r == seen[w]
           S == chunk[w]
           told == {i \in DOMAIN f : f[i] = "answered"}
           m == Merge(r, told, "answer")
           b == Spoil(m, DOMAIN f \ told)
           item == [i \in Items |-> IF i \in DOMAIN f THEN f[i] ELSE b.item[i]]
           jobs == IF phones THEN b.jobs \cup {DOMAIN f} ELSE b.jobs
<1>1. DOMAIN f = S /\ told \in SUBSET S /\ told \in SUBSET Items /\ (DOMAIN f \ told) \in SUBSET Items
  OBVIOUS
<1>2. /\ m \in Row /\ m.version = r.version /\ m.status = r.status
      /\ m.live = r.live /\ m.item = r.item /\ m.jobs = r.jobs
      /\ \A i \in Items :
           m.prospect[i] = (IF i \in told THEN (r.prospect[i] \ {"failed"}) \cup {"answer"}
                            ELSE r.prospect[i])
  <2> HIDE DEF told
  <2> QED BY <1>1, Merged
<1> HIDE DEF m
<1>3. /\ b \in Row /\ b.version = m.version /\ b.status = m.status
      /\ b.live = m.live /\ b.item = m.item /\ b.jobs = m.jobs
      /\ \A i \in Items :
           b.prospect[i] = (IF i \in DOMAIN f \ told THEN m.prospect[i] \cup {"failed"}
                            ELSE m.prospect[i])
  <2> HIDE DEF told
  <2>1. m \in Row /\ (DOMAIN f \ told) \in SUBSET Items
    BY <1>1, <1>2
  <2> QED BY <2>1, Spoiled
<1>4. Answered(r, f, phones) = [b EXCEPT !.item = item, !.jobs = jobs]
  BY DEF Answered, m
<1> HIDE DEF b
<1>5. /\ item \in [Items -> ItemStates] /\ jobs \in SUBSET SUBSET Items /\ r.jobs \subseteq jobs
      /\ \A i \in Items : item[i] = (IF i \in S THEN f[i] ELSE r.item[i])
  BY <1>1, <1>2, <1>3 DEF Row, ItemStates
<1> HIDE DEF item, jobs, told
<1> DEFINE d == [b EXCEPT !.item = item]
           a == [d EXCEPT !.jobs = jobs]
<1>6. /\ d \in Row /\ d.version = r.version /\ d.status = r.status /\ d.live = r.live
      /\ d.item = item /\ d.prospect = b.prospect
  BY <1>2, <1>3, <1>5 DEF Row
<1>9. c = a
  BY <1>4, <1>10
<1> HIDE DEF d
<1>7. /\ a \in Row /\ a.version = r.version /\ a.status = r.status /\ a.live = r.live
      /\ a.item = item /\ a.prospect = b.prospect /\ a.jobs = jobs
  BY <1>5, <1>6 DEF Row
<1> HIDE DEF a
<1>8. \A i \in Items :
        /\ "number" \in b.prospect[i] <=> "number" \in r.prospect[i]
        /\ "answer" \in r.prospect[i] => "answer" \in b.prospect[i]
        /\ "answer" \in b.prospect[i] => "answer" \in r.prospect[i] \/ i \in S
  <2> SUFFICES ASSUME NEW i \in Items
               PROVE  /\ "number" \in b.prospect[i] <=> "number" \in r.prospect[i]
                      /\ "answer" \in r.prospect[i] => "answer" \in b.prospect[i]
                      /\ "answer" \in b.prospect[i] => "answer" \in r.prospect[i] \/ i \in S
    OBVIOUS
  <2>1. m.prospect[i] = (IF i \in told THEN (r.prospect[i] \ {"failed"}) \cup {"answer"}
                         ELSE r.prospect[i])
    BY <1>2
  <2>2. b.prospect[i] = (IF i \in DOMAIN f \ told THEN m.prospect[i] \cup {"failed"}
                         ELSE m.prospect[i])
    BY <1>3
  <2>3. i \in told => i \in S
    BY <1>1
  <2> QED BY <2>1, <2>2, <2>3
<1>11. \A i \in S : f[i] \in Outcomes
  OBVIOUS
<1> QED BY <1>5, <1>7, <1>8, <1>9, <1>11

\* The copy after a lookup: whoever the job was for and the provider knows has the
\* number once the job is gone.
LEMMA LookedUpRow ==
  ASSUME NEW r \in Row, NEW job \in r.jobs, NEW done \in BOOLEAN
  PROVE  LET a == LookedUp(r, job, done)
         IN  /\ a \in Row /\ a.version = r.version /\ a.status = r.status /\ a.live = r.live
             /\ a.item = r.item /\ a.jobs \subseteq r.jobs /\ r.jobs \ {job} \subseteq a.jobs
             /\ job \notin a.jobs => \A i \in job \cap Listed : "number" \in a.prospect[i]
             /\ \A i \in Items :
                  /\ "answer" \in a.prospect[i] <=> "answer" \in r.prospect[i]
                  /\ "number" \in r.prospect[i] => "number" \in a.prospect[i]
                  /\ "number" \in a.prospect[i] => "number" \in r.prospect[i] \/ i \in job \cap Listed
<1> DEFINE m == Merge(r, job \cap Listed, "number")
           a == [m EXCEPT !.jobs = m.jobs \ {job}]
<1>1. job \in SUBSET Items /\ job \cap Listed \in SUBSET Items
  BY DEF Row
<1>2. /\ m \in Row /\ m.version = r.version /\ m.status = r.status
      /\ m.live = r.live /\ m.item = r.item /\ m.jobs = r.jobs
      /\ \A i \in Items :
           m.prospect[i] = (IF i \in job \cap Listed THEN (r.prospect[i] \ {"failed"}) \cup {"number"}
                            ELSE r.prospect[i])
  BY <1>1, Merged
<1>3. LookedUp(r, job, done) = (IF done THEN a ELSE r)
  BY DEF LookedUp
<1> HIDE DEF m
<1>4. /\ a \in Row /\ a.version = r.version /\ a.status = r.status /\ a.live = r.live
      /\ a.item = r.item /\ a.prospect = m.prospect /\ a.jobs = r.jobs \ {job}
  BY <1>2 DEF Row
<1> HIDE DEF a
<1>5. CASE done
  <2>1. LookedUp(r, job, done) = a
    BY <1>3, <1>5
  <2>2. \A i \in Items :
          /\ "answer" \in m.prospect[i] <=> "answer" \in r.prospect[i]
          /\ "number" \in r.prospect[i] => "number" \in m.prospect[i]
          /\ "number" \in m.prospect[i] => "number" \in r.prospect[i] \/ i \in job \cap Listed
          /\ i \in job \cap Listed => "number" \in m.prospect[i]
    <3> SUFFICES ASSUME NEW i \in Items
                 PROVE  /\ "answer" \in m.prospect[i] <=> "answer" \in r.prospect[i]
                        /\ "number" \in r.prospect[i] => "number" \in m.prospect[i]
                        /\ "number" \in m.prospect[i] => "number" \in r.prospect[i] \/ i \in job \cap Listed
                        /\ i \in job \cap Listed => "number" \in m.prospect[i]
      OBVIOUS
    <3>1. CASE i \in job \cap Listed
      <4>1. m.prospect[i] = (r.prospect[i] \ {"failed"}) \cup {"number"}
        BY <1>2, <3>1
      <4> QED BY <3>1, <4>1
    <3>2. CASE i \notin job \cap Listed
      <4>1. m.prospect[i] = r.prospect[i]
        BY <1>2, <3>2
      <4> QED BY <3>2, <4>1
    <3> QED BY <3>1, <3>2
  <2> QED BY <1>1, <1>4, <2>1, <2>2
<1>6. CASE ~done
  BY <1>3, <1>6
<1> QED BY <1>5, <1>6

LEMMA NoRowIsRow == NoRow \in Row
  BY DEF Row, NoRow, NoData, Bare, Statuses, ItemStates

-----------------------------------------------------------------------------
(* Initial states *)

LEMMA InitInv == Init => ProspectingInv
<1> SUFFICES ASSUME Init PROVE ProspectingInv
  OBVIOUS
<1> USE DEF Init
<1>1. TypeOK
  <2>1. NoRow.status # "completed"
    BY DEF NoRow
  <2>2. pc \in [Requests -> Labels] /\ losses \in 0..MaxLosses
    BY ProspectBounds DEF Labels
  <2>4. page \in [Operations -> [Items -> SUBSET Tags]]
    BY DEF Bare
  <2>3. gate \in [token: Requests \cup {None}, lease: {"free", "held", "cooling"}]
    OBVIOUS
  <2> QED BY <2>1, <2>2, <2>3, <2>4, NoRowIsRow DEF TypeOK
<1>2. Local
  BY DEF Local, Drafts, Reads, Works, AtWork, HasRead
<1>3. Behind /\ OneAtWork
  BY DEF Behind, OneAtWork, AtWork
<1>4. Stored
  BY DEF Stored, Made, Uncharged, NoRow, NoData, With
<1>5. Held
  BY DEF Held, PastTheGate
<1>6. ChargedOnce
  BY DEF ChargedOnce
<1> QED BY <1>1, <1>2, <1>3, <1>4, <1>5, <1>6 DEF ProspectingInv

-----------------------------------------------------------------------------
(* Steps, by what they leave alone *)

SameLocal(v) == /\ pc'[v] = pc[v] /\ on'[v] = on[v] /\ cmd'[v] = cmd[v]
                /\ seen'[v] = seen[v] /\ chunk'[v] = chunk[v]
SameRow(o) == /\ op'[o] = op[o] /\ charged'[o] = charged[o]
              /\ usage'[o] = usage[o] /\ calls'[o] = calls[o]
Others(w) == \A v \in Requests \ {w} : SameLocal(v)

\* The ledger of one operation.
Once(o) ==
  /\ \A i \in Items : charged[o][i] <= 1
  /\ \A n \in Numbers :
       /\ calls[o][n] <= (IF usage[o][n] = "none" THEN 0 ELSE 1)
       /\ usage[o][n] = "settled" => calls[o][n] = 1
       /\ usage[o][n] = "reserved" =>
            \/ losses > 0
            \/ \E w \in Requests : /\ pc[w] \in {"call", "answer", "book"}
                                  /\ on[w] = o /\ Number(w) = n

\* All of the invariant but the types and the gate.
Rest == Local /\ Behind /\ OneAtWork /\ Stored /\ ChargedOnce
\* What no step may do to an operation's outcomes.
Stand(o) == \A i \in Items : op'[o].status # "expired" =>
  /\ op[o].item[i] \in Outcomes => op'[o].item[i] = op[o].item[i]
  /\ op[o].item[i] = "running" => op'[o].item[i] \in Outcomes \cup {"running"}
Stands == \A o \in Operations : Stand(o)

LEMMA Unmoved ==
  ASSUME NEW v \in Requests, SameLocal(v)
  PROVE  AtWork(v)' = AtWork(v) /\ HasRead(v)' = HasRead(v) /\ Number(v)' = Number(v)
         /\ PastTheGate(v)' = PastTheGate(v) /\ Drafts(v)' = Drafts(v)
  BY DEF SameLocal, AtWork, HasRead, Number, PastTheGate, Searches, Drafts

LEMMA Stays ==
  ASSUME NEW v \in Requests, SameLocal(v), Drafts(v), Reads(v), Works(v),
         AtWork(v) \/ HasRead(v) => SameRow(on[v])
  PROVE  Drafts(v)' /\ Reads(v)' /\ Works(v)'
<1>1. Drafts(v)'
  BY Unmoved
<1>2. Reads(v)'
  BY DEF Reads, HasRead, SameLocal, SameRow, Uncharged
<1>3. Works(v)'
  BY Unmoved DEF Works, AtWork, SameLocal, SameRow, Uncharged, Written, Ledger
<1> QED BY <1>1, <1>2, <1>3

\* A copy that is behind stays one to be refused.
LEMMA Overtaken ==
  ASSUME TypeOK, NEW v \in Requests, HasRead(v), SameLocal(v), Reads(v),
         op' \in [Operations -> Row], op'[on[v]].status # "none",
         seen[v].version < op'[on[v]].version
  PROVE  Drafts(v)' /\ Reads(v)' /\ Works(v)'
<1>1. Drafts(v)' /\ Works(v)'
  BY DEF Drafts, Works, HasRead, AtWork, SameLocal
<1>2. seen[v].version \in Nat /\ op'[on[v]].version \in Nat
  BY DEF TypeOK, Row, Reads
<1>3. Reads(v)'
  BY <1>2 DEF Reads, HasRead, SameLocal
<1> QED BY <1>1, <1>3

LEMMA KeepsHeld ==
  ASSUME Held, NEW w \in Requests, Others(w), gate' = gate,
         overrun' \in {overrun, overrun \ {w}},
         PastTheGate(w)' => PastTheGate(w) /\ overrun' = overrun
  PROVE  Held'
  BY Unmoved DEF Held, Others

\* A step that leaves every row and every charge alone and after which w is not
\* at work.
LEMMA QuietStep ==
  ASSUME ProspectingInv, UNCHANGED <<op, usage, past>>,
         NEW w \in Requests, Others(w),
         ~AtWork(w)', Drafts(w)', Reads(w)',
         HasRead(w)' => \A v \in Requests : AtWork(v) /\ on[v] = on'[w] =>
           seen'[w].version < op[on'[w]].version,
         losses' >= losses, losses \in Nat, losses' \in Nat,
         pc[w] \in {"call", "answer", "book"} => losses' > 0
  PROVE  Rest' /\ Stands
<1>1. Local'
  <2> SUFFICES ASSUME NEW v \in Requests
               PROVE  Drafts(v)' /\ Reads(v)' /\ Works(v)'
    BY DEF Local
  <2>1. CASE v = w
    BY <2>1 DEF Works
  <2>2. CASE v # w
    BY <2>2, Stays DEF Others, ProspectingInv, Local, SameRow, past
  <2> QED BY <2>1, <2>2
<1>2. Behind' /\ OneAtWork'
  <2>1. \A v \in Requests : AtWork(v)' => v # w /\ AtWork(v) /\ SameLocal(v)
    BY Unmoved DEF Others
  <2>2. \A v \in Requests : v # w => HasRead(v)' = HasRead(v) /\ SameLocal(v)
    BY Unmoved DEF Others
  <2>3. OneAtWork'
    BY <2>1 DEF OneAtWork, ProspectingInv, SameLocal
  <2>4. Behind'
    BY <2>1, <2>2 DEF Behind, ProspectingInv, SameLocal
  <2> QED BY <2>3, <2>4
<1>3. Stored'
  BY DEF Stored, Made, ProspectingInv, past, Uncharged
<1>4. ChargedOnce'
  <2> SUFFICES ASSUME NEW o \in Operations PROVE Once(o)'
    BY DEF ChargedOnce, Once
  <2>1. Once(o)
    BY DEF ChargedOnce, Once, ProspectingInv
  <2>2. ASSUME NEW v \in Requests, pc[v] \in {"call", "answer", "book"}, ~(losses' > 0)
        PROVE  pc'[v] = pc[v] /\ on'[v] = on[v] /\ Number(v)' = Number(v)
    BY <2>2, Unmoved DEF Others, SameLocal
  <2> QED BY <2>1, <2>2 DEF Once, past
<1>5. Stands
  BY DEF Stands, Stand
<1> QED BY <1>1, <1>2, <1>3, <1>4, <1>5 DEF Rest

\* A step of w that writes the row of its operation, where nobody else is at work;
\* whoever has read it is behind afterwards.
LEMMA RowStep ==
  ASSUME ProspectingInv, op' \in [Operations -> Row],
         NEW w \in Requests, Others(w), NEW p \in Operations, p = on[w],
         \A o \in Operations \ {p} : SameRow(o),
         \A v \in Requests \ {w} : AtWork(v) => on[v] # p,
         \A v \in Requests \ {w} : HasRead(v) /\ on[v] = p => seen[v].version < op'[p].version,
         AtWork(w)' => on'[w] = p, ~HasRead(w)', pc'[w] # "insert", Works(w)',
         losses' = losses, op'[p].status # "none",
         Made(p)', Once(p)', Stand(p)
  PROVE  Rest' /\ Stands
<1> USE DEF ProspectingInv
<1>1. \A v \in Requests : HasRead(v) \/ AtWork(v) => on[v] \in Operations /\ op[on[v]].status # "none"
  BY DEF Local, Reads, Works
<1>2. Local'
  <2> SUFFICES ASSUME NEW v \in Requests
               PROVE  Drafts(v)' /\ Reads(v)' /\ Works(v)'
    BY DEF Local
  <2>1. CASE v = w
    BY <2>1 DEF Drafts, Reads
  <2>2. CASE v # w /\ HasRead(v) /\ on[v] = p
    BY <1>1, <2>2, Overtaken DEF Others, Local
  <2>3. CASE v # w /\ ~(HasRead(v) /\ on[v] = p)
    <3>1. AtWork(v) \/ HasRead(v) => on[v] \in Operations \ {p}
      BY <1>1, <2>3
    <3> QED BY <2>3, <3>1, Stays DEF Others, Local
  <2> QED BY <2>1, <2>2, <2>3
<1>3. OneAtWork'
  <2>1. \A v \in Requests : v # w => AtWork(v)' = AtWork(v) /\ on'[v] = on[v]
    BY Unmoved DEF Others, SameLocal
  <2> QED BY <2>1 DEF OneAtWork
<1>4. Behind'
  <2> SUFFICES ASSUME NEW u \in Requests, NEW v \in Requests, AtWork(u)', HasRead(v)',
                      on'[u] = on'[v]
               PROVE  seen'[v].version < op'[on'[v]].version
    BY DEF Behind
  <2>1. v # w /\ SameLocal(v) /\ HasRead(v)
    BY Unmoved DEF Others
  <2>2. CASE u = w
    BY <2>1, <2>2 DEF SameLocal
  <2>3. CASE u # w
    <3>1. AtWork(u) /\ on'[u] = on[u] /\ on[u] # p
      BY <2>3, Unmoved DEF Others, SameLocal
    <3>2. seen[v].version < op[on[v]].version /\ on[v] \in Operations \ {p}
      BY <1>1, <2>1, <3>1 DEF Behind, SameLocal
    <3> QED BY <2>1, <3>2 DEF SameLocal, SameRow
  <2> QED BY <2>2, <2>3
<1>5. Stored'
  <2> SUFFICES ASSUME NEW o \in Operations PROVE Made(o)'
    BY DEF Stored
  <2>1. CASE o = p
    BY <2>1
  <2>2. CASE o # p
    BY <2>2 DEF Stored, Made, SameRow, Uncharged
  <2> QED BY <2>1, <2>2
<1>6. ChargedOnce'
  <2> SUFFICES ASSUME NEW o \in Operations PROVE Once(o)'
    BY DEF ChargedOnce, Once
  <2>1. CASE o = p
    BY <2>1
  <2>2. CASE o # p
    <3>1. Once(o)
      BY DEF ChargedOnce, Once
    <3>2. ASSUME NEW v \in Requests, on[v] = o
          PROVE  pc'[v] = pc[v] /\ on'[v] = on[v] /\ Number(v)' = Number(v)
      BY <3>2, <2>2, Unmoved DEF Others, SameLocal
    <3> QED BY <3>1, <3>2, <2>2 DEF Once, SameRow
  <2> QED BY <2>1, <2>2
<1>7. Stands
  <2> SUFFICES ASSUME NEW o \in Operations, o # p PROVE Stand(o)
    BY DEF Stands
  <2> QED BY DEF SameRow, Stand
<1> QED BY <1>2, <1>3, <1>4, <1>5, <1>6, <1>7 DEF Rest

-----------------------------------------------------------------------------
(* Types, and how a request ends *)

StoreTypes ==
  /\ op \in [Operations -> Row]
  /\ page \in [Operations -> [Items -> SUBSET Tags]]
  /\ usage \in [Operations -> [Numbers -> {"none", "reserved", "settled"}]]
  /\ retryOf \in [Operations -> Operations \cup {None}]
  /\ charged \in [Operations -> [Items -> Nat]]
  /\ calls \in [Operations -> [Numbers -> Nat]]
  /\ \A o \in Operations : op[o].status = "completed" => With(op[o], "pending") = {}
GateTypes == gate \in [token: Requests \cup {None}, lease: {"free", "held", "cooling"}]
LocalTypes ==
  /\ overrun \in SUBSET Requests
  /\ pc \in [Requests -> Labels]
  /\ on \in [Requests -> Operations \cup {None}]
  /\ cmd \in [Requests -> {"none", "advance", "poll"}]
  /\ from \in [Requests -> Operations \cup {None}]
  /\ seen \in [Requests -> Row]
  /\ chunk \in [Requests -> SUBSET Items]

LEMMA TypesOf == TypeOK <=> StoreTypes /\ GateTypes /\ LocalTypes /\ losses \in 0..MaxLosses
  BY DEF TypeOK, StoreTypes, GateTypes, LocalTypes

LEMMA TypesNext ==
  ASSUME StoreTypes', GateTypes', LocalTypes', losses' \in 0..MaxLosses
  PROVE  TypeOK'
  BY DEF TypeOK, StoreTypes, GateTypes, LocalTypes

LEMMA StoreTypesStay ==
  ASSUME StoreTypes, UNCHANGED <<rows, past>>
  PROVE  StoreTypes'
  BY DEF StoreTypes, rows, past, With

LEMMA Lossy ==
  ASSUME TypeOK
  PROVE  losses \in Nat /\ MaxLosses \in Nat
  BY ProspectBounds DEF TypeOK

LEMMA Ended ==
  ASSUME TypeOK, NEW w \in Requests, Answer(w)
  PROVE  /\ Others(w) /\ pc'[w] = "idle" /\ LocalTypes' /\ overrun' = overrun \ {w}
         /\ Drafts(w)' /\ Reads(w)' /\ Works(w)'
<1>1. LocalTypes
  BY TypesOf
<1>2. pc'[w] = "idle" /\ overrun' = overrun \ {w}
  BY <1>1 DEF Answer, Goto, LocalTypes
<1>3. Others(w)
  BY <1>1 DEF Answer, Goto, LocalTypes, Others, SameLocal
<1>4. LocalTypes'
  BY <1>1, NoRowIsRow DEF Answer, Goto, LocalTypes, Labels
<1>5. Drafts(w)' /\ Reads(w)' /\ Works(w)'
  BY <1>2 DEF Drafts, Reads, Works, HasRead, AtWork
<1> QED BY <1>2, <1>3, <1>4, <1>5

LEMMA GoneTo ==
  ASSUME TypeOK, NEW w \in Requests, NEW l \in Labels, Goto(w, l),
         UNCHANGED <<on, cmd, from, seen, chunk, overrun>>
  PROVE  Others(w) /\ pc'[w] = l /\ LocalTypes'
  BY TypesOf DEF LocalTypes, Goto, Others, SameLocal

LEMMA Finished ==
  ASSUME TypeOK, NEW w \in Requests, Finish(w)
  PROVE  /\ Others(w) /\ pc'[w] \in {"idle", "release"} /\ LocalTypes'
         /\ overrun' \in {overrun, overrun \ {w}}
         /\ PastTheGate(w)' => ~Searches(w) /\ overrun' = overrun
         /\ Drafts(w)' /\ Reads(w)' /\ Works(w)'
<1>1. CASE Searches(w)
  <2>1. Answer(w)
    BY <1>1 DEF Finish
  <2>2. ~PastTheGate(w)'
    BY <2>1, Ended DEF PastTheGate
  <2> QED BY <2>1, <2>2, Ended
<1>2. CASE ~Searches(w)
  <2>1. Goto(w, "release") /\ UNCHANGED <<on, cmd, from, seen, chunk, overrun>>
    BY <1>2 DEF Finish
  <2>2. Others(w) /\ pc'[w] = "release" /\ LocalTypes'
    BY <2>1, GoneTo DEF Labels
  <2>3. Drafts(w)' /\ Reads(w)' /\ Works(w)'
    BY <2>2 DEF Drafts, Reads, Works, HasRead, AtWork
  <2> QED BY <1>2, <2>1, <2>2, <2>3
<1> QED BY <1>1, <1>2

-----------------------------------------------------------------------------
(* Requests *)

LEMMA AskKeeps ==
  ASSUME ProspectingInv, NEW w \in Requests, NEW o \in Operations,
         NEW c \in {"none", "advance", "poll"}, NEW r \in Row, NEW l \in {"insert", "gate", "claim"},
         Ask(w, o, c, r, l),
         l = "insert" => \E S \in SUBSET Items : r = Draft(S),
         l # "insert" => c # "none" /\ Readable(o) /\ op[o].status # "running" /\ r = op[o],
         l = "claim" => c = "advance" /\ IsSearch(r)
  PROVE  ProspectingInv' /\ Stands
<1> USE DEF ProspectingInv
<1>1. /\ pc' = [pc EXCEPT ![w] = l] /\ on' = [on EXCEPT ![w] = o]
      /\ cmd' = [cmd EXCEPT ![w] = c] /\ seen' = [seen EXCEPT ![w] = r]
      /\ UNCHANGED <<rows, past, gate, overrun, from, chunk, losses>> /\ pc[w] = "idle"
  BY DEF Ask, Goto
<1>2. TypeOK'
  <2>1. LocalTypes'
    BY <1>1, TypesOf DEF LocalTypes, Labels
  <2>2. GateTypes' /\ losses' \in 0..MaxLosses
    BY <1>1, TypesOf DEF GateTypes
  <2> QED BY <1>1, <2>1, <2>2, TypesOf, TypesNext, StoreTypesStay
<1>3. /\ Others(w) /\ pc'[w] = l /\ on'[w] = o /\ cmd'[w] = c /\ seen'[w] = r
  BY <1>1, TypesOf DEF LocalTypes, Others, SameLocal
<1>4. Held'
  BY <1>1, <1>3, KeepsHeld DEF PastTheGate, Searches
<1>5. ~AtWork(w)' /\ Drafts(w)'
  BY <1>3 DEF AtWork, Drafts
<1>6. Reads(w)' /\ (HasRead(w)' => \A v \in Requests : AtWork(v) => on[v] # on'[w])
  <2>1. CASE l = "insert"
    BY <1>3, <2>1 DEF Reads, HasRead
  <2>2. CASE l # "insert"
    <3>1. r = op[o] /\ op[o].status \notin {"none", "expired", "running"} /\ op[o].version \in Nat
      BY <2>2 DEF Readable, TypeOK, Row
    <3>2. \A v \in Requests : AtWork(v) => on[v] # o
      BY <3>1 DEF Local, Works
    <3>3. Uncharged(o, With(op[o], "pending"))
      BY DEF Stored, Made
    <3>4. Reads(w)'
      BY <1>1, <1>3, <3>1, <3>3, <2>2 DEF Reads, HasRead, rows, past, Uncharged
    <3> QED BY <1>3, <3>2, <3>4
  <2> QED BY <2>1, <2>2
<1>7. losses \in Nat /\ losses' = losses
  BY <1>1, Lossy
<1>8. Rest' /\ Stands
  BY <1>1, <1>3, <1>5, <1>6, <1>7, QuietStep DEF rows
<1> QED BY <1>2, <1>4, <1>8 DEF Rest

LEMMA RetryKeeps ==
  ASSUME ProspectingInv, NEW w \in Requests, NEW o \in Operations, NEW new \in Operations,
         AskRetry(w, o, new)
  PROVE  ProspectingInv' /\ Stands
<1> USE DEF ProspectingInv
<1> DEFINE r == Draft(Retryable(op[o]))
<1>0. Retryable(op[o]) \in SUBSET Items
  BY DEF Retryable, With
<1>1. r \in Row
  BY <1>0, Drafted
<1> HIDE DEF r
<1>2. /\ pc' = [pc EXCEPT ![w] = "insert"] /\ on' = [on EXCEPT ![w] = new]
      /\ from' = [from EXCEPT ![w] = o] /\ seen' = [seen EXCEPT ![w] = r] /\ pc[w] = "idle"
      /\ UNCHANGED <<rows, past, gate, overrun, cmd, chunk, losses>>
  BY DEF AskRetry, Goto, r
<1>3. TypeOK'
  <2>1. LocalTypes'
    BY <1>1, <1>2, TypesOf DEF LocalTypes, Labels
  <2>2. GateTypes' /\ losses' \in 0..MaxLosses
    BY <1>2, TypesOf DEF GateTypes
  <2> QED BY <1>2, <2>1, <2>2, TypesOf, TypesNext, StoreTypesStay
<1>4. Others(w) /\ pc'[w] = "insert" /\ on'[w] = new /\ seen'[w] = r
  BY <1>2, TypesOf DEF LocalTypes, Others, SameLocal
<1>5. Held'
  BY <1>2, <1>4, KeepsHeld DEF PastTheGate
<1>6. ~AtWork(w)' /\ ~HasRead(w)' /\ Reads(w)'
  BY <1>4 DEF AtWork, HasRead, Reads
<1>7. Drafts(w)'
  BY <1>0, <1>4 DEF Drafts, r
<1>8. losses \in Nat /\ losses' = losses
  BY <1>2, Lossy
<1>9. Rest' /\ Stands
  BY <1>2, <1>4, <1>6, <1>7, <1>8, QuietStep DEF rows
<1> QED BY <1>3, <1>5, <1>9 DEF Rest

LEMMA AsksKeep ==
  ASSUME ProspectingInv, NEW w \in Requests, NEW o \in Operations, Asks(w, o)
  PROVE  ProspectingInv' /\ Stands
<1>1. op[o] \in Row
  BY DEF ProspectingInv, TypeOK
<1>2. ASSUME NEW S \in SUBSET Items, AskPrepare(w, o, S) PROVE ProspectingInv' /\ Stands
  BY <1>2, AskKeeps, Drafted DEF AskPrepare
<1>3. ASSUME NEW new \in Operations, AskRetry(w, o, new) PROVE ProspectingInv' /\ Stands
  BY <1>3, RetryKeeps
<1>4. CASE AskAdvance(w, o)
  BY <1>1, <1>4, AskKeeps DEF AskAdvance
<1>5. CASE AskPoll(w, o)
  BY <1>1, <1>5, AskKeeps DEF AskPoll
<1> QED BY <1>2, <1>3, <1>4, <1>5 DEF Asks

-----------------------------------------------------------------------------
(* The gate, refusals and losses *)

\* A request that ends, or is refused, without a write.
LEMMA EndKeeps ==
  ASSUME ProspectingInv, NEW w \in Requests, UNCHANGED <<rows, past>>,
         Answer(w) \/ (Finish(w) /\ pc[w] \notin {"idle", "insert", "gate"}),
         losses' \in 0..MaxLosses, losses' >= losses,
         pc[w] \in {"call", "answer", "book"} => losses' > 0
  PROVE  /\ Rest' /\ Stands /\ StoreTypes' /\ LocalTypes'
         /\ gate' = gate => Held' /\ TypeOK'
<1> USE DEF ProspectingInv
<1>1. /\ Others(w) /\ pc'[w] \in {"idle", "release"} /\ LocalTypes'
      /\ overrun' \in {overrun, overrun \ {w}}
      /\ Drafts(w)' /\ Reads(w)' /\ Works(w)'
  BY Ended, Finished
<1>2. ~AtWork(w)' /\ ~HasRead(w)'
  BY <1>1 DEF AtWork, HasRead
<1>3. losses \in Nat /\ losses' \in Nat
  BY Lossy
<1>4. Rest' /\ Stands
  BY <1>1, <1>2, <1>3, QuietStep DEF rows
<1>5. StoreTypes'
  BY TypesOf, StoreTypesStay
<1>6. ASSUME gate' = gate PROVE Held' /\ TypeOK'
  <2>1. TypeOK'
    BY <1>1, <1>5, <1>6, TypesOf, TypesNext DEF GateTypes
  <2>2. PastTheGate(w)' => PastTheGate(w) /\ overrun' = overrun
    <3>1. CASE Answer(w)
      BY <3>1, Ended DEF PastTheGate
    <3>2. CASE Finish(w) /\ pc[w] \notin {"idle", "insert", "gate"}
      BY <3>2, Finished DEF PastTheGate
    <3> QED BY <3>1, <3>2
  <2> QED BY <1>1, <1>6, <2>1, <2>2, KeepsHeld
<1> QED BY <1>1, <1>4, <1>5, <1>6

LEMMA LoseKeeps ==
  ASSUME ProspectingInv, NEW w \in Requests, Lose(w)
  PROVE  ProspectingInv' /\ Stands
<1>1. /\ UNCHANGED <<rows, past>> /\ gate' = gate /\ Answer(w)
      /\ losses' = losses + 1 /\ losses < MaxLosses
  BY DEF Lose
<1>2. losses' \in 0..MaxLosses /\ losses' >= losses /\ losses' > 0
  BY <1>1, Lossy DEF ProspectingInv
<1> QED BY <1>1, <1>2, EndKeeps DEF ProspectingInv, Rest

LEMMA TakeGateKeeps ==
  ASSUME ProspectingInv, NEW w \in Requests, TakeGate(w)
  PROVE  ProspectingInv' /\ Stands
<1> USE DEF ProspectingInv
<1>1. CASE gate.lease = "free"
  <2> DEFINE l == IF cmd[w] = "advance" THEN "claim" ELSE "ask"
  <2>1. /\ pc[w] = "gate" /\ gate' = [token |-> w, lease |-> "held"] /\ Goto(w, l)
        /\ UNCHANGED <<rows, past, overrun, on, cmd, from, seen, chunk, losses>>
    BY <1>1 DEF TakeGate
  <2>2. Others(w) /\ pc'[w] = l /\ LocalTypes'
    BY <2>1, GoneTo DEF Labels
  <2>3. TypeOK'
    BY <2>1, <2>2, TypesOf, TypesNext, StoreTypesStay DEF GateTypes
  <2>4. ~AtWork(w)' /\ HasRead(w) /\ Drafts(w)'
    BY <2>1, <2>2 DEF AtWork, HasRead, Drafts
  <2>5. Reads(w)'
    <3>1. /\ pc'[w] = "claim" => cmd[w] = "advance"
          /\ pc'[w] = "ask" => cmd[w] = "poll"
      BY <2>2, <2>4 DEF Local, Reads
    <3> QED BY <2>1, <2>4, <3>1 DEF Local, Reads, rows, past, Uncharged
  <2>6. \A v \in Requests : AtWork(v) /\ on[v] = on'[w] => seen'[w].version < op[on'[w]].version
    BY <2>1, <2>4 DEF Behind
  <2>7. losses \in Nat /\ losses' = losses
    BY <2>1, Lossy
  <2>8. Rest' /\ Stands
    BY <2>1, <2>2, <2>4, <2>5, <2>6, <2>7, QuietStep DEF rows
  <2>9. Held'
    BY <1>1, <2>1, <2>2, Unmoved DEF Held, Others
  <2> QED BY <2>3, <2>8, <2>9 DEF Rest
<1>2. CASE gate.lease # "free"
  <2>1. Answer(w) /\ UNCHANGED <<rows, past, gate, losses>> /\ pc[w] = "gate"
    BY <1>2 DEF TakeGate
  <2>2. losses' \in 0..MaxLosses /\ losses' >= losses
    BY <2>1, Lossy DEF TypeOK
  <2> QED BY <2>1, <2>2, EndKeeps DEF Rest
<1> QED BY <1>1, <1>2

LEMMA ReleaseKeeps ==
  ASSUME ProspectingInv, NEW w \in Requests, Release(w)
  PROVE  ProspectingInv' /\ Stands
<1> USE DEF ProspectingInv
<1>1. /\ UNCHANGED <<rows, past, losses>> /\ Answer(w) /\ pc[w] = "release"
      /\ gate' = IF gate.token = w THEN [gate EXCEPT !.lease = "cooling"] ELSE gate
  BY DEF Release, Mine
<1>2. losses' \in 0..MaxLosses /\ losses' >= losses
  BY <1>1, Lossy DEF TypeOK
<1>3. Rest' /\ Stands /\ StoreTypes' /\ LocalTypes'
  BY <1>1, <1>2, EndKeeps
<1>4. TypeOK'
  BY <1>1, <1>2, <1>3, TypesOf, TypesNext DEF GateTypes
<1>5. Others(w) /\ overrun' = overrun \ {w} /\ ~PastTheGate(w)'
  BY <1>1, Ended DEF PastTheGate
<1>6. Held'
  BY <1>1, <1>5, Unmoved DEF Held, Others
<1> QED BY <1>3, <1>4, <1>6 DEF Rest

LEMMA PollFailsKeeps ==
  ASSUME ProspectingInv, NEW w \in Requests, PollFails(w)
  PROVE  ProspectingInv' /\ Stands
<1> USE DEF ProspectingInv
<1>1. /\ pc[w] = "ask" /\ Goto(w, "release")
      /\ UNCHANGED <<rows, past, gate, on, cmd, from, seen, chunk, overrun, losses>>
  BY DEF PollFails
<1>2. cmd[w] = "poll"
  BY <1>1 DEF Local, Reads, HasRead
<1>3. Finish(w)
  BY <1>1, <1>2 DEF Finish, Searches
<1>4. losses' \in 0..MaxLosses /\ losses' >= losses
  BY <1>1, Lossy DEF TypeOK
<1> QED BY <1>1, <1>3, <1>4, EndKeeps DEF Rest

LEMMA GateMoves ==
  ASSUME ProspectingInv, GateLapses \/ GateOverrun
  PROVE  ProspectingInv' /\ Stands
<1> USE DEF ProspectingInv
<1>1. /\ UNCHANGED <<rows, past, local, losses>> /\ gate' = [gate EXCEPT !.lease = "free"]
      /\ overrun \subseteq overrun' /\ overrun' \in SUBSET Requests
  BY TypesOf DEF GateLapses, GateOverrun, Holders, LocalTypes
<1>2. TypeOK'
  <2>1. LocalTypes'
    BY <1>1, TypesOf DEF LocalTypes, local
  <2>2. GateTypes'
    BY <1>1, TypesOf DEF GateTypes
  <2> QED BY <1>1, <2>1, <2>2, TypesOf, TypesNext, StoreTypesStay
<1>3. \A v \in Requests : SameLocal(v)
  BY <1>1 DEF SameLocal, local
<1>4. Rest' /\ Stands
  <2>1. Local'
    BY <1>1, <1>3, Stays DEF Local, SameRow, rows, past
  <2>2. Behind' /\ OneAtWork' /\ Stored'
    BY <1>1 DEF Behind, OneAtWork, AtWork, HasRead, Stored, Made, With,
                rows, past, local, Uncharged
  <2>3. ChargedOnce'
    <3>1. \A v \in Requests : pc'[v] = pc[v] /\ on'[v] = on[v] /\ Number(v)' = Number(v)
      BY <1>3, Unmoved DEF SameLocal
    <3>2. usage' = usage /\ charged' = charged /\ calls' = calls /\ losses' = losses
      BY <1>1 DEF rows, past
    <3> QED BY <3>1, <3>2 DEF ChargedOnce
  <2>4. Stands
    BY <1>1 DEF Stands, Stand, rows
  <2> QED BY <2>1, <2>2, <2>3, <2>4 DEF Rest
<1>5. Held'
  <2> SUFFICES ASSUME NEW v \in Requests, PastTheGate(v)', v \notin overrun' PROVE FALSE
    BY DEF Held
  <2>1. PastTheGate(v) /\ v \notin overrun
    BY <1>1, <1>3, Unmoved
  <2>2. gate.token = v /\ gate.lease = "held" /\ v \in Holders
    BY <2>1 DEF Held, Holders
  <2> QED BY <2>2 DEF GateLapses, GateOverrun, Lapsed
<1> QED BY <1>2, <1>4, <1>5 DEF Rest

-----------------------------------------------------------------------------
(* Writes *)

LEMMA Alone ==
  ASSUME ProspectingInv, NEW w \in Requests, AtWork(w)
  PROVE  /\ on[w] \in Operations /\ op[on[w]] \in Row /\ seen[w] \in Row /\ chunk[w] \subseteq Items
         /\ \A v \in Requests \ {w} : AtWork(v) => on[v] # on[w]
         /\ \A v \in Requests \ {w} : HasRead(v) /\ on[v] = on[w] =>
              seen[v].version < op[on[w]].version
  BY DEF ProspectingInv, Local, Works, OneAtWork, Behind, TypeOK

LEMMA Stored1 ==
  ASSUME ProspectingInv, NEW o \in Operations
  PROVE  Made(o) /\ Once(o)
  BY DEF ProspectingInv, Stored, ChargedOnce, Once

\* A reservation outlives a step that leaves it alone, its invocation too.
LEMMA OnceStays ==
  ASSUME NEW o \in Operations, Once(o), NEW w \in Requests, Others(w),
         charged'[o] = charged[o], usage'[o] = usage[o], calls'[o] = calls[o],
         losses' = losses,
         pc[w] \in {"call", "answer", "book"} =>
           /\ pc'[w] \in {"call", "answer", "book"} /\ on'[w] = on[w]
           /\ Number(w)' = Number(w)
  PROVE  Once(o)'
<1>1. \A u \in Requests : pc[u] \in {"call", "answer", "book"} =>
        /\ pc'[u] \in {"call", "answer", "book"} /\ on'[u] = on[u] /\ Number(u)' = Number(u)
  BY Unmoved DEF Others, SameLocal
<1> QED BY <1>1 DEF Once

LEMMA InsertKeeps ==
  ASSUME ProspectingInv, NEW w \in Requests, Insert(w)
  PROVE  ProspectingInv' /\ Stands
<1> USE DEF ProspectingInv
<1>1. /\ pc[w] = "insert" /\ Answer(w) /\ UNCHANGED <<page, usage, past, gate, losses>>
  BY DEF Insert
<1>2. losses' \in 0..MaxLosses /\ losses' >= losses
  BY <1>1, Lossy DEF TypeOK
<1>3. CASE op[on[w]].status # "none"
  BY <1>1, <1>2, <1>3, EndKeeps DEF Insert, rows, past, Rest
<1>4. CASE op[on[w]].status = "none"
  <2>1. PICK o \in Operations : o = on[w]
    BY <1>1 DEF Local, Drafts
  <2>2. PICK S \in SUBSET Items : seen[w] = Draft(S)
    BY <1>1 DEF Local, Drafts
  <2>3. /\ op' = [op EXCEPT ![o] = Draft(S)] /\ op' \in [Operations -> Row] /\ op'[o] = Draft(S)
        /\ retryOf' = [retryOf EXCEPT ![o] = from[w]]
    <3>1. op' = [op EXCEPT ![o] = Draft(S)] /\ retryOf' = [retryOf EXCEPT ![o] = from[w]]
      BY <1>4, <2>1, <2>2 DEF Insert
    <3>2. op \in [Operations -> Row] /\ Draft(S) \in Row
      BY Drafted DEF TypeOK
    <3> QED BY <3>1, <3>2
  <2>4. Others(w) /\ pc'[w] = "idle" /\ LocalTypes' /\ Works(w)'
    BY <1>1, Ended
  <2>5. TypeOK'
    <3>1. StoreTypes'
      BY <1>1, <2>3, TypesOf, Drafted DEF StoreTypes, LocalTypes, past
    <3> QED BY <1>1, <1>2, <2>4, <3>1, TypesOf, TypesNext DEF GateTypes
  <2>6. Held'
    BY <1>1, <2>4, Ended, KeepsHeld DEF PastTheGate
  <2>7. Made(o) /\ Once(o)
    BY Stored1
  <2>8. Made(o)' /\ Once(o)' /\ Stand(o)
    <3>1. Uncharged(o, Items) /\ \A n \in Numbers : usage[o][n] = "none" /\ calls[o][n] = 0
      BY <1>4, <2>1, <2>7 DEF Made
    <3>2. Made(o)'
      BY <1>1, <2>3, <3>1, Drafted DEF Made, Uncharged, past, With
    <3>3. Once(o)'
      BY <1>1, <3>1 DEF Once, Uncharged, past
    <3>4. \A i \in Items : op[o].item[i] \notin Outcomes \cup {"running"}
      BY <1>4, <2>1, <2>7 DEF Made, NoData, Outcomes
    <3> QED BY <3>2, <3>3, <3>4 DEF Stand
  <2>9. /\ \A p \in Operations \ {o} : SameRow(p)
        /\ \A v \in Requests : AtWork(v) \/ HasRead(v) => on[v] # o
    BY <1>1, <1>4, <2>1, <2>3 DEF SameRow, past, Local, Reads, Works
  <2>10. Rest' /\ Stands
    BY <1>1, <1>4, <2>1, <2>3, <2>4, <2>8, <2>9, Drafted, RowStep DEF AtWork, HasRead
  <2> QED BY <2>5, <2>6, <2>10 DEF Rest
<1> QED BY <1>3, <1>4

LEMMA ClaimKeeps ==
  ASSUME ProspectingInv, NEW w \in Requests, Claim(w)
  PROVE  ProspectingInv' /\ Stands
<1> USE DEF ProspectingInv
<1>1. pc[w] = "claim" /\ UNCHANGED <<page, usage, retryOf, past, gate, losses>>
  BY DEF Claim
<1>2. losses' \in 0..MaxLosses /\ losses' >= losses
  BY <1>1, Lossy DEF TypeOK
<1>3. CASE ~Claimable(w)
  BY <1>1, <1>2, <1>3, EndKeeps DEF Claim, rows, past, Rest
<1>4. CASE Claimable(w)
  <2>1. PICK o \in Operations : o = on[w]
    BY <1>1 DEF Local, Reads, HasRead
  <2> DEFINE v == seen[w].version
  <2>2. /\ op[o] \in Row /\ seen[w] \in Row /\ v \in Nat /\ op[o].version = v
        /\ op[o].status = seen[w].status /\ op[o].item = seen[w].item
        /\ op[o].status \notin {"none", "expired", "running"} /\ cmd[w] = "advance"
        /\ Uncharged(o, With(seen[w], "pending"))
    BY <1>1, <1>4, <2>1 DEF Claimable, Local, Reads, HasRead, TypeOK, Row
  <2>3. /\ op' = [op EXCEPT ![o] = [op[o] EXCEPT !.status = "running", !.version = v + 1]]
        /\ seen' = [seen EXCEPT ![w] = [seen[w] EXCEPT !.version = v + 1]]
        /\ Goto(w, "mark") /\ UNCHANGED <<on, cmd, from, chunk, overrun>>
    BY <1>4, <2>1 DEF Claim
  <2>4. /\ op' \in [Operations -> Row] /\ op'[o].status = "running" /\ op'[o].version = v + 1
        /\ op'[o].live = op[o].live /\ op'[o].item = op[o].item
        /\ \A p \in Operations \ {o} : op'[p] = op[p]
    <3> DEFINE r2 == [op[o] EXCEPT !.status = "running", !.version = v + 1]
    <3>1. /\ r2 \in Row /\ r2.status = "running" /\ r2.version = v + 1
          /\ r2.live = op[o].live /\ r2.item = op[o].item
      BY <2>2, Claimed
    <3> HIDE DEF r2
    <3>2. op' = [op EXCEPT ![o] = r2] /\ op \in [Operations -> Row]
      BY <2>3 DEF TypeOK, r2
    <3> QED BY <3>1, <3>2
  <2>5. /\ pc'[w] = "mark" /\ Others(w) /\ LocalTypes'
        /\ seen'[w].version = v + 1 /\ seen'[w].item = seen[w].item
    <3> DEFINE r2 == [seen[w] EXCEPT !.version = v + 1]
    <3>1. r2 \in Row /\ r2.version = v + 1 /\ r2.item = seen[w].item
      BY <2>2 DEF Row
    <3> HIDE DEF r2
    <3>2. /\ seen' = [seen EXCEPT ![w] = r2] /\ pc' = [pc EXCEPT ![w] = "mark"]
          /\ UNCHANGED <<on, cmd, from, chunk, overrun>>
      BY <2>3 DEF Goto, r2
    <3> QED BY <3>1, <3>2, TypesOf DEF LocalTypes, Others, SameLocal, Labels
  <2>6. TypeOK'
    <3>1. StoreTypes'
      BY <1>1, <2>4, TypesOf DEF StoreTypes, past, With
    <3> QED BY <1>1, <1>2, <2>5, <3>1, TypesOf, TypesNext DEF GateTypes
  <2>7. Held'
    <3>1. Searches(w)' = Searches(w)
      BY <2>3, <2>5 DEF Searches, IsSearch
    <3> QED BY <1>1, <2>3, <2>5, <3>1, KeepsHeld DEF PastTheGate
  <2>8. Works(w)'
    BY <1>1, <2>1, <2>2, <2>3, <2>4, <2>5 DEF Works, AtWork, Written, Uncharged, With, past
  <2>9. Made(o)' /\ Once(o)' /\ Stand(o)
    <3>1. Made(o) /\ Once(o)
      BY Stored1
    <3>2. Made(o)' /\ Stand(o)
      BY <1>1, <2>4, <3>1 DEF Made, Stand, Uncharged, With, past
    <3>3. \A u \in Requests : pc[u] \in {"call", "answer", "book"} =>
            pc'[u] = pc[u] /\ on'[u] = on[u] /\ Number(u)' = Number(u)
      BY <1>1, <2>5, Unmoved DEF Others, SameLocal
    <3>4. Once(o)'
      BY <1>1, <3>1, <3>3 DEF Once, past
    <3> QED BY <3>2, <3>4
  <2>10. /\ \A u \in Requests : AtWork(u) => on[u] # o
         /\ \A u \in Requests : HasRead(u) /\ on[u] = o => seen[u].version < v + 1
    <3>1. \A u \in Requests : AtWork(u) => on[u] # o
      BY <1>1, <2>1, <2>2 DEF Behind, HasRead
    <3>2. ASSUME NEW u \in Requests, HasRead(u), on[u] = o PROVE seen[u].version < v + 1
      <4>1. seen[u].version <= v /\ seen[u].version \in Nat
        BY <2>2, <3>2 DEF Local, Reads, TypeOK, Row
      <4> QED BY <2>2, <4>1
    <3> QED BY <3>1, <3>2
  <2>11. \A p \in Operations \ {o} : SameRow(p)
    BY <1>1, <2>4 DEF SameRow, past
  <2>12. Rest' /\ Stands
    BY <1>1, <2>1, <2>2, <2>3, <2>4, <2>5, <2>8, <2>9, <2>10, <2>11, RowStep DEF AtWork, HasRead, With
  <2> QED BY <2>6, <2>7, <2>12 DEF Rest
<1> QED BY <1>3, <1>4
LEMMA MarkKeeps ==
  ASSUME ProspectingInv, NEW w \in Requests, Mark(w)
  PROVE  ProspectingInv' /\ Stands
<1> USE DEF ProspectingInv
<1>1. /\ pc[w] = "mark" /\ Goto(w, "reserve")
      /\ UNCHANGED <<page, usage, retryOf, past, gate, on, cmd, from, overrun, losses>>
  BY DEF Mark
<1>2. PICK S \in Chunks(seen[w]) :
        /\ chunk' = [chunk EXCEPT ![w] = S]
        /\ seen' = [seen EXCEPT ![w] = Give(seen[w], S, "running")]
        /\ Data(on[w], Give(seen[w], S, "running"))
  BY DEF Mark
<1>3. PICK o \in Operations : o = on[w]
  BY <1>1, Alone DEF AtWork
<1> DEFINE r == Give(seen[w], S, "running")
<1>4. /\ S \subseteq With(seen[w], "pending")
      /\ r \in Row /\ r.version = seen[w].version
      /\ \A i \in Items : r.item[i] = (IF i \in S THEN "running" ELSE seen[w].item[i])
      /\ S \in SUBSET Items /\ seen[w] \in Row /\ op[o] \in Row
  <2>1. S \subseteq With(seen[w], "pending") /\ S \in SUBSET Items
    BY <1>2 DEF Chunks, With
  <2>2. seen[w] \in Row /\ op[o] \in Row
    BY DEF TypeOK
  <2>3. /\ r \in Row /\ r.version = seen[w].version
        /\ \A i \in Items : r.item[i] = (IF i \in S THEN "running" ELSE seen[w].item[i])
    BY <2>1, <2>2, Given DEF ItemStates
  <2> QED BY <2>1, <2>2, <2>3
<1>5. /\ seen' = [seen EXCEPT ![w] = r]
      /\ op' = [op EXCEPT ![o] = [op[o] EXCEPT !.item = r.item, !.prospect = r.prospect,
                                                !.jobs = r.jobs]]
  BY <1>2, <1>3 DEF Data
<1> HIDE DEF r
<1>6. /\ op' \in [Operations -> Row] /\ op'[o].status = op[o].status
      /\ op'[o].version = op[o].version /\ op'[o].live = op[o].live /\ op'[o].item = r.item
      /\ \A q \in Operations \ {o} : op'[q] = op[q]
  <2> DEFINE r2 == [op[o] EXCEPT !.item = r.item, !.prospect = r.prospect, !.jobs = r.jobs]
  <2>2. /\ r2 \in Row /\ r2.status = op[o].status /\ r2.version = op[o].version
        /\ r2.live = op[o].live /\ r2.item = r.item
    BY <1>4, Refilled DEF Filled
  <2> HIDE DEF r2
  <2>3. op' = [op EXCEPT ![o] = r2] /\ op \in [Operations -> Row]
    BY <1>5 DEF TypeOK, r2
  <2> QED BY <2>2, <2>3
<1>7. pc'[w] = "reserve" /\ seen'[w] = r /\ chunk'[w] = S /\ Others(w) /\ LocalTypes'
  BY <1>1, <1>2, <1>4, <1>5, TypesOf DEF LocalTypes, Others, SameLocal, Labels, Goto
<1>8. /\ cmd[w] = "advance" /\ op[o].status \in {"running", "expired"}
      /\ op[o].version = seen[w].version
      /\ \/ op[o].item = seen[w].item
         \/ op[o].item = NoData /\ op[o].status = "expired"
      /\ Uncharged(o, With(seen[w], "pending"))
  BY <1>1, <1>3 DEF Local, Works, AtWork, Written
<1>9. TypeOK'
  <2>1. StoreTypes'
    BY <1>1, <1>6, <1>8, TypesOf DEF StoreTypes, past, With
  <2>2. GateTypes' /\ losses' \in 0..MaxLosses
    BY <1>1, TypesOf DEF GateTypes
  <2> QED BY <1>7, <2>1, <2>2, TypesNext
<1>10. Held'
  <2>1. IsSearch(seen'[w]) <=> IsSearch(seen[w])
    BY <1>4, <1>7 DEF IsSearch, With
  <2> QED BY <1>1, <1>7, <2>1, KeepsHeld DEF PastTheGate, Searches
<1>11. Works(w)'
  <2>1. Uncharged(o, With(r, "pending")) /\ Uncharged(o, S) /\ S \subseteq With(r, "running")
    BY <1>4, <1>8 DEF Uncharged, With
  <2>2. /\ on'[w] = o /\ cmd'[w] = "advance" /\ Written(w)' = r.item
    BY <1>1, <1>3, <1>7, <1>8 DEF Written
  <2> QED BY <1>1, <1>4, <1>6, <1>7, <1>8, <2>1, <2>2 DEF Works, Uncharged, past
<1>12. Made(o)' /\ Once(o)' /\ Stand(o)
  <2>1. Made(o) /\ Once(o)
    BY Stored1
  <2>3. Made(o)'
    BY <1>1, <1>4, <1>6, <1>8, <2>1 DEF Made, Uncharged, With, past
  <2>4. Stand(o)
    BY <1>1, <1>4, <1>6, <1>8, <2>1 DEF Stand, With, NoData, Outcomes
  <2>5. Once(o)'
    BY <1>1, <1>7, <2>1, OnceStays DEF past
  <2> QED BY <2>3, <2>4, <2>5
<1>13. Rest' /\ Stands
  <2>2. \A q \in Operations \ {o} : SameRow(q)
    BY <1>1, <1>6 DEF SameRow, past
  <2>3. AtWork(w) /\ ~HasRead(w)' /\ on'[w] = o /\ pc'[w] # "insert" /\ losses' = losses
    BY <1>1, <1>3, <1>7 DEF AtWork, HasRead
  <2> QED BY <1>3, <1>6, <1>7, <1>8, <1>11, <1>12, <2>2, <2>3, Alone, RowStep
<1> QED BY <1>9, <1>10, <1>13 DEF Rest
LEMMA ReserveKeeps ==
  ASSUME ProspectingInv, NEW w \in Requests, Reserve(w)
  PROVE  ProspectingInv' /\ Stands
<1> USE DEF ProspectingInv
<1>1. pc[w] = "reserve" /\ UNCHANGED <<op, page, retryOf, past, gate, losses>>
  BY DEF Reserve
<1>2. losses' \in 0..MaxLosses /\ losses' >= losses
  BY <1>1, Lossy DEF TypeOK
<1>3. PICK o \in Operations : o = on[w]
  BY <1>1, Alone DEF AtWork
<1>4. PICK n \in Numbers : n = Number(w)
  BY NumberIsOne
<1>5. CASE usage[o][n] # "none"
  BY <1>1, <1>2, <1>3, <1>4, <1>5, EndKeeps DEF Reserve, rows, past, Rest
<1>6. CASE usage[o][n] = "none"
  <2>1. /\ usage' = [usage EXCEPT ![o][n] = "reserved"] /\ Goto(w, "call")
        /\ UNCHANGED <<on, cmd, from, seen, chunk, overrun>>
    BY <1>3, <1>4, <1>6 DEF Reserve
  <2>2. /\ usage'[o][n] = "reserved" /\ \A m \in Numbers \ {n} : usage'[o][m] = usage[o][m]
        /\ \A q \in Operations \ {o} : usage'[q] = usage[q]
        /\ usage' \in [Operations -> [Numbers -> {"none", "reserved", "settled"}]]
    BY <2>1 DEF TypeOK
  <2>3. pc'[w] = "call" /\ Others(w) /\ LocalTypes'
    BY <2>1, GoneTo DEF Labels
  <2>4. TypeOK'
    <3>1. StoreTypes'
      BY <1>1, <2>2, TypesOf DEF StoreTypes, past, With
    <3> QED BY <1>1, <1>2, <2>3, <3>1, TypesOf, TypesNext DEF GateTypes
  <2>5. Held'
    BY <1>1, <2>1, <2>3, KeepsHeld DEF PastTheGate, Searches
  <2>6. Number(w)' = n
    BY <1>4, <2>1 DEF Number
  <2>7. Made(o) /\ Once(o) /\ Works(w) /\ op[o].status \in {"running", "expired"}
    BY <1>1, <1>3, Stored1 DEF Local, Works, AtWork
  <2>8. calls[o][n] = 0 /\ calls'[o][n] = 0
    BY <1>1, <1>6, <2>7 DEF Once, TypeOK, past
  <2>9. Works(w)'
    <3>1. Ledger(w, "reserved", 0)'
      BY <1>3, <2>1, <2>2, <2>6, <2>8 DEF Ledger
    <3> QED BY <1>1, <1>3, <2>1, <2>3, <2>7, <3>1 DEF Works, AtWork, Written, Uncharged, past
  <2>10. Made(o)' /\ Stand(o)
    BY <1>1, <2>7 DEF Made, Stand, Uncharged, past, With
  <2>11. Once(o)'
    <3>1. \A m \in Numbers : usage'[o][m] = "reserved" =>
            \/ losses' > 0
            \/ \E u \in Requests : /\ pc'[u] \in {"call", "answer", "book"}
                                  /\ on'[u] = o /\ Number(u)' = m
      <4> SUFFICES ASSUME NEW m \in Numbers, usage'[o][m] = "reserved", ~(losses' > 0)
                   PROVE  \E u \in Requests : /\ pc'[u] \in {"call", "answer", "book"}
                                              /\ on'[u] = o /\ Number(u)' = m
        OBVIOUS
      <4>1. CASE m = n
        BY <1>3, <2>1, <2>3, <2>6, <4>1
      <4>2. CASE m # n
        <5>1. PICK u \in Requests : /\ pc[u] \in {"call", "answer", "book"}
                                   /\ on[u] = o /\ Number(u) = m
          BY <1>1, <2>2, <2>7, <4>2 DEF Once
        <5>2. u # w
          BY <1>1, <5>1
        <5> QED BY <2>3, <5>1, <5>2, Unmoved DEF Others, SameLocal
      <4> QED BY <4>1, <4>2
    <3>2. \A m \in Numbers : /\ calls'[o][m] <= (IF usage'[o][m] = "none" THEN 0 ELSE 1)
                             /\ usage'[o][m] = "settled" => calls'[o][m] = 1
      BY <1>1, <2>2, <2>7, <2>8 DEF Once, past
    <3> QED BY <1>1, <2>7, <3>1, <3>2 DEF Once, past
  <2>12. Rest' /\ Stands
    <3>1. \A q \in Operations \ {o} : SameRow(q)
      BY <1>1, <2>2 DEF SameRow, past
    <3>2. AtWork(w) /\ ~HasRead(w)' /\ on'[w] = o /\ pc'[w] # "insert" /\ losses' = losses
      BY <1>1, <1>3, <2>1, <2>3 DEF AtWork, HasRead
    <3>3. op' = op /\ op \in [Operations -> Row] /\ op[o].status # "none"
      BY <1>1, <2>7 DEF TypeOK
    <3> QED BY <1>3, <2>3, <2>9, <2>10, <2>11, <3>1, <3>2, <3>3, Alone, RowStep DEF With
  <2> QED BY <2>4, <2>5, <2>12 DEF Rest
<1> QED BY <1>5, <1>6
\* What a step at work knows of its row.
LEMMA WorkedOn ==
  ASSUME ProspectingInv, NEW w \in Requests, AtWork(w), NEW o \in Operations, o = on[w]
  PROVE  /\ cmd[w] = "advance" /\ op[o].status \in {"running", "expired"}
         /\ op[o].version = seen[w].version
         /\ \/ op[o].item = Written(w)
            \/ op[o].item = NoData /\ op[o].status = "expired"
         /\ op[o].live => op[o].status # "expired"
         /\ Uncharged(o, With(seen[w], "pending"))
         /\ seen[w] \in Row /\ op[o] \in Row /\ chunk[w] \in SUBSET Items
  BY DEF ProspectingInv, Local, Works, Stored, Made, TypeOK

\* A step of w that records what its chunk came to, and is its last at work: what
\* it makes of the row, and of the ledger.
RowRecorded(w, o) ==
  /\ op' \in [Operations -> Row] /\ op'[o].version = op[o].version /\ op'[o].live = op[o].live
  /\ op'[o].status \in {"paused", "completed", "failed", "unknown"}
  /\ op'[o].status = "completed" => With(op'[o], "pending") = {}
  /\ \A q \in Operations \ {o} : op'[q] = op[q]
  /\ \A i \in Items :
       /\ op'[o].item[i] = "pending" => seen[w].item[i] = "pending"
       /\ op[o].item[i] \in Outcomes => op'[o].item[i] = op[o].item[i]
       /\ op[o].item[i] = "running" => op'[o].item[i] \in Outcomes \cup {"running"}
LedgerSettled(o, n) ==
  /\ usage' \in [Operations -> [Numbers -> {"none", "reserved", "settled"}]]
  /\ usage'[o][n] = "settled" /\ \A m \in Numbers \ {n} : usage'[o][m] = usage[o][m]
  /\ \A q \in Operations \ {o} : usage'[q] = usage[q]
LEMMA Settled ==
  ASSUME ProspectingInv, NEW w \in Requests, pc[w] \in {"answer", "book"},
         Finish(w), UNCHANGED <<retryOf, past, gate, losses>>,
         NEW o \in Operations, o = on[w], NEW n \in Numbers, n = Number(w),
         RowRecorded(w, o), LedgerSettled(o, n),
         page' \in [Operations -> [Items -> SUBSET Tags]]
  PROVE  ProspectingInv' /\ Stands
<1> USE DEF RowRecorded, LedgerSettled
<1> USE DEF ProspectingInv
<1>1. /\ Others(w) /\ pc'[w] \in {"idle", "release"} /\ LocalTypes' /\ Works(w)'
      /\ overrun' \in {overrun, overrun \ {w}}
      /\ PastTheGate(w)' => ~Searches(w) /\ overrun' = overrun
  BY Finished
<1>2. AtWork(w) /\ ~AtWork(w)' /\ ~HasRead(w)'
  BY <1>1 DEF AtWork, HasRead
<1>6. /\ usage[o][n] = "reserved" /\ calls[o][n] = 1
      /\ op[o].status \in {"running", "expired"} /\ op[o].version = seen[w].version
      /\ op[o].live => op[o].status # "expired"
  BY <1>2, WorkedOn DEF Local, Works, Ledger
<1>3. TypeOK'
  <2>1. StoreTypes'
    <3>1. ASSUME NEW q \in Operations, op'[q].status = "completed"
          PROVE  With(op'[q], "pending") = {}
      <4>1. CASE q = o
        BY <3>1, <4>1
      <4>2. CASE q # o
        <5>1. op'[q] = op[q]
          BY <4>2
        <5>2. With(op[q], "pending") = {}
          BY <3>1, <5>1, TypesOf DEF StoreTypes
        <5> QED BY <5>1, <5>2
      <4> QED BY <4>1, <4>2
    <3> QED BY <3>1, TypesOf DEF StoreTypes, past, With
  <2>2. GateTypes' /\ losses' \in 0..MaxLosses
    BY TypesOf DEF GateTypes
  <2> QED BY <1>1, <2>1, <2>2, TypesNext
<1>4. Held'
  BY <1>1, KeepsHeld DEF PastTheGate
<1>5. Uncharged(o, With(seen[w], "pending"))
  BY <1>2, WorkedOn
<1>7. Made(o)' /\ Once(o)' /\ Stand(o)
  <2>1. Made(o) /\ Once(o)
    BY Stored1
  <2>2. With(op'[o], "pending") \subseteq With(seen[w], "pending")
    BY DEF With
  <2>3. Uncharged(o, With(op'[o], "pending")) /\ charged' = charged
    BY <1>5, <2>2 DEF Uncharged, past
  <2>4. Made(o)'
    BY <1>6, <2>3 DEF Made, Uncharged, With
  <2>6. Stand(o)
    BY <1>6 DEF Stand
  <2>7. \A m \in Numbers : usage'[o][m] = "reserved" =>
          \/ losses' > 0
          \/ \E u \in Requests : /\ pc'[u] \in {"call", "answer", "book"}
                                /\ on'[u] = o /\ Number(u)' = m
    <3> SUFFICES ASSUME NEW m \in Numbers, usage'[o][m] = "reserved", ~(losses' > 0)
                 PROVE  \E u \in Requests : /\ pc'[u] \in {"call", "answer", "book"}
                                            /\ on'[u] = o /\ Number(u)' = m
      OBVIOUS
    <3>1. PICK u \in Requests : /\ pc[u] \in {"call", "answer", "book"}
                               /\ on[u] = o /\ Number(u) = m
      BY <2>1 DEF Once
    <3>2. u # w
      BY <3>1
    <3> QED BY <1>1, <3>1, <3>2, Unmoved DEF Others, SameLocal
  <2>8. \A m \in Numbers : /\ calls'[o][m] <= (IF usage'[o][m] = "none" THEN 0 ELSE 1)
                           /\ usage'[o][m] = "settled" => calls'[o][m] = 1
    BY <1>6, <2>1 DEF Once, past
  <2>9. Once(o)'
    BY <2>1, <2>7, <2>8 DEF Once, past
  <2> QED BY <2>4, <2>6, <2>9
<1>8. Rest' /\ Stands
  <2>1. \A q \in Operations \ {o} : SameRow(q)
    BY DEF SameRow, past
  <2>2. losses' = losses /\ pc'[w] # "insert" /\ op'[o].status # "none"
    BY <1>1
  <2>4. /\ \A v \in Requests \ {w} : AtWork(v) => on[v] # o
        /\ \A v \in Requests \ {w} : HasRead(v) /\ on[v] = o => seen[v].version < op'[o].version
    BY <1>2, Alone
  <2> QED BY <1>1, <1>2, <1>7, <2>1, <2>2, <2>4, RowStep
<1> QED BY <1>3, <1>4, <1>8 DEF Rest

LEMMA CallKeeps ==
  ASSUME ProspectingInv, NEW w \in Requests, Call(w)
  PROVE  ProspectingInv' /\ Stands
<1> USE DEF ProspectingInv
<1>1. /\ pc[w] = "call" /\ Goto(w, "answer")
      /\ UNCHANGED <<rows, gate, on, cmd, from, seen, chunk, overrun, losses>>
  BY DEF Call
<1>2. PICK o \in Operations : o = on[w]
  BY <1>1, Alone DEF AtWork
<1>3. PICK n \in Numbers : n = Number(w)
  BY NumberIsOne
<1> DEFINE more == [i \in Items |-> IF i \in chunk[w] THEN charged[o][i] + 1 ELSE charged[o][i]]
<1>4. /\ cmd[w] = "advance" /\ op[o].status \in {"running", "expired"}
      /\ \/ op[o].item = seen[w].item
         \/ op[o].item = NoData /\ op[o].status = "expired"
      /\ Uncharged(o, With(seen[w], "pending")) /\ Uncharged(o, chunk[w])
      /\ chunk[w] \subseteq With(seen[w], "running")
      /\ usage[o][n] = "reserved" /\ calls[o][n] = 0 /\ Works(w)
  BY <1>1, <1>2, <1>3, WorkedOn DEF AtWork, Local, Works, Ledger, Written
<1>5. /\ more \in [Items -> Nat]
      /\ \A i \in Items : more[i] = (IF i \in chunk[w] THEN charged[o][i] + 1 ELSE charged[o][i])
  BY DEF TypeOK
<1>6. charged' = [charged EXCEPT ![o] = more] /\ calls' = [calls EXCEPT ![o][n] = @ + 1]
  BY <1>2, <1>3 DEF Call
<1> HIDE DEF more
<1>7. /\ charged' \in [Operations -> [Items -> Nat]] /\ charged'[o] = more
      /\ \A q \in Operations \ {o} : charged'[q] = charged[q]
  BY <1>5, <1>6 DEF TypeOK
<1>8. /\ calls' \in [Operations -> [Numbers -> Nat]] /\ calls'[o][n] = 1
      /\ \A m \in Numbers \ {n} : calls'[o][m] = calls[o][m]
      /\ \A q \in Operations \ {o} : calls'[q] = calls[q]
  BY <1>4, <1>6 DEF TypeOK
<1>9. pc'[w] = "answer" /\ Others(w) /\ LocalTypes'
  BY <1>1, GoneTo DEF Labels
<1>10. TypeOK'
  <2>1. StoreTypes'
    BY <1>1, <1>7, <1>8, TypesOf DEF StoreTypes, rows, With
  <2>2. GateTypes' /\ losses' \in 0..MaxLosses
    BY <1>1, TypesOf DEF GateTypes
  <2> QED BY <1>9, <2>1, <2>2, TypesNext
<1>11. Held'
  BY <1>1, <1>9, KeepsHeld DEF PastTheGate, Searches
<1>12. Number(w)' = n
  BY <1>1, <1>3 DEF Number
<1>13. Works(w)'
  <2>1. Ledger(w, "reserved", 1)'
    BY <1>1, <1>2, <1>4, <1>8, <1>12 DEF Ledger, rows
  <2>2. Uncharged(o, With(seen[w], "pending"))'
    BY <1>1, <1>4, <1>5, <1>7 DEF Uncharged, With
  <2> QED BY <1>1, <1>2, <1>4, <1>9, <2>1, <2>2 DEF Works, AtWork, Written, rows
<1>14. Made(o)' /\ Once(o)' /\ Stand(o)
  <2>1. Made(o) /\ Once(o)
    BY Stored1
  <2>2. Uncharged(o, With(op[o], "pending"))'
    BY <1>1, <1>4, <1>5, <1>7 DEF Uncharged, With, NoData, rows
  <2>3. Made(o)' /\ Stand(o)
    BY <1>1, <1>4, <2>1, <2>2 DEF Made, Stand, rows, With
  <2>4. \A i \in Items : charged'[o][i] <= 1
    BY <1>4, <1>5, <1>7, <2>1 DEF Once, Uncharged
  <2>5. \A m \in Numbers : /\ calls'[o][m] <= (IF usage'[o][m] = "none" THEN 0 ELSE 1)
                           /\ usage'[o][m] = "settled" => calls'[o][m] = 1
    BY <1>1, <1>4, <1>8, <2>1 DEF Once, rows
  <2>6. \A u \in Requests : pc[u] \in {"call", "answer", "book"} =>
          /\ pc'[u] \in {"call", "answer", "book"} /\ on'[u] = on[u] /\ Number(u)' = Number(u)
    BY <1>1, <1>3, <1>9, <1>12, Unmoved DEF Others, SameLocal
  <2>7. Once(o)'
    BY <1>1, <2>1, <2>4, <2>5, <2>6 DEF Once, rows
  <2> QED BY <2>3, <2>7
<1>15. Rest' /\ Stands
  <2>1. \A q \in Operations \ {o} : SameRow(q)
    BY <1>1, <1>7, <1>8 DEF SameRow, rows
  <2>2. AtWork(w) /\ ~HasRead(w)' /\ on'[w] = o /\ pc'[w] # "insert" /\ losses' = losses
    BY <1>1, <1>2, <1>9 DEF AtWork, HasRead
  <2>3. op' = op /\ op \in [Operations -> Row] /\ op[o].status # "none"
    BY <1>1, <1>4 DEF TypeOK, rows
  <2> QED BY <1>2, <1>9, <1>13, <1>14, <2>1, <2>2, <2>3, Alone, RowStep DEF With
<1> QED BY <1>10, <1>11, <1>15 DEF Rest

LEMMA FailKeeps ==
  ASSUME ProspectingInv, NEW w \in Requests, Fail(w)
  PROVE  ProspectingInv' /\ Stands
<1> USE DEF ProspectingInv
<1>1. /\ pc[w] = "answer" /\ Goto(w, "book")
      /\ UNCHANGED <<op, usage, retryOf, past, gate, on, cmd, from, chunk, overrun, losses>>
  BY DEF Fail
<1>2. PICK o \in Operations : o = on[w]
  BY <1>1, Alone DEF AtWork
<1>4. /\ cmd[w] = "advance" /\ op[o].status \in {"running", "expired"}
      /\ op[o].version = seen[w].version
      /\ op[o].live => op[o].status # "expired"
      /\ \/ op[o].item = seen[w].item
         \/ op[o].item = NoData /\ op[o].status = "expired"
      /\ Uncharged(o, With(seen[w], "pending"))
      /\ chunk[w] \in SUBSET Items /\ chunk[w] \subseteq With(seen[w], "running")
      /\ Ledger(w, "reserved", 1) /\ Works(w) /\ seen[w] \in Row
  BY <1>1, <1>2, WorkedOn DEF AtWork, Local, Works, Written
\* The copy as read, or with the answers of a batch that failed.
<1>3. PICK a \in {seen[w]} \cup Answers(w), s \in {"failed", "unknown"} :
        /\ seen' = [seen EXCEPT ![w] =
                      [Spoil(Give(a, chunk[w], s), chunk[w]) EXCEPT !.status = s]]
        /\ page' = IF IsSearch(a) THEN page
                   ELSE [page EXCEPT ![on[w]] = Spoil(a, chunk[w]).prospect]
  BY DEF Fail
<1>16. /\ a \in Row /\ a.version = seen[w].version
       /\ \A i \in Items : i \notin chunk[w] => a.item[i] = seen[w].item[i]
  BY <1>4, AnswersRow
<1> DEFINE g == Give(a, chunk[w], s)
           h == Spoil(g, chunk[w])
           r == [h EXCEPT !.status = s]
<1>5. /\ g \in Row /\ g.version = seen[w].version
      /\ \A i \in Items : g.item[i] = (IF i \in chunk[w] THEN s ELSE seen[w].item[i])
  BY <1>4, <1>16, Given DEF ItemStates, Outcomes
<1> HIDE DEF g
<1>18. h \in Row /\ h.version = g.version /\ h.item = g.item
  BY <1>4, <1>5, Spoiled
<1> HIDE DEF h
<1>6. r \in Row /\ r.status = s /\ r.version = seen[w].version /\ r.item = g.item
  BY <1>5, <1>18 DEF Row, Statuses
<1>7. seen' = [seen EXCEPT ![w] = r]
  BY <1>3 DEF g, h
<1> HIDE DEF r
<1>8. pc'[w] = "book" /\ seen'[w] = r /\ Others(w) /\ LocalTypes'
  BY <1>1, <1>6, <1>7, TypesOf DEF LocalTypes, Others, SameLocal, Labels, Goto
<1>9. \A i \in Items : /\ i \in chunk[w] => seen[w].item[i] = "running" /\ r.item[i] = s
                       /\ i \notin chunk[w] => r.item[i] = seen[w].item[i]
  BY <1>4, <1>5, <1>6 DEF With
<1>10. With(r, "pending") = With(seen[w], "pending") /\ With(r, "absent") = With(seen[w], "absent")
  BY <1>3, <1>9 DEF With
<1>11. page' \in [Operations -> [Items -> SUBSET Tags]]
  <2>1. Spoil(a, chunk[w]).prospect \in [Items -> SUBSET Tags]
    BY <1>4, <1>16, Spoiled DEF Row
  <2> QED BY <1>3, <2>1 DEF TypeOK
<1>12. TypeOK'
  <2>1. StoreTypes'
    BY <1>1, <1>11, TypesOf DEF StoreTypes, past, With
  <2>2. GateTypes' /\ losses' \in 0..MaxLosses
    BY <1>1, TypesOf DEF GateTypes
  <2> QED BY <1>8, <2>1, <2>2, TypesNext
<1>13. Held'
  <2>1. IsSearch(seen'[w]) <=> IsSearch(seen[w])
    BY <1>8, <1>10 DEF IsSearch, With
  <2> QED BY <1>1, <1>8, <2>1, KeepsHeld DEF PastTheGate, Searches
<1>14. Number(w)' = Number(w)
  BY <1>8, <1>10 DEF Number
<1>15. Works(w)'
  <2>1. Ledger(w, "reserved", 1)'
    BY <1>1, <1>4, <1>14 DEF Ledger, past
  <2>2. Written(w)' = seen[w].item
    <3> DEFINE b == Give(r, chunk[w], "running")
    <3>1. /\ b \in Row
          /\ \A i \in Items : b.item[i] = (IF i \in chunk[w] THEN "running" ELSE r.item[i])
      BY <1>4, <1>6, Given DEF ItemStates
    <3>2. Written(w)' = b.item
      BY <1>1, <1>8 DEF Written
    <3> HIDE DEF b
    <3>3. \A i \in Items : b.item[i] = seen[w].item[i]
      BY <1>9, <3>1
    <3>4. b.item \in [Items -> ItemStates] /\ seen[w].item \in [Items -> ItemStates]
      BY <1>4, <3>1 DEF Row
    <3>5. b.item = seen[w].item
      BY <3>3, <3>4
    <3> QED BY <3>2, <3>5
  <2>3. chunk[w] \subseteq With(r, s) /\ Uncharged(o, With(r, "pending"))
    <3>1. chunk[w] \subseteq With(r, s)
      BY <1>4, <1>9 DEF With
    <3> QED BY <1>4, <1>10, <3>1
  <2> QED BY <1>1, <1>2, <1>4, <1>6, <1>8, <2>1, <2>2, <2>3 DEF Works, AtWork, Uncharged, past
<1>19. Made(o)' /\ Once(o)' /\ Stand(o)
  <2>1. Made(o) /\ Once(o)
    BY Stored1
  <2>2. Made(o)' /\ Stand(o)
    BY <1>1, <1>4, <2>1 DEF Made, Stand, Uncharged, past, With
  <2>4. Once(o)'
    BY <1>1, <1>8, <1>14, <2>1, OnceStays DEF past
  <2> QED BY <2>2, <2>4
<1>17. Rest' /\ Stands
  <2>1. \A q \in Operations \ {o} : SameRow(q)
    BY <1>1 DEF SameRow, past
  <2>2. AtWork(w) /\ ~HasRead(w)' /\ on'[w] = o /\ pc'[w] # "insert" /\ losses' = losses
    BY <1>1, <1>2, <1>8 DEF AtWork, HasRead
  <2>3. op' = op /\ op \in [Operations -> Row] /\ op[o].status # "none"
    BY <1>1, <1>4 DEF TypeOK
  <2> QED BY <1>2, <1>8, <1>15, <1>19, <2>1, <2>2, <2>3, Alone, RowStep DEF With
<1> QED BY <1>12, <1>13, <1>17 DEF Rest

LEMMA SettleKeeps ==
  ASSUME ProspectingInv, NEW w \in Requests, Settle(w)
  PROVE  ProspectingInv' /\ Stands
<1> USE DEF ProspectingInv
<1>1. /\ pc[w] = "answer" /\ Finish(w) /\ UNCHANGED <<retryOf, past, gate, losses>>
  BY DEF Settle
<1>2. PICK o \in Operations : o = on[w]
  BY <1>1, Alone DEF AtWork
<1>3. PICK n \in Numbers : n = Number(w)
  BY NumberIsOne
<1>4. /\ op[o].status \in {"running", "expired"}
      /\ op[o].version = seen[w].version
      /\ op[o].live => op[o].status # "expired"
      /\ \/ op[o].item = seen[w].item
         \/ op[o].item = NoData /\ op[o].status = "expired"
      /\ Uncharged(o, With(seen[w], "pending"))
      /\ chunk[w] \in SUBSET Items /\ chunk[w] \subseteq With(seen[w], "running")
      /\ usage[o][n] = "reserved" /\ calls[o][n] = 1 /\ seen[w] \in Row /\ op[o] \in Row
  BY <1>1, <1>2, <1>3, WorkedOn DEF AtWork, Local, Works, Written, Ledger
<1>17. PICK c \in Answers(w) :
        /\ op' = [op EXCEPT ![o].item = c.item, ![o].prospect = c.prospect,
                            ![o].jobs = c.jobs, ![o].status = AfterCall(c)]
        /\ page' = [page EXCEPT ![o] = c.prospect]
  BY <1>2 DEF Settle
<1>18. op' = [op EXCEPT ![o] = [op[o] EXCEPT !.item = c.item, !.prospect = c.prospect,
                                             !.jobs = c.jobs, !.status = AfterCall(c)]]
  BY <1>17
<1> DEFINE g == [c EXCEPT !.status = AfterCall(c)]
<1>6. /\ c \in Row
      /\ \A i \in Items : IF i \in chunk[w] THEN c.item[i] \in Outcomes
                                            ELSE c.item[i] = seen[w].item[i]
  BY <1>4, AnswersRow
<1>8. /\ AfterCall(c) \in {"paused", "completed"}
      /\ AfterCall(c) = "completed" => With(c, "pending") = {}
  BY DEF AfterCall
<1>16. /\ g \in Row /\ g.status = AfterCall(c)
       /\ g.item = c.item /\ g.prospect = c.prospect /\ g.jobs = c.jobs
  BY <1>6, <1>8 DEF Row, Statuses
<1> HIDE DEF g
<1>9. /\ g.status \in {"paused", "completed"}
      /\ g.status = "completed" => With(g, "pending") = {}
      /\ \A i \in Items : IF i \in chunk[w] THEN g.item[i] \in Outcomes
                                            ELSE g.item[i] = seen[w].item[i]
  BY <1>6, <1>8, <1>16 DEF With
<1>10. /\ op' \in [Operations -> Row] /\ op'[o].status = g.status
       /\ op'[o].version = op[o].version /\ op'[o].live = op[o].live /\ op'[o].item = g.item
       /\ \A q \in Operations \ {o} : op'[q] = op[q]
  <2> DEFINE r2 == [op[o] EXCEPT !.item = g.item, !.prospect = g.prospect, !.jobs = g.jobs,
                                 !.status = g.status]
  <2>1. /\ r2 \in Row /\ r2.status = g.status /\ r2.version = op[o].version
        /\ r2.live = op[o].live /\ r2.item = g.item
    <3>1. op[o] \in Row /\ g \in Row
      BY <1>4, <1>16
    <3> QED BY <3>1, Refilled DEF Filled
  <2>2. op' = [op EXCEPT ![o] = r2] /\ op \in [Operations -> Row]
    BY <1>16, <1>18 DEF TypeOK
  <2> HIDE DEF r2
  <2> QED BY <2>1, <2>2
<1>11. page' \in [Operations -> [Items -> SUBSET Tags]]
  <2>1. c.prospect \in [Items -> SUBSET Tags]
    BY <1>6 DEF Row
  <2> QED BY <1>17, <2>1 DEF TypeOK
<1>12. /\ usage' \in [Operations -> [Numbers -> {"none", "reserved", "settled"}]]
       /\ usage'[o][n] = "settled" /\ \A m \in Numbers \ {n} : usage'[o][m] = usage[o][m]
       /\ \A q \in Operations \ {o} : usage'[q] = usage[q]
  BY <1>2, <1>3 DEF Settle, TypeOK
<1>13. \A i \in Items :
         /\ op'[o].item[i] = "pending" => seen[w].item[i] = "pending"
         /\ op[o].item[i] \in Outcomes => op'[o].item[i] = op[o].item[i]
         /\ op[o].item[i] = "running" => op'[o].item[i] \in Outcomes \cup {"running"}
  <2> SUFFICES ASSUME NEW i \in Items
               PROVE  /\ op'[o].item[i] = "pending" => seen[w].item[i] = "pending"
                      /\ op[o].item[i] \in Outcomes => op'[o].item[i] = op[o].item[i]
                      /\ op[o].item[i] = "running" => op'[o].item[i] \in Outcomes \cup {"running"}
    OBVIOUS
  <2>1. op[o].item[i] \in {seen[w].item[i], "absent"}
    BY <1>4 DEF NoData
  <2>2. CASE i \in chunk[w]
    <3>1. op'[o].item[i] \in Outcomes /\ seen[w].item[i] = "running"
      BY <1>4, <1>9, <1>10, <2>2 DEF With
    <3> QED BY <2>1, <3>1 DEF Outcomes
  <2>3. CASE i \notin chunk[w]
    BY <1>9, <1>10, <2>1, <2>3 DEF Outcomes
  <2> QED BY <2>2, <2>3
<1>14. op'[o].status = "completed" => With(op'[o], "pending") = {}
  BY <1>9, <1>10 DEF With
<1>15. RowRecorded(w, o)
  BY <1>9, <1>10, <1>13, <1>14 DEF RowRecorded
<1>19. LedgerSettled(o, n)
  BY <1>12 DEF LedgerSettled
<1> HIDE DEF ProspectingInv
<1> QED BY <1>1, <1>2, <1>3, <1>11, <1>15, <1>19, Settled

LEMMA BookKeeps ==
  ASSUME ProspectingInv, NEW w \in Requests, Book(w)
  PROVE  ProspectingInv' /\ Stands
<1> USE DEF ProspectingInv
<1>1. /\ pc[w] = "book" /\ Finish(w) /\ UNCHANGED <<page, retryOf, past, gate, losses>>
  BY DEF Book
<1>2. PICK o \in Operations : o = on[w]
  BY <1>1, Alone DEF AtWork
<1>3. PICK n \in Numbers : n = Number(w)
  BY NumberIsOne
<1> DEFINE g == seen[w]
           b == Give(g, chunk[w], "running")
<1>4. /\ op[o].status \in {"running", "expired"}
      /\ op[o].version = g.version
      /\ op[o].live => op[o].status # "expired"
      /\ \/ op[o].item = b.item
         \/ op[o].item = NoData /\ op[o].status = "expired"
      /\ chunk[w] \in SUBSET Items /\ chunk[w] \subseteq With(g, g.status)
      /\ g.status \in {"failed", "unknown"}
      /\ usage[o][n] = "reserved" /\ calls[o][n] = 1 /\ g \in Row /\ op[o] \in Row
  BY <1>1, <1>2, <1>3, WorkedOn DEF AtWork, Local, Works, Written, Ledger
<1>5. \A i \in Items : b.item[i] = (IF i \in chunk[w] THEN "running" ELSE g.item[i])
  BY <1>4, Given DEF ItemStates
<1>6. /\ op' = [op EXCEPT ![o] = [op[o] EXCEPT !.item = g.item, !.prospect = g.prospect,
                                                !.jobs = g.jobs, !.status = g.status]]
      /\ usage' = [usage EXCEPT ![o][n] = "settled"]
  BY <1>2, <1>3 DEF Book
<1> HIDE DEF g, b
<1>7. /\ op' \in [Operations -> Row] /\ op'[o].status = g.status
      /\ op'[o].version = op[o].version /\ op'[o].live = op[o].live /\ op'[o].item = g.item
      /\ \A q \in Operations \ {o} : op'[q] = op[q]
  <2> DEFINE r2 == [op[o] EXCEPT !.item = g.item, !.prospect = g.prospect, !.jobs = g.jobs,
                                 !.status = g.status]
  <2>1. /\ r2 \in Row /\ r2.status = g.status /\ r2.version = op[o].version
        /\ r2.live = op[o].live /\ r2.item = g.item
    BY <1>4, Refilled DEF Filled
  <2> HIDE DEF r2
  <2>2. op' = [op EXCEPT ![o] = r2] /\ op \in [Operations -> Row]
    BY <1>6 DEF TypeOK, r2
  <2> QED BY <2>1, <2>2
<1>8. page' \in [Operations -> [Items -> SUBSET Tags]]
  BY <1>1 DEF TypeOK
<1>9. /\ usage' \in [Operations -> [Numbers -> {"none", "reserved", "settled"}]]
      /\ usage'[o][n] = "settled" /\ \A m \in Numbers \ {n} : usage'[o][m] = usage[o][m]
      /\ \A q \in Operations \ {o} : usage'[q] = usage[q]
  BY <1>6 DEF TypeOK
<1>10. \A i \in Items :
         /\ op'[o].item[i] = "pending" => seen[w].item[i] = "pending"
         /\ op[o].item[i] \in Outcomes => op'[o].item[i] = op[o].item[i]
         /\ op[o].item[i] = "running" => op'[o].item[i] \in Outcomes \cup {"running"}
  <2> SUFFICES ASSUME NEW i \in Items
               PROVE  /\ op'[o].item[i] = "pending" => seen[w].item[i] = "pending"
                      /\ op[o].item[i] \in Outcomes => op'[o].item[i] = op[o].item[i]
                      /\ op[o].item[i] = "running" => op'[o].item[i] \in Outcomes \cup {"running"}
    OBVIOUS
  <2>1. op[o].item[i] \in {b.item[i], "absent"} /\ op'[o].item[i] = g.item[i]
    BY <1>4, <1>7 DEF NoData
  <2>2. CASE i \in chunk[w]
    <3>1. b.item[i] = "running" /\ g.item[i] \in {"failed", "unknown"}
      BY <1>4, <1>5, <2>2 DEF With
    <3> QED BY <2>1, <3>1 DEF Outcomes
  <2>3. CASE i \notin chunk[w]
    BY <1>5, <2>1, <2>3 DEF Outcomes, g
  <2> QED BY <2>2, <2>3
<1>11. RowRecorded(w, o)
  <2>1. op'[o].status \in {"failed", "unknown"}
    BY <1>4, <1>7
  <2> QED BY <1>7, <1>10, <2>1 DEF RowRecorded, g
<1>12. LedgerSettled(o, n)
  BY <1>9 DEF LedgerSettled
<1> HIDE DEF ProspectingInv
<1> QED BY <1>1, <1>2, <1>3, <1>8, <1>11, <1>12, Settled

-----------------------------------------------------------------------------
(* Phone results *)

LEMMA PollKeeps ==
  ASSUME ProspectingInv, NEW w \in Requests, Poll(w)
  PROVE  ProspectingInv' /\ Stands
<1> USE DEF ProspectingInv
<1>1. /\ pc[w] = "ask" /\ Goto(w, "release")
      /\ UNCHANGED <<usage, retryOf, past, gate, on, cmd, from, seen, chunk, overrun, losses>>
  BY DEF Poll
<1>2. PICK o \in Operations : o = on[w]
  BY <1>1 DEF Local, Reads, HasRead
<1> DEFINE r == seen[w]
<1>3. /\ Reads(w) /\ HasRead(w) /\ cmd[w] = "poll" /\ op[o].status # "none"
      /\ op[o].live => op[o].status # "expired"
      /\ r \in Row /\ op[o] \in Row /\ r.version \in Nat
  BY <1>1, <1>2 DEF Local, Reads, HasRead, Stored, Made, TypeOK, Row
<1>4. pc'[w] = "release" /\ Others(w) /\ LocalTypes' /\ ~AtWork(w)' /\ ~HasRead(w)'
  BY <1>1, GoneTo DEF Labels, AtWork, HasRead
<1>5. Drafts(w)' /\ Reads(w)' /\ Works(w)'
  BY <1>4 DEF Drafts, Reads, Works
<1>6. Held'
  BY <1>1, <1>3, <1>4, KeepsHeld DEF PastTheGate, Searches
<1>11. PICK job \in r.jobs, done \in BOOLEAN :
         LET a == LookedUp(r, job, done)
         IN  /\ op' = IF Current(w)
                        THEN [op EXCEPT ![o] = [op[o] EXCEPT !.item = a.item, !.prospect = a.prospect,
                                                  !.jobs = a.jobs, !.version = r.version + 1]]
                        ELSE op
             /\ page' = IF op[o].status = "expired" THEN page ELSE [page EXCEPT ![o] = a.prospect]
  <2>1. PICK job \in r.jobs, done \in BOOLEAN :
          LET a == LookedUp(r, job, done)
          IN  /\ op' = IF Current(w)
                         THEN [op EXCEPT ![o].item = a.item, ![o].prospect = a.prospect,
                                         ![o].jobs = a.jobs, ![o].version = r.version + 1]
                         ELSE op
              /\ page' = IF op[o].status = "expired" THEN page ELSE [page EXCEPT ![o] = a.prospect]
    BY <1>2 DEF Poll
  <2> DEFINE a == LookedUp(r, job, done)
  <2> HIDE DEF a
  <2>2. [op EXCEPT ![o].item = a.item, ![o].prospect = a.prospect,
                   ![o].jobs = a.jobs, ![o].version = r.version + 1]
          = [op EXCEPT ![o] = [op[o] EXCEPT !.item = a.item, !.prospect = a.prospect,
                                 !.jobs = a.jobs, !.version = r.version + 1]]
    OBVIOUS
  <2> QED BY <2>1, <2>2 DEF a
<1> DEFINE a == LookedUp(r, job, done)
<1>12. a \in Row /\ a.item = r.item
  BY <1>3, LookedUpRow
<1>7. page' \in [Operations -> [Items -> SUBSET Tags]]
  <2>1. a.prospect \in [Items -> SUBSET Tags]
    BY <1>12 DEF Row
  <2> QED BY <1>11, <2>1 DEF TypeOK
<1>8. losses \in Nat /\ losses' = losses /\ losses' \in 0..MaxLosses
  BY <1>1, Lossy DEF TypeOK
<1>9. CASE ~Current(w)
  <2>1. op' = op
    BY <1>9, <1>11
  <2>2. TypeOK'
    <3>1. StoreTypes'
      BY <1>1, <1>7, <2>1, TypesOf DEF StoreTypes, past, With
    <3> QED BY <1>1, <1>4, <1>8, <3>1, TypesOf, TypesNext DEF GateTypes
  <2>4. UNCHANGED <<op, usage, past>>
    BY <1>1, <2>1
  <2>5. Rest' /\ Stands
    BY <1>1, <1>4, <1>5, <1>8, <2>4, QuietStep DEF rows
  <2> QED BY <1>6, <2>2, <2>5 DEF Rest
<1>10. CASE Current(w)
  <2> HIDE DEF a
  <2> DEFINE g == [a EXCEPT !.version = r.version + 1]
  <2>3. /\ g \in Row /\ g.item = r.item /\ g.version = r.version + 1
        /\ g.prospect = a.prospect /\ g.jobs = a.jobs
    BY <1>3, <1>12 DEF Row
  <2>4. op' = [op EXCEPT ![o] = [op[o] EXCEPT !.item = g.item, !.prospect = g.prospect,
                                   !.jobs = g.jobs, !.version = g.version]]
    <3> HIDE DEF g
    <3>1. op' = [op EXCEPT ![o] = [op[o] EXCEPT !.item = a.item, !.prospect = a.prospect,
                                     !.jobs = a.jobs, !.version = r.version + 1]]
      BY <1>10, <1>11 DEF a
    <3> QED BY <1>12, <2>3, <3>1
  <2> HIDE DEF g
  <2>5. /\ op' \in [Operations -> Row] /\ op'[o].status = op[o].status
        /\ op'[o].version = r.version + 1 /\ op'[o].live = op[o].live /\ op'[o].item = r.item
        /\ \A q \in Operations \ {o} : op'[q] = op[q]
    <3> DEFINE r2 == [op[o] EXCEPT !.item = g.item, !.prospect = g.prospect, !.jobs = g.jobs,
                                   !.version = g.version]
    <3>1. /\ r2 \in Row /\ r2.status = op[o].status /\ r2.version = r.version + 1
          /\ r2.live = op[o].live /\ r2.item = r.item
      BY <1>3, <2>3, Refilled DEF Filled
    <3> HIDE DEF r2
    <3>2. op' = [op EXCEPT ![o] = r2] /\ op \in [Operations -> Row]
      BY <2>4 DEF TypeOK, r2
    <3> QED BY <3>1, <3>2
  <2>6. /\ r.version = op[o].version
        /\ op[o].status = "expired" \/ op[o].item = r.item
        /\ Uncharged(o, With(r, "pending"))
        /\ \A v \in Requests : AtWork(v) => on[v] # o
    BY <1>2, <1>3, <1>10 DEF Current, Reads, Behind
  <2>7. With(op'[o], "pending") = With(r, "pending")
    BY <2>5 DEF With
  <2>8. TypeOK'
    <3>1. ASSUME NEW q \in Operations, op'[q].status = "completed"
          PROVE  With(op'[q], "pending") = {}
      <4>1. op[q].status = "completed" /\ With(op'[q], "pending") = With(op[q], "pending")
        BY <2>5, <2>6, <3>1 DEF With
      <4> QED BY <4>1 DEF TypeOK
    <3>2. StoreTypes'
      BY <1>1, <1>7, <2>5, <3>1, TypesOf DEF StoreTypes, past, With
    <3> QED BY <1>1, <1>4, <1>8, <3>2, TypesOf, TypesNext DEF GateTypes
  <2>9. Made(o)' /\ Once(o)' /\ Stand(o)
    <3>1. Made(o) /\ Once(o)
      BY Stored1
    <3>2. Uncharged(o, With(op'[o], "pending")) /\ charged' = charged
      BY <1>1, <2>6, <2>7 DEF Uncharged, past
    <3>3. Made(o)'
      BY <1>3, <2>5, <3>1, <3>2 DEF Made, Uncharged, With
    <3>6. Stand(o)
      BY <2>5, <2>6 DEF Stand
    <3>7. Once(o)'
      BY <1>1, <1>4, <1>8, <3>1, OnceStays DEF past
    <3> QED BY <3>3, <3>6, <3>7
  <2>10. Rest' /\ Stands
    <3>1. \A q \in Operations \ {o} : SameRow(q)
      BY <1>1, <1>7, <2>5 DEF SameRow, past
    <3>2. \A v \in Requests \ {w} : HasRead(v) /\ on[v] = o => seen[v].version < op'[o].version
      <4> SUFFICES ASSUME NEW v \in Requests, HasRead(v), on[v] = o
                   PROVE  seen[v].version < op'[o].version
        OBVIOUS
      <4>1. seen[v].version <= op[o].version /\ seen[v].version \in Nat
        BY DEF Local, Reads, TypeOK, Row
      <4> QED BY <1>3, <2>5, <2>6, <4>1
    <3>4. op'[o].status # "none" /\ pc'[w] # "insert"
      BY <1>3, <1>4, <2>5
    <3> QED BY <1>2, <1>4, <1>5, <1>8, <2>5, <2>6, <2>9, <3>1, <3>2, <3>4, RowStep
  <2> QED BY <1>6, <2>8, <2>10 DEF Rest
<1> QED BY <1>9, <1>10
-----------------------------------------------------------------------------
(* Time *)

LEMMA TimeKeeps ==
  ASSUME ProspectingInv, NEW o \in Operations, Time(o)
  PROVE  ProspectingInv' /\ Stands
<1> USE DEF ProspectingInv
<1>1. UNCHANGED <<usage, retryOf, past, gate, overrun, local, losses>>
  BY DEF Time, Expire, Purge
<1>2. op[o] \in Row /\ op[o].status # "none"
  BY DEF Time, Expire, Purge, Stored, Made, TypeOK
<1>3. PICK r \in Row :
        /\ op' = [op EXCEPT ![o] = r] /\ r.live = FALSE /\ r.version = op[o].version
        /\ \/ r.status = op[o].status /\ r.item = op[o].item
           \/ r.status = "expired" /\ r.item = NoData
  <2>1. CASE Expire(o)
    <3> DEFINE r == [op[o] EXCEPT !.live = FALSE]
    <3>1. r \in Row /\ r.live = FALSE /\ r.version = op[o].version
      BY <1>2 DEF Row
    <3>2. r.status = op[o].status /\ r.item = op[o].item
      BY <1>2 DEF Row
    <3>3. op' = [op EXCEPT ![o] = r]
      BY <2>1 DEF Expire
    <3> QED BY <3>1, <3>2, <3>3
  <2>2. CASE Purge(o)
    <3> DEFINE g == [NoRow EXCEPT !.status = "expired"]
               r == [op[o] EXCEPT !.item = g.item, !.prospect = g.prospect, !.jobs = g.jobs,
                              !.status = g.status]
    <3>1. g \in Row /\ g.item = NoData /\ g.status = "expired"
          /\ g.prospect = Bare /\ g.jobs = {}
      BY DEF Row, NoRow, NoData, Bare, Statuses, ItemStates
    <3>2. r \in Row /\ r.live = FALSE /\ r.version = op[o].version /\ r.status = "expired" /\ r.item = NoData
      <4>1. op[o].live = FALSE
        BY <1>2, <2>2 DEF Purge, Row
      <4> HIDE DEF g
      <4> QED BY <1>2, <3>1, <4>1, Refilled DEF Filled
    <3>3. op' = [op EXCEPT ![o] = r]
      <4> HIDE DEF g
      <4> QED BY <2>2, <3>1 DEF Purge
    <3> HIDE DEF g, r
    <3> QED BY <3>2, <3>3
  <2> QED BY <2>1, <2>2 DEF Time
<1>4. /\ op' \in [Operations -> Row] /\ op'[o] = r
      /\ \A q \in Operations \ {o} : op'[q] = op[q]
  BY <1>3 DEF TypeOK
<1>5. page' \in [Operations -> [Items -> SUBSET Tags]]
  <2>1. page \in [Operations -> [Items -> SUBSET Tags]]
    BY DEF TypeOK
  <2>2. page' = page \/ page' = [page EXCEPT ![o] = Bare]
    BY DEF Time, Expire, Purge
  <2>3. Bare \in [Items -> SUBSET Tags]
    BY DEF Bare
  <2> QED BY <2>1, <2>2, <2>3
<1>6. \A v \in Requests : SameLocal(v) /\ AtWork(v)' = AtWork(v) /\ HasRead(v)' = HasRead(v)
                        /\ Number(v)' = Number(v) /\ PastTheGate(v)' = PastTheGate(v)
  <2>1. \A v \in Requests : SameLocal(v)
    BY <1>1 DEF SameLocal, local
  <2> QED BY <2>1, Unmoved
<1>7. With(r, "pending") \subseteq With(op[o], "pending")
  BY <1>3 DEF With, NoData
<1>8. TypeOK'
  <2>1. ASSUME NEW q \in Operations, op'[q].status = "completed"
        PROVE  With(op'[q], "pending") = {}
    <3>1. CASE q = o
      BY <1>3, <1>4, <1>7, <2>1, <3>1 DEF TypeOK
    <3>2. CASE q # o
      <4>1. op'[q] = op[q]
        BY <1>4, <3>2
      <4> QED BY <2>1, <4>1 DEF TypeOK
    <3> QED BY <3>1, <3>2
  <2>2. StoreTypes'
    BY <1>1, <1>4, <1>5, <2>1, TypesOf DEF StoreTypes, past
  <2>3. LocalTypes' /\ GateTypes' /\ losses' \in 0..MaxLosses
    BY <1>1, TypesOf DEF LocalTypes, GateTypes, local
  <2> QED BY <2>2, <2>3, TypesNext
<1>9. Local'
  <2> SUFFICES ASSUME NEW v \in Requests PROVE Drafts(v)' /\ Reads(v)' /\ Works(v)'
    BY DEF Local
  <2>1. CASE on[v] # o
    <3>1. AtWork(v) \/ HasRead(v) => SameRow(on[v])
      BY <1>1, <1>4, <2>1 DEF Local, Reads, Works, SameRow, past
    <3> QED BY <1>6, <3>1, Stays DEF Local
  <2>2. CASE on[v] = o
    <3>1. Drafts(v)'
      BY <1>6, Unmoved DEF Local
    <3>2. Reads(v)'
      <4> SUFFICES ASSUME HasRead(v)' PROVE Reads(v)'
        BY DEF Reads
      <4>1. Reads(v) /\ HasRead(v)
        BY <1>6 DEF Local
      <4>2. op'[o].status # "none" /\ ~op'[o].live /\ op'[o].version = op[o].version
        BY <1>2, <1>3, <1>4
      <4>3. charged' = charged
        BY <1>1 DEF past
      <4>4. seen[v].version = op[o].version =>
              \/ op'[o].status = "expired"
              \/ op'[o].status = seen[v].status /\ op'[o].item = seen[v].item
        BY <1>3, <1>4, <2>2, <4>1 DEF Reads
      <4> QED BY <1>6, <2>2, <4>1, <4>2, <4>3, <4>4 DEF Reads, HasRead, SameLocal, Uncharged
    <3>3. Works(v)'
      <4> SUFFICES ASSUME AtWork(v)' PROVE Works(v)'
        BY DEF Works
      <4>1. Works(v) /\ AtWork(v)
        BY <1>6 DEF Local
      <4>2. /\ op'[o].status \in {"running", "expired"} /\ op'[o].version = op[o].version
            /\ \/ op'[o].item = Written(v)
               \/ op'[o].item = NoData /\ op'[o].status = "expired"
        BY <1>3, <1>4, <2>2, <4>1 DEF Works
      <4>3. charged' = charged /\ usage' = usage /\ calls' = calls /\ Written(v)' = Written(v)
        BY <1>1, <1>6 DEF past, SameLocal, Written
      <4> QED BY <1>6, <2>2, <4>1, <4>2, <4>3 DEF Works, AtWork, SameLocal, Uncharged, Ledger
    <3> QED BY <3>1, <3>2, <3>3
  <2> QED BY <2>1, <2>2
<1>10. Behind' /\ OneAtWork'
  <2>1. \A q \in Operations : op'[q].version = op[q].version
    BY <1>3, <1>4
  <2>2. \A v \in Requests : HasRead(v) => on[v] \in Operations
    BY DEF Local, Reads
  <2>3. Behind'
    BY <1>6, <2>1, <2>2 DEF Behind, SameLocal
  <2> QED BY <1>6, <2>3 DEF OneAtWork, SameLocal
<1>11. Stored'
  <2> SUFFICES ASSUME NEW q \in Operations PROVE Made(q)'
    BY DEF Stored
  <2>1. Made(q)
    BY Stored1
  <2>2. CASE q = o
    BY <1>1, <1>2, <1>3, <1>4, <1>7, <2>1, <2>2 DEF Made, Uncharged, With, past
  <2>3. CASE q # o
    BY <1>1, <1>4, <2>1, <2>3 DEF Made, Uncharged, With, past
  <2> QED BY <2>2, <2>3
<1>12. ChargedOnce'
  <2>1. charged' = charged /\ usage' = usage /\ calls' = calls /\ losses' = losses
    BY <1>1 DEF past
  <2>2. \A v \in Requests : pc'[v] = pc[v] /\ on'[v] = on[v] /\ Number(v)' = Number(v)
    BY <1>6 DEF SameLocal
  <2> QED BY <2>1, <2>2 DEF ChargedOnce
<1>14. Held'
  <2>1. gate' = gate /\ overrun' = overrun
    BY <1>1
  <2> QED BY <1>6, <2>1 DEF Held
<1>15. Stands
  <2> SUFFICES ASSUME NEW q \in Operations PROVE Stand(q)
    BY DEF Stands
  <2> QED BY <1>3, <1>4 DEF Stand
<1> QED BY <1>8, <1>9, <1>10, <1>11, <1>12, <1>14, <1>15

-----------------------------------------------------------------------------
(* The page.  A copy of the operation never has more than the row: what it has of  *)
(* a prospect the row has too, and a lookup it would still make is open there or   *)
(* has brought its numbers.  Whoever is at work holds the row's own.               *)

NoMore(r, o) ==
  /\ \A i \in Items : r.prospect[i] \ {"failed"} \subseteq op[o].prospect[i]
  /\ \A job \in r.jobs :
       job \in op[o].jobs \/ \A i \in job \cap Listed : "number" \in op[o].prospect[i]
Matches(r, o) == r.prospect = op[o].prospect /\ r.jobs = op[o].jobs

Knows(w) == HasRead(w) /\ op[on[w]].live =>
  /\ NoMore(seen[w], on[w])
  /\ seen[w].version = op[on[w]].version => Matches(seen[w], on[w])
Carries(w) == AtWork(w) /\ op[on[w]].live =>
  IF pc[w] = "book"
    THEN /\ \A i \in Items : op[on[w]].prospect[i] \ {"failed"} \subseteq seen[w].prospect[i]
         /\ op[on[w]].jobs \subseteq seen[w].jobs
    ELSE Matches(seen[w], on[w])
Shows(o) == op[o].live => \A i \in Items :
  LET more == page[o][i] \ op[o].prospect[i]
  IN  /\ "number" \in more => \E job \in op[o].jobs : i \in job
      /\ "answer" \in more => "failed" \in page[o][i]
Blank(o) == op[o].status = "none" => page[o] = Bare
PageInv == /\ \A w \in Requests : Knows(w) /\ Carries(w)
           /\ \A o \in Operations : Shows(o) /\ Blank(o)

\* What a step makes of the row, for those who hold a copy.
Kept(o) == /\ op'[o].version = op[o].version
           /\ op'[o].prospect = op[o].prospect /\ op'[o].jobs = op[o].jobs
Grows(o) ==
  /\ \A i \in Items : op[o].prospect[i] \ {"failed"} \subseteq op'[o].prospect[i]
  /\ \A job \in op[o].jobs :
       job \in op'[o].jobs \/ \A i \in job \cap Listed : "number" \in op'[o].prospect[i]
Overtakes(v, o) == op'[o].live =>
  /\ op[o].live
  /\ Kept(o) \/ (HasRead(v) /\ seen[v].version < op'[o].version /\ Grows(o))

LEMMA PageInitInv == Init => PageInv
<1> SUFFICES ASSUME Init PROVE PageInv
  OBVIOUS
<1>1. \A w \in Requests : Knows(w) /\ Carries(w)
  BY DEF Init, Knows, Carries, HasRead, AtWork
<1>2. \A o \in Operations : Shows(o) /\ Blank(o)
  BY DEF Init, Shows, Blank, NoRow
<1> QED BY <1>1, <1>2 DEF PageInv

LEMMA CopyStays ==
  ASSUME ProspectingInv, TypeOK', NEW v \in Requests, SameLocal(v), Knows(v), Carries(v),
         HasRead(v) \/ AtWork(v) => Overtakes(v, on[v])
  PROVE  Knows(v)' /\ Carries(v)'
<1>1. /\ HasRead(v)' = HasRead(v) /\ AtWork(v)' = AtWork(v)
      /\ pc'[v] = pc[v] /\ on'[v] = on[v] /\ seen'[v] = seen[v]
  BY Unmoved DEF SameLocal
<1>2. HasRead(v) \/ AtWork(v) => on[v] \in Operations
  BY DEF ProspectingInv, Local, Reads, Works
<1>3. CASE ~((HasRead(v) \/ AtWork(v)) /\ op'[on[v]].live)
  BY <1>1, <1>3 DEF Knows, Carries
<1>4. CASE (HasRead(v) \/ AtWork(v)) /\ op'[on[v]].live
  <2> DEFINE o == on[v]
  <2>1. o \in Operations /\ op[o].live /\ Overtakes(v, o)
    BY <1>2, <1>4 DEF Overtakes
  <2>2. CASE Kept(o)
    BY <1>1, <2>1, <2>2 DEF Kept, Knows, Carries, NoMore, Matches
  <2>3. CASE HasRead(v) /\ seen[v].version < op'[o].version /\ Grows(o)
    <3>1. NoMore(seen[v], o)
      BY <2>1, <2>3 DEF Knows
    <3>2. seen[v] \in Row /\ op'[o].version \in Nat /\ seen[v].version \in Nat
      BY <2>1 DEF ProspectingInv, TypeOK, Row
    <3>3. \A i \in Items : seen[v].prospect[i] \ {"failed"} \subseteq op'[o].prospect[i]
      BY <2>3, <3>1 DEF Grows, NoMore
    <3>4. ASSUME NEW job \in seen[v].jobs
          PROVE  job \in op'[o].jobs \/ \A i \in job \cap Listed : "number" \in op'[o].prospect[i]
      <4>1. \A i \in job : i \in Items
        BY <3>2 DEF Row
      <4>2. CASE job \in op[o].jobs
        BY <2>3, <4>2 DEF Grows
      <4>3. CASE \A i \in job \cap Listed : "number" \in op[o].prospect[i]
        BY <2>3, <4>1, <4>3 DEF Grows
      <4> QED BY <3>1, <4>2, <4>3 DEF NoMore
    <3>5. Knows(v)'
      BY <1>1, <2>3, <3>2, <3>3, <3>4 DEF Knows, NoMore
    <3>6. ~AtWork(v)
      BY <2>3 DEF HasRead, AtWork
    <3> QED BY <1>1, <3>5, <3>6 DEF Carries
  <2> QED BY <2>1, <2>2, <2>3, <1>4 DEF Overtakes
<1> QED BY <1>3, <1>4

LEMMA PageMoves ==
  ASSUME ProspectingInv, TypeOK', PageInv, NEW o \in Operations,
         \A q \in Operations \ {o} : op'[q] = op[q] /\ page'[q] = page[q],
         \A v \in Requests :
           \/ Knows(v)' /\ Carries(v)'
           \/ SameLocal(v) /\ (HasRead(v) \/ AtWork(v) => on[v] # o \/ Overtakes(v, o)),
         Shows(o)', Blank(o)'
  PROVE  PageInv'
<1>1. ASSUME NEW q \in Operations PROVE Shows(q)' /\ Blank(q)'
  <2>1. CASE q = o
    BY <2>1
  <2>2. CASE q # o
    <3>1. op'[q] = op[q] /\ page'[q] = page[q] /\ Shows(q) /\ Blank(q)
      BY <2>2 DEF PageInv
    <3> QED BY <3>1 DEF Shows, Blank
  <2> QED BY <2>1, <2>2
<1>2. ASSUME NEW v \in Requests, SameLocal(v),
             HasRead(v) \/ AtWork(v) => on[v] # o \/ Overtakes(v, o)
      PROVE  Knows(v)' /\ Carries(v)'
  <2>1. HasRead(v) \/ AtWork(v) => on[v] \in Operations
    BY DEF ProspectingInv, Local, Reads, Works
  <2>2. HasRead(v) \/ AtWork(v) => Overtakes(v, on[v])
    BY <1>2, <2>1 DEF Overtakes, Kept
  <2>3. Knows(v) /\ Carries(v)
    BY DEF PageInv
  <2> QED BY <1>2, <2>2, <2>3, CopyStays
<1> QED BY <1>1, <1>2 DEF PageInv

\* Most steps leave the rows and the pages alone.
LEMMA PageStays ==
  ASSUME ProspectingInv, TypeOK', PageInv, op' = op, page' = page,
         \A v \in Requests : SameLocal(v) \/ (Knows(v)' /\ Carries(v)')
  PROVE  PageInv'
<1>1. \A q \in Operations : Shows(q)' /\ Blank(q)'
  BY DEF PageInv, Shows, Blank
<1>2. ASSUME NEW v \in Requests, SameLocal(v) PROVE Knows(v)' /\ Carries(v)'
  BY <1>2, CopyStays DEF PageInv, Overtakes, Kept
<1> QED BY <1>1, <1>2 DEF PageInv

\* A request that ends or only drafts holds nothing.
LEMMA PageEnds ==
  ASSUME ProspectingInv, TypeOK', PageInv, op' = op, page' = page,
         NEW w \in Requests, Others(w), ~HasRead(w)', ~AtWork(w)'
  PROVE  PageInv'
<1>1. Knows(w)' /\ Carries(w)'
  BY DEF Knows, Carries
<1> QED BY <1>1, PageStays DEF Others

\* One that goes on keeps its copy.
LEMMA PageGoesOn ==
  ASSUME ProspectingInv, TypeOK', PageInv, UNCHANGED <<op, page, on, seen>>,
         NEW w \in Requests, Others(w), HasRead(w)' => HasRead(w), AtWork(w)' => AtWork(w),
         pc[w] # "book", pc'[w] # "book"
  PROVE  PageInv'
<1>1. Knows(w) /\ Carries(w)
  BY DEF PageInv
<1>2. Knows(w)' /\ Carries(w)'
  BY <1>1 DEF Knows, Carries, NoMore, Matches
<1> QED BY <1>2, PageStays DEF Others

LEMMA PageAsks ==
  ASSUME ProspectingInv, TypeOK', PageInv, NEW w \in Requests, NEW o \in Operations, Asks(w, o)
  PROVE  PageInv'
<1> DEFINE Read == \E c \in {"none", "advance", "poll"}, l \in {"gate", "claim"} :
                     Ask(w, o, c, op[o], l)
           Draws == \E x, c, r : Ask(w, x, c, r, "insert")
<1>1. Read \/ Draws \/ \E new \in Operations : AskRetry(w, o, new)
  BY DEF Asks, AskPrepare, AskAdvance, AskPoll
<1>2. CASE Read
  <2>1. /\ op' = op /\ page' = page
        /\ Others(w) /\ pc'[w] \in {"gate", "claim"} /\ on'[w] = o /\ seen'[w] = op[o]
    BY <1>2 DEF Ask, Goto, rows, Others, SameLocal, ProspectingInv, TypeOK
  <2>2. Knows(w)' /\ Carries(w)'
    BY <2>1 DEF Knows, Carries, AtWork, NoMore, Matches
  <2> QED BY <2>1, <2>2, PageStays DEF Others
<1>3. CASE Draws
  <2>1. op' = op /\ page' = page /\ Others(w) /\ pc'[w] = "insert"
    BY <1>3 DEF Ask, Goto, rows, Others, SameLocal, ProspectingInv, TypeOK
  <2> QED BY <2>1, PageEnds DEF HasRead, AtWork
<1>4. ASSUME NEW new \in Operations, AskRetry(w, o, new) PROVE PageInv'
  <2>1. op' = op /\ page' = page /\ Others(w) /\ pc'[w] = "insert"
    BY <1>4 DEF AskRetry, Goto, rows, Others, SameLocal, ProspectingInv, TypeOK
  <2> QED BY <2>1, PageEnds DEF HasRead, AtWork
<1> QED BY <1>1, <1>2, <1>3, <1>4

LEMMA PageQuiet ==
  ASSUME ProspectingInv, TypeOK', PageInv, NEW w \in Requests,
         \/ TakeGate(w) \/ Release(w) \/ Reserve(w) \/ Call(w) \/ PollFails(w) \/ Lose(w)
         \/ (Insert(w) /\ op' = op) \/ (Claim(w) /\ ~Claimable(w))
  PROVE  PageInv'
<1>0. op' = op /\ page' = page /\ TypeOK
  BY DEF TakeGate, Release, Reserve, Call, PollFails, Lose, Insert, Claim, rows, ProspectingInv
<1>1. CASE Answer(w)
  <2>1. Others(w) /\ ~HasRead(w)' /\ ~AtWork(w)'
    BY <1>0, <1>1, Ended DEF HasRead, AtWork
  <2> QED BY <1>0, <2>1, PageEnds
<1>2. CASE Finish(w)
  <2>1. Others(w) /\ ~HasRead(w)' /\ ~AtWork(w)'
    BY <1>0, <1>2, Finished DEF HasRead, AtWork
  <2> QED BY <1>0, <2>1, PageEnds
<1>3. CASE PollFails(w)
  <2>1. Others(w) /\ pc'[w] = "release"
    BY <1>0, <1>3, GoneTo DEF PollFails, Labels
  <2> QED BY <1>0, <2>1, PageEnds DEF HasRead, AtWork
<1>4. CASE TakeGate(w) /\ gate.lease = "free"
  <2>1. /\ pc[w] = "gate" /\ UNCHANGED <<on, cmd, from, seen, chunk, overrun>>
        /\ Goto(w, IF cmd[w] = "advance" THEN "claim" ELSE "ask")
    BY <1>4 DEF TakeGate
  <2>2. Others(w) /\ pc'[w] \in {"claim", "ask"}
    BY <1>0, <2>1, GoneTo DEF Labels
  <2> QED BY <1>0, <2>1, <2>2, PageGoesOn DEF HasRead, AtWork
<1>5. CASE \/ pc[w] = "reserve" /\ Goto(w, "call")
           \/ pc[w] = "call" /\ Goto(w, "answer")
  <2>1. CASE UNCHANGED <<on, cmd, from, seen, chunk, overrun>>
    <3>1. Others(w) /\ pc'[w] \in {"call", "answer"}
      BY <1>0, <1>5, <2>1, GoneTo DEF Labels
    <3> QED BY <1>0, <1>5, <2>1, <3>1, PageGoesOn DEF HasRead, AtWork
  <2>2. CASE ~ UNCHANGED <<on, cmd, from, seen, chunk, overrun>>
    BY <1>1, <1>2, <1>5, <2>2 DEF TakeGate, Release, Reserve, Call, PollFails, Lose, Insert, Claim
  <2> QED BY <2>1, <2>2
<1> QED BY <1>1, <1>2, <1>3, <1>4, <1>5
        DEF TakeGate, Release, Reserve, Call, PollFails, Lose, Insert, Claim

LEMMA PageInsert ==
  ASSUME ProspectingInv, TypeOK', PageInv, NEW w \in Requests, Insert(w)
  PROVE  PageInv'
<1>1. CASE op' = op
  BY <1>1, PageQuiet
<1>2. CASE op' # op
  <2>1. PICK o \in Operations, S \in SUBSET Items : o = on[w] /\ seen[w] = Draft(S)
    BY DEF Insert, ProspectingInv, Local, Drafts
  <2>2. /\ op[o].status = "none" /\ op' = [op EXCEPT ![o] = Draft(S)] /\ page' = page
        /\ op'[o] = Draft(S) /\ Answer(w) /\ TypeOK
    BY <1>2, <2>1 DEF Insert, ProspectingInv, TypeOK
  <2>3. Others(w) /\ Knows(w)' /\ Carries(w)'
    BY <2>2, Ended DEF Knows, Carries, HasRead, AtWork
  <2>4. page[o] = Bare /\ op'[o].status = "prepared"
    BY <2>2, Drafted DEF PageInv, Blank
  <2>5. Shows(o)' /\ Blank(o)'
    BY <2>2, <2>4 DEF Shows, Blank, Bare
  <2>6. \A v \in Requests : HasRead(v) \/ AtWork(v) => on[v] # o
    BY <2>2 DEF ProspectingInv, Local, Reads, Works
  <2>7. \A q \in Operations \ {o} : op'[q] = op[q] /\ page'[q] = page[q]
    BY <2>2
  <2> QED BY <2>3, <2>5, <2>6, <2>7, PageMoves DEF Others
<1> QED BY <1>1, <1>2

LEMMA PageClaim ==
  ASSUME ProspectingInv, TypeOK', PageInv, NEW w \in Requests, Claim(w)
  PROVE  PageInv'
<1>1. CASE ~Claimable(w)
  BY <1>1, PageQuiet
<1>2. CASE Claimable(w)
  <2>1. PICK o \in Operations : o = on[w]
    BY DEF Claim, ProspectingInv, Local, Reads, HasRead
  <2> DEFINE v == seen[w].version
  <2>2. /\ op[o] \in Row /\ seen[w] \in Row /\ v \in Nat /\ op[o].version = v
        /\ HasRead(w) /\ pc[w] = "claim" /\ op[o].status # "none"
    BY <1>2, <2>1 DEF Claim, Claimable, ProspectingInv, Local, Reads, HasRead, TypeOK, Row
  <2>3. /\ op' = [op EXCEPT ![o] = [op[o] EXCEPT !.status = "running", !.version = v + 1]]
        /\ seen' = [seen EXCEPT ![w] = [seen[w] EXCEPT !.version = v + 1]]
        /\ pc' = [pc EXCEPT ![w] = "mark"] /\ UNCHANGED <<on, cmd, chunk>> /\ page' = page
    BY <1>2, <2>1 DEF Claim, Goto
  <2>4. /\ op'[o].status = "running" /\ op'[o].version = v + 1 /\ op'[o].live = op[o].live
        /\ op'[o].prospect = op[o].prospect /\ op'[o].jobs = op[o].jobs
        /\ \A p \in Operations \ {o} : op'[p] = op[p]
    <3> DEFINE r2 == [op[o] EXCEPT !.status = "running", !.version = v + 1]
    <3>1. /\ r2.status = "running" /\ r2.version = v + 1 /\ r2.live = op[o].live
          /\ r2.prospect = op[o].prospect /\ r2.jobs = op[o].jobs
      BY <2>2, Claimed
    <3> HIDE DEF r2
    <3>2. op' = [op EXCEPT ![o] = r2] /\ op \in [Operations -> Row]
      BY <2>3 DEF ProspectingInv, TypeOK, r2
    <3> QED BY <3>1, <3>2
  <2>5. /\ Others(w) /\ pc'[w] = "mark" /\ on'[w] = o
        /\ seen'[w].prospect = seen[w].prospect /\ seen'[w].jobs = seen[w].jobs
    BY <2>1, <2>2, <2>3 DEF ProspectingInv, TypeOK, Others, SameLocal, Row
  <2>6. op[o].live => Matches(seen[w], o)
    BY <2>1, <2>2 DEF PageInv, Knows
  <2>7. Knows(w)' /\ Carries(w)'
    BY <2>4, <2>5, <2>6 DEF Knows, Carries, HasRead, Matches
  <2>8. Shows(o)' /\ Blank(o)'
    BY <2>3, <2>4 DEF PageInv, Shows, Blank
  <2>9. ASSUME NEW u \in Requests \ {w}, HasRead(u) \/ AtWork(u), on[u] = o
        PROVE  Overtakes(u, o)
    <3>1. HasRead(u)
      BY <2>1, <2>2, <2>9, Alone
    <3>2. seen[u].version <= v /\ seen[u].version \in Nat
      BY <2>2, <2>9, <3>1 DEF ProspectingInv, Local, Reads, TypeOK, Row
    <3>3. Grows(o)
      BY <2>4 DEF Grows
    <3> QED BY <2>2, <2>4, <3>1, <3>2, <3>3 DEF Overtakes
  <2> QED BY <2>3, <2>4, <2>5, <2>7, <2>8, <2>9, PageMoves DEF Others
<1> QED BY <1>1, <1>2

LEMMA PageMark ==
  ASSUME ProspectingInv, TypeOK', PageInv, NEW w \in Requests, Mark(w)
  PROVE  PageInv'
<1>1. pc[w] = "mark" /\ page' = page /\ UNCHANGED <<on, cmd>> /\ Goto(w, "reserve") /\ AtWork(w)
  BY DEF Mark, AtWork
<1>2. PICK o \in Operations : o = on[w]
  BY <1>1, Alone
<1>3. /\ op[o] \in Row /\ seen[w] \in Row
      /\ \A v \in Requests \ {w} : AtWork(v) => on[v] # o
  BY <1>1, <1>2, Alone
<1>4. PICK S \in SUBSET Items :
        LET g == Give(seen[w], S, "running")
        IN  /\ op' = [op EXCEPT ![o].item = g.item, ![o].prospect = g.prospect, ![o].jobs = g.jobs]
            /\ seen' = [seen EXCEPT ![w] = g] /\ chunk' = [chunk EXCEPT ![w] = S]
  BY <1>2 DEF Mark, Data, Chunks, With
<1> DEFINE g == Give(seen[w], S, "running")
           x == [op[o] EXCEPT !.item = g.item, !.prospect = g.prospect, !.jobs = g.jobs]
<1>5. g \in Row /\ g.prospect = seen[w].prospect /\ g.jobs = seen[w].jobs
  BY <1>3, Given DEF ItemStates, Outcomes
<1>6. op' = [op EXCEPT ![o] = x] /\ seen' = [seen EXCEPT ![w] = g]
  <2> HIDE DEF g
  <2>1. [op EXCEPT ![o].item = g.item, ![o].prospect = g.prospect, ![o].jobs = g.jobs]
          = [op EXCEPT ![o] = x]
    OBVIOUS
  <2> QED BY <1>4, <2>1 DEF g
<1> HIDE DEF g
<1>7. /\ Filled(x, op[o], g) /\ x.status = op[o].status /\ x.version = op[o].version
  BY <1>3, <1>5, Refilled
<1> HIDE DEF x
<1>8. /\ op'[o] = x /\ seen'[w] = g /\ \A q \in Operations \ {o} : op'[q] = op[q]
      /\ pc'[w] = "reserve" /\ on'[w] = o /\ Others(w)
  BY <1>1, <1>2, <1>4, <1>6 DEF ProspectingInv, TypeOK, Goto, Others, SameLocal
<1>9. op[o].live => Matches(seen[w], o)
  BY <1>1, <1>2 DEF PageInv, Carries
<1>10. op[o].live => Kept(o)
  BY <1>5, <1>7, <1>8, <1>9 DEF Kept, Matches, Filled
<1>11. Knows(w)' /\ Carries(w)'
  BY <1>7, <1>8 DEF Knows, Carries, HasRead, Matches, Filled
<1>12. Shows(o)' /\ Blank(o)'
  BY <1>1, <1>7, <1>8, <1>10 DEF PageInv, Shows, Blank, Kept, Filled
<1>13. \A u \in Requests : on[u] = o => Overtakes(u, o)
  BY <1>7, <1>8, <1>10 DEF Overtakes, Filled
<1> QED BY <1>1, <1>8, <1>11, <1>12, <1>13, PageMoves DEF Others

\* An operation only gains what its chunk or its lookup brought: no copy of it has more.
LEMMA GrownOver ==
  ASSUME ProspectingInv, NEW w \in Requests, AtWork(w), NEW o \in Operations, o = on[w],
         op'[o].version = op[o].version, op'[o].live = op[o].live, op[o].live => Grows(o)
  PROVE  \A u \in Requests \ {w} : (HasRead(u) \/ AtWork(u)) /\ on[u] = o => Overtakes(u, o)
  BY Alone DEF Overtakes

LEMMA PageSettle ==
  ASSUME ProspectingInv, TypeOK', PageInv, NEW w \in Requests, Settle(w)
  PROVE  PageInv'
<1>1. pc[w] = "answer" /\ Finish(w) /\ AtWork(w) /\ TypeOK
  BY DEF Settle, AtWork, ProspectingInv
<1>2. PICK o \in Operations : o = on[w]
  BY <1>1, Alone
<1>3. op[o] \in Row /\ seen[w] \in Row /\ chunk[w] \in SUBSET Items /\ op[o].status # "none"
  BY <1>1, <1>2, WorkedOn
<1>4. PICK c \in Answers(w) :
        /\ op' = [op EXCEPT ![o].item = c.item, ![o].prospect = c.prospect,
                            ![o].jobs = c.jobs, ![o].status = AfterCall(c)]
        /\ page' = [page EXCEPT ![o] = c.prospect]
  BY <1>2 DEF Settle
<1> DEFINE g == [c EXCEPT !.status = AfterCall(c)]
           x == [op[o] EXCEPT !.item = g.item, !.prospect = g.prospect, !.jobs = g.jobs,
                              !.status = g.status]
<1>5. /\ c \in Row /\ seen[w].jobs \subseteq c.jobs
      /\ \A i \in Items : seen[w].prospect[i] \ {"failed"} \subseteq c.prospect[i]
  <2>1. /\ c \in Row /\ seen[w].jobs \subseteq c.jobs
        /\ \A i \in Items : /\ "number" \in c.prospect[i] <=> "number" \in seen[w].prospect[i]
                            /\ "answer" \in seen[w].prospect[i] => "answer" \in c.prospect[i]
    BY <1>3, AnswersRow
  <2>2. \A i \in Items : seen[w].prospect[i] \in SUBSET Tags
    BY <1>3 DEF Row
  <2> QED BY <2>1, <2>2 DEF Tags
<1>6. /\ g \in Row /\ g.status = AfterCall(c) /\ g.status \in {"paused", "completed"}
      /\ g.item = c.item /\ g.prospect = c.prospect /\ g.jobs = c.jobs
  BY <1>5 DEF Row, Statuses, AfterCall
<1> HIDE DEF g
<1>7. op' = [op EXCEPT ![o] = x]
  <2>1. [op EXCEPT ![o].item = g.item, ![o].prospect = g.prospect, ![o].jobs = g.jobs,
                   ![o].status = g.status] = [op EXCEPT ![o] = x]
    OBVIOUS
  <2> QED BY <1>4, <1>6, <2>1
<1>8. Filled(x, op[o], g) /\ x.status = g.status /\ x.version = op[o].version
  BY <1>3, <1>6, Refilled
<1> HIDE DEF x
<1>9. /\ op'[o].version = op[o].version /\ op'[o].live = op[o].live /\ op'[o].status # "none"
      /\ op'[o].prospect = c.prospect /\ op'[o].jobs = c.jobs /\ page'[o] = c.prospect
      /\ \A q \in Operations \ {o} : op'[q] = op[q] /\ page'[q] = page[q]
  BY <1>1, <1>4, <1>6, <1>7, <1>8 DEF TypeOK, Filled
<1>10. op[o].live => Grows(o)
  BY <1>1, <1>2, <1>5, <1>9 DEF PageInv, Carries, Matches, Grows
<1>11. Others(w) /\ Knows(w)' /\ Carries(w)'
  BY <1>1, Finished DEF Knows, Carries, HasRead, AtWork
<1>12. Shows(o)' /\ Blank(o)'
  BY <1>9 DEF Shows, Blank
<1> QED BY <1>1, <1>2, <1>9, <1>10, <1>11, <1>12, GrownOver, PageMoves DEF Others

LEMMA PageBook ==
  ASSUME ProspectingInv, TypeOK', PageInv, NEW w \in Requests, Book(w)
  PROVE  PageInv'
<1>1. pc[w] = "book" /\ Finish(w) /\ AtWork(w) /\ TypeOK /\ page' = page
  BY DEF Book, AtWork, ProspectingInv
<1>2. PICK o \in Operations : o = on[w]
  BY <1>1, Alone
<1> DEFINE g == seen[w]
           x == [op[o] EXCEPT !.item = g.item, !.prospect = g.prospect, !.jobs = g.jobs,
                              !.status = g.status]
<1>3. op[o] \in Row /\ g \in Row /\ g.status \in {"failed", "unknown"}
  BY <1>1, <1>2, WorkedOn DEF ProspectingInv, Local, Works
<1>4. op' = [op EXCEPT ![o] = x]
  BY <1>2 DEF Book
<1>5. Filled(x, op[o], g) /\ x.status = g.status /\ x.version = op[o].version
  <2> HIDE DEF g
  <2> QED BY <1>3, Refilled
<1> HIDE DEF x
<1>6. /\ op'[o].version = op[o].version /\ op'[o].live = op[o].live /\ op'[o].status # "none"
      /\ op'[o].prospect = g.prospect /\ op'[o].jobs = g.jobs
      /\ \A q \in Operations \ {o} : op'[q] = op[q] /\ page'[q] = page[q]
  BY <1>1, <1>3, <1>4, <1>5 DEF TypeOK, Filled
<1>7. op[o].live => Grows(o)
  BY <1>1, <1>2, <1>6 DEF PageInv, Carries, Grows
<1>8. Others(w) /\ Knows(w)' /\ Carries(w)'
  BY <1>1, Finished DEF Knows, Carries, HasRead, AtWork
<1>9. Shows(o)' /\ Blank(o)'
  <2>1. op[o].live => /\ \A i \in Items : op[o].prospect[i] \ {"failed"} \subseteq op'[o].prospect[i]
                      /\ op[o].jobs \subseteq op'[o].jobs
    BY <1>1, <1>2, <1>6 DEF PageInv, Carries
  <2> QED BY <1>1, <1>6, <2>1 DEF PageInv, Shows, Blank
<1> QED BY <1>1, <1>2, <1>6, <1>7, <1>8, <1>9, GrownOver, PageMoves DEF Others

LEMMA PageFail ==
  ASSUME ProspectingInv, TypeOK', PageInv, NEW w \in Requests, Fail(w)
  PROVE  PageInv'
<1>1. /\ pc[w] = "answer" /\ Goto(w, "book") /\ AtWork(w) /\ TypeOK
      /\ UNCHANGED <<op, on, cmd, chunk>>
  BY DEF Fail, AtWork, ProspectingInv
<1>2. PICK o \in Operations : o = on[w]
  BY <1>1, Alone
<1>3. seen[w] \in Row /\ chunk[w] \in SUBSET Items /\ op[o].status # "none"
  BY <1>1, <1>2, WorkedOn
<1>4. PICK a \in {seen[w]} \cup Answers(w), s \in {"failed", "unknown"} :
        /\ seen' = [seen EXCEPT ![w] =
                      [Spoil(Give(a, chunk[w], s), chunk[w]) EXCEPT !.status = s]]
        /\ page' = IF IsSearch(a) THEN page
                   ELSE [page EXCEPT ![o] = Spoil(a, chunk[w]).prospect]
  BY <1>2 DEF Fail
<1>5. /\ a \in Row /\ seen[w].jobs \subseteq a.jobs
      /\ \A i \in Items :
           /\ "number" \in a.prospect[i] <=> "number" \in seen[w].prospect[i]
           /\ "answer" \in seen[w].prospect[i] => "answer" \in a.prospect[i]
           /\ "answer" \in a.prospect[i] => "answer" \in seen[w].prospect[i] \/ i \in chunk[w]
  BY <1>3, AnswersRow
<1> DEFINE g == Give(a, chunk[w], s)
           h == Spoil(g, chunk[w])
           r == [h EXCEPT !.status = s]
           d == Spoil(a, chunk[w])
<1>6. g \in Row /\ g.prospect = a.prospect /\ g.jobs = a.jobs
  BY <1>3, <1>5, Given DEF ItemStates, Outcomes
<1> HIDE DEF g
<1>7. /\ h \in Row /\ h.jobs = a.jobs
      /\ \A i \in Items : a.prospect[i] \subseteq h.prospect[i]
  <2>1. /\ h \in Row /\ h.jobs = g.jobs
        /\ \A i \in Items : h.prospect[i] = (IF i \in chunk[w] THEN g.prospect[i] \cup {"failed"}
                                             ELSE g.prospect[i])
    BY <1>3, <1>6, Spoiled
  <2> HIDE DEF h
  <2> QED BY <1>6, <2>1
<1>8. \A i \in Items : d.prospect[i] = (IF i \in chunk[w] THEN a.prospect[i] \cup {"failed"}
                                        ELSE a.prospect[i])
  BY <1>3, <1>5, Spoiled
<1> HIDE DEF h, d
<1>9. r.prospect = h.prospect /\ r.jobs = h.jobs
  BY <1>7 DEF Row
<1>10. seen' = [seen EXCEPT ![w] = r]
  BY <1>4 DEF g, h
<1> HIDE DEF r
<1>11. pc'[w] = "book" /\ seen'[w] = r /\ on'[w] = o /\ Others(w)
  BY <1>1, <1>2, <1>10 DEF TypeOK, Others, SameLocal, Goto
<1>12. op[o].live => Matches(seen[w], o)
  BY <1>1, <1>2 DEF PageInv, Carries
<1>13. Knows(w)'
  BY <1>11 DEF Knows, HasRead
<1>14. Carries(w)'
  <2> SUFFICES ASSUME op[o].live
               PROVE  /\ \A i \in Items : op[o].prospect[i] \ {"failed"} \subseteq r.prospect[i]
                      /\ op[o].jobs \subseteq r.jobs
    BY <1>1, <1>11 DEF Carries
  <2>1. \A i \in Items : op[o].prospect[i] \in SUBSET Tags
    BY <1>1 DEF TypeOK, Row
  <2>2. \A i \in Items : op[o].prospect[i] \ {"failed"} \subseteq a.prospect[i]
    BY <1>5, <1>12, <2>1 DEF Matches, Tags
  <2> QED BY <1>5, <1>7, <1>9, <1>12, <2>2 DEF Matches
<1>15. Shows(o)' /\ Blank(o)'
  <2>1. CASE IsSearch(a)
    BY <1>1, <1>4, <2>1 DEF PageInv, Shows, Blank
  <2>2. CASE ~IsSearch(a)
    <3>1. page'[o] = d.prospect
      BY <1>1, <1>4, <2>2 DEF TypeOK, d
    <3>2. ASSUME op[o].live, NEW i \in Items
          PROVE  /\ "number" \in d.prospect[i] => "number" \in op[o].prospect[i]
                 /\ "answer" \in d.prospect[i] =>
                      "answer" \in op[o].prospect[i] \/ "failed" \in d.prospect[i]
      <4>1. seen[w].prospect = op[o].prospect
        BY <1>12, <3>2 DEF Matches
      <4>2. CASE i \in chunk[w]
        <5>1. d.prospect[i] = a.prospect[i] \cup {"failed"}
          BY <1>8, <4>2
        <5> QED BY <1>5, <4>1, <5>1
      <4>3. CASE i \notin chunk[w]
        <5>1. d.prospect[i] = a.prospect[i]
          BY <1>8, <4>3
        <5> QED BY <1>5, <4>1, <4>3, <5>1
      <4> QED BY <4>2, <4>3
    <3> QED BY <1>1, <1>3, <3>1, <3>2 DEF Shows, Blank
  <2> QED BY <2>1, <2>2
<1>16. \A u \in Requests : Overtakes(u, o)
  BY <1>1 DEF Overtakes, Kept
<1>17. \A q \in Operations \ {o} : op'[q] = op[q] /\ page'[q] = page[q]
  BY <1>1, <1>4
<1> QED BY <1>11, <1>13, <1>14, <1>15, <1>16, <1>17, PageMoves DEF Others

LEMMA PagePoll ==
  ASSUME ProspectingInv, TypeOK', PageInv, NEW w \in Requests, Poll(w)
  PROVE  PageInv'
<1>1. pc[w] = "ask" /\ HasRead(w) /\ Goto(w, "release") /\ UNCHANGED <<on, cmd, seen, chunk>>
  BY DEF Poll, HasRead
<1>2. PICK o \in Operations : o = on[w]
  BY <1>1 DEF ProspectingInv, Local, Reads
<1> DEFINE r == seen[w]
<1>3. /\ r \in Row /\ op[o] \in Row /\ r.version \in Nat /\ op[o].status # "none" /\ TypeOK
      /\ op[o].live => op[o].status # "expired"
  BY <1>1, <1>2 DEF ProspectingInv, Local, Reads, Stored, Made, TypeOK, Row
<1>4. PICK job \in r.jobs, done \in BOOLEAN :
        LET a == LookedUp(r, job, done)
        IN  /\ op' = IF Current(w)
                       THEN [op EXCEPT ![o].item = a.item, ![o].prospect = a.prospect,
                                       ![o].jobs = a.jobs, ![o].version = r.version + 1]
                       ELSE op
            /\ page' = IF op[o].status = "expired" THEN page ELSE [page EXCEPT ![o] = a.prospect]
  BY <1>2 DEF Poll
<1> DEFINE a == LookedUp(r, job, done)
<1>5. /\ a \in Row /\ r.jobs \ {job} \subseteq a.jobs
      /\ job \notin a.jobs => \A i \in job \cap Listed : "number" \in a.prospect[i]
      /\ \A i \in Items :
           /\ "answer" \in a.prospect[i] <=> "answer" \in r.prospect[i]
           /\ "number" \in r.prospect[i] => "number" \in a.prospect[i]
           /\ "number" \in a.prospect[i] => "number" \in r.prospect[i] \/ i \in job \cap Listed
  BY <1>3, LookedUpRow
<1> HIDE DEF a
<1>6. Others(w) /\ Knows(w)' /\ Carries(w)'
  <2>1. Others(w) /\ pc'[w] = "release"
    BY <1>1, <1>3 DEF TypeOK, Goto, Others, SameLocal
  <2> QED BY <2>1 DEF Knows, Carries, HasRead, AtWork
<1>7. \A q \in Operations \ {o} : page'[q] = page[q]
  BY <1>4
<1>8. op[o].live => page'[o] = a.prospect
  BY <1>3, <1>4 DEF TypeOK, a
<1>9. CASE Current(w)
  <2> DEFINE g == [a EXCEPT !.version = r.version + 1]
             x == [op[o] EXCEPT !.item = g.item, !.prospect = g.prospect, !.jobs = g.jobs,
                                !.version = g.version]
  <2>1. g \in Row /\ g.item = a.item /\ g.prospect = a.prospect /\ g.jobs = a.jobs
        /\ g.version = r.version + 1
    BY <1>3, <1>5 DEF Row
  <2> HIDE DEF g
  <2>2. op' = [op EXCEPT ![o] = x]
    <3>1. op' = [op EXCEPT ![o].item = a.item, ![o].prospect = a.prospect,
                           ![o].jobs = a.jobs, ![o].version = r.version + 1]
      BY <1>4, <1>9 DEF a
    <3>2. [op EXCEPT ![o].item = g.item, ![o].prospect = g.prospect, ![o].jobs = g.jobs,
                     ![o].version = g.version] = [op EXCEPT ![o] = x]
      OBVIOUS
    <3> QED BY <2>1, <3>1, <3>2
  <2>3. Filled(x, op[o], g) /\ x.status = op[o].status /\ x.version = r.version + 1
    BY <1>3, <2>1, Refilled
  <2> HIDE DEF x
  <2>4. /\ op'[o].version = r.version + 1 /\ op'[o].live = op[o].live
        /\ op'[o].status = op[o].status /\ op'[o].prospect = a.prospect /\ op'[o].jobs = a.jobs
        /\ \A q \in Operations \ {o} : op'[q] = op[q]
    BY <1>3, <2>1, <2>2, <2>3 DEF TypeOK, Filled
  <2>5. r.version = op[o].version /\ \A v \in Requests : AtWork(v) => on[v] # o
    BY <1>1, <1>2, <1>3, <1>9 DEF Current, ProspectingInv, Behind
  <2>6. op[o].live => Matches(r, o)
    BY <1>1, <1>2, <2>5 DEF PageInv, Knows
  <2>7. op[o].live => Grows(o)
    <3> SUFFICES ASSUME op[o].live PROVE Grows(o)
      OBVIOUS
    <3>1. \A i \in Items : op[o].prospect[i] \ {"failed"} \subseteq op'[o].prospect[i]
      <4>1. \A i \in Items : r.prospect[i] \in SUBSET Tags
        BY <1>3 DEF Row
      <4> QED BY <1>5, <2>4, <2>6, <4>1 DEF Matches, Tags
    <3>2. \A j \in op[o].jobs :
            j \in op'[o].jobs \/ \A i \in j \cap Listed : "number" \in op'[o].prospect[i]
      BY <1>5, <2>4, <2>6 DEF Matches
    <3> QED BY <3>1, <3>2 DEF Grows
  <2>8. ASSUME NEW u \in Requests, HasRead(u) \/ AtWork(u), on[u] = o PROVE Overtakes(u, o)
    <3>1. HasRead(u)
      BY <2>5, <2>8
    <3>2. seen[u].version <= op[o].version /\ seen[u].version \in Nat
      BY <2>8, <3>1 DEF ProspectingInv, Local, Reads, TypeOK, Row
    <3> QED BY <1>3, <2>4, <2>5, <2>7, <3>1, <3>2 DEF Overtakes
  <2>9. Shows(o)' /\ Blank(o)'
    BY <1>3, <1>8, <2>4 DEF Shows, Blank
  <2> QED BY <1>6, <1>7, <2>4, <2>8, <2>9, PageMoves DEF Others
<1>10. CASE ~Current(w)
  <2>1. op' = op
    BY <1>4, <1>10
  <2>2. Shows(o)'
    <3> SUFFICES ASSUME op[o].live, NEW i \in Items
                 PROVE  LET more == a.prospect[i] \ op[o].prospect[i]
                        IN  /\ "number" \in more => \E j \in op[o].jobs : i \in j
                            /\ "answer" \notin more
      BY <1>8, <2>1 DEF Shows
    <3>1. NoMore(r, o)
      BY <1>1, <1>2 DEF PageInv, Knows
    <3>2. /\ "number" \in r.prospect[i] => "number" \in op[o].prospect[i]
          /\ "answer" \in r.prospect[i] => "answer" \in op[o].prospect[i]
      BY <3>1 DEF NoMore
    <3>3. i \in job \cap Listed => job \in op[o].jobs \/ "number" \in op[o].prospect[i]
      BY <3>1 DEF NoMore
    <3> QED BY <1>5, <3>2, <3>3
  <2>3. Blank(o)'
    BY <1>3, <2>1 DEF Blank
  <2>4. \A u \in Requests : Overtakes(u, o)
    BY <2>1 DEF Overtakes, Kept
  <2> QED BY <1>6, <1>7, <2>1, <2>2, <2>3, <2>4, PageMoves DEF Others
<1> QED BY <1>9, <1>10

LEMMA PageTime ==
  ASSUME ProspectingInv, TypeOK', PageInv, NEW o \in Operations, Time(o)
  PROVE  PageInv'
<1>1. /\ UNCHANGED local /\ op[o] \in Row /\ op[o].status # "none" /\ op \in [Operations -> Row]
      /\ page \in [Operations -> [Items -> SUBSET Tags]]
  BY DEF Time, Expire, Purge, ProspectingInv, Stored, Made, TypeOK
<1>2. /\ ~op'[o].live /\ op'[o].status # "none"
      /\ \A q \in Operations \ {o} : op'[q] = op[q] /\ page'[q] = page[q]
  <2>1. CASE Expire(o)
    BY <1>1, <2>1 DEF Expire, Row
  <2>2. CASE Purge(o)
    BY <1>1, <2>2 DEF Purge, Row
  <2> QED BY <2>1, <2>2 DEF Time
<1>3. Shows(o)' /\ Blank(o)'
  BY <1>2 DEF Shows, Blank
<1>4. \A u \in Requests : SameLocal(u) /\ Overtakes(u, o)
  BY <1>1, <1>2 DEF SameLocal, local, Overtakes
<1> QED BY <1>2, <1>3, <1>4, PageMoves

-----------------------------------------------------------------------------
(* The theorems *)

LEMMA StutterKeeps ==
  ASSUME ProspectingInv, UNCHANGED vars
  PROVE  ProspectingInv' /\ Stands
<1> USE DEF ProspectingInv
<1>1. UNCHANGED <<rows, past, local, gate, overrun, losses>>
  BY DEF vars
<1>2. \A v \in Requests : SameLocal(v)
  BY <1>1 DEF SameLocal, local
<1>3. TypeOK'
  BY <1>1, TypesOf, TypesNext, StoreTypesStay DEF LocalTypes, GateTypes, local
<1>4. Local'
  BY <1>1, <1>2, Stays DEF Local, SameRow, rows, past
<1>5. Behind' /\ OneAtWork' /\ Stored'
  BY <1>1 DEF Behind, OneAtWork, AtWork, HasRead, Stored, Made, With,
              rows, past, local, Uncharged
<1>6. ChargedOnce'
  <2>1. \A v \in Requests : pc'[v] = pc[v] /\ on'[v] = on[v] /\ Number(v)' = Number(v)
    BY <1>2, Unmoved DEF SameLocal
  <2>2. usage' = usage /\ charged' = charged /\ calls' = calls /\ losses' = losses
    BY <1>1 DEF rows, past
  <2> QED BY <2>1, <2>2 DEF ChargedOnce
<1>7. Held'
  BY <1>1, <1>2, Unmoved DEF Held
<1>8. Stands
  BY <1>1 DEF Stands, Stand, rows
<1> QED BY <1>3, <1>4, <1>5, <1>6, <1>7, <1>8

LEMMA StepKeeps ==
  ASSUME ProspectingInv, [Next]_vars
  PROVE  ProspectingInv' /\ Stands
<1>1. CASE UNCHANGED vars
  BY <1>1, StutterKeeps
<1>2. ASSUME NEW w \in Requests, Step(w) PROVE ProspectingInv' /\ Stands
  BY <1>2, InsertKeeps, TakeGateKeeps, ReleaseKeeps, ClaimKeeps, MarkKeeps, ReserveKeeps,
     CallKeeps, SettleKeeps, FailKeeps, BookKeeps, PollKeeps, PollFailsKeeps DEF Step
<1>3. ASSUME NEW w \in Requests, Lose(w) PROVE ProspectingInv' /\ Stands
  BY <1>3, LoseKeeps
<1>4. ASSUME NEW w \in Requests, NEW o \in Operations, Asks(w, o) PROVE ProspectingInv' /\ Stands
  BY <1>4, AsksKeep
<1>5. ASSUME NEW o \in Operations, Time(o) PROVE ProspectingInv' /\ Stands
  BY <1>5, TimeKeeps
<1>6. CASE GateLapses \/ GateOverrun
  BY <1>6, GateMoves
<1> QED BY <1>1, <1>2, <1>3, <1>4, <1>5, <1>6 DEF Next

\* The inductive invariant.
LEMMA ProspectingCorrect == Spec => []ProspectingInv
<1>1. ProspectingInv /\ [Next]_vars => ProspectingInv'
  BY StepKeeps
<1> QED BY InitInv, <1>1, PTL DEF Spec

LEMMA PageStepKeeps ==
  ASSUME ProspectingInv, ProspectingInv', PageInv, [Next]_vars
  PROVE  PageInv'
<1>1. TypeOK'
  BY DEF ProspectingInv
<1>2. ASSUME UNCHANGED <<rows, local>> PROVE PageInv'
  <2>1. op' = op /\ page' = page /\ \A v \in Requests : SameLocal(v)
    BY <1>2 DEF rows, local, SameLocal
  <2> QED BY <1>1, <2>1, PageStays
<1>3. ASSUME NEW w \in Requests, Step(w) \/ Lose(w) PROVE PageInv'
  BY <1>1, <1>3, PageQuiet, PageInsert, PageClaim, PageMark, PageSettle, PageFail, PageBook,
     PagePoll DEF Step
<1>4. ASSUME NEW w \in Requests, NEW o \in Operations, Asks(w, o) PROVE PageInv'
  BY <1>1, <1>4, PageAsks
<1>5. ASSUME NEW o \in Operations, Time(o) PROVE PageInv'
  BY <1>1, <1>5, PageTime
<1>6. UNCHANGED vars \/ GateLapses \/ GateOverrun => PageInv'
  BY <1>2 DEF vars, GateLapses, GateOverrun
<1> QED BY <1>3, <1>4, <1>5, <1>6 DEF Next

\* Rows, pages, ledger, gate and invocations keep their types, and a completed
\* operation has no prospect left to enrich (operations.ts).
THEOREM ProspectingTypes == Spec => []TypeOK
BY ProspectingCorrect, PTL DEF ProspectingInv

\* No prospect is handed to the provider twice by one operation, and every
\* provider call has a reserved row of the ledger of its own, however requests,
\* polls, losses and the purge are interleaved (advance and finish, operations.ts).
THEOREM Charged == Spec => []ChargedOnce
BY ProspectingCorrect, PTL DEF ProspectingInv

\* Two invocations are past the gate together only if the lease of one ran out
\* under it (gate and release, operations.ts).
THEOREM SerialChunks == Spec => []ChunksRunSerially
<1>1. Held => ChunksRunSerially
  BY DEF Held, ChunksRunSerially
<1> QED BY <1>1, ProspectingCorrect, PTL DEF ProspectingInv

\* The result page of a live operation shows no number the operation lacks unless
\* its lookup is open there, and no answer it lacks unless as failed, a poll that
\* lost to a later chunk and a batch that failed included (poll, finish and the
\* failure path of operations.ts).
THEOREM PageIsTrue == Spec => []PageShowsNoMore
<1>1. ProspectingInv /\ PageInv /\ [Next]_vars => ProspectingInv' /\ PageInv'
  BY StepKeeps, PageStepKeeps
<1>2. PageInv => PageShowsNoMore
  BY DEF PageInv, Shows, PageShowsNoMore
<1> QED BY InitInv, PageInitInv, <1>1, <1>2, PTL DEF Spec

\* What the provider said of a prospect stands until the purge drops the data
\* (advance, poll and the failure path of operations.ts).
THEOREM OutcomesKept == Spec => OutcomesStand
<1>1. ProspectingInv /\ [Next]_vars =>
        [\A o \in Operations, i \in Items :
           op'[o].status # "expired" =>
             /\ op[o].item[i] \in Outcomes => op'[o].item[i] = op[o].item[i]
             /\ op[o].item[i] = "running" => op'[o].item[i] \in Outcomes \cup {"running"}]_op
  BY StepKeeps DEF Stands, Stand
<1> QED BY <1>1, ProspectingCorrect, PTL DEF Spec, OutcomesStand
=============================================================================
