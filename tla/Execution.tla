------------------------------ MODULE Execution ------------------------------
(***************************************************************************)
(* The deal execution handlers over D1.  A command that names an offer or  *)
(* a scenario reads that row first; every command then reads the deal's    *)
(* lead with its version, the rows its rules look at, and writes one batch *)
(* that begins with `leadGuard`: the batch fails when the lead has moved   *)
(* on since it was read.  As every command of the deal counts the lead's   *)
(* version up, what was read after the lead cannot have changed when the   *)
(* batch succeeds, and these later reads are one step here; the row read   *)
(* before the lead is covered only by the guard of its own version.        *)
(***************************************************************************)
EXTENDS DealBook

CONSTANTS
  Handlers,    \* Worker invocations serving /api/execution
  MaxLead      \* bound: nobody starts anything once the lead has this version

ASSUME LeadBound == MaxLead \in Nat

VARIABLES
  at,          \* handler -> what it does next
  asked,       \* handler -> its command
  seen,        \* handler -> the row it has read for the command
  root         \* handler -> root.row.version as dealRoot gave it

handlers == <<at, asked, seen, root>>
dealVars == <<book, handlers>>

NoCommand == [do |-> "none"]

ExecutionInit ==
  /\ BookInit
  /\ at = [h \in Handlers |-> "idle"]
  /\ asked = [h \in Handlers |-> NoCommand]
  /\ seen = [h \in Handlers |-> NoRow]
  /\ root = [h \in Handlers |-> 0]

\* The handler answers or refuses, or its Worker is evicted.
Forget(h) ==
  /\ at' = [at EXCEPT ![h] = "idle"]
  /\ asked' = [asked EXCEPT ![h] = NoCommand]
  /\ seen' = [seen EXCEPT ![h] = NoRow]
  /\ root' = [root EXCEPT ![h] = 0]
Answer(h) == Forget(h) /\ UNCHANGED book
Refused(h) == at[h] # "idle" /\ Answer(h)

\* People act on the rows as their page shows them: versions are those of the
\* moment, and grow old while the request waits.
OnPage(c) ==
  /\ c.version = Target(c).version
  /\ c.do \in {"offer status", "scenario status", "quotation"} => c.version > 0
  /\ c.do = "offer" => (c.previous # "none") = (c.version > 0)
  /\ c.do = "scenario" => Exists(offer[c.offer])

RowFirst == {"offer status", "scenario", "scenario status", "quotation"}

Ask(h) ==
  /\ at[h] = "idle" /\ lead < MaxLead
  /\ \E v \in 0..lead : \E c \in DealCommands({v}) :
       /\ OnPage(c)
       /\ at' = [at EXCEPT ![h] = IF c.do \in RowFirst THEN "row" ELSE "root"]
       /\ asked' = [asked EXCEPT ![h] = c]
  /\ UNCHANGED <<seen, root, book>>

\* saveScenario reads the offer here, and its own row after the lead.
ReadRow(h) ==
  /\ at[h] = "row"
  /\ at' = [at EXCEPT ![h] = "root"]
  /\ seen' = [seen EXCEPT ![h] = IF asked[h].do = "scenario" THEN @ ELSE Target(asked[h])]
  /\ UNCHANGED <<asked, root, book>>

ReadRoot(h) ==
  /\ at[h] = "root"
  /\ at' = [at EXCEPT ![h] = "rules"]
  /\ root' = [root EXCEPT ![h] = lead]
  /\ UNCHANGED <<asked, seen, book>>

\* The row the rules look at.
Read(h) ==
  IF asked[h].do \in RowFirst \ {"scenario"} THEN seen[h] ELSE Target(asked[h])

\* offerStatus and scenarioStatus compare no version here; their guard does.
Rules(h) ==
  /\ at[h] = "rules"
  /\ LET x == Read(h)
         c == IF asked[h].do \in {"offer status", "scenario status"}
                THEN [asked[h] EXCEPT !.version = x.version] ELSE asked[h]
     IN  IF Judged(c, x)
           THEN /\ at' = [at EXCEPT ![h] = "commit"]
                /\ seen' = [seen EXCEPT ![h] = x]
                /\ UNCHANGED <<asked, root, book>>
           ELSE Answer(h)

\* leadGuard and guard: a version that differs becomes NULL and violates NOT NULL.
\* Mutant: no guard of the lead.
SucceedsOnRow(h) == Target(asked[h]).version = asked[h].version
Succeeds(h) ==
  /\ lead = root[h]
  /\ Exists(seen[h]) => Target(asked[h]).version = asked[h].version

Commit(h) ==
  /\ at[h] = "commit"
  /\ IF Succeeds(h) THEN CarryOut(asked[h], seen[h]) /\ Forget(h) ELSE Answer(h)

EditLead == lead < MaxLead /\ LeadEdited /\ UNCHANGED handlers

ExecutionNext ==
  \/ EditLead
  \/ \E h \in Handlers :
       Ask(h) \/ ReadRow(h) \/ ReadRoot(h) \/ Rules(h) \/ Commit(h) \/ Refused(h)
ExecutionSpec == ExecutionInit /\ [][ExecutionNext]_dealVars

-----------------------------------------------------------------------------
ExecutionTypeOK ==
  /\ BookTypeOK
  /\ at \in [Handlers -> {"idle", "row", "root", "rules", "commit"}]
  /\ asked \in [Handlers -> DealCommands(Nat) \cup {NoCommand}]
  /\ seen \in [Handlers -> CandidateRow \cup RfqRow \cup OfferRow \cup ScenarioRow \cup {NoRow}]
  /\ root \in [Handlers -> Nat]

\* A batch that succeeds writes what the rules say of the book as it stands.
BatchIsJudged ==
  \A h \in Handlers : at[h] = "commit" /\ Succeeds(h) =>
    seen[h] = Target(asked[h]) /\ Judged(asked[h], seen[h])

\* The deal behaves as if one command at a time were judged and carried out.
KeepsTheBook == BookSpec
=============================================================================
