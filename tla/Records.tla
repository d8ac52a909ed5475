------------------------------- MODULE Records -------------------------------
(***************************************************************************)
(* The records API (src/src/app/api/records/route.ts) over D1.  A POST     *)
(* creates a record under an id derived from the caller's request key; a   *)
(* PATCH changes one.  Each await on the database is a step, and the batch *)
(* at the end is one step: "the reads and the business rules run here and  *)
(* the resulting writes are committed as one guarded batch".               *)
(*                                                                         *)
(* Every update of a row gives its payload a new updatedAt, so the editor  *)
(* that shows a row is modelled as showing its version.  Notifications and *)
(* automation run after the batch and change no record (see Automation).   *)
(***************************************************************************)
EXTENDS RecordStore, FiniteSets

CONSTANTS
  Requests,    \* Worker invocations serving /api/records
  Doable,      \* the commands people give in this instance
  Targets,     \* the statuses they ask for
  MaxVersion   \* bound: people leave a row alone at this version

ASSUME SomeDoable == Doable \subseteq {"create", "status", "edit", "delete", "note", "assign",
                                       "payment"}
ASSUME KnownTargets == Targets \subseteq Statuses

VARIABLES
  pc,          \* request -> what it does next
  cmd,         \* request -> its command
  snap,        \* request -> the row the rules were shown
  revision     \* request -> row.version as findRecord gave it

local == <<pc, cmd, snap, revision>>
vars  == <<store, local>>

NoCommand == [do |-> "none"]
Creations == [do: {"create"}, on: Originals, by: Staff, amount: Amounts,
              parent: Records \cup {NoParent}]
PCs == {"idle", "find", "parent", "insert", "load", "linked", "commit"}

Init ==
  /\ StoreInit
  /\ pc = [w \in Requests |-> "idle"]
  /\ cmd = [w \in Requests |-> NoCommand]
  /\ snap = [w \in Requests |-> Blank]
  /\ revision = [w \in Requests |-> 0]

\* The request answers, or its Worker is evicted: nothing of it remains.
Forget(w) ==
  /\ pc' = [pc EXCEPT ![w] = "idle"]
  /\ cmd' = [cmd EXCEPT ![w] = NoCommand]
  /\ snap' = [snap EXCEPT ![w] = Blank]
  /\ revision' = [revision EXCEPT ![w] = 0]
Answer(w) == Forget(w) /\ UNCHANGED store
Lose(w) == pc[w] # "idle" /\ Answer(w)
Goto(w, label) == pc' = [pc EXCEPT ![w] = label] /\ UNCHANGED <<cmd, snap, revision, store>>

Ask(w, c, label) ==
  /\ pc[w] = "idle" /\ c.do \in Doable
  /\ pc' = [pc EXCEPT ![w] = label]
  /\ cmd' = [cmd EXCEPT ![w] = c]
  /\ UNCHANGED <<snap, revision, store>>

-----------------------------------------------------------------------------
(* POST *)

\* A quotation may follow a lead, a proforma an order.
MayFollow(r) ==
  CASE Kind(r) = "quotations" -> {p \in Records : Kind(p) = "leads"} \cup {NoParent}
    [] Kind(r) = "proformas"  -> {p \in Records : Kind(p) = "orders"} \cup {NoParent}
    [] OTHER                  -> {NoParent}

AskCreate(w) == \E r \in Originals, a \in Staff, amount \in Amounts : \E p \in MayFollow(r) :
  Ask(w, [do |-> "create", on |-> r, by |-> a, amount |-> amount, parent |-> p], "find")

NewRow(w) == New(cmd[w].by, Kind(cmd[w].on), cmd[w].amount, cmd[w].parent)

\* An id that is taken answers with the record it names, if the caller may
\* still write it; if not, the insert will fail.
Find(w) ==
  /\ pc[w] = "find"
  /\ LET c == cmd[w]
     IN  IF Exists(c.on) /\ CanWrite(c.by, Kind(c.on), row[c.on])
           THEN Answer(w)
           ELSE IF ~CanWrite(c.by, Kind(c.on), NewRow(w))
           THEN Answer(w)
           ELSE Goto(w, IF c.parent = NoParent THEN "insert" ELSE "parent")

ParentAccepts(w) ==
  LET c == cmd[w] p == row[c.parent]
  IN  /\ Exists(c.parent)
      /\ IF Kind(c.on) = "proformas"
           THEN CanRead(c.by, Kind(c.parent), p) /\ p.status # "Cancelled"
           ELSE CanWrite(c.by, Kind(c.parent), p)
ReadParent(w) ==
  /\ pc[w] = "parent"
  /\ IF ParentAccepts(w) THEN Goto(w, "insert") ELSE Answer(w)

\* Mutant: the insert replaces a row with the same id.
UniqueReplacing(r) == TRUE
Unique(r) == ~Exists(r)

InsertRow(w) ==
  /\ pc[w] = "insert"
  /\ IF Unique(cmd[w].on)
       THEN Insert(cmd[w].on, NewRow(w)) /\ Forget(w)
       ELSE Answer(w)

-----------------------------------------------------------------------------
(* PATCH *)

AskChange(w) == \E r \in Records, a \in Staff :
  /\ Exists(r) /\ row[r].version < MaxVersion
  /\ \/ \E s \in Targets : Ask(w, [do |-> "status", on |-> r, by |-> a, status |-> s], "load")
     \/ \E n \in Amounts :
          Ask(w, [do |-> "edit", on |-> r, by |-> a, amount |-> n, seen |-> row[r].version], "load")
     \/ Ask(w, [do |-> "delete", on |-> r, by |-> a, seen |-> row[r].version], "load")
     \/ Ask(w, [do |-> "note", on |-> r, by |-> a], "load")
     \/ \E u \in Staff : Ask(w, [do |-> "assign", on |-> r, by |-> a, to |-> u], "load")
     \/ \E ref \in References, n \in Amounts :
          Ask(w, [do |-> "payment", on |-> r, by |-> a, reference |-> ref, cents |-> n], "load")

\* findRecord, and then the rules; a deletion first reads the other records.
Load(w) ==
  /\ pc[w] = "load"
  /\ IF cmd[w].do = "delete"
       THEN /\ revision' = [revision EXCEPT ![w] = row[cmd[w].on].version]
            /\ pc' = [pc EXCEPT ![w] = "linked"]
            /\ UNCHANGED <<cmd, snap, store>>
     ELSE IF Allowed(cmd[w], row[cmd[w].on])
       THEN /\ revision' = [revision EXCEPT ![w] = row[cmd[w].on].version]
            /\ snap' = [snap EXCEPT ![w] = row[cmd[w].on]]
            /\ pc' = [pc EXCEPT ![w] = "commit"]
            /\ UNCHANGED <<cmd, store>>
       ELSE Answer(w)

\* listRecordsForCompany gives the row a second time, and the records linked
\* to it; row.version stays what the first read gave.
Linked(r) == \E child \in Records : Exists(child) /\ row[child].parent = r
ReadLinked(w) ==
  /\ pc[w] = "linked"
  /\ IF Allowed(cmd[w], row[cmd[w].on]) /\ ~Linked(cmd[w].on)
       THEN /\ snap' = [snap EXCEPT ![w] = row[cmd[w].on]]
            /\ pc' = [pc EXCEPT ![w] = "commit"]
            /\ UNCHANGED <<cmd, revision, store>>
       ELSE Answer(w)

\* The guard sets version to NULL when another writer came first, which
\* violates NOT NULL; a second order with the same id violates the key.
\* Mutant: the update is not guarded.
SucceedsUnguarded(w) == \A r \in Created(cmd[w]) : ~Exists(r)
Succeeds(w) ==
  /\ row[cmd[w].on].version = revision[w]
  /\ \A r \in Created(cmd[w]) : ~Exists(r)

\* Mutant: the statements of the batch are carried out one by one.
RolledBackNot(w) == Following(cmd[w], snap[w]) /\ Forget(w) /\ UNCHANGED row
RolledBack(w) == Answer(w)

Commit(w) ==
  /\ pc[w] = "commit"
  /\ IF Succeeds(w) THEN Save(cmd[w], snap[w]) /\ Forget(w) ELSE RolledBack(w)

-----------------------------------------------------------------------------
Step(w) ==
  \/ AskCreate(w) \/ Find(w) \/ ReadParent(w) \/ InsertRow(w)
  \/ AskChange(w) \/ Load(w) \/ ReadLinked(w) \/ Commit(w)
  \/ Lose(w)
Next == \E w \in Requests : Step(w)
Spec == Init /\ [][Next]_vars

-----------------------------------------------------------------------------
TypeOK ==
  /\ StoreTypeOK
  /\ pc \in [Requests -> PCs]
  /\ cmd \in [Requests -> Commands \cup Creations \cup {NoCommand}]
  /\ snap \in [Requests -> Row \cup {Blank}]
  /\ revision \in [Requests -> Nat]

\* A batch that succeeds writes what the rules said of the row as it stands:
\* if the version is still the one that was read, so is everything else.
CommitIsJudged ==
  \A w \in Requests : pc[w] = "commit" /\ Succeeds(w) =>
    snap[w] = row[cmd[w].on] /\ Allowed(cmd[w], row[cmd[w].on])

\* The store behaves as if one command at a time read, judged and wrote.
KeepsThePromise == StoreSpec
=============================================================================
