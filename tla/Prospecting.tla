------------------------------ MODULE Prospecting ------------------------------
(***************************************************************************)
(* Operations that spend Apollo credits: ApolloOperation rows, the usage   *)
(* ledger, the result page and the gate all provider calls share           *)
(* (src/src/lib/prospecting/operations.ts).  An operation is an enrichment *)
(* of some prospects in chunks, or a search, which has no items.           *)
(*                                                                         *)
(* Every await is a step of its own.  The times the code compares (half an *)
(* hour for an operation, a minute for the lease of the gate, a cooldown)  *)
(* are events that may come at any moment.  Of what the provider says of   *)
(* a prospect the kind of outcome is kept, and what that leaves on the     *)
(* prospect: an answer, a phone number looked up later, the word "Failed". *)
(* The note a lookup adds to the ledger charges nothing and is left out.   *)
(***************************************************************************)
EXTENDS Naturals, FiniteSets

CONSTANTS
  Items,       \* prospects
  Operations,  \* operations by the hash of their request identity
  Requests,    \* Worker invocations
  Listed,      \* prospects the provider finds a work number for
  Chunk,       \* records per provider call (10)
  MaxVersion,  \* bound: nobody polls an operation past this version
  MaxLosses,   \* bound: invocations that end part-way
  MaxOverruns  \* bound: invocations that outlive their lease of the gate

ASSUME ProspectBounds == /\ Chunk \in Nat \ {0} /\ MaxVersion \in Nat
                         /\ MaxLosses \in Nat /\ MaxOverruns \in Nat
ASSUME FiniteItems == IsFiniteSet(Items)

VARIABLES
  op,       \* ApolloOperation: status, version, live (not expired), data
  page,     \* operation -> what its result page shows of each prospect
  usage,    \* operation -> the rows of ApolloUsage by their number
  gate,     \* ApolloGate "apollo": the last token and whether it is leased
  retryOf,  \* operation -> the operation it retries
  charged,  \* operation -> how often each item was handed to the provider
  calls,    \* operation -> how often the provider was called under each number
  overrun,  \* invocations whose lease of the gate ran out under them
  pc, on, cmd,
  from,     \* invocation -> the operation it retries
  seen,     \* invocation -> r, its copy of the row
  chunk,    \* invocation -> pending, the items of its provider call
  losses

rows  == <<op, page, usage, retryOf>>
past  == <<charged, calls>>
local == <<pc, on, cmd, from, seen, chunk>>
vars  == <<rows, past, gate, overrun, local, losses>>

None == <<>>
Tags == {"answer", "number", "failed"}  \* what an operation has made of a prospect
Outcomes == {"answered", "failed", "unknown"}  \* "answered": succeeded or no_data
ItemStates == Outcomes \cup {"absent", "pending", "running"}
Statuses == {"none", "prepared", "running", "paused", "completed", "failed", "unknown", "expired"}
Numbers == 0..Cardinality(Items)
Labels == {"idle", "insert", "gate", "claim", "mark", "reserve", "call", "answer",
           "book", "ask", "release"}

NoData == [i \in Items |-> "absent"]
Bare == [i \in Items |-> {}]
Row == [status: Statuses, version: Nat, live: BOOLEAN,
        item: [Items -> ItemStates], prospect: [Items -> SUBSET Tags],
        jobs: SUBSET SUBSET Items]
NoRow == [status |-> "none", version |-> 0, live |-> FALSE,
          item |-> NoData, prospect |-> Bare, jobs |-> {}]

Init ==
  /\ op = [o \in Operations |-> NoRow]
  /\ page = [o \in Operations |-> Bare]
  /\ usage = [o \in Operations |-> [n \in Numbers |-> "none"]]
  /\ gate = [token |-> None, lease |-> "free"]
  /\ retryOf = [o \in Operations |-> None]
  /\ charged = [o \in Operations |-> [i \in Items |-> 0]]
  /\ calls = [o \in Operations |-> [n \in Numbers |-> 0]]
  /\ overrun = {}
  /\ pc = [w \in Requests |-> "idle"]
  /\ on = [w \in Requests |-> None]
  /\ cmd = [w \in Requests |-> "none"]
  /\ from = [w \in Requests |-> None]
  /\ seen = [w \in Requests |-> NoRow]
  /\ chunk = [w \in Requests |-> {}]
  /\ losses = 0

With(r, s) == {i \in Items : r.item[i] = s}
IsSearch(r) == \A i \in Items : r.item[i] = "absent"
Give(r, S, s) == [r EXCEPT !.item = [i \in Items |-> IF i \in S THEN s ELSE @[i]]]
\* mergeEnrichment: the prospect has it, and no longer shows as failed.
Merge(r, S, t) ==
  [r EXCEPT !.prospect = [i \in Items |-> IF i \in S THEN (@[i] \ {"failed"}) \cup {t} ELSE @[i]]]
Spoil(r, S) ==
  [r EXCEPT !.prospect = [i \in Items |-> IF i \in S THEN @[i] \cup {"failed"} ELSE @[i]]]

Goto(w, label) == pc' = [pc EXCEPT ![w] = label]

Answer(w) ==
  /\ Goto(w, "idle")
  /\ on' = [on EXCEPT ![w] = None]
  /\ cmd' = [cmd EXCEPT ![w] = "none"]
  /\ from' = [from EXCEPT ![w] = None]
  /\ seen' = [seen EXCEPT ![w] = NoRow]
  /\ chunk' = [chunk EXCEPT ![w] = {}]
  /\ overrun' = overrun \ {w}

\* operation: the row with its data, unless it expired.
Readable(o) == op[o].live /\ op[o].status \notin {"none", "expired"}

Ask(w, o, c, r, label) ==
  /\ pc[w] = "idle"
  /\ Goto(w, label)
  /\ on' = [on EXCEPT ![w] = o]
  /\ cmd' = [cmd EXCEPT ![w] = c]
  /\ seen' = [seen EXCEPT ![w] = r]
  /\ UNCHANGED <<rows, past, gate, overrun, from, chunk, losses>>

-----------------------------------------------------------------------------
(* Preparing *)

Draft(S) == [NoRow EXCEPT !.status = "prepared", !.version = 1, !.live = TRUE,
                          !.item = [i \in Items |-> IF i \in S THEN "pending" ELSE "absent"]]

\* A request for a search (S empty) or an enrichment of staged prospects.  It
\* found no operation of its identity; one that found an operation of its
\* identity, or a fresh enrichment of the same references, is answered with it.
AskPrepare(w, o, S) ==
  op[o].status = "none" /\ Ask(w, o, "none", Draft(S), "insert")

Retryable(r) == With(r, "failed") \cup With(r, "pending")

\* retryFailed reads the operation and prepares another with its unsuccessful
\* items, taken from what it read; the statement that stages them comes before.
AskRetry(w, o, new) ==
  /\ pc[w] = "idle"
  /\ Readable(o) /\ op[o].status \notin {"running", "unknown"}
  /\ op[new].status = "none"
  /\ IF IsSearch(op[o]) THEN op[o].status = "failed" ELSE Retryable(op[o]) # {}
  /\ Goto(w, "insert")
  /\ on' = [on EXCEPT ![w] = new]
  /\ from' = [from EXCEPT ![w] = o]
  /\ seen' = [seen EXCEPT ![w] = Draft(Retryable(op[o]))]
  /\ UNCHANGED <<rows, past, gate, overrun, cmd, chunk, losses>>

\* onConflictDoNothing on the id.
Insert(w) ==
  /\ pc[w] = "insert"
  /\ IF op[on[w]].status = "none"
       THEN /\ op' = [op EXCEPT ![on[w]] = seen[w]]
            /\ retryOf' = [retryOf EXCEPT ![on[w]] = from[w]]
       ELSE UNCHANGED <<op, retryOf>>
  /\ Answer(w)
  /\ UNCHANGED <<page, usage, past, gate, losses>>

-----------------------------------------------------------------------------
(* The gate *)

\* gate: one UPDATE where the lease has run out; it is refused otherwise.
TakeGate(w) ==
  /\ pc[w] = "gate"
  /\ IF gate.lease = "free"
       THEN /\ gate' = [token |-> w, lease |-> "held"]
            /\ Goto(w, IF cmd[w] = "advance" THEN "claim" ELSE "ask")
            /\ UNCHANGED <<rows, past, overrun, on, cmd, from, seen, chunk, losses>>
       ELSE Answer(w) /\ UNCHANGED <<rows, past, gate, losses>>

\* Mutant: the release is not bound to the token.
MineAnyway(w) == TRUE
Mine(w) == gate.token = w

\* release, in finally: at least three seconds more.
Release(w) ==
  /\ pc[w] = "release"
  /\ gate' = IF Mine(w) THEN [gate EXCEPT !.lease = "cooling"] ELSE gate
  /\ Answer(w)
  /\ UNCHANGED <<rows, past, losses>>

\* A search does not pass the gate.
Searches(w) == cmd[w] = "advance" /\ IsSearch(seen[w])

\* The request is over; an enrichment has the gate to release first.
Finish(w) ==
  IF Searches(w) THEN Answer(w)
  ELSE Goto(w, "release") /\ UNCHANGED <<on, cmd, from, seen, chunk, overrun>>

PastTheGate(w) == pc[w] \notin {"idle", "insert", "gate"} /\ ~Searches(w)
Holders == {w \in Requests : gate.token = w /\ PastTheGate(w)}

\* Mutant: a lease has no end of its own.
LapsedReleased == gate.lease = "cooling"
Lapsed == gate.lease = "cooling" \/ (gate.lease = "held" /\ Holders = {})

\* The cooldown is over, or a minute has passed since the holder was lost.
GateLapses ==
  /\ Lapsed
  /\ gate' = [gate EXCEPT !.lease = "free"]
  /\ UNCHANGED <<rows, past, overrun, local, losses>>

\* A minute passes before the holder is done.
GateOverrun ==
  /\ gate.lease = "held" /\ Holders # {}
  /\ Cardinality(overrun) < MaxOverruns
  /\ gate' = [gate EXCEPT !.lease = "free"]
  /\ overrun' = overrun \cup Holders
  /\ UNCHANGED <<rows, past, local, losses>>

-----------------------------------------------------------------------------
(* Advancing *)

\* advance reads the operation; cached limits and the retry time only refuse.
AskAdvance(w, o) ==
  /\ Readable(o) /\ op[o].status \in {"prepared", "paused"}
  /\ Ask(w, o, "advance", op[o], IF IsSearch(op[o]) THEN "claim" ELSE "gate")

\* Mutant: the status read before the gate is taken as good.
ClaimableAnyway(w) == op[on[w]].status # "none"
Claimable(w) ==
  op[on[w]].version = seen[w].version /\ op[on[w]].status = seen[w].status

Claim(w) ==
  /\ pc[w] = "claim"
  /\ IF Claimable(w)
       THEN /\ op' = [op EXCEPT ![on[w]].status = "running",
                                ![on[w]].version = seen[w].version + 1]
            /\ seen' = [seen EXCEPT ![w].version = @ + 1]
            /\ Goto(w, "mark")
            /\ UNCHANGED <<on, cmd, from, chunk, overrun>>
       ELSE Finish(w) /\ UNCHANGED op
  /\ UNCHANGED <<page, usage, retryOf, past, gate, losses>>

\* UPDATE ... SET data, by id alone.
Data(o, r) ==
  op' = [op EXCEPT ![o].item = r.item, ![o].prospect = r.prospect, ![o].jobs = r.jobs]

\* The first ten pending items, in whatever order the selection had.
Chunks(r) ==
  {S \in SUBSET With(r, "pending") :
     \/ Cardinality(S) = Chunk
     \/ Cardinality(S) < Chunk /\ S = With(r, "pending")}

Mark(w) ==
  /\ pc[w] = "mark"
  /\ \E S \in Chunks(seen[w]) :
       /\ chunk' = [chunk EXCEPT ![w] = S]
       /\ seen' = [seen EXCEPT ![w] = Give(@, S, "running")]
       /\ Data(on[w], Give(seen[w], S, "running"))
  /\ Goto(w, "reserve")
  /\ UNCHANGED <<page, usage, retryOf, past, gate, on, cmd, from, overrun, losses>>

Number(w) == Cardinality(Items \ (With(seen[w], "pending") \cup With(seen[w], "absent")))

\* A second row of the same number would be refused, and nothing is sent then.
Reserve(w) ==
  /\ pc[w] = "reserve"
  /\ IF usage[on[w]][Number(w)] = "none"
       THEN /\ usage' = [usage EXCEPT ![on[w]][Number(w)] = "reserved"]
            /\ Goto(w, "call")
            /\ UNCHANGED <<on, cmd, from, seen, chunk, overrun>>
       ELSE Finish(w) /\ UNCHANGED usage
  /\ UNCHANGED <<op, page, retryOf, past, gate, losses>>

\* provider.bulk or provider.search.
Call(w) ==
  /\ pc[w] = "call"
  /\ charged' = [charged EXCEPT ![on[w]] =
                    [i \in Items |-> IF i \in chunk[w] THEN @[i] + 1 ELSE @[i]]]
  /\ calls' = [calls EXCEPT ![on[w]][Number(w)] = @ + 1]
  /\ Goto(w, "answer")
  /\ UNCHANGED <<rows, gate, on, cmd, from, seen, chunk, overrun, losses>>

\* Mutant: an operation is done when its call is.
AfterCallDone(r) == "completed"
AfterCall(r) == IF With(r, "pending") # {} THEN "paused" ELSE "completed"

\* The copy with the provider's answer for each item of the chunk.  An item it left
\* out is unknown; phone numbers may follow under a request of their own.
Answered(r, f, phones) ==
  LET told == {i \in DOMAIN f : f[i] = "answered"}
  IN  [Spoil(Merge(r, told, "answer"), DOMAIN f \ told) EXCEPT
         !.item = [i \in Items |-> IF i \in DOMAIN f THEN f[i] ELSE @[i]],
         !.jobs = IF phones THEN @ \cup {DOMAIN f} ELSE @]
Answers(w) ==
  {Answered(seen[w], f, phones) : f \in [chunk[w] -> Outcomes],
                                  phones \in {b \in BOOLEAN : b => chunk[w] # {}}}

\* The provider answered, and one batch records it.
Settle(w) ==
  /\ pc[w] = "answer"
  /\ \E r \in Answers(w) :
       /\ op' = [op EXCEPT ![on[w]].item = r.item, ![on[w]].prospect = r.prospect,
                           ![on[w]].jobs = r.jobs, ![on[w]].status = AfterCall(r)]
       /\ page' = [page EXCEPT ![on[w]] = r.prospect]
  /\ usage' = [usage EXCEPT ![on[w]][Number(w)] = "settled"]
  /\ Finish(w)
  /\ UNCHANGED <<retryOf, past, gate, losses>>

\* The call failed: its items are failed when the provider rejected it, unknown
\* otherwise.  Or the batch above failed, and they are unknown with what they were
\* answered and the lookup it began.  The page is written first.
Fail(w) ==
  /\ pc[w] = "answer"
  /\ \E r \in {seen[w]} \cup Answers(w), verdict \in {"failed", "unknown"} :
       /\ r # seen[w] => verdict = "unknown"
       /\ seen' = [seen EXCEPT ![w] =
                     [Spoil(Give(r, chunk[w], verdict), chunk[w]) EXCEPT !.status = verdict]]
       /\ page' = IF IsSearch(r) THEN page
                  ELSE [page EXCEPT ![on[w]] = Spoil(r, chunk[w]).prospect]
  /\ Goto(w, "book")
  /\ UNCHANGED <<op, usage, retryOf, past, gate, on, cmd, from, chunk, overrun, losses>>

Book(w) ==
  /\ pc[w] = "book"
  /\ op' = [op EXCEPT ![on[w]].item = seen[w].item, ![on[w]].prospect = seen[w].prospect,
                      ![on[w]].jobs = seen[w].jobs, ![on[w]].status = seen[w].status]
  /\ usage' = [usage EXCEPT ![on[w]][Number(w)] = "settled"]
  /\ Finish(w)
  /\ UNCHANGED <<page, retryOf, past, gate, losses>>

-----------------------------------------------------------------------------
(* Phone results *)

AskPoll(w, o) ==
  /\ Readable(o) /\ op[o].status # "running"
  /\ op[o].jobs # {} /\ op[o].version < MaxVersion
  /\ Ask(w, o, "poll", op[o], "gate")

\* Mutant: the write finds its row by id alone.
CurrentAnyway(w) == TRUE
Current(w) == op[on[w]].version = seen[w].version

\* The copy after the lookup: the numbers have arrived, or are still to come.
\* Mutant: a lookup is over once it was asked for.
LookedUpOnce(r, job, done) ==
  [(IF done THEN Merge(r, job \cap Listed, "number") ELSE r) EXCEPT !.jobs = @ \ {job}]
LookedUp(r, job, done) ==
  IF done THEN [Merge(r, job \cap Listed, "number") EXCEPT !.jobs = @ \ {job}] ELSE r

\* One batch writes the operation if it is as read, and the page whatever the
\* operation is by now.
Poll(w) ==
  /\ pc[w] = "ask"
  /\ \E job \in seen[w].jobs, done \in BOOLEAN :
       LET r == LookedUp(seen[w], job, done)
       IN  /\ op' = IF Current(w)
                      THEN [op EXCEPT ![on[w]].item = r.item, ![on[w]].prospect = r.prospect,
                                      ![on[w]].jobs = r.jobs,
                                      ![on[w]].version = seen[w].version + 1]
                      ELSE op
           /\ page' = IF op[on[w]].status = "expired" THEN page
                      ELSE [page EXCEPT ![on[w]] = r.prospect]
  /\ Goto(w, "release")
  /\ UNCHANGED <<usage, retryOf, past, gate, on, cmd, from, seen, chunk, overrun, losses>>

\* The lookup failed: nothing is written.
PollFails(w) ==
  /\ pc[w] = "ask" /\ Goto(w, "release")
  /\ UNCHANGED <<rows, past, gate, on, cmd, from, seen, chunk, overrun, losses>>

-----------------------------------------------------------------------------
(* Time and loss *)

\* Half an hour has passed since the operation was prepared.
Expire(o) ==
  /\ op[o].live
  /\ op' = [op EXCEPT ![o].live = FALSE]
  /\ UNCHANGED <<page, usage, retryOf, past, gate, overrun, local, losses>>

\* purgeApollo drops the data of an expired operation, whatever its status,
\* and its page.
Purge(o) ==
  /\ ~op[o].live /\ op[o].status \notin {"none", "expired"}
  /\ op' = [op EXCEPT ![o] = [@ EXCEPT !.status = "expired", !.item = NoData,
                                       !.prospect = Bare, !.jobs = {}]]
  /\ page' = [page EXCEPT ![o] = Bare]
  /\ UNCHANGED <<usage, retryOf, past, gate, overrun, local, losses>>

\* The invocation ends part-way.
Lose(w) ==
  /\ pc[w] # "idle" /\ losses < MaxLosses
  /\ losses' = losses + 1
  /\ Answer(w)
  /\ UNCHANGED <<rows, past, gate>>

-----------------------------------------------------------------------------
Step(w) ==
  \/ Insert(w) \/ TakeGate(w) \/ Release(w)
  \/ Claim(w) \/ Mark(w) \/ Reserve(w) \/ Call(w) \/ Settle(w) \/ Fail(w) \/ Book(w)
  \/ Poll(w) \/ PollFails(w)

Asks(w, o) ==
  \/ \E S \in SUBSET Items : AskPrepare(w, o, S)
  \/ \E new \in Operations : AskRetry(w, o, new)
  \/ AskAdvance(w, o) \/ AskPoll(w, o)

Time(o) == Expire(o) \/ Purge(o)

Next ==
  \/ \E w \in Requests : Step(w) \/ Lose(w)
  \/ \E w \in Requests, o \in Operations : Asks(w, o)
  \/ \E o \in Operations : Time(o)
  \/ GateLapses \/ GateOverrun

Spec == Init /\ [][Next]_vars

\* A provider call is given up after twelve seconds, and time passes.
Fairness == /\ \A w \in Requests : WF_vars(Step(w))
            /\ WF_vars(GateLapses)
FairSpec == Spec /\ Fairness

-----------------------------------------------------------------------------
(* Properties *)

\* Types; and a completed operation has no prospect left to enrich.
TypeOK ==
  /\ op \in [Operations -> Row]
  /\ page \in [Operations -> [Items -> SUBSET Tags]]
  /\ usage \in [Operations -> [Numbers -> {"none", "reserved", "settled"}]]
  /\ gate \in [token: Requests \cup {None}, lease: {"free", "held", "cooling"}]
  /\ retryOf \in [Operations -> Operations \cup {None}]
  /\ charged \in [Operations -> [Items -> Nat]]
  /\ calls \in [Operations -> [Numbers -> Nat]]
  /\ overrun \in SUBSET Requests
  /\ pc \in [Requests -> Labels]
  /\ on \in [Requests -> Operations \cup {None}]
  /\ cmd \in [Requests -> {"none", "advance", "poll"}]
  /\ from \in [Requests -> Operations \cup {None}]
  /\ seen \in [Requests -> Row]
  /\ chunk \in [Requests -> SUBSET Items]
  /\ losses \in 0..MaxLosses
  /\ \A o \in Operations : op[o].status = "completed" => With(op[o], "pending") = {}

\* "Same-identity retries cannot intentionally call Apollo twice" and "each
\* chunk logs its reservation before network I/O": however often an operation
\* is confirmed, polled, lost or purged meanwhile, each of its prospects is
\* handed to the provider at most once, and every call, a search's only one too,
\* has a row of the ledger of its own.  A row still reserved is that of a call
\* in progress or of one whose invocation was lost.
ChargedOnce ==
  \A o \in Operations :
    /\ \A i \in Items : charged[o][i] <= 1
    /\ \A n \in Numbers :
         /\ calls[o][n] <= (IF usage[o][n] = "none" THEN 0 ELSE 1)
         /\ usage[o][n] = "settled" => calls[o][n] = 1
         /\ usage[o][n] = "reserved" =>
              \/ losses > 0
              \/ \E w \in Requests : /\ pc[w] \in {"call", "answer", "book"}
                                    /\ on[w] = o /\ Number(w) = n

\* "Native chunks run serially behind a D1-wide gate": two invocations are past
\* the gate together only if one of them outlived its lease; it then cannot
\* release the lease of the other.
ChunksRunSerially ==
  \A v, w \in Requests :
    v # w /\ PastTheGate(v) /\ PastTheGate(w) => v \in overrun \/ w \in overrun

\* What the provider said of a prospect stands, and so does that nothing is
\* known of it: no later chunk, poll or crash makes it pending again.
OutcomesStand ==
  [][\A o \in Operations, i \in Items :
       op'[o].status # "expired" =>
         /\ op[o].item[i] \in Outcomes => op'[o].item[i] = op[o].item[i]
         /\ op[o].item[i] = "running" => op'[o].item[i] \in Outcomes \cup {"running"}]_op

\* A phone poll that lost to a later chunk still writes the page, from what it read
\* and with the numbers it got.  What such a page shows and the operation lacks is a
\* number whose lookup is open there, so that the next poll brings it; it is never
\* lost for good.  Of answers the page shows no more than the operation has, except
\* as failed: one that could not be recorded.
PageShowsNoMore ==
  \A o \in Operations, i \in Items : op[o].live =>
    LET more == page[o][i] \ op[o].prospect[i]
    IN  /\ "number" \in more => \E job \in op[o].jobs : i \in job
        /\ "answer" \in more => "failed" \in page[o][i]

\* "Failed-item retries ... exclude successful/no-data/unknown items": of the
\* operation as it is when the retry is prepared.
RetryExcludesSettled ==
  [][\A o \in Operations :
       op[o].status = "none" /\ op'[o].status # "none" /\ retryOf'[o] # None =>
         \A i \in With(op'[o], "pending") :
           op[retryOf'[o]].item[i] \notin {"answered", "unknown"}]_<<op, retryOf>>

\* A lost holder keeps the others out for a minute only.
GateReopens == []<>(gate.lease = "free")
=============================================================================
