# Verification of the Enercore Workspace CRM

TLA+ models of the parts of the workspace whose correctness depends on what may
happen between two database calls, TLC runs that check them on small instances,
and TLAPS proofs that carry the results to every instance. Paths below are from
the root of the verification; the application is under `src/`.

1. [The system](#1-the-system) · 2. [Inventory](#2-inventory) · 3. [Modules](#3-modules)
· 4. [Runs](#4-runs) · 5. [Fairness](#5-fairness) · 6. [Proofs](#6-proofs)
· 7. [Where code and documents disagree](#7-where-code-and-documents-disagree)
· 8. [What is left out](#8-what-is-left-out) · 9. [Plan](#9-plan)

## 1. The system

The workspace is a Next.js application on Cloudflare Workers: about sixty API
routes, three cron triggers (`src/worker.ts:54-58`), one Durable Object class
for realtime delivery, and one D1 (SQLite) database that holds every durable
fact. D1 has no interactive transaction. Its only atomic units are a single
statement and a `batch()` of statements fixed in advance; `src/src/lib/data.ts:11-19`
draws the consequence for every handler: *read, decide in application code,
commit in one guarded batch*. Between the read and the batch any other request,
cron sweep or retry may run, and an invocation may end at any await.

What keeps the data right is therefore a small set of devices, and they are what
the models are about:

- a **version guard** that makes a whole batch fail (records, deals, contacts
  and links, purchases' status) or a statement match nothing (outbound messages,
  prospecting operations, HR);
- a **claim**: one UPDATE or DELETE that checks and marks (outbox events,
  outbound messages, refresh tokens, reset links, prospecting operations, going
  live);
- an **id or unique key derived from the request** (records, tasks, runs of a
  rule, rows of a deal or the ledger, messages, notifications), so that a
  repeated request finds the first one's row;
- a **trigger or a count inside the writing statement** (the hourly limit, the
  ledger's limits, links of a record, the last MD's deactivation);
- an **outbox row** written with the change that calls for more work;
- a **lease with a token** (the gate of the prospecting provider);
- **nothing at all** but a read beforehand (a conversation's people, most
  meeting transitions): there the models say what can still be relied on.

Every await on the database or on an outside service is one step of a model,
a batch is one step, and a lost invocation is a step that forgets the request.

## 2. Inventory

State is D1 tables unless said otherwise. "Hard" names what no unit test reaches.

| Component (code) | State | Operations | Hard | Correct when | Module |
| --- | --- | --- | --- | --- | --- |
| Business records (`app/api/records`, `workflow.ts`, `record-mutations.ts`) | `BusinessRecord` with version, `AuditEvent` | create, edit, assign, status, payment, note, delete | two requests on one row; retries; an acceptance that creates three rows | each command acts on the row it judged; acceptance is whole; payments add up; every version has its event | `RecordRules`, `RecordStore`, `Records` |
| Commercial relationships (`commercial/store.ts`, `0013_commercial_operations.sql`) | `Contact`, `SupplierProductCapability`, `Deal`, the links of a record | save a contact or capability, open a deal, change links, inherit and resolve them in record commands | a contact leaves, a customer changes or a record is deleted between a link's check and its write | main contacts are active and at home; words and links of a document agree; a deletion orphans nobody; one deal per lead | `Relations` |
| Task automation (`tasks/automation.ts`, cron) | `AutomationRule`, `AutomationEvent`, `AutomationRun`, `Task` | enqueue with the change, hook, sweep, claim, execute, fail | overlapping sweeps and hooks; lost invocations and answers | one task per key; the history says what happened; events settle | `Automation` |
| Outbound messages (`outbound/store.ts`, `transport.ts`) | `OutboundMessage`, `OutboundEvent`, `OutboundTemplate` | draft, edit, schedule, ready, cancel, send | concurrent confirmed sends; edits between screen, read and claim; loss after the claim | submitted at most once, as reviewed, within the limit | `Outbound`, `OutboundPromise` |
| Accounts, devices, reset links (`auth.ts`, `data.ts`, `app/api/users`) | `User`, `Session`, `RefreshToken`, `PasswordReset` | sign in, renew, sign out, promote, demote, (de)activate, issue, confirm | tabs renewing together; revocation during a renewal; two administrators | one renewal and one session per device; a link is spent once; an MD remains | `Accounts` |
| Prospecting (`prospecting/operations.ts`) | `ApolloOperation`, usage ledger, result page, the gate | prepare, advance, retry, poll phones, expire, purge | a lost invocation after the charge; two confirmed requests; a lease that runs out under its holder | an item is charged at most once per operation; outcomes stand; the gate reopens | `Prospecting` |
| Deal execution (`execution/store.ts`) | candidates, requests, offers and revisions, scenarios, quotations, the lead's version | seven commands | a row read before the lead whose guard covers it; two revisions of one offer | a series without gap or double; quotations as reviewed; nothing sent is rewritten | `DealBook`, `Execution` |
| Operations (`operations/store.ts`, `0018_operations.sql`) | purchases, stock movements, bills, payments | purchase, status, movement, reversal, invoice, payment | nothing read is guarded: only the triggers decide | limits hold; a reversal undoes one entry once; references stay | `Operations` |
| Meetings (`meeting-data.ts`, `meeting-service.ts`, `meeting-sweep.ts`) | `Meeting`, its sessions; LiveKit rooms | start, schedule, join, reschedule, cancel, end, webhooks, sweep | updates by id after a stale read; webhooks out of order | a meeting that was asked for ends, is cancelled or missed | `Meetings` |
| Conversations: people (`collab-access.ts`, members route) | `ConversationMember`, the room's archive flag | create, join, add, role, leave, remove, archive | the owner's handover in several writes | a room with people keeps exactly one owner | `Rooms` |
| Conversations: messages (`collab-data.ts`, message and attachment routes, `realtime/files.ts`) | messages, mentions, reactions, attachments, objects in R2 | send, edit, delete, react, upload, discard, purge | resubmission; deletion between an edit's read and write; the purge's two passes | a message is stored once, erased for good, and keeps its files | `Messages` |
| Presence and realtime hub (`realtime/collab-hub.ts`) | per-person Durable Object: sockets, stored status, alarm; the directory object | connect, report, ping, close, break, alarm | overtaking calls, lost calls, a vanished hub | nobody stays online after their last tab; the connected are shown | `Presence` |
| Tasks (`tasks/store.ts`) | `Task` with version | create, edit, assign, status | resubmission racing itself | one task per request; legal transitions only | no: the guard and the key are those of `RecordStore` and `Automation` |
| Notifications and reminders (`notification-store.ts`, `notify.ts`, `reminders.ts`) | `Notification` with dedupe key | store then push, read, reminders, purge | repeated runs, lost pushes | one row per key | no: `Automation` has the draft and whether it was stored |
| HR (`hr`) | versioned entries, files | entries, requests, documents | the version guard again | — | no |
| Lead desk, intake, seals, bank accounts, options | updates or inserts of one row | — | nothing beyond the row's guard | — | no |
| Mailboxes, AI gateway | an account row; a usage row | outside calls | timeouts, parsing | — | no |
| Signals, dashboards, import/export, PDF | none | pure functions | — | — | no |
| Browser client | stores in the page | fetch and cache | responses out of order | a write is never repeated by itself | no |

How they interact: a records PATCH commits its automation event in its own
batch, and after the response runs the hook that processes it; the sweep does so
every five minutes for whatever is left. A task the automation creates is
announced through the notification store, which pushes through the hub. A record
command resolves its links through the commercial store and bumps the version
that guards contacts, capabilities and deals; a deal's commands guard the lead of
the deal, and a quotation prepared there becomes a record. The ledger names a
sales order, a supplier and a product of the records. Every route asks
`currentActor` (the `Session` row and its user) first. Outbound reads the linked
record's contact at each send. Meetings, conversations and notifications all
deliver through the hub; account changes evict from meetings.

## 3. Modules

| Module | EXTENDS / INSTANCE | Role |
| --- | --- | --- |
| `Automation`, `AutomationProofs` | | outbox, hooks, sweeps, runs, tasks |
| `OutboundPromise` | | abstract: what a sender may rely on |
| `Outbound`, `OutboundProofs` | INSTANCE `OutboundPromise` | rows, triggers and requests; refines the promise |
| `RecordRules` | | roles, stages, locks, payments: pure operators |
| `RecordStore` | `RecordRules` | abstract: one command at a time |
| `Records`, `RecordsProofs` | `RecordStore` | the handlers over D1; refines the store |
| `Relations`, `RelationsProofs` | | contacts, capabilities, deals, links |
| `Accounts`, `AccountsProofs` | | sessions, tokens, links and their administration |
| `Prospecting`, `ProspectingProofs` | | operations, ledger, page and gate |
| `DealBook` | | abstract: one command of a deal at a time |
| `Execution` | `DealBook` | the handlers of a deal; refines the book |
| `Operations` | | purchases, stock, bills, payments and their triggers |
| `DeskProofs` | `Execution`, `Operations` | the proofs of both |
| `Meetings` | | the life of a conversation's meetings |
| `Rooms` | | the people of a room |
| `Messages` | | messages and files |
| `Presence` | | hub and directory |
| `Collaboration`, `ConversationProofs` | `Meetings`, `Rooms`, `Messages`, `Presence` | the four together, and their proofs |
| `MCAutomation`, `MCOutbound`, `MCAccounts`, `MCProspecting` | one each | the people, stories and symmetry of the instances |
| `MCRecords` | `Records`, `Relations` | one instance per story of both |
| `MCDesk` | `Execution`, `Operations` | the order desk |
| `MCCollaboration` | `Collaboration` | one conversation |

Modules that share no row are checked in one run but never in one behaviour: a
behaviour chooses its **story** at the start and leaves the other variables alone.

### Automation

`queued`, `attempts`, `processed`, `lastError` are columns of `AutomationEvent`;
`runs` and `tasks` are rows; `rule`, `matching`, `eligible`, `record` and `due`
are what the worker reads of the rest of the database, and they change at any
time, as people do. Per worker: `pc` (its next await), `todo` (the list it
selected), `item` (what it works on, with the attempts count it read) and
`drafts` (notifications it has not stored yet). `Claim` is the conditional UPDATE
at `automation.ts:185`; `Plan` to `CommitTask` is `execute`; `Caught` and
`RecordFailure` are the catch block. `Throw` lets any await of an event fail,
`Lose` ends an invocation, and `CommitUnheard` commits a batch whose answer
never arrives. One company is modelled: its rules are unique per preset.

### Outbound

The columns of a row are functions of the message; version 0 is no row. A send
is the chain `Load`, `CheckLinked`, `Apply`, `CheckTemplate`, `CountRecent`,
(`OpenReview`), `Claim`, `Submit`, `Settle`, each with its refusal; both triggers
of `0019_outbound.sql` are part of the write (`Insertable`, `RateTrigger`).
The provider gives any of its four answers. `OutboundPromise` has only a phase,
a text and what was sent per message, and four actions; `Outbound` implements it
with `status` mapped to phases (`KeepsThePromise`).

### Records

`RecordRules` translates the rules (who sees, writes, approves and assigns,
which stage may follow, what is locked, what an acceptance creates) as operators
over one row. `RecordStore` is a store where each command is judged on the row
as it stands and written with its audit event, or not at all. `Records` is the
code: `Find`, `ReadParent`, `InsertRow` for a POST, `Load`, `ReadLinked`,
`Commit` for a PATCH, with the row as it was read kept in `snap`. `Commit` is the
batch whose guarded statement fails it entirely when the version moved.
Notifications and automation follow the batch and change no record.

### Relations

`item` is the commercial part of a record: whether it lives, its version, its
`updatedAt` (`stamp`), the status of a quotation, its customer, contact, product,
main contact, lead and deal, and which revision of its contact its copied words
are (`shows`). A caller (`Callers`) has its command (`wish`), the row as it read
it (`held`) and the row it will write (`draft`). `resolveLinks` is one await per
link (`LinkCustomer` to `LinkDeal`; the `From…` operators say which comes next),
`inheritLeadLinks` is `InheritLinks` and `InheritDeal`, the acceptance of a
quotation looks for its lead's deal in `QuoteLead` and `QuoteDeal`, a deletion
reads `CheckHistory` and then `CheckPeers`. The batches (`WriteItem`,
`InsertItem`, `WriteContact`, `WriteCapability`, `WriteDeal`) succeed if the
record has the version that was read (`guard`, here `Current`) and the triggers
of `0013_commercial_operations.sql` agree (`Admitted`); a deactivated contact's
trigger (`Deactivated`) clears the main contact in the same statement.

### Accounts

A session and the refresh token inserted with it share one id, as the token row
names its session; a family is named by its first id. The browser may present
any pair it was ever given, in any order, so stale tabs and raced cookies are
included. `AskRefresh` is the claiming UPDATE; `Known` the reuse check, with
either side of the grace period; `CheckAllowed` and `Rotate` the two awaits that
follow. `revokeRefreshFamily` is a read and a batch (`ReadIssued`,
`RevokeFamily`). Administration reads the target (`ReadTarget`), may count the
MDs (`CountMDs`), and then writes. `claims`, `made`, `origin` and `owner` are
history variables.

### Prospecting

An operation is a row with a status, a version and an outcome per prospect. An
invocation takes the gate, claims the operation under its version, marks a chunk
as running, reserves a number in the usage ledger, calls the provider, and books
the outcome; each is an await (`pc`), and `seen` is its copy of the row. The
lease of the gate may run out under a slow holder (`GateLapses`, `overrun`), an
invocation may be lost anywhere, and an operation may expire at any time.
`charged` and `calls` count what the provider was asked, which no table tells.

Beside its outcome, each prospect has what the operation made of it (`prospect`):
an answer, a phone number, the word "Failed". The handlers merge these into the
copy they hold (`Merge`, `Spoil`) before they write anything, so a batch that
fails after the provider answered leaves the answer, and the lookup it began, to
the failure path that saves the same copy (`Fail`, `Book`). A phone poll writes
the operation under its version and the page unguarded, both from that copy: one
that lost to a later chunk still puts its numbers on the page (`Poll`).
`PageShowsNoMore` says what is true of the page all the same: a number the
operation lacks has its lookup open there, so the next poll brings it. The
opposite is not promised. A poll that lost puts back a page without what the later
chunk added, and the page stays behind the operation until something writes it
again, which may be never. `Listed` are the prospects the provider has a number
for: its final answer to a lookup is taken to be the same whoever asks. The note
that a lookup adds to the usage ledger charges nothing and is left out.

### Deal execution

`DealBook` is the deal with one command at a time: `Judged` is what the rules
say, and each command counts the lead's version up. `Execution` has the handlers.
A command that names an offer or a scenario reads it first (`ReadRow`), then the
lead (`ReadRoot`), is judged on what is read after that (`Rules`), and writes one
batch (`Commit`) that begins with `leadGuard`. What is read after the lead cannot
have changed when the batch succeeds, so those reads are one step; the row read
before the lead is covered only by its own version.

### Operations

Clerks enter a command (`Enter`), read the purchase (`LoadRows`), look for a row
that a resubmission left (`Replay`) and write (`Batch`). The code refuses early
by what it read, but nothing of that is guarded at the write: whether a row is
admitted is the triggers' decision on the rows as they stand (`AdmitsPurchase`,
`AdmitsStatus`, `AdmitsMovement`, `AdmitsBill`, `AdmitsPayment`). CRM records may
be withdrawn at any time.

### Meetings

`status` is the row's; `window`, `quiet` and `long` say where the present is
relative to the meeting's times, and move on as time passes (`Passes`). Requests
read and write by id (`task`, `at`); only `goLive` names the status it expects.
Telling everybody that a meeting started comes awaits after the row went live
(`Announce`; `afterResponse` in the join and meetings routes): `starts` counts
the rows, `notices` the announcements, and an invocation lost between the two
leaves a live meeting nobody was told of.
The cron sweep (`sweep`, `listed`, `ending`) lists missed, stale and idle
meetings and updates them one await at a time, as the join and leave webhooks
come.

### Rooms

`role` is the members' rows and `before` the order in which they joined (by
`joinedAt` and rowid), as a relation; `created` and `archived` are the room's. A
request reads the room, its own membership and the member list, and writes by
(room, person). An owner's leave removes the row, finds the longest-serving
admin or member, and promotes it or archives the empty room: three awaits
between which anybody may come or go. `crossed` remembers that such a leave
overlapped another request, was lost halfway, or that the room was archived or
restored after the leave had read it (`Reopened`): `members/route.ts:140` decides
by the `archivedAt` it read, so an owner who reads an archived room, which is
restored meanwhile, leaves an empty open one.

### Messages

`message`, `mentions`, `reactions`, `file` and `stored` are the tables and the
bucket. `tab` and `asks` are the requests of one person's tabs and of one reader.
A send looks for its client key, checks its files, inserts and links; the link
repeats its own conditions. The purge lists, deletes objects, deletes rows. A
file's age counts a day while it is pending and a month once it is deleted.

### Presence

Time is counted in ticks of half a minute: a heartbeat is 2, `STALE_MS` 5,
`TTL_MS` 6. `socket` is the hub's view of a tab, `alarm` its next wake-up,
`calls` what is on its way to the directory, in any order, and `entry` the
directory's answer with its age. `calm` and `alone` are history: the ticks since
the last disturbance, and since a live tab was connected. Three assumptions are
in the steps: a Durable Object is handed no event while it waits for its own
storage, alarms come in the tick they are due, and a call is answered or has
failed within a tick.

## 4. Runs

Bounds are constants of the configurations. Two overlapping requests suffice for
every race here, since each device compares one read with one write; a third
request is another adversary for either and is what the proofs cover.

| Run | Instance | Shows |
| --- | --- | --- |
| `automation` | two stories: 1 ticket, 2 workers, 2 attempts, 1 loss; 1 lead, 2 sweeps, 2 days; 286,912 states | no two tasks for one key whatever overlaps; the history is true; an event is settled and its assignee told unless an invocation was lost |
| `outbound_message` | 1 templated message, 2 texts, 2 requests, 3 versions, 1 loss; 1.21M | what is submitted was reviewed; history tells every version; the promise is kept |
| `outbound_hourly` | 2 messages, limit 1 per tick, 2 requests; 498k | the trigger keeps the limit; every claim is settled |
| `records` | seven stories: `quote` (1 quotation, 2 people, 2 totals, 5 versions), `payments` (the invoice of an accepted one), `linked` (a lead, a quotation, a cashbook entry), 2 requests each; `documents` (the whole path of a sale, 1 request); `people`, `deals`, `catalogue` (a customer, its contacts and a lead; a lead's deal and quotation; a supplier and a product), 2 commands each; 302k | acceptance is whole, review independent, terms stand, payments add up, the audit tells every change, the store is implemented; links, deals and main contacts stand and choices are current |
| `records_terms` | as `quote`, 1 request | **violated**: section 7 |
| `accounts` | two stories: `devices` (1 person, 3 pairs), `access` (2 people, 2 links), 2 requests each; 442k | a device has one renewal and one session; a link is spent once |
| `accounts_last_md` | 3 people, 2 requests | **violated**: section 7 |
| `prospecting_spend` | 2 prospects in chunks of 1, an operation and its retry, 2 invocations, 1 loss, 1 overrun lease, a number to be found for one of the two; 752k | nobody is charged twice by an operation, chunks run one at a time, the page shows nothing that is lost to the operation, outcomes stand, the gate reopens |
| `prospecting_retry` | 1 prospect, 2 operations, 2 invocations | **violated**: section 7 |
| `order_desk` | four stories: `sourcing` and `pricing` (1 supplier, 1 request, 2 offers, 2 scenarios, 2 handlers), `stock` and `bills` (1 purchase of 2, 3 movements, 2 bills, 2 payments, 2 clerks); 778k | revisions are a series, quotations are as reviewed, the book is implemented; the ledger adds up and is accounted for |
| `collaboration` | six stories: `one meeting` (2 requests, 1 rescheduling, 1 loss), `one request` (2 meetings, the second asked for once the first exists; the sweep may be lost, the request not), `people` (3 people, 4 requests, 1 loss), `words` (2 messages, 2 tabs), `files` (1 file, the purge), `presence` (2 tabs, 1 fault); 783k | a room keeps an owner unless a leave was crossed; a message is stored once, erased for good and keeps its files; nobody lingers online, the connected are shown; a start is told once at most; every meeting settles |
| `meetings_live` | 1 meeting, 2 requests | **violated**: section 7 |

Why the bounds are enough to be interesting: two attempts make a first and a last
one; three pairs make an initial sign-in, a renewal and a second sign-in or
renewal overlapping it; five versions of a quotation reach creation, submission,
approval, acceptance and one extra edit anywhere; two links make a replacement;
a limit of one with two messages makes the second request the one too many; two
chunks make an operation pause between them, and a second operation retries the
first; two offers make a revision, three movements a receipt, a dispatch and the
reversal of either; three people make an owner, an heir and somebody who comes
meanwhile; three versions of a record let two commands on it overlap after its
creation.

The artificial bounds are `MaxVersion`, `MaxClock`, `MaxLosses`, `MaxDay`,
`MaxOverruns`, `MaxChanges`, `MaxLead`, `MaxMoves`, `MaxGone`, `MaxFaults`, the id
sets, and in the MC modules `Overlaps` (a handler starts beside a busy one once),
`MaxWishes` and `Later` (an operation made only to retry). Each stops people, the
outside world or time, never a request half-way. The MC modules also leave out
requests that the code refuses on arrival and take interchangeable ids in order
(`Worth`, `Timely`, `InOrder`, `Sensible`, `FirstFree`, `Wanted`); what is refused
after other requests ran is kept.

Every property has a mutant of the code it speaks about (a dropped guard, a
wrong comparison, a forgotten field) under which the same run fails: the
operators marked "Mutant" in the modules, which nothing else uses. `CHECK_DEADLOCK`
is on everywhere but in the two prospecting runs, where operations and versions
run out; a rest that is not a deadlock is a step of its own in the MC modules
(`Rest`, `Silence`).

Symmetry is used for interchangeable requests, workers and ids, in runs without
liveness only. Most type invariants, and properties that follow from others by
proof, are theorems and not repeated in the runs (section 6).

## 5. Fairness

Four runs state fairness; their liveness properties rest on nothing else.

- `automation`, `outbound_hourly`, `prospecting_spend`: an invocation that is not
  lost goes on (`WF` of each worker's or request's `Step`): every await returns or
  throws, and provider calls are given up after 15 seconds (12 for the
  prospecting provider). The step that loses an invocation has no fairness and
  is counted (`losses`), so the properties read "… unless one was lost".
- `automation`, `collaboration`: the cron fires for ever (`WF` of `StartSweep`,
  of `Sweep`).
- `prospecting_spend`, `collaboration`: time passes (`WF` of `GateLapses`, of
  `Passes`): a lease runs out, a meeting's window opens and closes, an empty
  meeting has been empty for long enough.
- Nothing people do is fair: no property relies on anyone pressing a button.

## 6. Proofs

Every invariant and every action property of the passing runs is a theorem,
proved for every value of the constants that satisfies the named assumptions
(bounds are naturals, sets of sources are disjoint, the ids differ from the null
id, somebody is MD, a heartbeat is within the time to live, a room's people are
finitely many), which TLC evaluates in the runs. Nothing else is assumed of the
number of requests, rows, people or invocations.

**Automation** (`OneTask`, `OneTaskAndTrueHistory`, `ExclusiveAttempts`,
`FinalFailure`, `FinalOutcomes`, `TypeCorrect`). The checked invariants are not
inductive: that a claim keeps `attempts` within `MAX_ATTEMPTS` depends on what a
list may hold, and that two holders of an event differ in their attempt depends
on every holder being below the stored count. `Shape` says both; the batch's
unique indexes then give the rows.

**Outbound** (`PromiseIsKept`, `ReviewedTextIsSubmitted`, `LimitIsKept`,
`ClaimIsOwned`, `HistoryIsTrue`, `LegalMoves`, `TypeCorrect`). `Local` says what
a request knows at each label, `Row` what a row's state says of its past.
Versions only grow, so a request whose version still matches has read the row as
it is; and a row in "sending" matches only the request that claimed it. The
limit is proved from the trigger's count alone, for any window. `PromiseIsKept`
is a refinement: each step of `Outbound` is a step of `OutboundPromise` or none.

**Records** (`OneAtATime` and, through it, `Acceptance`, `Review`, `Terms`,
`Payments`, `Audit`, `PaymentsStay`, `NothingLost`; `Judged`, `Types`).
`OneAtATime` is the refinement of `RecordStore` by `Records`: it rests on `Held`
(a request about to write holds a row that is the stored one if the versions
agree), so a guarded batch that succeeds is a command judged on the current row.
The other properties are proved of the store, one command at a time. There
`StoreInv` strengthens them by: an invoice that was never paid on is "nothing
paid", a row's event count starts with its version, and the stages in which a
document ends belong to it.

**Relations** (`LinksStand`, `ChoicesStayCurrent`, `RelationsTypes`). Three facts
make the checked properties inductive. `Reading`: a row a caller holds is the
stored one as long as the versions agree. `Drawn`: the words of a draft are words
its contact had, no older than those it replaces, and its deal is its lead's.
`Alone`: a deletion that found nobody still finds nobody while the version
stands, because whoever adds a contact, a capability or a deal counts it up;
`Paired` is the same for the product of a capability, whose version has a guard
of its own. `Grows` is what every batch does to what others have read, and each
batch is then shown to write a row that keeps the four properties.

**Accounts** (`OneRenewal`, `OneSession`, `LinkSpent`, `MDRemains`, `Types`).
The two device properties are inductive together once a family is known to be
named by an id already given out (`Families`) and requests to name such ids
(`Where`): a fresh id then starts a family nobody is in. `LinksMade` adds that a
link not issued is unclaimed and one whose batch is pending is claimed.
`MDRemains` assumes that nobody is demoted, and then holds for any number of
overlapping deactivations; section 7 shows why the assumption is there.

**Prospecting** (`Charged`, `SerialChunks`, `PageIsTrue`, `OutcomesKept`,
`ProspectingTypes`). That an item is charged once per operation is not inductive:
it rests on who may book what, with the gate able to lapse under its holder.
`ProspectingInv` says, per invocation, how its copy of the operation relates to
the row while the row's version is the one it read; that the chunk marked as
running belongs to the one invocation whose claim put it there, until it is
settled or lost; that the items it is about to ask for have not been asked for
by this operation. The page rests on it and has an invariant of its own, `PageInv`:
a copy never has more of a prospect than the row, and a lookup it would still make
is open there or has brought its numbers (`Knows`); whoever is at work on the row
holds what the row holds, or more once its answer is merged (`Carries`); and the
operation never loses a number, an answer or an open lookup (`Grows`). A poll that
lost then shows what the row has or will be asked for. TLC checked both invariants
on the run's states before they were proved.

**Execution** (`HandlersKeepTheBook` and, through it, `OverlapsKeepSeries`,
`OverlapsQuoteAsReviewed`, `OverlapsKeepHistory`; `SuccessIsJudgedAlways`,
`DeskTypes`; of the book itself `BookKeeps`, `BookHistory`). The refinement of
`DealBook` by `Execution` rests on `Held`: versions only grow, a row read before
the lead is the stored one while its own version agrees, and a handler about to
commit with the lead at the version it read holds a command that is judged as
the book stands. `BookInv` is the series, the quotations and the types together,
and `Kept` is what each of the book's commands does with them: it keeps `BookInv`
and the history (`Stands`) and every row it writes is a later one (`Grows`).

**Operations** (`LedgerSums`, `LedgerIsAccounted`, `OperationsTypes`). The
triggers decide each write on the rows as they stand, so the proof needs nothing
of what clerks read except that a command keeps the identity it was entered with.
`Grounded` says that a reversal was asked of a row that is there (rows stay),
`Reviewed` that an approval is a second manager's and that closing keeps it;
`Ledger` names the parts of `LedgerStands` one by one. `LedgerSums` is about what
the triggers add up: that a row written adds its quantity or its cents to the sum
over the rows, whatever order the sum takes them in (`SumAdds`). The library
defines the sum by recursion over subsets; the lemmas show that such a function
exists (`SumsExist`), that any element may be taken first (`SumsAny`) and that two
of them agree (`SumsAgree`), each by the least size of a set that would fail
(`LeastOf`). The written rows are finitely many because each step writes one.

**Meetings** (`MeetingsTypes`). `Asked` says that a request that is still to create
a meeting (`Making`) is alone with its id, that any other names one that exists,
and that a request that announces is the only one to do so, of a meeting nobody
was told of; `Begun` that a meeting which has not gone live never started and that
the sweep's list only holds meetings that exist. With them a row goes live once
and everybody is told of it once at most, however many people join at that moment;
of a start nobody was told of, the announcer is still there or a step was lost
(`Untold`). All of this is part of `MeetingsTypeOK`.

**Rooms** (`RoomOwned`, `RoomsTypes`). `Course` is the invariant of a room in
which no leave has been crossed. While an owner is on the way out, everybody else
is before their membership check, and what the leave read of the members still
is so, write by write (`Passing`); otherwise there is one owner, or the room is
empty, archived, and nobody can get in (`Outside`). `Calm` says that no other
write is about the owner, `Fresh` that an owner about to leave knows whether the
room is archived: this part is what fails without `Reopened`, and how that
exemption was found. `Founding` says that before the room exists its creation
is alone. Longest-serving is well defined since `before` is a total order of
finitely many members (`FirstIn`). `CollabTypes` joins the types of the four
modules, which share nothing.

**Messages** (`SentOnce`, `ErasedForGood`, `FilesStay`, `MessagesTypes`). `Tabbed`
says which question a request at each await was asked, `Posted` adds to the types
that a key has one message, and `Aged` that the purge holds only files that had
waited for a day or were deleted a month ago, which stays true of them.
`DeletedIsErased` is inductive beside these.

**Presence** (`NobodyStaysOnline`, `ConnectedStaysShown`, `PresenceTypes`). `Away`
counts the silence of a lost tab and the age of what the directory was told
against the time since the last live tab, so that both run out within
`STALE_MS + TTL_MS` and only "offline" is announced after `STALE_MS`; `Watched`
says that an undisturbed hub has its alarm set, and what it has said or is about
to say is its status.

Proved but in no run: `ExclusiveAttempts`, `FinalFailure`, `FinalOutcomes`,
`ClaimIsOwned`, `LegalMoves`, `Judged`, `PaymentsStay`, `SuccessIsJudgedAlways`,
`OverlapsKeepHistory`, `BookHistory` and the type invariants. Each is a statement about the same
specification a run explores.

Only model-checked: the liveness properties (`SettledUnlessLost`,
`ToldUnlessLost`, `EveryClaimIsSettled`, `GateReopens`, `EveryMeetingSettles`),
which need fairness and ENABLED, out of reach of the provers used here. The four
runs that expect a violation are counterexamples, and stay TLC's.

The library's induction theorems take an operator as a parameter, which the
provers cannot instantiate. Where a proof needs induction it is by a least
counterexample: the set of sizes at which the claim fails, if not empty, has a
least member (`LeastOf`, from the well-foundedness of the naturals).

## 7. Where code and documents disagree

Four runs show a disagreement:

- `records_terms`: `src/docs/STATUS.md` says that an approved quotation only
  permits contact, delivery and notes corrections. Approval locks the price, but
  "Sent" does not, and Sent may be accepted: a quotation can be edited after it
  was sent and accepted at a total nobody approved.
- `accounts_last_md`: `src/src/app/api/users/route.ts:147` calls changing the
  last MD's role "the same hazard as deactivating them". Deactivation counts
  inside its UPDATE; the role change counts in a read before an unconditional
  batch, so two overlapping demotions leave no MD.
- `prospecting_retry`: `src/docs/PHASE-7-APOLLO.md:31` says that a retry excludes
  successful, no-data and unknown items. It takes the items that were still
  pending when it read the operation, and one of them that an advance settles in
  between is in the retry as well and is charged again when that is confirmed.
- `meetings_live`: `src/src/app/api/collab/meetings/[id]/route.ts:57` says that
  only an upcoming meeting can be cancelled. The status is read and the update is
  by id, so a meeting that somebody joined in between becomes cancelled while it
  runs; nobody ends it. The sweep's "missed" (`meeting-sweep.ts:31`, `:85`) has
  the same window.

Others are within the models but have no run of their own:

- The comment at `automation.ts:183` says two sweeps never work on one event.
  The claim compares with the attempts that were listed; a sweep that lists the
  event after the first claim holds it at the same time. `AttemptIsExclusive`
  and `HistoryTellsTheTruth` say what remains true.
- `notify.ts:143` says the sweep picks up whatever a hook leaves. An event whose
  attempts were all spent by lost invocations is listed by none
  (`SettledUnlessLost`).
- `src/docs/PHASE-8-TASKS.md:58` promises the assignee a notification. It is
  made after the task's batch, by that invocation only (`ToldUnlessLost`).
- `automation.ts:124` looks for an earlier follow-up before the batch: two sweeps
  that listed a lead with different follow-up dates both create a task, under
  different keys.
- `src/docs/PHASE-10-COMMUNICATION.md:89` says that archived CRM templates cannot
  be submitted. The flag is read several awaits before the claim
  (`outbound/store.ts:376`), so a template archived in between is still submitted.
- `src/docs/STATUS.md:686` says that linked records cannot be deleted. A
  quotation inserted between the check for linked records and the deletion of
  its lead leaves a deleted record that a live one names: the version guard of
  the deletion does not cover links. The same holds of a customer or product
  that a document is being linked to (`app/api/records/route.ts:480`): linking
  guards only the document's version. What is guarded are contacts, capabilities
  and deals (`NothingIsOrphaned`).
- `src/docs/STATUS.md:678` says that validation rejects payments on cashbook
  entries. The code lets a cashbook entry take payments and become Paid;
  `PaymentsAddUp` holds of it all the same.
- The hub postpones its alarm at every activity report (`collab-hub.ts:117-118`)
  although `:322-325` wants a heartbeat within the time to live: somebody who
  switches tabs at least once a minute for three minutes reads as offline.
  `ConnectedIsShown` therefore counts from the last disturbance. Announcements
  of overlapping refreshes, and the last-seen rows, may also be reordered.
- An owner's leave that overlaps another request, or is lost after its first
  write, may leave a room without an owner, empty but open, or with two owners;
  so may one that overlaps an archiving or a restoring of the room.
  `RoomKeepsAnOwner` says what holds when none of it happened.
- `src/docs/COLLABORATION-V2.md:92` says what a deletion removes. An edit or a
  reaction that read the message before its deletion writes mentions or a
  reaction after it; the text and files stay erased (`DeletedIsErased`).
- `messages/route.ts:81` refuses a message with neither text nor files. Two sends
  with the same file, or a discard between check and link, leave an empty one.
- `files.ts:160` purges an upload that was pending for a day by what it listed:
  one that is sent between the listing and the deletion is lost
  (`SentFilesStay` covers files sent within the day).
- A recording stopped by hand and by `egress_ended` at once
  (`recording/route.ts:63`) is settled by whoever writes last; the ids of
  messages are stamped before the insert, so one may land behind a reader's
  cursor; a direct thread whose creation is lost before its members has none.
  These are hazards outside the models.

## 8. What is left out

Of the modelled components: field validation and formatting; the read-only
lists; CSV import; master data, HR, leave, marketing and IT tickets among the
records; user creation, the login counters and the audit rows of account changes;
scopes other than one company and branch; the import of a reviewed prospect and
the account counters; permissions and pricing arithmetic of a deal; roles, units
and currencies of the ledger; meeting reminders, recordings, guests, chat and
reports; direct threads, read marks and unread counters, private rooms; the cap
on sockets, typing and the relay of events. The SMTP dialogue, the Meta call and
the provider's calls are one step each with every answer they can give. Payment
amounts are naturals: the code's rounding to cents is not modelled. Time is a
small clock where a property depends on it (outbound, automation's days,
presence) and otherwise an expiry that may happen whenever it could.

Of the system: see the inventory. What is not modelled is either read-only, one
statement, a repetition of a device that is modelled elsewhere (tasks, HR,
notifications), or a conversation with an outside service that changes nothing
else. Most of the repository's lines are the browser client, the pages and the
components, which hold no shared state; they are why the mapped share of the
whole stays small.

## 9. Plan

1. `Tasks` with `Notifications`: creation under resubmission, the version guard
   and the inbox's dedupe key, composed with what `Automation` drafts.
2. Direct threads and read marks beside `Rooms` and `Messages`: the unread count
   follows the mark; `ensureDirect` and its members.
3. Recordings, guests and invitees of `Meetings`.
4. The import of a reviewed prospect, composing `Prospecting` with `Relations`.
5. Proofs of the store's promises to whoever composes the modules: that a
   message of a person who has left the room was sent while they were in it, once
   `Rooms` and `Messages` are coupled by membership.

The suite is kept to a dozen runs: a new module joins the run of the components
it is nearest to as another story.
