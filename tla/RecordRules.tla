----------------------------- MODULE RecordRules -----------------------------
(***************************************************************************)
(* The rules of the sales documents, as pure operators over one row: who   *)
(* may read, write, approve and assign (domain.ts), which status follows   *)
(* which, what a payment does (workflow.ts), and what an edit or a         *)
(* deletion may touch (record-mutations.ts).                               *)
(*                                                                         *)
(* A record is a pair <<kind, origin>>.  The order, shipment and invoice   *)
(* that accepting a quotation creates carry the quotation's origin, as     *)
(* their ids carry its id.  Cashbook entries and customer proformas are    *)
(* stored as kind "accounts"; here they are the kinds "cash" and           *)
(* "proformas", which cannot be edited into one another.  Everybody works  *)
(* for one company and branch and nobody has a personal module override.   *)
(***************************************************************************)
EXTENDS Integers, Sequences

CONSTANTS
  Staff,       \* active users
  Role,        \* user -> role
  Leads, Quotes, Entries, Proformas,   \* what may be created, by origin
  Amounts,     \* totals a document may have, in cents
  References   \* payment references

LeadershipRoles == {"MD", "Group Manager"}
SalesRoles      == {"Sales Manager", "Sales Executive"}
LogisticsRoles  == {"Logistics Manager", "Logistics Executive"}
AccountsRoles   == {"Accounts Manager", "Accountant"}
Roles == LeadershipRoles \cup SalesRoles \cup LogisticsRoles \cup AccountsRoles

ASSUME EveryoneHasARole == Role \in [Staff -> Roles]
ASSUME PositiveAmounts  == Amounts \subseteq Nat \ {0}

Originals == ({"leads"} \X Leads) \cup ({"quotations"} \X Quotes)
               \cup ({"cash"} \X Entries) \cup ({"proformas"} \X Proformas)
Handoffs  == {"orders", "logistics", "accounts"} \X Quotes
Records   == Originals \cup Handoffs
NoParent  == <<"none", "none">>

Kind(r)   == r[1]
Origin(r) == r[2]
Module(k) == IF k \in {"cash", "proformas"} THEN "accounts" ELSE k

\* stages, recordStages and the cashbook's two; a proforma's depend on where it is.
Stages(k, status) ==
  CASE k = "leads"      -> {"New", "Contacted", "Qualified", "Quote Sent", "Negotiation",
                            "Won", "Lost", "On Hold"}
    [] k = "quotations" -> {"Draft", "Pending Approval", "Approved", "Sent", "Accepted",
                            "Rejected", "Expired"}
    [] k = "orders"     -> {"Confirmed", "In Progress", "Completed", "Cancelled"}
    [] k = "logistics"  -> {"Pending Planning", "Documents Pending", "Ready to Dispatch",
                            "In Transit", "Delivered", "Delayed", "Cancelled"}
    [] k = "accounts"   -> {"Draft", "Sent", "Partially Paid", "Paid", "Overdue", "Cancelled"}
    [] k = "cash"       -> {"Recorded", "Cancelled"}
    [] k = "proformas"  -> CASE status = "Draft"  -> {"Draft", "Issued", "Cancelled"}
                             [] status = "Issued" -> {"Issued", "Cancelled"}
                             [] OTHER             -> {"Cancelled"}
FirstStage(k) ==
  CASE k = "leads" -> "New"       [] k = "orders"    -> "Confirmed"
    [] k = "cash"  -> "Recorded"  [] k = "logistics" -> "Pending Planning"
    [] OTHER       -> "Draft"
Statuses == UNION {Stages(k, "Draft") : k \in {"leads", "quotations", "orders", "logistics",
                                               "accounts", "cash", "proformas"}}

\* A row: the columns and the part of the payload that the rules read.  "paid"
\* is the sum outstanding() takes over the payments, whose references are kept.
Row == [status: Statuses, owner: Staff, creator: Staff, amount: Amounts,
        payments: Seq(References), paid: Nat, deleted: BOOLEAN,
        parent: Originals \cup Handoffs \cup {NoParent}, version: Nat]

Sees(role) ==
  CASE role \in LeadershipRoles -> {"leads", "quotations", "orders", "logistics", "accounts"}
    [] role \in SalesRoles      -> {"leads", "quotations", "orders", "logistics"}
    [] role \in LogisticsRoles  -> {"logistics", "orders"}
    [] OTHER                    -> {"accounts", "orders"}
Runs(role) ==
  CASE role \in LeadershipRoles -> {"leads", "quotations", "orders", "logistics", "accounts"}
    [] role \in SalesRoles      -> {"leads", "quotations"}
    [] role \in LogisticsRoles  -> {"logistics"}
    [] OTHER                    -> {"accounts"}

CanRead(a, k, x) ==
  /\ Module(k) \in Sees(Role[a])
  /\ k = "leads" => Role[a] = "MD" \/ a \in {x.owner, x.creator}
  /\ Role[a] \in {"Sales Executive", "Logistics Executive"} /\ k # "leads" => x.owner = a

CanWrite(a, k, x) ==
  /\ ~x.deleted
  /\ CanRead(a, k, x)
  /\ IF k = "proformas" THEN Role[a] \in AccountsRoles ELSE Module(k) \in Runs(Role[a])

\* Mutant: owners may approve their own.
CanApproveAnything(a, x) ==
  /\ CanRead(a, "quotations", x)
  /\ Role[a] \in {"MD", "Group Manager", "Sales Manager"}
CanApprove(a, x) ==
  /\ CanRead(a, "quotations", x)
  /\ x.owner # a
  /\ Role[a] \in {"MD", "Group Manager", "Sales Manager"}

CanAssign(a, k, x) ==
  /\ k # "cash"
  /\ CanWrite(a, k, x)
  /\ IF k = "leads"
       THEN Role[a] \in {"MD", "Sales Manager"} \/ x.creator = a
       ELSE \/ Role[a] \in LeadershipRoles
            \/ Role[a] = "Sales Manager" /\ k = "quotations"
            \/ Role[a] = "Logistics Manager" /\ k = "logistics"
            \/ Role[a] = "Accounts Manager" /\ Module(k) = "accounts"
MayOwn(u, k, x) ==
  LET assigned == [x EXCEPT !.owner = u]
  IN  /\ CanRead(u, k, assigned)
      /\ k = "leads" => Role[u] \in SalesRoles /\ CanWrite(u, k, assigned)

Closed == {"Accepted", "Rejected", "Expired"}

\* assertTransition.  A lead's qualification details are not modelled: any of
\* its stages may be asked for.
MayMove(a, k, x, s) ==
  /\ CanWrite(a, k, x)
  /\ s \in Stages(k, x.status) /\ s # x.status
  /\ Module(k) = "accounts" => /\ s \notin {"Paid", "Partially Paid"}
                               /\ x.payments # <<>> => s \notin {"Draft", "Cancelled"}
  /\ k = "quotations" =>
       /\ x.status \notin Closed
       /\ s \in {"Approved", "Rejected"} => x.status = "Pending Approval" /\ CanApprove(a, x)
       /\ s = "Accepted" => x.status \in {"Approved", "Sent"}
       /\ s = "Sent" => x.status = "Approved"
       /\ x.status \in {"Approved", "Sent"} => s \notin {"Draft", "Pending Approval"}

\* Mutant: only what is accepted is locked.
LockedWhenAccepted(k, x) ==
  \/ k = "proformas" /\ x.status # "Draft"
  \/ k \in {"orders", "logistics", "accounts"}
  \/ k = "quotations" /\ x.status = "Accepted"
CommercialLocked(k, x) ==
  \/ k = "proformas" /\ x.status # "Draft"
  \/ k \in {"orders", "logistics", "accounts"}
  \/ k = "quotations" /\ x.status \in {"Approved", "Accepted"}

MayEdit(a, k, x) ==
  /\ CanWrite(a, k, x)
  /\ k = "proformas" => x.status = "Draft"
  /\ k = "cash" => x.payments = <<>>
Edited(k, x, amount) ==
  IF CommercialLocked(k, x)
    THEN x
    ELSE [x EXCEPT !.amount = amount,
                   !.status = IF k = "quotations" /\ @ = "Pending Approval" THEN "Draft" ELSE @]

\* deletionReason, but for the records that name this one as their parent.
MayDelete(a, k, x) ==
  /\ CanWrite(a, k, x)
  /\ k \notin {"cash", "proformas"} /\ ~CommercialLocked(k, x) /\ x.payments = <<>>
  /\ x.parent = NoParent

Outstanding(x) == IF x.status = "Paid" \/ x.paid > x.amount THEN 0 ELSE x.amount - x.paid
\* Mutant: a payment is compared with the total, not with the balance.
MayPayTotal(a, k, x, reference, cents) ==
  /\ CanWrite(a, k, x)
  /\ k \in {"accounts", "cash"}
  /\ x.status \notin {"Draft", "Cancelled", "Paid"}
  /\ cents <= x.amount
  /\ \A i \in DOMAIN x.payments : x.payments[i] # reference
MayPay(a, k, x, reference, cents) ==
  /\ CanWrite(a, k, x)
  /\ k \in {"accounts", "cash"}
  /\ x.status \notin {"Draft", "Cancelled", "Paid"}
  /\ cents <= Outstanding(x)
  /\ \A i \in DOMAIN x.payments : x.payments[i] # reference
PaidIn(x, reference, cents) ==
  [x EXCEPT !.payments = Append(@, reference), !.paid = @ + cents,
            !.status = IF cents = Outstanding(x) THEN "Paid" ELSE "Partially Paid"]

\* The commands of the PATCH handler on the records on, from screens that
\* showed a version in seen.
CommandsOn(on, seen) ==
       [do: {"status"}, on: on, by: Staff, status: Statuses]
  \cup [do: {"edit"}, on: on, by: Staff, amount: Amounts, seen: seen]
  \cup [do: {"delete"}, on: on, by: Staff, seen: seen]
  \cup [do: {"note"}, on: on, by: Staff]
  \cup [do: {"assign"}, on: on, by: Staff, to: Staff]
  \cup [do: {"payment"}, on: on, by: Staff, reference: References, cents: Amounts]
Commands == CommandsOn(Records, Nat)

\* What the rules say of a command, given the row they are shown.
Allowed(c, x) ==
  \/ c.do = "status"  /\ MayMove(c.by, Kind(c.on), x, c.status)
  \/ c.do = "edit"    /\ MayEdit(c.by, Kind(c.on), x) /\ c.seen = x.version
  \/ c.do = "delete"  /\ MayDelete(c.by, Kind(c.on), x) /\ c.seen = x.version
  \/ c.do = "note"    /\ CanWrite(c.by, Kind(c.on), x)
  \/ c.do = "assign"  /\ MayOwn(c.to, Kind(c.on), x) /\ CanAssign(c.by, Kind(c.on), x)
                      /\ x.owner # c.to
  \/ c.do = "payment" /\ MayPay(c.by, Kind(c.on), x, c.reference, c.cents)

Outcome(c, x) ==
  CASE c.do = "status"  -> [x EXCEPT !.status = c.status]
    [] c.do = "edit"    -> Edited(Kind(c.on), x, c.amount)
    [] c.do = "delete"  -> [x EXCEPT !.deleted = TRUE]
    [] c.do = "assign"  -> [x EXCEPT !.owner = c.to]
    [] c.do = "payment" -> PaidIn(x, c.reference, c.cents)
    [] OTHER            -> x

\* Accepting a quotation also creates its order, shipment and draft invoice.
Accepts(c) == c.do = "status" /\ Kind(c.on) = "quotations" /\ c.status = "Accepted"
HandoffOf(r) == {<<k, Origin(r)>> : k \in {"orders", "logistics", "accounts"}}
Handed(x, r) ==
  [x EXCEPT !.status = FirstStage(Kind(r)), !.version = 1,
            !.parent = IF Kind(r) = "orders" THEN <<"quotations", Origin(r)>>
                                             ELSE <<"orders", Origin(r)>>]

New(a, k, amount, parent) ==
  [status |-> FirstStage(k), owner |-> a, creator |-> a, amount |-> amount,
   payments |-> <<>>, paid |-> 0, deleted |-> FALSE, parent |-> parent, version |-> 1]
=============================================================================
