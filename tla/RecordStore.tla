----------------------------- MODULE RecordStore -----------------------------
(***************************************************************************)
(* What the records API promises its callers: a store in which one command *)
(* at a time reads a row, is judged by the rules on that row, and is       *)
(* written with its audit event and everything it creates, or not at all.  *)
(* The real handlers read first and write several awaits later (Records);  *)
(* data.ts makes them look like this with one guarded batch per command.   *)
(***************************************************************************)
EXTENDS RecordRules

VARIABLES
  row,       \* BusinessRecord: record -> row, version 0 while it does not exist
  audit,     \* AuditEvent: record -> how many events name it
  approval   \* history: quotation -> what its last approval approved

store == <<row, audit, approval>>

Blank == [status |-> "none", owner |-> "nobody", creator |-> "nobody", amount |-> 0,
          payments |-> <<>>, paid |-> 0, deleted |-> FALSE, parent |-> NoParent,
          version |-> 0]
NotApproved == [amount |-> 0, by |-> "nobody", owner |-> "nobody"]
Exists(r) == row[r].version > 0

StoreInit ==
  /\ row = [r \in Records |-> Blank]
  /\ audit = [r \in Records |-> 0]
  /\ approval = [q \in Quotes |-> NotApproved]

\* createRecordWithAudit: the primary key refuses a second row with this id.
Insert(r, x) ==
  /\ row' = [row EXCEPT ![r] = x]
  /\ audit' = [audit EXCEPT ![r] = @ + 1]
  /\ UNCHANGED approval

\* The statements of the update batch that follow the guarded update: the
\* records an acceptance creates, and the audit event.
Following(c, x) ==
  /\ audit' = [audit EXCEPT ![c.on] = @ + 1]
  /\ approval' = IF c.do = "status" /\ c.status = "Approved"
                   THEN [approval EXCEPT ![Origin(c.on)] =
                           [amount |-> x.amount, by |-> c.by, owner |-> row[c.on].owner]]
                   ELSE approval
Created(c) == IF Accepts(c) THEN HandoffOf(c.on) ELSE {}

\* updateRecordWithAudit when the version matched; x is the row the handler read.
Save(c, x) ==
  /\ row' = [r \in Records |->
               CASE r = c.on         -> [Outcome(c, x) EXCEPT !.version = row[r].version + 1]
                 [] r \in Created(c) -> Handed(x, r)
                 [] OTHER            -> row[r]]
  /\ Following(c, x)

Create == \E r \in Originals :
  /\ ~Exists(r) /\ row[r] # row'[r]
  /\ \E a \in Staff, amount \in Amounts, parent \in Records \cup {NoParent} :
       LET x == New(a, Kind(r), amount, parent)
       IN  CanWrite(a, Kind(r), x) /\ Insert(r, x)

\* The command that was carried out judged the row as it stood.
CarryOut == \E r \in Records :
  /\ Exists(r) /\ row[r] # row'[r]
  /\ \E c \in CommandsOn({r}, {row[r].version}) :
       /\ Allowed(c, row[r])
       /\ \A created \in Created(c) : ~Exists(created)
       /\ Save(c, row[r])

StoreNext == Create \/ CarryOut
StoreSpec == StoreInit /\ [][StoreNext]_store

-----------------------------------------------------------------------------
StoreTypeOK ==
  /\ row \in [Records -> Row \cup {Blank}]
  /\ audit \in [Records -> Nat]
  /\ approval \in [Quotes -> [amount: Amounts, by: Staff, owner: Staff] \cup {NotApproved}]
  /\ \A r \in Records : ~Exists(r) => row[r] = Blank

\* The order, the shipment and the invoice exist exactly when their quotation
\* is accepted, at its price, and none of the four can then be deleted: an
\* acceptance is whole, happens once, and no deletion or edit overtakes it.
AcceptanceIsWhole ==
  \A q \in Quotes : LET quotation == row[<<"quotations", q>>] IN
    \A r \in HandoffOf(<<"quotations", q>>) :
      /\ Exists(r) <=> quotation.status = "Accepted"
      /\ Exists(r) => /\ row[r].amount = quotation.amount
                      /\ ~row[r].deleted /\ ~quotation.deleted

\* Whoever approved a quotation did not own it when the approval was written,
\* even if it changed hands while the approval was being considered.
ReviewIsIndependent ==
  \A q \in Quotes : approval[q] # NotApproved => approval[q].by # approval[q].owner

\* A quotation is past approval only if it was approved, and while it stands as
\* approved its total is the one that was approved: an edit of the draft that
\* races the approval loses.
ApprovedTermsStand ==
  \A q \in Quotes : LET quotation == row[<<"quotations", q>>] IN
    /\ quotation.status \in {"Approved", "Sent", "Accepted"} => approval[q] # NotApproved
    /\ quotation.status = "Approved" => quotation.amount = approval[q].amount

\* Payments never exceed the total and no reference is counted twice, however
\* many are recorded at once; the status says what the sum says; nothing paid on
\* is a draft, cancelled or deleted.
PaymentsAddUp ==
  \A r \in Records : LET x == row[r] IN Exists(r) =>
    /\ x.paid <= x.amount
    /\ \A i, j \in DOMAIN x.payments : x.payments[i] = x.payments[j] => i = j
    /\ x.status = "Paid" => x.paid = x.amount
    /\ x.status = "Partially Paid" => 0 < x.paid /\ x.paid < x.amount
    /\ x.payments # <<>> => x.status \notin {"Draft", "Cancelled"} /\ ~x.deleted

\* A recorded payment stays recorded: no concurrent payment or change of status
\* writes it away with the older payload it was computed from.
PaymentsAreKept ==
  [][\A r \in Records : Exists(r) =>
       /\ \A i \in DOMAIN row[r].payments :
            i \in DOMAIN row'[r].payments /\ row'[r].payments[i] = row[r].payments[i]
       /\ row'[r].paid >= row[r].paid]_store

\* Every version of a row has its audit event, and there is none for a change
\* that lost its race; what an acceptance creates is told by the quotation's event.
AuditTellsEveryChange ==
  \A r \in Records : Exists(r) =>
    row[r].version = IF r \in Handoffs THEN audit[r] + 1 ELSE audit[r]

\* No command writes over a change it has not seen: versions count one by one.
\* A deleted row stays as it is, and so does the price of an accepted quotation
\* and of an issued proforma.
NothingIsOverwritten ==
  [][\A r \in Records : row'[r] # row[r] =>
       /\ row'[r].version = row[r].version + 1
       /\ ~row[r].deleted
       /\ row[r].status = "Accepted" => row'[r].status = "Accepted"
       /\ row[r].status \in {"Accepted", "Issued"} => row'[r].amount = row[r].amount]_store

\* STATUS.md: an approved quotation only permits contact, delivery and notes
\* corrections; what is accepted would then be what was approved.
AcceptedAsApproved ==
  \A q \in Quotes : row[<<"quotations", q>>].status = "Accepted" =>
    row[<<"quotations", q>>].amount = approval[q].amount
=============================================================================
