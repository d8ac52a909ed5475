------------------------------ MODULE Operations ------------------------------
(***************************************************************************)
(* Purchasing, stock and supplier payments (operationsCommand of           *)
(* src/src/lib/operations/store.ts).  The handlers read and refuse early,  *)
(* but nothing they read is guarded when they write: the limits, the       *)
(* transitions and the scope are enforced by the triggers of               *)
(* 0018_operations.sql on each insert or update, whatever was read before. *)
(* The ledger's rows are never updated or deleted.                         *)
(***************************************************************************)
EXTENDS Integers, Functions

CONSTANTS
  Purchases, Movements, Bills, Payments,   \* ids of rows: each is one request's identity
  Numbers,     \* supplier invoice numbers, normalised
  Partners,    \* the CRM records a purchase names: its sales order, supplier, product
  Shipments,   \* logistics records of that sales order
  Managers,    \* people who may purchase
  Quantities, Cents,   \* what people enter
  Ordered,     \* quantity of a purchase
  Total,       \* totalCents of a purchase
  Clerks       \* Worker invocations serving /api/operations

ASSUME Positive == Quantities \cup Cents \subseteq Nat \ {0} /\ Ordered \in Nat /\ Total \in Nat
ASSUME NoneIsNoRow == "none" \notin Movements \cup Shipments

VARIABLES
  purchase, movement, bill, payment,
  withdrawn,   \* the CRM records that are soft-deleted
  doing,       \* clerk -> what it does next
  entry,       \* clerk -> its command
  held         \* clerk -> approvedBy of the purchase it read

ledger == <<movement, bill, payment>>
tables == <<purchase, ledger, withdrawn>>
clerks == <<doing, entry, held>>
operationsVars == <<tables, clerks>>

Absent == [of |-> "none"]
NoEntry == [do |-> "none"]
Unplaced == [status |-> "none", by |-> "nobody", approvedBy |-> "nobody", version |-> 0]
Placed(p) == purchase[p].version > 0
Written(x) == x # Absent

PurchaseStatus == {"Draft", "Approved", "Closed", "Cancelled"}
Kinds == {"Receipt", "Dispatch", "Receipt reversal", "Dispatch reversal"}
Entries ==
  [do: {"purchase"}, on: Purchases, by: Managers]
    \cup [do: {"status"}, on: Purchases, by: Managers, version: Nat,
          status: {"Approved", "Closed", "Cancelled"}]
    \cup [do: {"movement"}, on: Movements, of: Purchases, kind: {"Receipt"},
          quantity: Quantities, shipment: {"none"}]
    \cup [do: {"movement"}, on: Movements, of: Purchases, kind: {"Dispatch"},
          quantity: Quantities, shipment: Shipments]
    \cup [do: {"reverse"}, on: Movements, original: Movements]
    \cup [do: {"invoice"}, on: Bills, of: Purchases, number: Numbers, cents: Cents]
    \cup [do: {"payment"}, on: Payments, of: Bills, cents: Cents]

OperationsInit ==
  /\ purchase = [p \in Purchases |-> Unplaced]
  /\ movement = [m \in Movements |-> Absent]
  /\ bill = [b \in Bills |-> Absent]
  /\ payment = [y \in Payments |-> Absent]
  /\ withdrawn = {}
  /\ doing = [c \in Clerks |-> "idle"]
  /\ entry = [c \in Clerks |-> NoEntry]
  /\ held = [c \in Clerks |-> "nobody"]

-----------------------------------------------------------------------------
(* What the triggers add up.                                                *)

MovesOf(p, kinds) == {m \in Movements : Written(movement[m]) /\ movement[m].of = p
                                          /\ movement[m].kind \in kinds}
Stock(p, kinds) ==
  SumFunctionOnSet([m \in MovesOf(p, kinds) |-> movement[m].quantity], MovesOf(p, kinds))
OnHand(p) == Stock(p, Kinds)
Received(p) == Stock(p, {"Receipt", "Receipt reversal"})

BillsOf(p) == {b \in Bills : Written(bill[b]) /\ bill[b].of = p}
Billed(p) == SumFunctionOnSet([b \in BillsOf(p) |-> bill[b].cents], BillsOf(p))
PaymentsOf(b) == {y \in Payments : Written(payment[y]) /\ payment[y].of = b}
Paid(b) == SumFunctionOnSet([y \in PaymentsOf(b) |-> payment[y].cents], PaymentsOf(b))

\* PurchaseOrder_scope_insert
AdmitsPurchase == Partners \cap withdrawn = {}

\* PurchaseOrder_update: the version, the transition, the approver, the history.
\* Mutant: a purchase with a ledger may be cancelled.
AdmitsStatusAnyhow(p, x) ==
  /\ x.version = purchase[p].version + 1
  /\ \/ purchase[p].status = "Draft" /\ x.status \in {"Approved", "Cancelled"}
     \/ purchase[p].status = "Approved" /\ x.status \in {"Closed", "Cancelled"}
  /\ x.status = "Approved" => x.approvedBy \notin {"nobody", purchase[p].by}
  /\ purchase[p].status = "Approved" => x.approvedBy = purchase[p].approvedBy
AdmitsStatus(p, x) ==
  /\ x.version = purchase[p].version + 1
  /\ \/ purchase[p].status = "Draft" /\ x.status \in {"Approved", "Cancelled"}
     \/ purchase[p].status = "Approved" /\ x.status \in {"Closed", "Cancelled"}
  /\ x.status = "Approved" => x.approvedBy \notin {"nobody", purchase[p].by}
  /\ purchase[p].status = "Approved" => x.approvedBy = purchase[p].approvedBy
  /\ x.status = "Cancelled" => MovesOf(p, Kinds) = {} /\ BillsOf(p) = {}

\* StockMovement_guard, and reversalOf UNIQUE.
ReversesOnce(x) ==
  /\ ~\E m \in Movements : Written(movement[m]) /\ movement[m].reversalOf = x.reversalOf
  /\ LET y == movement[x.reversalOf]
     IN  /\ Written(y) /\ y.of = x.of /\ y.quantity = -x.quantity /\ y.reversalOf = "none"
         /\ <<y.kind, x.kind>> \in {<<"Receipt", "Receipt reversal">>,
                                    <<"Dispatch", "Dispatch reversal">>}
         /\ y.shipment = x.shipment
\* Mutant: only the received total is looked at, not what has left since.
AdmitsMovementReceived(x) ==
  /\ \/ purchase[x.of].status = "Approved"
     \/ purchase[x.of].status = "Closed" /\ x.reversalOf # "none"
  /\ x.reversalOf # "none" => ReversesOnce(x)
  /\ x.shipment \notin withdrawn
  /\ x.kind \in {"Receipt", "Receipt reversal"} => Received(x.of) + x.quantity \in 0..Ordered
AdmitsMovement(x) ==
  /\ \/ purchase[x.of].status = "Approved"
     \/ purchase[x.of].status = "Closed" /\ x.reversalOf # "none"
  /\ x.reversalOf # "none" => ReversesOnce(x)
  /\ x.shipment \notin withdrawn
  /\ OnHand(x.of) + x.quantity >= 0
  /\ x.kind \in {"Receipt", "Receipt reversal"} => Received(x.of) + x.quantity \in 0..Ordered

\* SupplierInvoice_guard, and the unique number; SupplierPayment_guard.
AdmitsBill(x) ==
  /\ purchase[x.of].status \in {"Approved", "Closed"}
  /\ Billed(x.of) + x.cents <= Total
  /\ ~\E b \in Bills : Written(bill[b]) /\ bill[b].number = x.number
AdmitsPayment(x) == Written(bill[x.of]) /\ Paid(x.of) + x.cents <= bill[x.of].cents

-----------------------------------------------------------------------------
\* The clerk answers, refuses or is lost.
Leave(c) ==
  /\ doing' = [doing EXCEPT ![c] = "idle"]
  /\ entry' = [entry EXCEPT ![c] = NoEntry]
  /\ held' = [held EXCEPT ![c] = "nobody"]
Reply(c) == Leave(c) /\ UNCHANGED tables
LeaveOff(c) == doing[c] # "idle" /\ Reply(c)

\* People act on what their page shows: versions and rows of the moment.
Offered == UNION {
  [do: {"purchase"}, on: Purchases, by: Managers],
  {[do |-> "status", on |-> p, by |-> a, version |-> purchase[p].version, status |-> s] :
      p \in {q \in Purchases : Placed(q)}, a \in Managers,
      s \in {"Approved", "Closed", "Cancelled"}},
  [do: {"movement"}, on: Movements, of: {p \in Purchases : Placed(p)}, kind: {"Receipt"},
   quantity: Quantities, shipment: {"none"}],
  [do: {"movement"}, on: Movements, of: {p \in Purchases : Placed(p)}, kind: {"Dispatch"},
   quantity: Quantities, shipment: Shipments],
  [do: {"reverse"}, on: Movements, original: {m \in Movements : Written(movement[m])}],
  [do: {"invoice"}, on: Bills, of: {p \in Purchases : Placed(p)}, number: Numbers, cents: Cents],
  [do: {"payment"}, on: Payments, of: {b \in Bills : Written(bill[b])}, cents: Cents]}
Enter(c) == \E e \in Offered :
  /\ doing[c] = "idle"
  /\ doing' = [doing EXCEPT ![c] = "load"]
  /\ entry' = [entry EXCEPT ![c] = e]
  /\ UNCHANGED <<held, tables>>

\* The reads before the identity is looked up; they only refuse, but for the
\* approver that a later status carries on.
Refuses(e) ==
  CASE e.do = "purchase" -> ~AdmitsPurchase
    [] e.do = "status"   -> \/ purchase[e.on].version # e.version
                            \/ e.status = "Approved" /\ purchase[e.on].by = e.by
    [] e.do = "movement" -> e.shipment \in withdrawn
    [] OTHER             -> FALSE
LoadRows(c) ==
  /\ doing[c] = "load"
  /\ IF Refuses(entry[c]) THEN Reply(c)
     ELSE /\ doing' = [doing EXCEPT ![c] = IF entry[c].do = "status" THEN "batch" ELSE "replay"]
          /\ held' = [held EXCEPT ![c] =
                        IF entry[c].do = "status" THEN purchase[entry[c].on].approvedBy ELSE @]
          /\ UNCHANGED <<entry, tables>>

\* A resubmitted request finds its row and answers with it.
Known(e) ==
  CASE e.do = "purchase"              -> Placed(e.on)
    [] e.do \in {"movement", "reverse"} -> Written(movement[e.on])
    [] e.do = "invoice"               -> Written(bill[e.on])
    [] OTHER                          -> Written(payment[e.on])
Replay(c) ==
  /\ doing[c] = "replay"
  /\ IF Known(entry[c]) \/ (entry[c].do = "reverse" /\ movement[entry[c].original].reversalOf # "none")
       THEN Reply(c)
       ELSE doing' = [doing EXCEPT ![c] = "batch"] /\ UNCHANGED <<entry, held, tables>>

Row(e) ==
  CASE e.do = "movement" ->
         [of |-> e.of, kind |-> e.kind, shipment |-> e.shipment, reversalOf |-> "none",
          quantity |-> IF e.kind = "Dispatch" THEN -e.quantity ELSE e.quantity]
    [] e.do = "reverse" ->
         LET y == movement[e.original]
         IN  [of |-> y.of, shipment |-> y.shipment, reversalOf |-> e.original,
              quantity |-> -y.quantity,
              kind |-> IF y.kind = "Receipt" THEN "Receipt reversal" ELSE "Dispatch reversal"]
    [] e.do = "invoice" -> [of |-> e.of, number |-> e.number, cents |-> e.cents]
    [] OTHER -> [of |-> e.of, cents |-> e.cents]

\* The batch: the row and its audit event, or nothing when the primary key or
\* a trigger refuses.
PlaceOrder(c) == LET e == entry[c] IN
  /\ e.do = "purchase" /\ ~Placed(e.on) /\ AdmitsPurchase
  /\ purchase' = [purchase EXCEPT ![e.on] =
       [status |-> "Draft", by |-> e.by, approvedBy |-> "nobody", version |-> 1]]
  /\ UNCHANGED <<ledger, withdrawn>>
ChangeStatus(c) ==
  LET e == entry[c]
      x == [status |-> e.status, by |-> purchase[e.on].by, version |-> e.version + 1,
            approvedBy |-> IF e.status = "Approved" THEN e.by ELSE held[c]]
  IN  /\ e.do = "status" /\ AdmitsStatus(e.on, x)
      /\ purchase' = [purchase EXCEPT ![e.on] = x]
      /\ UNCHANGED <<ledger, withdrawn>>
MoveStock(c) == LET e == entry[c] IN
  /\ e.do \in {"movement", "reverse"} /\ ~Written(movement[e.on]) /\ AdmitsMovement(Row(e))
  /\ movement' = [movement EXCEPT ![e.on] = Row(e)]
  /\ UNCHANGED <<purchase, bill, payment, withdrawn>>
RecordBill(c) == LET e == entry[c] IN
  /\ e.do = "invoice" /\ ~Written(bill[e.on]) /\ AdmitsBill(Row(e))
  /\ bill' = [bill EXCEPT ![e.on] = Row(e)]
  /\ UNCHANGED <<purchase, movement, payment, withdrawn>>
RecordPayment(c) == LET e == entry[c] IN
  /\ e.do = "payment" /\ ~Written(payment[e.on]) /\ AdmitsPayment(Row(e))
  /\ payment' = [payment EXCEPT ![e.on] = Row(e)]
  /\ UNCHANGED <<purchase, movement, bill, withdrawn>>
Accepted(c) ==
  LET e == entry[c]
  IN  \/ e.do = "purchase" /\ ~Placed(e.on) /\ AdmitsPurchase
      \/ /\ e.do = "status"
         /\ AdmitsStatus(e.on, [status |-> e.status, version |-> e.version + 1,
                                approvedBy |-> IF e.status = "Approved" THEN e.by ELSE held[c]])
      \/ e.do \in {"movement", "reverse"} /\ ~Written(movement[e.on]) /\ AdmitsMovement(Row(e))
      \/ e.do = "invoice" /\ ~Written(bill[e.on]) /\ AdmitsBill(Row(e))
      \/ e.do = "payment" /\ ~Written(payment[e.on]) /\ AdmitsPayment(Row(e))
Batch(c) ==
  /\ doing[c] = "batch" /\ Leave(c)
  /\ \/ PlaceOrder(c) \/ ChangeStatus(c) \/ MoveStock(c) \/ RecordBill(c) \/ RecordPayment(c)
     \/ ~Accepted(c) /\ UNCHANGED tables

\* Deleting a CRM record, which BusinessRecord_operations_retain refuses once a
\* purchase or a movement names it.
MayWithdraw(r) ==
  /\ r \in Partners => \A p \in Purchases : ~Placed(p)
  /\ \A m \in Movements : Written(movement[m]) => movement[m].shipment # r
Withdraw(r) ==
  /\ r \notin withdrawn /\ MayWithdraw(r)
  /\ withdrawn' = withdrawn \cup {r}
  /\ UNCHANGED <<purchase, ledger, clerks>>

OperationsNext ==
  \/ \E c \in Clerks : Enter(c) \/ LoadRows(c) \/ Replay(c) \/ Batch(c) \/ LeaveOff(c)
  \/ \E r \in Partners \cup Shipments : Withdraw(r)
OperationsSpec == OperationsInit /\ [][OperationsNext]_operationsVars

-----------------------------------------------------------------------------
StockRow == [of: Purchases, kind: Kinds, shipment: Shipments \cup {"none"},
             reversalOf: Movements \cup {"none"}, quantity: Int]
OperationsTypeOK ==
  /\ purchase \in [Purchases -> {Unplaced} \cup
       [status: PurchaseStatus, by: Managers, approvedBy: Managers \cup {"nobody"},
        version: Nat \ {0}]]
  /\ movement \in [Movements -> StockRow \cup {Absent}]
  /\ bill \in [Bills -> [of: Purchases, number: Numbers, cents: Cents] \cup {Absent}]
  /\ payment \in [Payments -> [of: Bills, cents: Cents] \cup {Absent}]
  /\ withdrawn \subseteq Partners \cup Shipments
  /\ doing \in [Clerks -> {"idle", "load", "replay", "batch"}]
  /\ entry \in [Clerks -> Entries \cup {NoEntry}]
  /\ held \in [Clerks -> Managers \cup {"nobody"}]

\* Nothing leaves that is not there, and nothing is received, billed or paid
\* beyond what was ordered or owed, whatever receipts, dispatches, reversals,
\* bills and payments were checked at the same time.
LedgerAddsUp ==
  /\ \A p \in Purchases : OnHand(p) >= 0 /\ Received(p) \in 0..Ordered /\ Billed(p) <= Total
  /\ \A b \in Bills : Written(bill[b]) => Paid(b) <= bill[b].cents

\* A ledger belongs to a purchase that a second manager approved and that was
\* not cancelled since; a row is reversed once at most, by its exact opposite,
\* and no reversal is reversed; a supplier's number is billed once; and what a
\* purchase or a dispatch names is still there.
Accountable(p) ==
  purchase[p].status \in {"Approved", "Closed"}
    /\ purchase[p].approvedBy \notin {"nobody", purchase[p].by}
ReversesFully(x) ==
  LET y == movement[x.reversalOf]
  IN  Written(y) /\ y.reversalOf = "none" /\ y.of = x.of /\ y.quantity = -x.quantity
        /\ y.shipment = x.shipment
LedgerStands ==
  /\ \A m \in Movements : Written(movement[m]) =>
       /\ Accountable(movement[m].of)
       /\ movement[m].shipment \notin withdrawn
       /\ movement[m].reversalOf # "none" =>
            /\ ReversesFully(movement[m])
            /\ \A n \in Movements \ {m} :
                 Written(movement[n]) => movement[n].reversalOf # movement[m].reversalOf
  /\ \A b \in Bills : Written(bill[b]) =>
       /\ Accountable(bill[b].of)
       /\ \A d \in Bills \ {b} : Written(bill[d]) => bill[d].number # bill[b].number
  /\ \A y \in Payments : Written(payment[y]) => Written(bill[payment[y].of])
  /\ \A p \in Purchases : Placed(p) => Partners \cap withdrawn = {}
=============================================================================
