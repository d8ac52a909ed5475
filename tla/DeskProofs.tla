------------------------------- MODULE DeskProofs -------------------------------
(***************************************************************************)
(* The order desk: first the purchasing ledger, for any number of          *)
(* purchases, rows and clerks, with the sums its triggers keep; then, for  *)
(* any deal and any number of overlapping handlers, that the handlers      *)
(* change the book only as one command at a time would (KeepsTheBook), and *)
(* that a book changed so keeps its series whole, its quotations as        *)
(* reviewed and what was sent, received or reviewed.                       *)
(*                                                                         *)
(* The last part rests on one invariant of the handlers, Held: what one    *)
(* holds of a row is never newer than the row, and equal in version only   *)
(* if equal; while the lead is still the one it read, what it judged holds.*)
(***************************************************************************)
EXTENDS Execution, Operations, FiniteSetTheorems, WellFoundedInduction, TLAPS

PurchaseRow == [status: PurchaseStatus, by: Managers, approvedBy: Managers \cup {"nobody"},
                version: Nat \ {0}]
BillRow == [of: Purchases, number: Numbers, cents: Cents]
PaymentRow == [of: Bills, cents: Cents]

\* A reversal was asked of a row that is there, and rows stay.
Grounded == \A c \in Clerks : entry[c].do = "reverse" => Written(movement[entry[c].original])
\* An approval is a second manager's, and closing keeps it.
Reviewed == \A p \in Purchases : purchase[p].status \in {"Approved", "Closed"} => Accountable(p)

Desk ==
  /\ doing \in [Clerks -> {"idle", "load", "replay", "batch"}]
  /\ entry \in [Clerks -> Entries \cup {NoEntry}]
  /\ held \in [Clerks -> Managers \cup {"nobody"}]
Tables ==
  /\ purchase \in [Purchases -> {Unplaced} \cup PurchaseRow]
  /\ movement \in [Movements -> StockRow \cup {Absent}]
  /\ bill \in [Bills -> BillRow \cup {Absent}]
  /\ payment \in [Payments -> PaymentRow \cup {Absent}]
  /\ withdrawn \subseteq Partners \cup Shipments

\* LedgerStands, part by part.
MovesAccounted == \A m \in Movements : Written(movement[m]) =>
  Accountable(movement[m].of) /\ movement[m].shipment \notin withdrawn
ReversedOnce(m) ==
  /\ ReversesFully(movement[m])
  /\ \A n \in Movements \ {m} :
       Written(movement[n]) => movement[n].reversalOf # movement[m].reversalOf
ReversalsStand == \A m \in Movements :
  Written(movement[m]) /\ movement[m].reversalOf # "none" => ReversedOnce(m)
BillsAccounted == \A b \in Bills : Written(bill[b]) => Accountable(bill[b].of)
NumbersStand == \A b \in Bills : Written(bill[b]) =>
  \A d \in Bills \ {b} : Written(bill[d]) => bill[d].number # bill[b].number
PaymentsStand == \A y \in Payments : Written(payment[y]) => Written(bill[payment[y].of])
PartnersStay == \A p \in Purchases : Placed(p) => Partners \cap withdrawn = {}
Ledger == MovesAccounted /\ ReversalsStand /\ BillsAccounted /\ NumbersStand /\ PaymentsStand
            /\ PartnersStay

OperationsInv == Desk /\ Tables /\ Grounded /\ Reviewed /\ Ledger

LEMMA OperationsInitInv == OperationsInit => OperationsInv
<1> SUFFICES ASSUME OperationsInit PROVE OperationsInv
  OBVIOUS
<1>1. Desk /\ Tables
  BY DEF OperationsInit, Desk, Tables
<1>2. Grounded
  BY DEF OperationsInit, Grounded, NoEntry
<1>3. Reviewed
  BY DEF OperationsInit, Reviewed, Unplaced
<1>4. Ledger
  BY DEF OperationsInit, Ledger, MovesAccounted, ReversalsStand, BillsAccounted, NumbersStand,
     PaymentsStand, PartnersStay, Unplaced, Placed, Written
<1> QED BY <1>1, <1>2, <1>3, <1>4 DEF OperationsInv

-----------------------------------------------------------------------------
(* Clerks that do not write *)

LEMMA ReversalsStay ==
  ASSUME movement' = movement, ReversalsStand PROVE ReversalsStand'
BY DEF ReversalsStand, ReversedOnce, ReversesFully, Written

LEMMA BillsStay ==
  ASSUME bill' = bill, payment' = payment, NumbersStand, PaymentsStand
  PROVE  NumbersStand' /\ PaymentsStand'
BY DEF NumbersStand, PaymentsStand, Written

LEMMA AccountsStay ==
  ASSUME purchase' = purchase, NEW p PROVE Accountable(p)' = Accountable(p)
BY DEF Accountable

LEMMA ReviewStays == ASSUME purchase' = purchase, Reviewed PROVE Reviewed'
BY DEF Reviewed, Accountable

LEMMA NamesStay ==
  ASSUME purchase' = purchase, withdrawn' = withdrawn, PartnersStay PROVE PartnersStay'
BY DEF PartnersStay, Placed

LEMMA TablesStay ==
  ASSUME OperationsInv, UNCHANGED tables PROVE Tables' /\ Reviewed' /\ Ledger'
<1>1. UNCHANGED <<purchase, movement, bill, payment, withdrawn>>
  BY DEF tables, ledger
<1>2. Tables'
  BY <1>1 DEF OperationsInv, Tables
<1>3. MovesAccounted' /\ BillsAccounted'
  BY <1>1, AccountsStay DEF OperationsInv, Ledger, MovesAccounted, BillsAccounted, Written
<1> QED BY <1>1, <1>2, <1>3, ReversalsStay, BillsStay, ReviewStays, NamesStay
  DEF OperationsInv, Ledger

LEMMA LeaveKeeps ==
  ASSUME Desk, NEW c \in Clerks, Leave(c)
  PROVE  Desk' /\ \A d \in Clerks : entry'[d] \in {entry[d], NoEntry}
BY DEF Leave, Desk

LEMMA LeavingIsGrounded ==
  ASSUME OperationsInv, NEW c \in Clerks, Leave(c),
         \A m \in Movements : Written(movement[m]) => Written(movement[m])'
  PROVE  Grounded'
<1> SUFFICES ASSUME NEW d \in Clerks, entry'[d].do = "reverse"
             PROVE  Written(movement[entry[d].original])'
  BY DEF Grounded
<1>1. entry'[d] = entry[d]
  BY LeaveKeeps DEF OperationsInv, NoEntry
<1>2. entry[d].original \in Movements
  BY <1>1 DEF OperationsInv, Desk, Entries, NoEntry
<1> QED BY <1>1, <1>2 DEF OperationsInv, Grounded, Written

LEMMA ReplyKeeps == ASSUME OperationsInv, NEW c \in Clerks, Reply(c) PROVE OperationsInv'
<1>1. Leave(c) /\ UNCHANGED tables
  BY DEF Reply
<1>2. Grounded'
  BY <1>1, LeavingIsGrounded DEF tables, ledger, Written
<1> QED BY <1>1, <1>2, TablesStay, LeaveKeeps DEF OperationsInv

LEMMA EnterKeeps == ASSUME OperationsInv, NEW c \in Clerks, Enter(c) PROVE OperationsInv'
<1>1. PICK e \in Offered : /\ doing' = [doing EXCEPT ![c] = "load"]
                           /\ entry' = [entry EXCEPT ![c] = e]
                           /\ UNCHANGED <<held, tables>>
  BY DEF Enter
<1>2. e \in Entries /\ (e.do = "reverse" => Written(movement[e.original]))
  <2>1. \A p \in Purchases : Placed(p) => purchase[p].version \in Nat
    BY DEF OperationsInv, Tables, PurchaseRow, Placed, Unplaced
  <2>2. CASE e \in [do: {"purchase"}, on: Purchases, by: Managers]
    BY <2>2 DEF Entries
  <2>3. CASE e \in {[do |-> "status", on |-> p, by |-> m, version |-> purchase[p].version,
                     status |-> t] :
                       p \in {q \in Purchases : Placed(q)}, m \in Managers,
                       t \in {"Approved", "Closed", "Cancelled"}}
    <3>1. PICK p \in Purchases, m \in Managers, t \in {"Approved", "Closed", "Cancelled"} :
            /\ Placed(p)
            /\ e = [do |-> "status", on |-> p, by |-> m, version |-> purchase[p].version, status |-> t]
      BY <2>3
    <3> QED BY <2>1, <3>1 DEF Entries
  <2>4. CASE e \in [do: {"movement"}, on: Movements, of: {p \in Purchases : Placed(p)},
                    kind: {"Receipt"}, quantity: Quantities, shipment: {"none"}]
    BY <2>4 DEF Entries
  <2>5. CASE e \in [do: {"movement"}, on: Movements, of: {p \in Purchases : Placed(p)},
                    kind: {"Dispatch"}, quantity: Quantities, shipment: Shipments]
    BY <2>5 DEF Entries
  <2>6. CASE e \in [do: {"reverse"}, on: Movements,
                    original: {m \in Movements : Written(movement[m])}]
    BY <2>6 DEF Entries
  <2>7. CASE e \in [do: {"invoice"}, on: Bills, of: {p \in Purchases : Placed(p)},
                    number: Numbers, cents: Cents]
    BY <2>7 DEF Entries
  <2>8. CASE e \in [do: {"payment"}, on: Payments, of: {k \in Bills : Written(bill[k])},
                    cents: Cents]
    BY <2>8 DEF Entries
  <2> QED BY <2>2, <2>3, <2>4, <2>5, <2>6, <2>7, <2>8 DEF Offered
<1>3. Desk'
  BY <1>1, <1>2 DEF OperationsInv, Desk
<1>4. Grounded'
  <2>1. movement' = movement
    BY <1>1 DEF tables, ledger
  <2> QED BY <1>1, <1>2, <2>1 DEF OperationsInv, Desk, Grounded, Written
<1> QED BY <1>1, <1>3, <1>4, TablesStay DEF OperationsInv

LEMMA ReadingKeeps ==
  ASSUME OperationsInv, NEW c \in Clerks, LoadRows(c) \/ Replay(c) PROVE OperationsInv'
<1>1. CASE Reply(c)
  BY <1>1, ReplyKeeps
<1>2. CASE ~Reply(c)
  <2>1. UNCHANGED <<entry, tables>>
    BY <1>2 DEF LoadRows, Replay
  <2>2. Desk'
    <3>1. CASE LoadRows(c)
      <4>1. entry[c].do = "status" => entry[c].on \in Purchases
        BY DEF OperationsInv, Desk, Entries, NoEntry
      <4> DEFINE h == IF entry[c].do = "status" THEN purchase[entry[c].on].approvedBy ELSE held[c]
      <4>2. h \in Managers \cup {"nobody"}
        BY <4>1 DEF OperationsInv, Desk, Tables, PurchaseRow, Unplaced
      <4>3. held' = [held EXCEPT ![c] = h] /\ \E l \in {"batch", "replay"} :
              doing' = [doing EXCEPT ![c] = l]
        BY <1>2, <3>1 DEF LoadRows
      <4> HIDE DEF h
      <4> QED BY <2>1, <4>2, <4>3 DEF OperationsInv, Desk
    <3>2. CASE Replay(c)
      BY <1>2, <3>2, <2>1 DEF Replay, OperationsInv, Desk
    <3> QED BY <3>1, <3>2
  <2>3. Grounded'
    BY <2>1 DEF OperationsInv, Grounded, tables, ledger, Written
  <2> QED BY <2>1, <2>2, <2>3, TablesStay DEF OperationsInv
<1> QED BY <1>1, <1>2

-----------------------------------------------------------------------------
(* The batch *)

\* The kinds of a row say which purchases have a ledger.
LEMMA KindsAreAll ==
  ASSUME Tables, NEW p \in Purchases, MovesOf(p, Kinds) = {}, NEW m \in Movements,
         Written(movement[m])
  PROVE  movement[m].of # p
BY DEF Tables, MovesOf, StockRow, Written

\* A purchase may change where it has no ledger, or where it stays accountable.
LEMMA PurchaseKeeps ==
  ASSUME OperationsInv, UNCHANGED <<ledger, withdrawn>>, NEW p \in Purchases,
         NEW x \in PurchaseRow, purchase' = [purchase EXCEPT ![p] = x],
         x.status \in {"Approved", "Closed"} => x.approvedBy \notin {"nobody", x.by},
         Partners \cap withdrawn = {},
         \/ x.status = "Closed"
         \/ /\ \A m \in Movements : Written(movement[m]) => movement[m].of # p
            /\ \A b \in Bills : Written(bill[b]) => bill[b].of # p
  PROVE  Tables' /\ Reviewed' /\ Ledger'
<1>1. Tables'
  BY DEF OperationsInv, Tables, ledger
<1>2. /\ purchase'[p] = x
      /\ \A q \in Purchases \ {p} : purchase'[q] = purchase[q]
  BY DEF OperationsInv, Tables
<1>3. Reviewed'
  BY <1>2 DEF OperationsInv, Reviewed, Accountable
<1>4. \A q \in Purchases : Accountable(q) /\ (q # p \/ x.status = "Closed") => Accountable(q)'
  BY <1>2 DEF Accountable
<1>5. /\ \A m \in Movements : Written(movement[m]) => movement[m].of \in Purchases
      /\ \A b \in Bills : Written(bill[b]) => bill[b].of \in Purchases
  BY DEF OperationsInv, Tables, StockRow, BillRow, Written
<1>6. /\ \A m \in Movements : Written(movement[m]) => Accountable(movement[m].of)'
      /\ \A b \in Bills : Written(bill[b]) => Accountable(bill[b].of)'
  <2> SUFFICES ASSUME NEW q \in Purchases, Accountable(q),
                      \/ \E m \in Movements : Written(movement[m]) /\ movement[m].of = q
                      \/ \E b \in Bills : Written(bill[b]) /\ bill[b].of = q
               PROVE  Accountable(q)'
    BY <1>5 DEF OperationsInv, Ledger, MovesAccounted, BillsAccounted, ledger, Accountable
  <2> QED BY <1>4
<1>7. MovesAccounted' /\ BillsAccounted'
  BY <1>6 DEF OperationsInv, Ledger, MovesAccounted, BillsAccounted, ledger, Written, Accountable
<1>8. Ledger'
  BY <1>7, ReversalsStay, BillsStay DEF OperationsInv, Ledger, ledger, PartnersStay
<1> QED BY <1>1, <1>3, <1>8

LEMMA OrderKeeps ==
  ASSUME OperationsInv, NEW c \in Clerks, PlaceOrder(c) PROVE Tables' /\ Reviewed' /\ Ledger'
<1> DEFINE e == entry[c]
           x == [status |-> "Draft", by |-> e.by, approvedBy |-> "nobody", version |-> 1]
<1>1. /\ e.do = "purchase" /\ ~Placed(e.on) /\ UNCHANGED <<ledger, withdrawn>>
      /\ purchase' = [purchase EXCEPT ![e.on] = x]
  BY DEF PlaceOrder
<1>2. e.on \in Purchases /\ e.by \in Managers
  BY <1>1 DEF OperationsInv, Desk, Entries, NoEntry
<1>3. x \in PurchaseRow
  BY <1>2 DEF PurchaseRow, PurchaseStatus
<1>4. ~Accountable(e.on)
  BY <1>1, <1>2 DEF OperationsInv, Tables, PurchaseRow, Placed, Unplaced, Accountable
<1>5. /\ \A m \in Movements : Written(movement[m]) => movement[m].of # e.on
      /\ \A b \in Bills : Written(bill[b]) => bill[b].of # e.on
  BY <1>4 DEF OperationsInv, Ledger, MovesAccounted, BillsAccounted
<1>6. x.status = "Draft"
  OBVIOUS
<1>7. Partners \cap withdrawn = {}
  BY DEF PlaceOrder, AdmitsPurchase
<1> HIDE DEF e, x
<1> QED BY <1>1, <1>2, <1>3, <1>5, <1>6, <1>7, PurchaseKeeps

LEMMA OrderStatusKeeps ==
  ASSUME OperationsInv, NEW c \in Clerks, ChangeStatus(c) PROVE Tables' /\ Reviewed' /\ Ledger'
<1> DEFINE e == entry[c]
           x == [status |-> e.status, by |-> purchase[e.on].by, version |-> e.version + 1,
                 approvedBy |-> IF e.status = "Approved" THEN e.by ELSE held[c]]
<1>1. /\ e.do = "status" /\ AdmitsStatus(e.on, x) /\ UNCHANGED <<ledger, withdrawn>>
      /\ purchase' = [purchase EXCEPT ![e.on] = x]
  BY DEF ChangeStatus
<1>2. /\ e.on \in Purchases /\ e.by \in Managers /\ e.version \in Nat
      /\ e.status \in {"Approved", "Closed", "Cancelled"}
  BY <1>1 DEF OperationsInv, Desk, Entries, NoEntry
<1>3. purchase[e.on].status \in {"Draft", "Approved"}
  BY <1>1 DEF AdmitsStatus
<1>4. purchase[e.on] \in PurchaseRow
  BY <1>2, <1>3 DEF OperationsInv, Tables, Unplaced
<1>5. x \in PurchaseRow
  BY <1>2, <1>4 DEF PurchaseRow, PurchaseStatus, OperationsInv, Desk
<1>6. /\ x.by = purchase[e.on].by
      /\ x.status \in {"Approved", "Closed", "Cancelled"}
      /\ x.status = "Approved" => /\ x.approvedBy \notin {"nobody", x.by}
                                  /\ purchase[e.on].status = "Draft"
      /\ x.status = "Closed" => /\ purchase[e.on].status = "Approved"
                                /\ x.approvedBy = purchase[e.on].approvedBy
      /\ x.status = "Cancelled" => MovesOf(e.on, Kinds) = {} /\ BillsOf(e.on) = {}
  BY <1>1, <1>2 DEF AdmitsStatus
<1> HIDE DEF e, x
<1>7. x.status \in {"Approved", "Closed"} => x.approvedBy \notin {"nobody", x.by}
  BY <1>2, <1>6 DEF OperationsInv, Reviewed, Accountable
<1>8. Partners \cap withdrawn = {}
  BY <1>2, <1>4 DEF OperationsInv, Ledger, PartnersStay, PurchaseRow, Placed
<1>9. CASE x.status = "Closed"
  BY <1>1, <1>2, <1>5, <1>7, <1>8, <1>9, PurchaseKeeps
<1>10. CASE x.status \in {"Approved", "Cancelled"}
  <2>1. \A m \in Movements : Written(movement[m]) => movement[m].of # e.on
    BY <1>2, <1>6, <1>10, KindsAreAll DEF OperationsInv, Ledger, MovesAccounted, Accountable
  <2>2. \A b \in Bills : Written(bill[b]) => bill[b].of # e.on
    BY <1>6, <1>10 DEF OperationsInv, Ledger, BillsAccounted, Accountable, BillsOf
  <2> QED BY <1>1, <1>2, <1>5, <1>7, <1>8, <2>1, <2>2, PurchaseKeeps
<1> QED BY <1>6, <1>9, <1>10

LEMMA RowsAreRows ==
  ASSUME OperationsInv, NEW e \in Entries, e.do \in {"movement", "reverse"},
         e.do = "reverse" => Written(movement[e.original])
  PROVE  e.on \in Movements /\ Row(e) \in StockRow
<1>2. CASE e.do = "movement"
  <2>1. /\ e.on \in Movements /\ e.of \in Purchases /\ e.kind \in {"Receipt", "Dispatch"}
        /\ e.quantity \in Int /\ e.shipment \in Shipments \cup {"none"}
    BY <1>2, Positive DEF Entries
  <2> DEFINE q == IF e.kind = "Dispatch" THEN -e.quantity ELSE e.quantity
  <2>2. Row(e) = [of |-> e.of, kind |-> e.kind, shipment |-> e.shipment, reversalOf |-> "none",
                  quantity |-> q]
    BY <1>2 DEF Row
  <2>3. q \in Int
    BY <2>1
  <2> HIDE DEF q
  <2>4. \A d \in Purchases, k \in Kinds, h \in Shipments \cup {"none"}, n \in Int :
          [of |-> d, kind |-> k, shipment |-> h, reversalOf |-> "none", quantity |-> n] \in StockRow
    BY DEF StockRow
  <2>5. e.kind \in Kinds
    BY <2>1 DEF Kinds
  <2> QED BY <2>1, <2>2, <2>3, <2>4, <2>5
<1>3. CASE e.do = "reverse"
  <2>1. e.on \in Movements /\ e.original \in Movements
    BY <1>3 DEF Entries
  <2>2. movement[e.original] \in StockRow
    BY <1>3, <2>1 DEF OperationsInv, Tables, Written
  <2> DEFINE y == movement[e.original]
             q == -y.quantity
             k == IF y.kind = "Receipt" THEN "Receipt reversal" ELSE "Dispatch reversal"
  <2>3. Row(e) = [of |-> y.of, shipment |-> y.shipment, reversalOf |-> e.original,
                  quantity |-> q, kind |-> k]
    BY <1>3 DEF Row
  <2>4. q \in Int /\ k \in Kinds /\ y.of \in Purchases /\ y.shipment \in Shipments \cup {"none"}
    <3>1. y.quantity \in Int /\ y.of \in Purchases /\ y.shipment \in Shipments \cup {"none"}
      BY <2>2 DEF StockRow
    <3>2. q \in Int
      BY <3>1
    <3>3. k \in Kinds
      BY DEF Kinds
    <3> QED BY <3>1, <3>2, <3>3
  <2> HIDE DEF y, q, k
  <2> QED BY <2>1, <2>3, <2>4 DEF StockRow
<1> QED BY <1>2, <1>3

LEMMA MoveKeeps ==
  ASSUME OperationsInv, NEW c \in Clerks, MoveStock(c) PROVE Tables' /\ Reviewed' /\ Ledger'
<1> DEFINE o == entry[c].on
           x == Row(entry[c])
<1>1. /\ entry[c].do \in {"movement", "reverse"} /\ ~Written(movement[o]) /\ AdmitsMovement(x)
      /\ movement' = [movement EXCEPT ![o] = x]
      /\ UNCHANGED <<purchase, bill, payment, withdrawn>>
  BY DEF MoveStock
<1>2. o \in Movements /\ x \in StockRow
  <2>1. entry[c] \in Entries /\ (entry[c].do = "reverse" => Written(movement[entry[c].original]))
    BY <1>1 DEF OperationsInv, Desk, Grounded, NoEntry
  <2> QED BY <1>1, <2>1, RowsAreRows
<1> HIDE DEF o, x
<1>3. /\ movement'[o] = x /\ \A m \in Movements \ {o} : movement'[m] = movement[m]
      /\ movement' \in [Movements -> StockRow \cup {Absent}]
  BY <1>1, <1>2 DEF OperationsInv, Tables
<1>4. Tables' /\ Reviewed'
  BY <1>1, <1>3 DEF OperationsInv, Tables, Reviewed, Accountable
<1>5. Accountable(x.of) /\ x.shipment \notin withdrawn
  <2>1. x.of \in Purchases /\ purchase[x.of].status \in {"Approved", "Closed"}
    BY <1>1, <1>2 DEF AdmitsMovement, StockRow
  <2> QED BY <1>1, <2>1 DEF AdmitsMovement, OperationsInv, Reviewed
<1>6. x.reversalOf # "none" =>
        /\ x.reversalOf \in Movements \ {o} /\ ReversesFully(x)
        /\ \A m \in Movements : Written(movement[m]) => movement[m].reversalOf # x.reversalOf
  BY <1>1, <1>2 DEF AdmitsMovement, ReversesOnce, ReversesFully, StockRow
<1>7. ASSUME NEW m \in Movements \ {o}, Written(movement[m]), movement[m].reversalOf # "none"
      PROVE  /\ movement[m].reversalOf \in Movements \ {o} /\ ReversedOnce(m)
             /\ movement[m].reversalOf # x.reversalOf
  <2>1. ReversedOnce(m) /\ movement[m] \in StockRow
    BY <1>7 DEF OperationsInv, Ledger, ReversalsStand, Tables, Written
  <2>2. movement[m].reversalOf \in Movements /\ Written(movement[movement[m].reversalOf])
    BY <1>7, <2>1 DEF ReversedOnce, ReversesFully, StockRow
  <2> QED BY <1>1, <1>6, <1>7, <2>1, <2>2
<1>8. MovesAccounted'
  BY <1>1, <1>3, <1>5 DEF OperationsInv, Ledger, MovesAccounted, Written, Accountable
<1>9. ReversalsStand'
  <2> SUFFICES ASSUME NEW m \in Movements, Written(movement'[m]), movement'[m].reversalOf # "none"
               PROVE  ReversedOnce(m)'
    BY DEF ReversalsStand, Written
  <2>1. \A n \in Movements \ {m} : Written(movement'[n]) =>
          movement'[n].reversalOf # movement'[m].reversalOf
    BY <1>3, <1>6, <1>7 DEF ReversedOnce
  <2>2. CASE m = o
    <3>1. movement'[m] = x /\ movement'[x.reversalOf] = movement[x.reversalOf] /\ ReversesFully(x)
      BY <2>2, <1>3, <1>6
    <3>2. ReversesFully(movement[m])'
      BY <3>1 DEF ReversesFully, Written
    <3> QED BY <2>1, <3>2 DEF ReversedOnce, Written
  <2>3. CASE m # o
    <3> DEFINE k == movement[m].reversalOf
    <3>1. movement'[m] = movement[m] /\ movement'[k] = movement[k] /\ ReversesFully(movement[m])
      BY <2>3, <1>3, <1>7 DEF ReversedOnce
    <3>2. ReversesFully(movement[m])'
      BY <3>1 DEF ReversesFully, Written
    <3> QED BY <2>1, <3>2 DEF ReversedOnce, Written
  <2> QED BY <2>2, <2>3
<1>10. BillsAccounted'
  BY <1>1, AccountsStay DEF OperationsInv, Ledger, BillsAccounted, Written
<1> QED BY <1>1, <1>4, <1>8, <1>9, <1>10, BillsStay, NamesStay DEF OperationsInv, Ledger

LEMMA BillKeeps ==
  ASSUME OperationsInv, NEW c \in Clerks, RecordBill(c) PROVE Tables' /\ Reviewed' /\ Ledger'
<1> DEFINE o == entry[c].on
           x == Row(entry[c])
<1>1. /\ entry[c].do = "invoice" /\ ~Written(bill[o]) /\ AdmitsBill(x)
      /\ bill' = [bill EXCEPT ![o] = x]
      /\ UNCHANGED <<purchase, movement, payment, withdrawn>>
  BY DEF RecordBill
<1>2. o \in Bills /\ x \in BillRow
  BY <1>1 DEF OperationsInv, Desk, Entries, NoEntry, Row, BillRow
<1> HIDE DEF o, x
<1>3. /\ bill'[o] = x /\ \A b \in Bills \ {o} : bill'[b] = bill[b]
      /\ bill' \in [Bills -> BillRow \cup {Absent}]
  BY <1>1, <1>2 DEF OperationsInv, Tables
<1>4. Tables' /\ Reviewed'
  BY <1>1, <1>3 DEF OperationsInv, Tables, Reviewed, Accountable
<1>5. Accountable(x.of) /\ \A b \in Bills : Written(bill[b]) => bill[b].number # x.number
  BY <1>1, <1>2 DEF AdmitsBill, OperationsInv, Reviewed, BillRow
<1>6. \A b \in Bills : Written(bill'[b]) =>
        /\ Accountable(bill'[b].of)
        /\ \A d \in Bills \ {b} : Written(bill'[d]) => bill'[d].number # bill'[b].number
  BY <1>3, <1>5 DEF OperationsInv, Ledger, BillsAccounted, NumbersStand
<1>7. \A y \in Payments : Written(payment[y]) => Written(bill'[payment[y].of])
  <2> SUFFICES ASSUME NEW y \in Payments, Written(payment[y]) PROVE Written(bill'[payment[y].of])
    OBVIOUS
  <2>1. payment[y].of \in Bills /\ Written(bill[payment[y].of])
    BY DEF OperationsInv, Tables, PaymentRow, Ledger, PaymentsStand, Written
  <2> QED BY <1>1, <1>3, <2>1
<1>8. MovesAccounted' /\ BillsAccounted'
  BY <1>1, <1>6, AccountsStay DEF OperationsInv, Ledger, MovesAccounted, BillsAccounted, Written
<1>9. NumbersStand' /\ PaymentsStand'
  BY <1>1, <1>6, <1>7 DEF NumbersStand, PaymentsStand, Written
<1> QED BY <1>1, <1>4, <1>8, <1>9, ReversalsStay, NamesStay DEF OperationsInv, Ledger

LEMMA PaymentKeeps ==
  ASSUME OperationsInv, NEW c \in Clerks, RecordPayment(c)
  PROVE  Tables' /\ Reviewed' /\ Ledger'
<1> DEFINE o == entry[c].on
           x == Row(entry[c])
<1>1. /\ entry[c].do = "payment" /\ AdmitsPayment(x)
      /\ payment' = [payment EXCEPT ![o] = x]
      /\ UNCHANGED <<purchase, movement, bill, withdrawn>>
  BY DEF RecordPayment
<1>2. o \in Payments /\ x \in PaymentRow
  BY <1>1 DEF OperationsInv, Desk, Entries, NoEntry, Row, PaymentRow
<1> HIDE DEF o, x
<1>3. /\ payment'[o] = x /\ \A y \in Payments \ {o} : payment'[y] = payment[y]
      /\ payment' \in [Payments -> PaymentRow \cup {Absent}]
  BY <1>1, <1>2 DEF OperationsInv, Tables
<1>4. Tables' /\ Reviewed'
  BY <1>1, <1>3 DEF OperationsInv, Tables, Reviewed, Accountable
<1>5. \A y \in Payments : Written(payment'[y]) => Written(bill[payment'[y].of])
  BY <1>1, <1>3 DEF AdmitsPayment, OperationsInv, Ledger, PaymentsStand
<1>6. MovesAccounted' /\ BillsAccounted'
  BY <1>1, AccountsStay DEF OperationsInv, Ledger, MovesAccounted, BillsAccounted, Written
<1>7. NumbersStand' /\ PaymentsStand'
  BY <1>1, <1>5 DEF OperationsInv, Ledger, NumbersStand, PaymentsStand, Written
<1> QED BY <1>1, <1>4, <1>6, <1>7, ReversalsStay, NamesStay DEF OperationsInv, Ledger

LEMMA BatchKeeps == ASSUME OperationsInv, NEW c \in Clerks, Batch(c) PROVE OperationsInv'
<1>1. Leave(c)
  BY DEF Batch
<1>2. Tables' /\ Reviewed' /\ Ledger'
  BY OrderKeeps, OrderStatusKeeps, MoveKeeps, BillKeeps, PaymentKeeps, TablesStay DEF Batch
<1>3. \A m \in Movements : Written(movement[m]) => Written(movement[m])'
  <2>1. CASE MoveStock(c)
    BY <2>1 DEF MoveStock, Written, OperationsInv, Tables
  <2>2. CASE ~MoveStock(c)
    <3>1. movement' = movement
      BY <2>2 DEF Batch, PlaceOrder, ChangeStatus, RecordBill, RecordPayment, tables, ledger
    <3> QED BY <3>1 DEF Written
  <2> QED BY <2>1, <2>2
<1> QED BY <1>1, <1>2, <1>3, LeaveKeeps, LeavingIsGrounded DEF OperationsInv

LEMMA WithdrawKeeps ==
  ASSUME OperationsInv, NEW r \in Partners \cup Shipments, Withdraw(r) PROVE OperationsInv'
<1>1. /\ withdrawn' = withdrawn \cup {r} /\ MayWithdraw(r)
      /\ UNCHANGED <<purchase, movement, bill, payment, doing, entry, held>>
  BY DEF Withdraw, ledger, clerks
<1>2. Desk' /\ Tables' /\ Grounded' /\ Reviewed'
  BY <1>1 DEF OperationsInv, Desk, Tables, Grounded, Reviewed, Accountable, Written
<1>3. MovesAccounted' /\ BillsAccounted'
  BY <1>1, AccountsStay
     DEF OperationsInv, Ledger, MovesAccounted, BillsAccounted, Written, MayWithdraw
<1>4. PartnersStay'
  BY <1>1 DEF OperationsInv, Ledger, PartnersStay, MayWithdraw, Placed
<1> QED BY <1>1, <1>2, <1>3, <1>4, ReversalsStay, BillsStay DEF OperationsInv, Ledger

-----------------------------------------------------------------------------
(* The theorems *)

LEMMA OperationsStep == OperationsInv /\ [OperationsNext]_operationsVars => OperationsInv'
<1> SUFFICES ASSUME OperationsInv, [OperationsNext]_operationsVars PROVE OperationsInv'
  OBVIOUS
<1>1. CASE UNCHANGED operationsVars
  <2>1. Desk' /\ Grounded' /\ UNCHANGED tables
    BY <1>1 DEF operationsVars, clerks, tables, ledger, OperationsInv, Desk, Grounded, Written
  <2> QED BY <2>1, TablesStay DEF OperationsInv
<1>2. CASE OperationsNext
  BY <1>2, EnterKeeps, ReadingKeeps, BatchKeeps, ReplyKeeps, WithdrawKeeps
     DEF OperationsNext, LeaveOff
<1> QED BY <1>1, <1>2

\* OperationsInv holds of every reachable state.
THEOREM OperationsInvariant == OperationsSpec => []OperationsInv
BY OperationsInitInv, OperationsStep, PTL DEF OperationsSpec

\* Tables, commands and what clerks hold keep their types.
THEOREM OperationsTypes == OperationsSpec => []OperationsTypeOK
<1>1. OperationsInv => OperationsTypeOK
  BY DEF OperationsInv, Desk, Tables, OperationsTypeOK, PurchaseRow, BillRow, PaymentRow
<1> QED BY OperationsInvariant, <1>1, PTL

\* However the clerks' reads and batches interleave, every row of the ledger is
\* accounted for: approved by a second manager, reversed once at most, billed
\* once, paid against a bill, and naming records that are still there.
THEOREM LedgerIsAccounted == OperationsSpec => []LedgerStands
<1>1. OperationsInv => LedgerStands
  <2> SUFFICES ASSUME Ledger PROVE LedgerStands
    BY DEF OperationsInv
  <2>1. \A m \in Movements : Written(movement[m]) =>
          /\ Accountable(movement[m].of)
          /\ movement[m].shipment \notin withdrawn
          /\ movement[m].reversalOf # "none" => ReversedOnce(m)
    BY DEF Ledger, MovesAccounted, ReversalsStand
  <2>2. \A b \in Bills : Written(bill[b]) =>
          /\ Accountable(bill[b].of)
          /\ \A d \in Bills \ {b} : Written(bill[d]) => bill[d].number # bill[b].number
    BY DEF Ledger, BillsAccounted, NumbersStand
  <2>3. PaymentsStand
    BY DEF Ledger
  <2>4. \A m \in Movements : Written(movement[m]) =>
          /\ Accountable(movement[m].of)
          /\ movement[m].shipment \notin withdrawn
          /\ movement[m].reversalOf # "none" =>
               /\ ReversesFully(movement[m])
               /\ \A n \in Movements \ {m} :
                    Written(movement[n]) => movement[n].reversalOf # movement[m].reversalOf
    BY <2>1 DEF ReversedOnce
  <2>5. \A y \in Payments : Written(payment[y]) => Written(bill[payment[y].of])
    BY <2>3 DEF PaymentsStand
  <2>6. PartnersStay
    BY DEF Ledger
  <2> QED BY <2>2, <2>4, <2>5, <2>6 DEF LedgerStands, PartnersStay
<1> QED BY OperationsInvariant, <1>1, PTL

-----------------------------------------------------------------------------
(* What is on hand, received, billed and paid, by induction on the size of a set: *)
(* a sum takes its elements in any order, so that a row written adds what it says. *)

LEMMA LeastOf == ASSUME NEW T, T \subseteq Nat, T # {} PROVE \E n \in T : \A m \in T : ~ (m < n)
<1> DEFINE R == {e \in Nat \X Nat : e[1] < e[2]}
<1>1. IsWellFoundedOn(R, Nat)
  BY NatLessThanWellFounded DEF OpToRel
<1>2. \A m, n \in T : m < n => <<m, n>> \in R
  OBVIOUS
<1> HIDE DEF R
<1>3. \E x \in T : \A y \in T : ~ (<<y, x>> \in R)
  BY <1>1, WFMin
<1> QED BY <1>2, <1>3

\* The element a sum takes first.
Pick(s) == CHOOSE x \in s : TRUE
LEMMA Picked == ASSUME NEW s, s # {} PROVE Pick(s) \in s
BY DEF Pick

\* h gives the sum of f over every subset of S.
Sums(h, f, S) == h = [s \in SUBSET S |-> IF s = {} THEN 0 ELSE f[Pick(s)] + h[s \ {Pick(s)}]]
LEMMA SumIs ==
  ASSUME NEW f, NEW S, \E h : Sums(h, f, S)
  PROVE  \E h : Sums(h, f, S) /\ SumFunctionOnSet(f, S) = h[S]
<1> DEFINE iter == CHOOSE h : h = [s \in SUBSET S |-> IF s = {} THEN 0
                        ELSE f[CHOOSE x \in s : TRUE] + h[s \ {CHOOSE x \in s : TRUE}]]
<1>1. iter = CHOOSE h : Sums(h, f, S)
  BY DEF Sums, Pick
<1>2. SumFunctionOnSet(f, S) = iter[S]
  BY Zenon DEF SumFunctionOnSet, FoldFunctionOnSet, MapThenFoldSet
<1> QED BY <1>1, <1>2

LEMMA SmallerSet ==
  ASSUME NEW s, IsFiniteSet(s), NEW x \in s
  PROVE  /\ IsFiniteSet(s \ {x}) /\ Cardinality(s \ {x}) \in Nat /\ Cardinality(s) \in Nat
         /\ Cardinality(s \ {x}) = Cardinality(s) - 1
BY FS_RemoveElement, FS_CardinalityType
LEMMA PartSize ==
  ASSUME NEW S, IsFiniteSet(S), NEW s \in SUBSET S
  PROVE  IsFiniteSet(s) /\ Cardinality(s) \in Nat /\ Cardinality(s) <= Cardinality(S)
BY FS_Subset, FS_CardinalityType

LEMMA SumsExist ==
  ASSUME NEW f, NEW S, IsFiniteSet(S)
  PROVE  \E h : Sums(h, f, S)
<1> DEFINE Small(n) == {s \in SUBSET S : Cardinality(s) <= n}
           From(h, n) == [s \in Small(n) |-> IF s = {} THEN 0 ELSE f[Pick(s)] + h[s \ {Pick(s)}]]
           Reached == {n \in Nat : \E h : h = From(h, n)}
<1>1. 0 \in Reached
  <2> DEFINE h0 == [s \in Small(0) |-> 0]
  <2>1. \A s \in Small(0) : s = {}
    BY PartSize, FS_EmptySet
  <2>2. h0 = From(h0, 0)
    BY <2>1
  <2> QED BY <2>2
<1>2. ASSUME NEW n \in Reached PROVE n + 1 \in Reached
  <2>1. PICK h : h = From(h, n)
    OBVIOUS
  <2>2. \A s \in Small(n) : h[s] = IF s = {} THEN 0 ELSE f[Pick(s)] + h[s \ {Pick(s)}]
    BY <2>1
  <2> DEFINE g == From(h, n + 1)
  <2>3. \A s \in Small(n + 1) : s # {} => s \ {Pick(s)} \in Small(n) /\ s \ {Pick(s)} \in Small(n + 1)
    <3> SUFFICES ASSUME NEW s \in Small(n + 1), s # {}
                 PROVE  s \ {Pick(s)} \in Small(n) /\ s \ {Pick(s)} \in Small(n + 1)
      OBVIOUS
    <3>1. IsFiniteSet(s) /\ Pick(s) \in s
      BY PartSize, Picked
    <3>2. Cardinality(s \ {Pick(s)}) = Cardinality(s) - 1 /\ Cardinality(s) \in Nat
      BY <3>1, SmallerSet
    <3> QED BY <3>2
  <2>4. \A s \in Small(n + 1) : g[s] = IF s = {} THEN 0 ELSE f[Pick(s)] + h[s \ {Pick(s)}]
    OBVIOUS
  <2>5. \A s \in Small(n) : s \in Small(n + 1) /\ g[s] = h[s]
    <3>1. \A s \in Small(n) : s \in Small(n + 1)
      BY PartSize
    <3> HIDE DEF Small, g
    <3> QED BY <2>2, <2>4, <3>1
  <2>6. g = From(g, n + 1)
    <3>1. \A s \in Small(n + 1) : g[s] = IF s = {} THEN 0 ELSE f[Pick(s)] + g[s \ {Pick(s)}]
      <4> HIDE DEF Small, g
      <4> QED BY <2>3, <2>4, <2>5
    <3> QED BY <3>1
  <2>7. \E e : e = From(e, n + 1)
    <3> HIDE DEF From, g
    <3> QED BY <2>6
  <2>8. n + 1 \in Nat
    OBVIOUS
  <2> HIDE DEF From
  <2> QED BY <2>7, <2>8
<1>3. Reached = Nat
  <2> SUFFICES ASSUME Nat \ Reached # {} PROVE FALSE
    OBVIOUS
  <2> HIDE DEF Reached
  <2>1. PICK n \in Nat \ Reached : \A m \in Nat \ Reached : ~ (m < n)
    BY LeastOf
  <2>2. n # 0 /\ n - 1 \in Nat
    BY <1>1
  <2>3. n - 1 \in Reached
    BY <2>1, <2>2
  <2>4. (n - 1) + 1 \in Reached
    BY <1>2, <2>3
  <2> QED BY <2>2, <2>4
<1>4. PICK h : h = From(h, Cardinality(S))
  <2>1. Cardinality(S) \in Reached
    BY <1>3, FS_CardinalityType
  <2> QED BY <2>1
<1>5. Small(Cardinality(S)) = SUBSET S
  BY PartSize
<1> QED BY <1>4, <1>5 DEF Sums

LEMMA SumsStep ==
  ASSUME NEW h, NEW f, NEW S, Sums(h, f, S), NEW s \in SUBSET S
  PROVE  /\ s = {} => h[s] = 0
         /\ s # {} => h[s] = f[Pick(s)] + h[s \ {Pick(s)}]
<1> DEFINE F(t) == IF t = {} THEN 0 ELSE f[Pick(t)] + h[t \ {Pick(t)}]
<1>1. h = [t \in SUBSET S |-> F(t)]
  BY DEF Sums
<1> HIDE DEF F
<1>2. h[s] = F(s)
  BY <1>1
<1> QED BY <1>2 DEF F

\* Any element may be taken first, and the sum is a number.
LEMMA SumsAny ==
  ASSUME NEW h, NEW S, IsFiniteSet(S), NEW f, \A x \in S : f[x] \in Int, Sums(h, f, S),
         NEW s \in SUBSET S
  PROVE  h[s] \in Int /\ \A x \in s : h[s] = f[x] + h[s \ {x}]
<1> DEFINE Right(t) == h[t] \in Int /\ \A x \in t : h[t] = f[x] + h[t \ {x}]
           Bad == {n \in Nat : \E t \in SUBSET S : Cardinality(t) = n /\ ~Right(t)}
<1> SUFFICES ASSUME Bad # {} PROVE FALSE
  BY PartSize
<1>1. PICK n \in Bad : \A m \in Bad : ~ (m < n)
  <2> HIDE DEF Bad
  <2>1. Bad \subseteq Nat
    BY DEF Bad
  <2> QED BY <2>1, LeastOf
<1>2. PICK t \in SUBSET S : Cardinality(t) = n /\ ~Right(t)
  OBVIOUS
<1>3. \A u \in SUBSET S : Cardinality(u) < n => Right(u)
  <2> HIDE DEF Right
  <2> QED BY <1>1, PartSize
<1>4. t # {}
  <2> SUFFICES ASSUME t = {} PROVE FALSE
    OBVIOUS
  <2>1. h[t] = 0
    BY SumsStep
  <2> QED BY <1>2, <2>1
<1> DEFINE c == Pick(t)
<1>5. c \in t /\ h[t] = f[c] + h[t \ {c}]
  BY <1>4, Picked, SumsStep
<1>6. \A x \in t : t \ {x} \in SUBSET S /\ Cardinality(t \ {x}) < n
  BY <1>2, PartSize, SmallerSet
<1> HIDE DEF c
<1>7. h[t \ {c}] \in Int /\ h[t] \in Int
  BY <1>3, <1>5, <1>6
<1>8. ASSUME NEW x \in t, x # c PROVE h[t] = f[x] + h[t \ {x}]
  <2>1. h[t \ {c}] = f[x] + h[(t \ {c}) \ {x}]
    BY <1>3, <1>5, <1>6, <1>8
  <2>2. h[t \ {x}] = f[c] + h[(t \ {x}) \ {c}]
    BY <1>3, <1>5, <1>6, <1>8
  <2>3. (t \ {c}) \ {x} = (t \ {x}) \ {c}
    OBVIOUS
  <2> DEFINE rest == (t \ {x}) \ {c}
  <2>4. h[rest] \in Int
    <3>1. Cardinality(rest) < n
      <4>1. c \in t \ {x} /\ IsFiniteSet(t \ {x}) /\ Cardinality(t \ {x}) < n /\ n \in Nat
        BY <1>5, <1>6, <1>8, PartSize
      <4>2. Cardinality(rest) = Cardinality(t \ {x}) - 1 /\ Cardinality(t \ {x}) \in Nat
        BY <4>1, SmallerSet
      <4> HIDE DEF rest
      <4> QED BY <4>1, <4>2
    <3> QED BY <1>3, <3>1
  <2> HIDE DEF rest
  <2>5. h[t \ {c}] = f[x] + h[rest] /\ h[t \ {x}] = f[c] + h[rest]
    BY <2>1, <2>2, <2>3 DEF rest
  <2> QED BY <1>5, <2>4, <2>5
<1> QED BY <1>2, <1>5, <1>7, <1>8

LEMMA SumsAgree ==
  ASSUME NEW S, IsFiniteSet(S), NEW T, IsFiniteSet(T), NEW f, NEW g, NEW h, NEW k,
         Sums(h, f, S), Sums(k, g, T), NEW s \in SUBSET (S \cap T), \A x \in s : f[x] = g[x]
  PROVE  h[s] = k[s]
<1>1. \A u \in SUBSET S : u # {} => h[u] = f[Pick(u)] + h[u \ {Pick(u)}]
  <2> TAKE u \in SUBSET S
  <2> QED BY SumsStep
<1>2. \A u \in SUBSET T : u # {} => k[u] = g[Pick(u)] + k[u \ {Pick(u)}]
  <2> TAKE u \in SUBSET T
  <2> QED BY SumsStep
<1> DEFINE Bad == {n \in Nat : \E t \in SUBSET s : Cardinality(t) = n /\ h[t] # k[t]}
<1>3. IsFiniteSet(s)
  BY FS_Subset
<1> SUFFICES ASSUME Bad # {} PROVE FALSE
  BY <1>3, PartSize
<1>4. PICK n \in Bad : \A m \in Bad : ~ (m < n)
  <2> HIDE DEF Bad
  <2>1. Bad \subseteq Nat
    BY DEF Bad
  <2> QED BY <2>1, LeastOf
<1>5. PICK t \in SUBSET s : Cardinality(t) = n /\ h[t] # k[t]
  OBVIOUS
<1>6. t # {} /\ t \in SUBSET S /\ t \in SUBSET T
  BY <1>5, SumsStep
<1> DEFINE c == Pick(t)
<1>7. c \in t /\ h[t] = f[c] + h[t \ {c}] /\ k[t] = g[c] + k[t \ {c}]
  BY <1>1, <1>2, <1>6, Picked
<1>8. Cardinality(t \ {c}) \in Nat /\ Cardinality(t \ {c}) < n
  BY <1>3, <1>5, <1>7, PartSize, SmallerSet
<1> HIDE DEF c
<1>9. h[t \ {c}] = k[t \ {c}]
  BY <1>4, <1>8
<1> QED BY <1>5, <1>7, <1>9

\* What is written to a sum adds to it, and nothing else of it changes.
LEMMA SumsWhole ==
  ASSUME NEW h, NEW S, IsFiniteSet(S), NEW f, \A x \in S : f[x] \in Int, Sums(h, f, S)
  PROVE  h[S] \in Int /\ \A x \in S : h[S] = f[x] + h[S \ {x}]
<1>1. S \in SUBSET S
  OBVIOUS
<1> QED BY <1>1, SumsAny

LEMMA SumAdds ==
  ASSUME NEW S, IsFiniteSet(S), NEW f, NEW g, NEW x, x \notin S, NEW T, T = S \cup {x},
         \A y \in T : f[y] \in Int, \A y \in S : g[y] = f[y]
  PROVE  SumFunctionOnSet(f, T) = SumFunctionOnSet(g, S) + f[x]
<1>1. IsFiniteSet(T) /\ x \in T /\ T \ {x} = S
  BY FS_AddElement
<1>2. PICK h : Sums(h, f, T) /\ SumFunctionOnSet(f, T) = h[T]
  BY <1>1, SumsExist, SumIs
<1>3. PICK k : Sums(k, g, S) /\ SumFunctionOnSet(g, S) = k[S]
  BY SumsExist, SumIs
<1>4. h[T] = f[x] + h[T \ {x}]
  BY <1>1, <1>2, SumsWhole
<1>5. h[S] = k[S]
  BY <1>1, <1>2, <1>3, SumsAgree
<1>6. k[S] \in Int /\ f[x] \in Int
  <2>1. \A y \in S : g[y] \in Int
    OBVIOUS
  <2>2. k[S] \in Int
    BY <1>3, <2>1, SumsWhole
  <2> QED BY <1>1, <2>2
<1>7. h[T] = f[x] + k[S]
  BY <1>1, <1>4, <1>5
<1>8. f[x] + k[S] = k[S] + f[x]
  BY <1>6
<1> QED BY <1>2, <1>3, <1>7, <1>8

LEMMA SumEmpty == ASSUME NEW f PROVE SumFunctionOnSet(f, {}) = 0
<1>1. IsFiniteSet({})
  BY FS_EmptySet
<1>2. PICK h : Sums(h, f, {}) /\ SumFunctionOnSet(f, {}) = h[{}]
  BY <1>1, SumsExist, SumIs
<1> QED BY <1>2, SumsStep

LEMMA SumIsInt ==
  ASSUME NEW S, IsFiniteSet(S), NEW f, \A y \in S : f[y] \in Int
  PROVE  SumFunctionOnSet(f, S) \in Int
<1>1. PICK h : Sums(h, f, S) /\ SumFunctionOnSet(f, S) = h[S]
  BY SumsExist, SumIs
<1> QED BY <1>1, SumsAny


RowsWritten(t, ids) == {k \in ids : Written(t[k])}
Added ==
  /\ IsFiniteSet(RowsWritten(movement, Movements)) /\ IsFiniteSet(RowsWritten(bill, Bills))
  /\ IsFiniteSet(RowsWritten(payment, Payments))
  /\ LedgerAddsUp

\* Of one more row in a table, what it is of and of a kind that counts.
LEMMA RowAdded ==
  ASSUME NEW t, NEW u, NEW ids, NEW o \in ids, ~Written(t[o]), Written(u[o]),
         \A k \in ids \ {o} : u[k] = t[k], IsFiniteSet(RowsWritten(t, ids))
  PROVE  IsFiniteSet(RowsWritten(u, ids))
<1>1. RowsWritten(u, ids) = RowsWritten(t, ids) \cup {o}
  BY DEF RowsWritten
<1> QED BY <1>1, FS_AddElement

LEMMA StockIs ==
  ASSUME Tables, IsFiniteSet(RowsWritten(movement, Movements)), NEW p, NEW kinds
  PROVE  /\ IsFiniteSet(MovesOf(p, kinds)) /\ Stock(p, kinds) \in Int
         /\ \A m \in MovesOf(p, kinds) : movement[m].quantity \in Int
<1> DEFINE S == MovesOf(p, kinds)
           f == [m \in S |-> movement[m].quantity]
<1>1. S \in SUBSET RowsWritten(movement, Movements)
  BY DEF MovesOf, RowsWritten
<1>2. IsFiniteSet(S)
  BY <1>1, FS_Subset
<1>3. \A m \in S : movement[m].quantity \in Int
  BY DEF MovesOf, Tables, StockRow, Written
<1>4. \A m \in S : f[m] \in Int
  BY <1>3
<1>5. SumFunctionOnSet(f, S) \in Int
  <2> HIDE DEF f, S
  <2> QED BY <1>2, <1>4, SumIsInt
<1> QED BY <1>2, <1>3, <1>5 DEF Stock

LEMMA BilledIs ==
  ASSUME Tables, IsFiniteSet(RowsWritten(bill, Bills)), NEW p PROVE Billed(p) \in Int
<1> DEFINE S == BillsOf(p)
           f == [b \in S |-> bill[b].cents]
<1>1. S \in SUBSET RowsWritten(bill, Bills)
  BY DEF BillsOf, RowsWritten
<1>2. IsFiniteSet(S)
  BY <1>1, FS_Subset
<1>3. \A b \in S : f[b] \in Int
  BY Positive DEF BillsOf, Tables, BillRow, Written
<1>4. SumFunctionOnSet(f, S) \in Int
  <2> HIDE DEF f, S
  <2> QED BY <1>2, <1>3, SumIsInt
<1> QED BY <1>4 DEF Billed

LEMMA PaidIs ==
  ASSUME Tables, IsFiniteSet(RowsWritten(payment, Payments)), NEW b PROVE Paid(b) \in Int
<1> DEFINE S == PaymentsOf(b)
           f == [y \in S |-> payment[y].cents]
<1>1. S \in SUBSET RowsWritten(payment, Payments)
  BY DEF PaymentsOf, RowsWritten
<1>2. IsFiniteSet(S)
  BY <1>1, FS_Subset
<1>3. \A y \in S : f[y] \in Int
  BY Positive DEF PaymentsOf, Tables, PaymentRow, Written
<1>4. SumFunctionOnSet(f, S) \in Int
  <2> HIDE DEF f, S
  <2> QED BY <1>2, <1>3, SumIsInt
<1> QED BY <1>4 DEF Paid

LEMMA StockMoves ==
  ASSUME Tables, IsFiniteSet(RowsWritten(movement, Movements)), NEW o \in Movements, NEW x \in StockRow,
         ~Written(movement[o]), movement'[o] = x, Written(x),
         \A m \in Movements \ {o} : movement'[m] = movement[m], NEW p, NEW kinds
  PROVE  /\ x.of = p /\ x.kind \in kinds => Stock(p, kinds)' = Stock(p, kinds) + x.quantity
         /\ ~(x.of = p /\ x.kind \in kinds) => Stock(p, kinds)' = Stock(p, kinds)
<1> DEFINE S == MovesOf(p, kinds)
           T == S \cup {o}
           g == [m \in S |-> movement[m].quantity]
           f == [m \in T |-> movement'[m].quantity]
<1>1. IsFiniteSet(S) /\ Stock(p, kinds) \in Int /\ \A m \in S : g[m] \in Int
  BY StockIs
<1>2. o \notin S /\ \A m \in S : m \in Movements /\ movement'[m] = movement[m]
  BY DEF MovesOf
<1>3. CASE x.of = p /\ x.kind \in kinds
  <2>1. MovesOf(p, kinds)' = T
    BY <1>3 DEF MovesOf
  <2>2. Stock(p, kinds)' = SumFunctionOnSet(f, T)
    BY <2>1 DEF Stock
  <2>3. (\A m \in T : f[m] \in Int) /\ (\A m \in S : g[m] = f[m]) /\ f[o] = x.quantity
    BY <1>1, <1>2 DEF StockRow
  <2>4. SumFunctionOnSet(g, S) = Stock(p, kinds)
    BY DEF Stock
  <2>5. T = S \cup {o}
    OBVIOUS
  <2> HIDE DEF f, g, S, T
  <2>6. SumFunctionOnSet(f, T) = SumFunctionOnSet(g, S) + f[o]
    BY <1>1, <1>2, <2>3, <2>5, SumAdds
  <2> QED BY <1>3, <2>2, <2>3, <2>4, <2>6
<1>4. CASE ~(x.of = p /\ x.kind \in kinds)
  <2>1. MovesOf(p, kinds)' = S
    BY <1>4 DEF MovesOf
  <2>2. [m \in MovesOf(p, kinds)' |-> movement'[m].quantity] = g
    BY <1>2, <2>1
  <2>3. Stock(p, kinds)' = Stock(p, kinds)
    BY <2>1, <2>2 DEF Stock
  <2> QED BY <1>1, <1>4, <2>3
<1> QED BY <1>3, <1>4

LEMMA BilledMore ==
  ASSUME Tables, IsFiniteSet(RowsWritten(bill, Bills)), NEW o \in Bills, NEW x \in BillRow,
         ~Written(bill[o]), bill'[o] = x, Written(x), \A b \in Bills \ {o} : bill'[b] = bill[b], NEW p
  PROVE  Billed(p)' = Billed(p) + (IF x.of = p THEN x.cents ELSE 0)
<1> DEFINE S == BillsOf(p)
           T == S \cup {o}
           g == [b \in S |-> bill[b].cents]
           f == [b \in T |-> bill'[b].cents]
<1>0. S \in SUBSET RowsWritten(bill, Bills)
  BY DEF BillsOf, RowsWritten
<1>1. IsFiniteSet(S) /\ \A b \in S : g[b] \in Int
  <2>1. \A b \in S : g[b] \in Int
    BY Positive DEF BillsOf, Tables, BillRow, Written
  <2> QED BY <1>0, <2>1, FS_Subset
<1>2. o \notin S /\ \A b \in S : b \in Bills /\ bill'[b] = bill[b]
  BY DEF BillsOf
<1>3. SumFunctionOnSet(g, S) = Billed(p)
  BY DEF Billed
<1>4. SumFunctionOnSet(g, S) \in Int
  <2> HIDE DEF g, S
  <2> QED BY <1>1, SumIsInt
<1>5. CASE x.of = p
  <2>1. BillsOf(p)' = T
    BY <1>5 DEF BillsOf
  <2>2. Billed(p)' = SumFunctionOnSet(f, T)
    BY <2>1 DEF Billed
  <2>3. (\A b \in T : f[b] \in Int) /\ (\A b \in S : g[b] = f[b]) /\ f[o] = x.cents
    BY <1>1, <1>2, Positive DEF BillRow
  <2>4. T = S \cup {o}
    OBVIOUS
  <2> HIDE DEF f, g, S, T
  <2>5. SumFunctionOnSet(f, T) = SumFunctionOnSet(g, S) + f[o]
    BY <1>1, <1>2, <2>3, <2>4, SumAdds
  <2> QED BY <1>3, <1>5, <2>2, <2>3, <2>5
<1>6. CASE x.of # p
  <2>1. BillsOf(p)' = S
    BY <1>6 DEF BillsOf
  <2>2. [b \in BillsOf(p)' |-> bill'[b].cents] = g
    BY <1>2, <2>1
  <2>3. Billed(p)' = Billed(p)
    BY <2>1, <2>2 DEF Billed
  <2> QED BY <1>3, <1>4, <1>6, <2>3
<1> QED BY <1>5, <1>6

LEMMA PaidMore ==
  ASSUME Tables, IsFiniteSet(RowsWritten(payment, Payments)), NEW o \in Payments, NEW x \in PaymentRow,
         ~Written(payment[o]), payment'[o] = x, Written(x),
         \A y \in Payments \ {o} : payment'[y] = payment[y], NEW b
  PROVE  Paid(b)' = Paid(b) + (IF x.of = b THEN x.cents ELSE 0)
<1> DEFINE S == PaymentsOf(b)
           T == S \cup {o}
           g == [y \in S |-> payment[y].cents]
           f == [y \in T |-> payment'[y].cents]
<1>0. S \in SUBSET RowsWritten(payment, Payments)
  BY DEF PaymentsOf, RowsWritten
<1>1. IsFiniteSet(S) /\ \A y \in S : g[y] \in Int
  <2>1. \A y \in S : g[y] \in Int
    BY Positive DEF PaymentsOf, Tables, PaymentRow, Written
  <2> QED BY <1>0, <2>1, FS_Subset
<1>2. o \notin S /\ \A y \in S : y \in Payments /\ payment'[y] = payment[y]
  BY DEF PaymentsOf
<1>3. SumFunctionOnSet(g, S) = Paid(b)
  BY DEF Paid
<1>4. SumFunctionOnSet(g, S) \in Int
  <2> HIDE DEF g, S
  <2> QED BY <1>1, SumIsInt
<1>5. CASE x.of = b
  <2>1. PaymentsOf(b)' = T
    BY <1>5 DEF PaymentsOf
  <2>2. Paid(b)' = SumFunctionOnSet(f, T)
    BY <2>1 DEF Paid
  <2>3. (\A y \in T : f[y] \in Int) /\ (\A y \in S : g[y] = f[y]) /\ f[o] = x.cents
    BY <1>1, <1>2, Positive DEF PaymentRow
  <2>4. T = S \cup {o}
    OBVIOUS
  <2> HIDE DEF f, g, S, T
  <2>5. SumFunctionOnSet(f, T) = SumFunctionOnSet(g, S) + f[o]
    BY <1>1, <1>2, <2>3, <2>4, SumAdds
  <2> QED BY <1>3, <1>5, <2>2, <2>3, <2>5
<1>6. CASE x.of # b
  <2>1. PaymentsOf(b)' = S
    BY <1>6 DEF PaymentsOf
  <2>2. [y \in PaymentsOf(b)' |-> payment'[y].cents] = g
    BY <1>2, <2>1
  <2>3. Paid(b)' = Paid(b)
    BY <2>1, <2>2 DEF Paid
  <2> QED BY <1>3, <1>4, <1>6, <2>3
<1> QED BY <1>5, <1>6

\* Where a table stays, so does what is added up of it.
LEMMA StockStays == ASSUME movement' = movement, NEW p, NEW kinds PROVE Stock(p, kinds)' = Stock(p, kinds)
BY DEF Stock, MovesOf
LEMMA BilledStays == ASSUME bill' = bill, NEW p PROVE Billed(p)' = Billed(p)
BY DEF Billed, BillsOf
LEMMA PaidStays == ASSUME payment' = payment, NEW b PROVE Paid(b)' = Paid(b)
BY DEF Paid, PaymentsOf

LEMMA AddedInit == OperationsInit => Added
<1> SUFFICES ASSUME OperationsInit PROVE Added
  OBVIOUS
<1>1. /\ RowsWritten(movement, Movements) = {} /\ RowsWritten(bill, Bills) = {}
      /\ RowsWritten(payment, Payments) = {}
  BY DEF OperationsInit, RowsWritten, Written
<1>2. \A p, kinds : MovesOf(p, kinds) = {}
  BY DEF OperationsInit, MovesOf, Written
<1>3. \A p : BillsOf(p) = {}
  BY DEF OperationsInit, BillsOf, Written
<1>4. \A p, kinds : Stock(p, kinds) = 0
  BY <1>2, SumEmpty DEF Stock
<1>5. \A p : Billed(p) = 0
  BY <1>3, SumEmpty DEF Billed
<1>6. LedgerAddsUp
  <2>1. \A p : OnHand(p) = 0 /\ Received(p) = 0
    BY <1>4 DEF OnHand, Received
  <2>2. \A b \in Bills : ~Written(bill[b])
    BY DEF OperationsInit, Written
  <2> QED BY <1>5, <2>1, <2>2, Positive DEF LedgerAddsUp
<1> QED BY <1>1, <1>6, FS_EmptySet DEF Added

LEMMA MoveAdds ==
  ASSUME OperationsInv, Added, NEW c \in Clerks, MoveStock(c) PROVE Added'
<1> DEFINE o == entry[c].on
           x == Row(entry[c])
<1>1. /\ entry[c].do \in {"movement", "reverse"} /\ ~Written(movement[o]) /\ AdmitsMovement(x)
      /\ movement' = [movement EXCEPT ![o] = x]
      /\ UNCHANGED <<purchase, bill, payment, withdrawn>>
  BY DEF MoveStock
<1>2. o \in Movements /\ x \in StockRow
  <2>1. entry[c] \in Entries /\ (entry[c].do = "reverse" => Written(movement[entry[c].original]))
    BY <1>1 DEF OperationsInv, Desk, Grounded, NoEntry
  <2> QED BY <1>1, <2>1, RowsAreRows
<1> HIDE DEF o, x
<1>3. /\ movement'[o] = x /\ Written(x) /\ \A m \in Movements \ {o} : movement'[m] = movement[m]
  BY <1>1, <1>2 DEF OperationsInv, Tables, Written, StockRow, Absent
<1>4. IsFiniteSet(RowsWritten(movement, Movements))'
  <2>1. IsFiniteSet(RowsWritten(movement', Movements))
    BY <1>1, <1>2, <1>3, RowAdded DEF Added
  <2> QED BY <2>1 DEF RowsWritten, Written
<1>5. \A p, kinds :
        /\ x.of = p /\ x.kind \in kinds => Stock(p, kinds)' = Stock(p, kinds) + x.quantity
        /\ ~(x.of = p /\ x.kind \in kinds) => Stock(p, kinds)' = Stock(p, kinds)
  BY <1>1, <1>2, <1>3, StockMoves DEF OperationsInv, Added
<1>6. \A p, kinds : Stock(p, kinds) \in Int
  BY StockIs DEF OperationsInv, Added
<1>7. x.quantity \in Int /\ x.kind \in Kinds /\ x.of \in Purchases
  BY <1>2 DEF StockRow
<1>8. /\ OnHand(x.of) + x.quantity >= 0
      /\ x.kind \in {"Receipt", "Receipt reversal"} => Received(x.of) + x.quantity \in 0..Ordered
  BY <1>1 DEF AdmitsMovement
<1>9. ASSUME NEW p \in Purchases PROVE (OnHand(p) >= 0 /\ Received(p) \in 0..Ordered)'
  <2>1. OnHand(p) >= 0 /\ Received(p) \in 0..Ordered /\ OnHand(p) \in Int
    BY <1>6 DEF Added, LedgerAddsUp, OnHand
  <2>2. OnHand(p)' >= 0
    <3>1. CASE x.of = p
      BY <1>5, <1>7, <1>8, <3>1 DEF OnHand
    <3>2. CASE x.of # p
      BY <1>5, <2>1, <3>2 DEF OnHand
    <3> QED BY <3>1, <3>2
  <2>3. Received(p)' \in 0..Ordered
    <3>1. CASE x.of = p /\ x.kind \in {"Receipt", "Receipt reversal"}
      BY <1>5, <1>8, <3>1 DEF Received
    <3>2. CASE ~(x.of = p /\ x.kind \in {"Receipt", "Receipt reversal"})
      BY <1>5, <2>1, <3>2 DEF Received
    <3> QED BY <3>1, <3>2
  <2> QED BY <2>2, <2>3
<1>10. LedgerAddsUp'
  BY <1>1, <1>9, BilledStays, PaidStays DEF Added, LedgerAddsUp
<1> QED BY <1>1, <1>4, <1>10 DEF Added, RowsWritten, Written

LEMMA BillAdds ==
  ASSUME OperationsInv, Added, NEW c \in Clerks, RecordBill(c) PROVE Added'
<1> DEFINE o == entry[c].on
           x == Row(entry[c])
<1>1. /\ entry[c].do = "invoice" /\ ~Written(bill[o]) /\ AdmitsBill(x)
      /\ bill' = [bill EXCEPT ![o] = x]
      /\ UNCHANGED <<purchase, movement, payment, withdrawn>>
  BY DEF RecordBill
<1>2. o \in Bills /\ x \in BillRow
  BY <1>1 DEF OperationsInv, Desk, Entries, NoEntry, Row, BillRow
<1> HIDE DEF o, x
<1>3. /\ bill'[o] = x /\ Written(x) /\ \A b \in Bills \ {o} : bill'[b] = bill[b]
  BY <1>1, <1>2 DEF OperationsInv, Tables, Written, BillRow, Absent
<1>4. IsFiniteSet(RowsWritten(bill, Bills))'
  <2>1. IsFiniteSet(RowsWritten(bill', Bills))
    BY <1>1, <1>2, <1>3, RowAdded DEF Added
  <2> QED BY <2>1 DEF RowsWritten, Written
<1>5. \A p : Billed(p)' = Billed(p) + (IF x.of = p THEN x.cents ELSE 0)
  BY <1>1, <1>2, <1>3, BilledMore DEF OperationsInv, Added
<1>6. ASSUME NEW p \in Purchases PROVE Billed(p)' <= Total
  <2>1. CASE x.of = p
    BY <1>1, <1>5, <2>1 DEF AdmitsBill
  <2>2. CASE x.of # p
    <3>1. Billed(p) \in Int
      BY BilledIs DEF OperationsInv, Added
    <3> QED BY <1>5, <2>2, <3>1 DEF Added, LedgerAddsUp
  <2> QED BY <2>1, <2>2
<1>7. ASSUME NEW b \in Bills, Written(bill'[b]) PROVE Paid(b)' <= bill'[b].cents
  <2>1. CASE b = o
    <3>1. PaymentsOf(o) = {}
      BY <1>1 DEF PaymentsOf, OperationsInv, Ledger, PaymentsStand
    <3>2. Paid(o) = 0
      BY <3>1, SumEmpty DEF Paid
    <3>3. x.cents \in Nat
      BY <1>2, Positive DEF BillRow
    <3> QED BY <1>1, <1>3, <2>1, <3>2, <3>3, PaidStays
  <2>2. CASE b # o
    BY <1>1, <1>3, <1>7, <2>2, PaidStays DEF Added, LedgerAddsUp
  <2> QED BY <2>1, <2>2
<1>8. LedgerAddsUp'
  BY <1>1, <1>6, <1>7, StockStays DEF Added, LedgerAddsUp, OnHand, Received, Written
<1> QED BY <1>1, <1>4, <1>8 DEF Added, RowsWritten, Written

LEMMA PaymentAdds ==
  ASSUME OperationsInv, Added, NEW c \in Clerks, RecordPayment(c) PROVE Added'
<1> DEFINE o == entry[c].on
           x == Row(entry[c])
<1>1. /\ entry[c].do = "payment" /\ ~Written(payment[o]) /\ AdmitsPayment(x)
      /\ payment' = [payment EXCEPT ![o] = x]
      /\ UNCHANGED <<purchase, movement, bill, withdrawn>>
  BY DEF RecordPayment
<1>2. o \in Payments /\ x \in PaymentRow
  BY <1>1 DEF OperationsInv, Desk, Entries, NoEntry, Row, PaymentRow
<1> HIDE DEF o, x
<1>3. /\ payment'[o] = x /\ Written(x) /\ \A y \in Payments \ {o} : payment'[y] = payment[y]
  BY <1>1, <1>2 DEF OperationsInv, Tables, Written, PaymentRow, Absent
<1>4. IsFiniteSet(RowsWritten(payment, Payments))'
  <2>1. IsFiniteSet(RowsWritten(payment', Payments))
    BY <1>1, <1>2, <1>3, RowAdded DEF Added
  <2> QED BY <2>1 DEF RowsWritten, Written
<1>5. \A b : Paid(b)' = Paid(b) + (IF x.of = b THEN x.cents ELSE 0)
  BY <1>1, <1>2, <1>3, PaidMore DEF OperationsInv, Added
<1>6. ASSUME NEW b \in Bills, Written(bill[b]) PROVE Paid(b)' <= bill[b].cents
  <2>1. CASE x.of = b
    BY <1>1, <1>5, <2>1 DEF AdmitsPayment
  <2>2. CASE x.of # b
    <3>1. Paid(b) \in Int
      BY PaidIs DEF OperationsInv, Added
    <3> QED BY <1>5, <1>6, <2>2, <3>1 DEF Added, LedgerAddsUp
  <2> QED BY <2>1, <2>2
<1>7. LedgerAddsUp'
  BY <1>1, <1>6, StockStays, BilledStays DEF Added, LedgerAddsUp, OnHand, Received, Written
<1> QED BY <1>1, <1>4, <1>7 DEF Added, RowsWritten, Written

LEMMA AddedStays == ASSUME Added, UNCHANGED ledger PROVE Added'
<1>1. UNCHANGED <<movement, bill, payment>>
  BY DEF ledger
<1>2. LedgerAddsUp'
  BY <1>1, StockStays, BilledStays, PaidStays DEF Added, LedgerAddsUp, OnHand, Received, Written
<1> QED BY <1>1, <1>2 DEF Added, RowsWritten, Written

\* Nothing leaves that is not there, and nothing is received, billed or paid beyond what
\* was ordered or owed, however many receipts, dispatches, reversals, bills and payments
\* were judged at the same time.
THEOREM LedgerSums == OperationsSpec => []LedgerAddsUp
<1>1. OperationsInv /\ Added /\ [OperationsNext]_operationsVars => Added'
  <2> SUFFICES ASSUME OperationsInv, Added, [OperationsNext]_operationsVars PROVE Added'
    OBVIOUS
  <2>1. CASE UNCHANGED ledger
    BY <2>1, AddedStays
  <2>2. CASE \E c \in Clerks : Batch(c)
    BY <2>2, AddedStays, MoveAdds, BillAdds, PaymentAdds
       DEF Batch, PlaceOrder, ChangeStatus, tables
  <2> QED BY <2>1, <2>2 DEF OperationsNext, operationsVars, tables, Enter, LoadRows, Replay,
                            LeaveOff, Reply, Withdraw
<1>2. Added => LedgerAddsUp
  BY DEF Added
<1> QED BY OperationsInvariant, AddedInit, <1>1, <1>2, PTL DEF OperationsSpec

-----------------------------------------------------------------------------
(* The book and its handlers *)

BookInv == BookTypeOK /\ SeriesIsWhole /\ QuotedAsReviewed

\* What HistoryStands says of one step.
Stands ==
  /\ \A r \in Rfqs : Exists(rfq[r]) /\ rfq[r].status \in Sent =>
       rfq'[r].terms = rfq[r].terms /\ rfq'[r].status \in Sent
  /\ \A o \in Offers : Exists(offer[o]) =>
       /\ offer'[o].terms = offer[o].terms /\ offer'[o].previous = offer[o].previous
       /\ offer'[o].series = offer[o].series /\ offer'[o].rfq = offer[o].rfq
       /\ offer[o].status = "Superseded" => offer'[o] = offer[o]
  /\ \A s \in Scenarios : Exists(scenario[s]) /\ scenario[s].status # "Draft" =>
       scenario'[s].terms = scenario[s].terms /\ scenario'[s].status # "Draft"
  /\ \A s \in Scenarios : quote[s] # "none" => quote'[s] = quote[s]

\* A row never changes without counting its version up.
Later(x, y) == x.version <= y.version /\ (x.version = y.version => x = y)
Grows ==
  /\ \A s \in Suppliers : Later(candidate[s], candidate'[s])
  /\ \A r \in Rfqs : Later(rfq[r], rfq'[r])
  /\ \A o \in Offers : Later(offer[o], offer'[o])
  /\ \A s \in Scenarios : Later(scenario[s], scenario'[s])

Kept == BookInv' /\ Stands /\ Grows

-----------------------------------------------------------------------------
(* Commands and rows *)

LEMMA CommandKinds ==
  ASSUME NEW V, NEW c \in DealCommands(V)
  PROVE  /\ c.version \in V
         /\ c.do = "candidate" => c \in SaveCandidate(V)
         /\ c.do = "rfq" => c \in SaveRfq(V)
         /\ c.do = "offer" => c \in RecordOffer(V)
         /\ c.do = "offer status" => c \in OfferStatus(V)
         /\ c.do = "scenario" => c \in SaveScenario(V)
         /\ c.do = "scenario status" => c \in ScenarioStatus(V)
         /\ c.do \notin {"candidate", "rfq", "offer", "offer status", "scenario",
                         "scenario status"} => c \in PrepareQuotation(V)
BY DEF DealCommands, SaveCandidate, SaveRfq, RecordOffer, OfferStatus, SaveScenario,
       ScenarioStatus, PrepareQuotation

LEMMA RowsTyped ==
  ASSUME BookTypeOK
  PROVE  /\ \A s \in Suppliers : IF Exists(candidate[s]) THEN candidate[s] \in CandidateRow
                                                         ELSE candidate[s] = NoRow
         /\ \A r \in Rfqs : IF Exists(rfq[r]) THEN rfq[r] \in RfqRow ELSE rfq[r] = NoRow
         /\ \A o \in Offers : IF Exists(offer[o]) THEN offer[o] \in OfferRow
                                                  ELSE offer[o] = NoRow
         /\ \A s \in Scenarios : IF Exists(scenario[s]) THEN scenario[s] \in ScenarioRow
                                                        ELSE scenario[s] = NoRow
<1>1. ~Exists(NoRow)
  BY DEF Exists, NoRow
<1>2. \A x : x \in CandidateRow \cup RfqRow \cup OfferRow \cup ScenarioRow => Exists(x)
  BY DEF Exists, CandidateRow, RfqRow, OfferRow, ScenarioRow
<1> QED BY <1>1, <1>2 DEF BookTypeOK

LEMMA NothingGrows ==
  ASSUME BookTypeOK
  PROVE  /\ \A s \in Suppliers : Later(candidate[s], candidate[s])
         /\ \A r \in Rfqs : Later(rfq[r], rfq[r])
         /\ \A o \in Offers : Later(offer[o], offer[o])
         /\ \A s \in Scenarios : Later(scenario[s], scenario[s])
<1>1. NoRow.version \in Nat
  BY DEF NoRow
<1> QED BY <1>1 DEF BookTypeOK, CandidateRow, RfqRow, OfferRow, ScenarioRow, Later

\* A row that moves on: another status, one version later.
LEMMA MovedRows ==
  ASSUME NEW status
  PROVE  /\ \A x \in CandidateRow : /\ status \in Sourcing => Moved(x, status) \in CandidateRow
                                    /\ Later(x, Moved(x, status))
         /\ \A x \in RfqRow :
              /\ status \in RfqStages => Moved(x, status) \in RfqRow
              /\ Later(x, Moved(x, status))
         /\ \A x \in OfferRow :
              /\ status \in {"Superseded"} \cup Decisions => Moved(x, status) \in OfferRow
              /\ Later(x, Moved(x, status))
              /\ Moved(x, status).status = status
              /\ \A f \in {"supplier", "terms", "rfq", "series", "revision", "previous"} :
                   Moved(x, status)[f] = x[f]
         /\ \A x \in ScenarioRow :
              /\ status \in {"Draft", "Reviewed", "Selected"} => Moved(x, status) \in ScenarioRow
              /\ Later(x, Moved(x, status))
              /\ Moved(x, status).status = status
              /\ Moved(x, status).offer = x.offer /\ Moved(x, status).terms = x.terms
              /\ Moved(x, status).quoted = x.quoted
<1>1. ASSUME NEW x \in CandidateRow
      PROVE  /\ status \in Sourcing => Moved(x, status) \in CandidateRow
             /\ Later(x, Moved(x, status))
  <2>1. /\ x.version \in Nat \ {0} /\ x.version + 1 \in Nat \ {0}
        /\ Moved(x, status).version = x.version + 1
    BY DEF CandidateRow, Moved
  <2>2. status \in Sourcing => Moved(x, status) \in CandidateRow
    BY <2>1 DEF CandidateRow, Moved
  <2> QED BY <2>1, <2>2 DEF Later
<1>2. ASSUME NEW x \in RfqRow
      PROVE  /\ status \in RfqStages => Moved(x, status) \in RfqRow
             /\ Later(x, Moved(x, status))
  <2>1. /\ x.version \in Nat \ {0} /\ x.version + 1 \in Nat \ {0}
        /\ Moved(x, status).version = x.version + 1
    BY DEF RfqRow, Moved
  <2>2. status \in RfqStages => Moved(x, status) \in RfqRow
    BY <2>1 DEF RfqRow, Moved
  <2> QED BY <2>1, <2>2 DEF Later
<1>3. ASSUME NEW x \in OfferRow
      PROVE  /\ status \in {"Superseded"} \cup Decisions => Moved(x, status) \in OfferRow
             /\ Later(x, Moved(x, status))
             /\ Moved(x, status).status = status
             /\ \A f \in {"supplier", "terms", "rfq", "series", "revision", "previous"} :
                  Moved(x, status)[f] = x[f]
  <2>1. /\ x.version \in Nat \ {0} /\ x.version + 1 \in Nat \ {0}
        /\ Moved(x, status).version = x.version + 1
    BY DEF OfferRow, Moved
  <2>2. status \in {"Superseded"} \cup Decisions => Moved(x, status) \in OfferRow
    BY <2>1 DEF OfferRow, Moved
  <2>3. /\ Moved(x, status).status = status
        /\ \A f \in {"supplier", "terms", "rfq", "series", "revision", "previous"} :
             Moved(x, status)[f] = x[f]
    BY DEF OfferRow, Moved
  <2> QED BY <2>1, <2>2, <2>3 DEF Later
<1>4. ASSUME NEW x \in ScenarioRow
      PROVE  /\ status \in {"Draft", "Reviewed", "Selected"} => Moved(x, status) \in ScenarioRow
             /\ Later(x, Moved(x, status))
             /\ Moved(x, status).status = status
             /\ Moved(x, status).offer = x.offer /\ Moved(x, status).terms = x.terms
             /\ Moved(x, status).quoted = x.quoted
  <2>1. /\ x.version \in Nat \ {0} /\ x.version + 1 \in Nat \ {0}
        /\ Moved(x, status).version = x.version + 1
    BY DEF ScenarioRow, Moved
  <2>2. status \in {"Draft", "Reviewed", "Selected"} => Moved(x, status) \in ScenarioRow
    BY <2>1 DEF ScenarioRow, Moved
  <2>3. /\ Moved(x, status).status = status
        /\ Moved(x, status).offer = x.offer /\ Moved(x, status).terms = x.terms
        /\ Moved(x, status).quoted = x.quoted
    BY DEF ScenarioRow, Moved
  <2> QED BY <2>1, <2>2, <2>3 DEF Later
<1> QED BY <1>1, <1>2, <1>3, <1>4 DEF Moved

LEMMA ScenarioMoves ==
  ASSUME NEW x \in ScenarioRow, NEW status \in {"Draft", "Reviewed", "Selected"}
  PROVE  /\ Moved(x, status) \in ScenarioRow /\ Later(x, Moved(x, status))
         /\ Moved(x, status).status = status
         /\ Moved(x, status).offer = x.offer /\ Moved(x, status).terms = x.terms
         /\ Moved(x, status).quoted = x.quoted
BY MovedRows

-----------------------------------------------------------------------------
(* One command at a time: each batch, judged on the book as it stands *)

LEMMA LeadKeeps ==
  ASSUME BookInv, LeadEdited
  PROVE  Kept
<1>1. lead' \in Nat
  BY DEF BookInv, BookTypeOK, LeadEdited
<1>2. BookTypeOK'
  BY <1>1 DEF BookInv, BookTypeOK, Related, LeadEdited, Exists
<1>3. SeriesIsWhole' /\ QuotedAsReviewed'
  BY DEF BookInv, SeriesIsWhole, Follows, QuotedAsReviewed, Selected, LeadEdited, Exists
<1>4. Stands
  BY DEF Stands, LeadEdited
<1>5. Grows
  BY NothingGrows DEF Grows, LeadEdited, BookInv
<1> QED BY <1>2, <1>3, <1>4, <1>5 DEF Kept, BookInv

LEMMA CandidateKeeps ==
  ASSUME BookInv, NEW c \in SaveCandidate(Nat), lead' = lead + 1,
         WriteCandidate(c, candidate[c.on])
  PROVE  Kept
<1> DEFINE s == c.on
<1>1. s \in Suppliers /\ c.status \in Sourcing
  BY DEF SaveCandidate
<1>2. candidate'[s] \in CandidateRow /\ Later(candidate[s], candidate'[s])
  <2>1. CASE Exists(candidate[s])
    <3>1. candidate[s] \in CandidateRow /\ candidate'[s] = Moved(candidate[s], c.status)
      BY <1>1, <2>1, RowsTyped DEF WriteCandidate, BookInv, BookTypeOK
    <3> QED BY <1>1, <3>1, MovedRows
  <2>2. CASE ~Exists(candidate[s])
    <3>1. candidate[s] = NoRow /\ candidate'[s] = [status |-> c.status, version |-> 1]
      BY <1>1, <2>2, RowsTyped DEF WriteCandidate, BookInv, BookTypeOK
    <3> QED BY <1>1, <3>1 DEF NoRow, CandidateRow, Later
  <2> QED BY <2>1, <2>2
<1>3. /\ candidate' \in [Suppliers -> CandidateRow \cup {NoRow}]
      /\ \A t \in Suppliers \ {s} : candidate'[t] = candidate[t]
  BY <1>1, <1>2 DEF WriteCandidate, BookInv, BookTypeOK
<1>4. \A t \in Suppliers : Exists(candidate[t]) => Exists(candidate'[t])
  <2>1. Exists(candidate'[s])
    BY <1>2 DEF Exists, CandidateRow
  <2> QED BY <1>3, <2>1
<1>5. BookTypeOK'
  <2>1. lead' \in Nat
    BY DEF BookInv, BookTypeOK
  <2>2. Related'
    <3>1. \A r \in Rfqs : Exists(rfq[r]) => rfq[r].supplier \in Suppliers
      BY RowsTyped DEF BookInv, RfqRow
    <3> QED BY <1>4, <3>1 DEF BookInv, BookTypeOK, Related, WriteCandidate, Exists
  <2> QED BY <1>3, <2>1, <2>2 DEF BookInv, BookTypeOK, WriteCandidate
<1>6. SeriesIsWhole' /\ QuotedAsReviewed'
  BY DEF BookInv, SeriesIsWhole, Follows, QuotedAsReviewed, Selected, WriteCandidate, Exists
<1>7. Stands
  BY DEF Stands, WriteCandidate
<1>8. Grows
  BY <1>2, <1>3, NothingGrows DEF Grows, WriteCandidate, BookInv
<1> QED BY <1>5, <1>6, <1>7, <1>8 DEF Kept, BookInv

LEMMA RfqKeeps ==
  ASSUME BookInv, NEW c \in SaveRfq(Nat), lead' = lead + 1,
         MaySaveRfq(c, rfq[c.on]), WriteRfq(c, rfq[c.on])
  PROVE  Kept
<1> DEFINE r == c.on
<1>1. r \in Rfqs /\ c.status \in RfqStages /\ c.supplier \in Suppliers /\ c.terms \in Terms
  BY DEF SaveRfq
<1>2. /\ rfq'[r] \in RfqRow /\ Later(rfq[r], rfq'[r]) /\ rfq'[r].supplier = c.supplier
      /\ Exists(rfq[r]) => rfq[r].supplier = c.supplier
      /\ Exists(rfq[r]) /\ rfq[r].status \in Sent =>
           rfq'[r].terms = rfq[r].terms /\ rfq'[r].status \in Sent
  <2>1. CASE Exists(rfq[r])
    <3>1. rfq[r] \in RfqRow /\ rfq'[r] = [Moved(rfq[r], c.status) EXCEPT !.terms = c.terms]
      BY <1>1, <2>1, RowsTyped DEF WriteRfq, BookInv, BookTypeOK
    <3>2. /\ rfq[r].supplier = c.supplier /\ c.status \in RfqMoves(rfq[r].status)
          /\ rfq[r].status \in Sent => c.terms = rfq[r].terms
      BY <2>1 DEF MaySaveRfq
    <3>3. rfq[r].status \in Sent => c.status \in Sent
      BY <3>2 DEF RfqMoves, Sent
    <3>4. /\ rfq'[r].version = rfq[r].version + 1 /\ rfq'[r].supplier = rfq[r].supplier
          /\ rfq'[r].status = c.status /\ rfq'[r].terms = c.terms
      BY <3>1 DEF Moved, RfqRow
    <3>5. Moved(rfq[r], c.status) \in RfqRow
      BY <1>1, <3>1, MovedRows
    <3>6. rfq'[r] \in RfqRow
      BY <1>1, <3>1, <3>5 DEF RfqRow
    <3>7. rfq[r].version \in Nat
      BY <3>1 DEF RfqRow
    <3>8. Later(rfq[r], rfq'[r])
      BY <3>4, <3>7 DEF Later
    <3> QED BY <3>2, <3>3, <3>4, <3>6, <3>8
  <2>2. CASE ~Exists(rfq[r])
    <3>1. /\ rfq[r] = NoRow
          /\ rfq'[r] = [supplier |-> c.supplier, status |-> "Draft", terms |-> c.terms,
                        version |-> 1]
      BY <1>1, <2>2, RowsTyped DEF WriteRfq, BookInv, BookTypeOK
    <3>2. "Draft" \in RfqStages /\ 1 \in Nat \ {0}
      BY DEF RfqStages
    <3>4. rfq'[r] \in RfqRow
      BY <1>1, <3>1, <3>2 DEF RfqRow
    <3>3. Later(rfq[r], rfq'[r])
      BY <3>1 DEF NoRow, Later
    <3> QED BY <2>2, <3>1, <3>3, <3>4
  <2> QED BY <2>1, <2>2
<1>3. /\ rfq' \in [Rfqs -> RfqRow \cup {NoRow}]
      /\ \A q \in Rfqs \ {r} : rfq'[q] = rfq[q]
  BY <1>1, <1>2 DEF WriteRfq, BookInv, BookTypeOK
<1>4. \A q \in Rfqs : Exists(rfq[q]) => Exists(rfq'[q]) /\ rfq'[q].supplier = rfq[q].supplier
  <2>1. Exists(rfq'[r])
    BY <1>2 DEF Exists, RfqRow
  <2> QED BY <1>2, <1>3, <2>1
<1>5. BookTypeOK'
  <2>1. lead' \in Nat
    BY DEF BookInv, BookTypeOK
  <2>2. Exists(candidate[c.supplier])
    BY DEF MaySaveRfq
  <2>3. \A o \in Offers : Exists(offer[o]) => offer[o].rfq \in Rfqs \cup {"none"}
    BY RowsTyped DEF BookInv, OfferRow
  <2>4. /\ \A q \in Rfqs : Exists(rfq'[q]) => Exists(candidate[rfq'[q].supplier])
        /\ \A o \in Offers : Exists(offer[o]) /\ offer[o].rfq # "none" =>
             Exists(rfq'[offer[o].rfq]) /\ rfq'[offer[o].rfq].supplier = offer[o].supplier
    BY <1>2, <1>3, <1>4, <2>2, <2>3 DEF BookInv, BookTypeOK, Related
  <2>5. Related'
    BY <2>4 DEF BookInv, BookTypeOK, Related, WriteRfq, Exists
  <2> QED BY <1>3, <2>1, <2>5 DEF BookInv, BookTypeOK, WriteRfq
<1>6. SeriesIsWhole' /\ QuotedAsReviewed'
  BY DEF BookInv, SeriesIsWhole, Follows, QuotedAsReviewed, Selected, WriteRfq, Exists
<1>7. Stands
  BY <1>2, <1>3 DEF Stands, WriteRfq
<1>8. Grows
  BY <1>2, <1>3, NothingGrows DEF Grows, WriteRfq, BookInv
<1> QED BY <1>5, <1>6, <1>7, <1>8 DEF Kept, BookInv

LEMMA OfferKeeps ==
  ASSUME BookInv, NEW c \in RecordOffer(Nat), lead' = lead + 1,
         MayRecordOffer(c, Target(c)), WriteOffer(c, Target(c))
  PROVE  Kept
<1> DEFINE n == c.on
           q == c.previous
           x == Target(c)
           new == Revision(c, x)
           Moves == /\ offer' \in [Offers -> OfferRow \cup {NoRow}]
                    /\ \A o \in Offers : Later(offer[o], offer'[o])
                    /\ \A o \in Offers : Exists(offer[o]) =>
                         /\ Exists(offer'[o]) /\ offer'[o].terms = offer[o].terms
                         /\ offer'[o].previous = offer[o].previous
                         /\ offer'[o].series = offer[o].series /\ offer'[o].rfq = offer[o].rfq
                         /\ offer[o].status = "Superseded" => offer'[o] = offer[o]
           Asked == \A o \in Offers : Exists(offer'[o]) /\ offer'[o].rfq # "none" =>
                      /\ Exists(rfq[offer'[o].rfq])
                      /\ rfq[offer'[o].rfq].supplier = offer'[o].supplier
<1>1. /\ n \in Offers /\ c.supplier \in Suppliers /\ c.terms \in Terms
      /\ q \in Offers \cup {"none"} /\ c.rfq \in Rfqs \cup {"none"} /\ c.do = "offer"
  BY DEF RecordOffer
<1>2. offer[n] = NoRow /\ ~Exists(offer[n])
  BY <1>1, RowsTyped DEF MayRecordOffer, BookInv
<1>3. ASSUME q = "none"
      PROVE  SeriesIsWhole' /\ Moves /\ Asked
  <2>1. x = NoRow /\ ~Exists(x)
    BY <1>1, <1>3 DEF Target, Exists, NoRow
  <2>2. new = [supplier |-> c.supplier, status |-> "Received", terms |-> c.terms, version |-> 1,
               rfq |-> c.rfq, series |-> n, revision |-> 1, previous |-> "none"]
    BY <1>3, <2>1 DEF Revision
  <2>3. \A o \in Offers : offer'[o] = IF o = n THEN new ELSE offer[o]
    BY <1>1, <1>3, NoneIsNothing DEF WriteOffer
  <2>4. new \in OfferRow
    <3>1. 1 \in Nat \ {0}
      OBVIOUS
    <3> QED BY <1>1, <2>2, <3>1 DEF OfferRow
  <2>5. Exists(new)
    BY <2>2 DEF Exists
  <2>6. \A o \in Offers \ {n} : Exists(offer[o]) => offer[o].series # n /\ offer[o].previous # n
    BY <1>1, <1>2, NoneIsNothing DEF BookInv, SeriesIsWhole, Follows
  <2>7. Follows(n)'
    BY <1>1, <2>2, <2>3 DEF Follows
  <2>8. \A o \in Offers \ {n} : Exists(offer[o]) => Follows(o)'
    BY <1>1, <2>3, <2>6, RowsTyped DEF BookInv, SeriesIsWhole, Follows, OfferRow, Exists
  <2>9. SeriesIsWhole'
    <3>1. ASSUME NEW o \in Offers, Exists(offer'[o])
          PROVE  /\ Follows(o)'
                 /\ Exists(offer'[offer'[o].series])
                 /\ \A p \in Offers \ {o} :
                      Exists(offer'[p]) /\ offer'[p].series = offer'[o].series =>
                        /\ offer'[p].revision # offer'[o].revision
                        /\ offer'[o].status # "Superseded" =>
                             offer'[p].revision < offer'[o].revision
                             /\ offer'[p].status = "Superseded"
      <4>1. CASE o = n
        BY <4>1, <2>2, <2>3, <2>5, <2>6, <2>7
      <4>2. CASE o # n
        <5>1. Exists(offer[o]) /\ offer'[o] = offer[o] /\ offer[o] \in OfferRow
          BY <3>1, <4>2, <2>3, RowsTyped DEF BookInv
        <5>2. offer[o].series # n /\ offer[o].series \in Offers
          BY <4>2, <5>1, <2>6 DEF OfferRow
        <5>3. Exists(offer[offer[o].series])
          BY <5>1 DEF BookInv, SeriesIsWhole
        <5> QED BY <4>2, <5>1, <5>2, <5>3, <2>2, <2>3, <2>8 DEF BookInv, SeriesIsWhole
      <4> QED BY <4>1, <4>2
    <3> QED BY <3>1 DEF SeriesIsWhole, Exists
  <2>10. Moves
    <3>1. Later(offer[n], new)
      BY <1>2, <2>2 DEF Later, NoRow
    <3>2. offer' \in [Offers -> OfferRow \cup {NoRow}]
      BY <1>1, <2>3, <2>4 DEF BookInv, BookTypeOK, WriteOffer
    <3> QED BY <1>2, <2>3, <3>1, <3>2, NothingGrows DEF BookInv
  <2>11. Asked
    <3>1. c.rfq # "none" => Exists(rfq[c.rfq]) /\ rfq[c.rfq].supplier = c.supplier
      BY DEF MayRecordOffer
    <3> QED BY <2>2, <2>3, <3>1 DEF BookInv, BookTypeOK, Related
  <2> QED BY <2>9, <2>10, <2>11
<1>4. ASSUME q # "none"
      PROVE  SeriesIsWhole' /\ Moves /\ Asked
  <2> DEFINE old == Moved(x, "Superseded")
  <2>1. /\ q \in Offers /\ q # n /\ x = offer[q] /\ Exists(x) /\ x \in OfferRow
        /\ x.supplier = c.supplier /\ x.status # "Superseded"
    <3>1. q \in Offers /\ x = offer[q] /\ Exists(x)
      BY <1>1, <1>4 DEF Target, MayRecordOffer
    <3> QED BY <1>2, <1>4, <3>1, RowsTyped DEF MayRecordOffer, BookInv
  <2>2. new = [supplier |-> c.supplier, status |-> "Received", terms |-> c.terms, version |-> 1,
               rfq |-> IF c.rfq = "none" THEN x.rfq ELSE c.rfq, series |-> x.series,
               revision |-> x.revision + 1, previous |-> q]
    BY <2>1 DEF Revision
  <2>3. \A o \in Offers :
          offer'[o] = IF o = n THEN new ELSE IF o = q THEN old ELSE offer[o]
    BY <1>1, <2>1 DEF WriteOffer
  <2>4. /\ old \in OfferRow /\ Later(x, old) /\ old.status = "Superseded"
        /\ old.supplier = x.supplier /\ old.terms = x.terms /\ old.rfq = x.rfq
        /\ old.series = x.series /\ old.revision = x.revision /\ old.previous = x.previous
    BY <2>1, MovedRows
  <2>5. new \in OfferRow
    <3>1. x.revision + 1 \in Nat \ {0} /\ x.series \in Offers /\ x.rfq \in Rfqs \cup {"none"}
      BY <2>1 DEF OfferRow
    <3>2. 1 \in Nat \ {0}
      OBVIOUS
    <3> QED BY <1>1, <2>1, <2>2, <3>1, <3>2 DEF OfferRow
  <2>6. Exists(new) /\ Exists(old)
    BY <2>2, <2>4 DEF Exists, OfferRow
  <2>7. \A o \in Offers \ {n} : Exists(offer[o]) =>
          offer[o].series # n /\ offer[o].previous # n /\ offer[o].previous # q
    <3>1. ASSUME NEW o \in Offers \ {n}, Exists(offer[o])
          PROVE  offer[o].series # n /\ offer[o].previous # n /\ offer[o].previous # q
      <4>1. Follows(o) /\ Exists(offer[offer[o].series])
        BY <3>1 DEF BookInv, SeriesIsWhole
      <4>2. CASE offer[o].previous = "none"
        BY <1>1, <1>2, <1>4, <4>1, <4>2, NoneIsNothing
      <4>3. CASE offer[o].previous # "none"
        <5>1. /\ Exists(offer[offer[o].previous])
              /\ offer[offer[o].previous].status = "Superseded"
          BY <4>1, <4>3 DEF Follows
        <5> QED BY <1>2, <2>1, <4>1, <5>1
      <4> QED BY <4>2, <4>3
    <3> QED BY <3>1
  <2>8. \A p \in Offers \ {q} : Exists(offer[p]) /\ offer[p].series = x.series =>
          offer[p].revision < x.revision /\ offer[p].status = "Superseded"
    BY <2>1 DEF BookInv, SeriesIsWhole
  <2>9. Follows(n)'
    BY <1>1, <1>4, <2>1, <2>2, <2>3, <2>4, <2>6 DEF Follows, Exists
  <2>10. \A o \in Offers \ {n} : Exists(offer[o]) =>
           /\ Exists(offer'[o]) /\ offer'[o].series = offer[o].series
           /\ offer'[o].revision = offer[o].revision /\ offer'[o].previous = offer[o].previous
           /\ offer'[o].supplier = offer[o].supplier /\ offer'[o].terms = offer[o].terms
           /\ offer'[o].rfq = offer[o].rfq
           /\ offer[o].status = "Superseded" => offer'[o] = offer[o]
    BY <2>1, <2>3, <2>4, <2>6
  <2>11. ASSUME NEW o \in Offers \ {n}, Exists(offer[o])
         PROVE  Follows(o)'
    <3>1. Follows(o) /\ offer[o] \in OfferRow
      BY <2>11, RowsTyped DEF BookInv, SeriesIsWhole
    <3>2. CASE offer[o].previous = "none"
      BY <2>10, <2>11, <3>1, <3>2 DEF Follows
    <3>3. CASE offer[o].previous # "none"
      <4>1. /\ offer[o].previous \in Offers /\ offer[o].previous # n
            /\ offer[o].previous # q
        BY <2>7, <2>11, <3>1, <3>3 DEF OfferRow
      <4>2. offer'[offer[o].previous] = offer[offer[o].previous]
        BY <2>3, <4>1
      <4> QED BY <2>10, <2>11, <3>1, <3>3, <4>1, <4>2 DEF Follows, Exists
    <3> QED BY <3>2, <3>3
  <2>12. SeriesIsWhole'
    <3>1. ASSUME NEW o \in Offers, Exists(offer'[o])
          PROVE  /\ Follows(o)'
                 /\ Exists(offer'[offer'[o].series])
                 /\ \A p \in Offers \ {o} :
                      Exists(offer'[p]) /\ offer'[p].series = offer'[o].series =>
                        /\ offer'[p].revision # offer'[o].revision
                        /\ offer'[o].status # "Superseded" =>
                             offer'[p].revision < offer'[o].revision
                             /\ offer'[p].status = "Superseded"
      <4>1. x.revision \in Nat /\ x.series \in Offers /\ Exists(offer[x.series])
        BY <2>1 DEF OfferRow, BookInv, SeriesIsWhole
      <4>2. x.series # n
        BY <1>2, <4>1
      <4>3. CASE o = n
        <5>1. Exists(offer'[offer'[o].series])
          BY <1>1, <2>2, <2>3, <2>10, <4>1, <4>2, <4>3
        <5>2. ASSUME NEW p \in Offers \ {o}, Exists(offer'[p]), offer'[p].series = x.series
              PROVE  offer'[p].revision < x.revision + 1 /\ offer'[p].status = "Superseded"
          <6>1. CASE p = q
            BY <2>1, <2>3, <2>4, <4>1, <4>3, <6>1
          <6>2. CASE p # q
            <7>1. offer'[p] = offer[p] /\ Exists(offer[p]) /\ offer[p] \in OfferRow
              BY <2>3, <4>3, <5>2, <6>2, RowsTyped DEF BookInv
            <7>2. offer[p].revision \in Nat /\ offer[p].revision < x.revision
              BY <2>8, <5>2, <6>2, <7>1 DEF OfferRow
            <7> QED BY <2>8, <4>1, <5>2, <6>2, <7>1, <7>2
          <6> QED BY <6>1, <6>2
        <5>3. ASSUME NEW p \in Offers \ {o}, Exists(offer'[p]), offer'[p].series = x.series
              PROVE  offer'[p].revision \in Nat
          BY <2>1, <2>3, <2>4, <4>3, <5>3, RowsTyped DEF BookInv, OfferRow
        <5> QED BY <2>2, <2>3, <2>9, <4>1, <4>3, <5>1, <5>2, <5>3
      <4>4. CASE o # n
        <5>1. Exists(offer[o]) /\ offer[o] \in OfferRow
          BY <2>1, <2>3, <3>1, <4>4, RowsTyped DEF BookInv
        <5>2. Follows(o)' /\ offer'[o].series = offer[o].series
          BY <2>10, <2>11, <4>4, <5>1
        <5>3. Exists(offer'[offer'[o].series])
          <6>1. offer[o].series \in Offers \ {n} /\ Exists(offer[offer[o].series])
            BY <2>7, <4>4, <5>1 DEF BookInv, SeriesIsWhole, OfferRow
          <6> QED BY <2>10, <5>2, <6>1
        <5>4. ASSUME NEW p \in Offers \ {o}, Exists(offer'[p]),
                     offer'[p].series = offer'[o].series
              PROVE  /\ offer'[p].revision # offer'[o].revision
                     /\ offer'[o].status # "Superseded" =>
                          offer'[p].revision < offer'[o].revision
                          /\ offer'[p].status = "Superseded"
          <6>1. offer'[o].revision = offer[o].revision /\ offer[o].revision \in Nat
            BY <2>10, <4>4, <5>1 DEF OfferRow
          <6>2. CASE p = n
            <7>1. offer[o].series = x.series /\ offer'[p].revision = x.revision + 1
              BY <2>2, <2>3, <5>2, <5>4, <6>2
            <7>2. CASE o = q
              BY <2>1, <2>3, <2>4, <4>1, <4>4, <6>1, <7>1, <7>2
            <7>3. CASE o # q
              BY <2>3, <2>8, <4>1, <4>4, <5>1, <6>1, <7>1, <7>3
            <7> QED BY <7>2, <7>3
          <6>3. CASE p # n
            <7>1. /\ Exists(offer[p]) /\ offer'[p].series = offer[p].series
                  /\ offer'[p].revision = offer[p].revision
              BY <2>1, <2>3, <2>4, <5>4, <6>3
            <7>2. /\ offer[p].revision # offer[o].revision
                  /\ offer[o].status # "Superseded" =>
                       offer[p].revision < offer[o].revision /\ offer[p].status = "Superseded"
              <8>1. offer[p].series = offer[o].series
                BY <5>2, <5>4, <7>1
              <8> QED BY <5>1, <7>1, <8>1 DEF BookInv, SeriesIsWhole
            <7>3. offer[p].status = "Superseded" => offer'[p].status = "Superseded"
              BY <2>10, <6>3, <7>1
            <7>4. offer'[o].status # "Superseded" => offer[o].status # "Superseded"
              BY <2>10, <4>4, <5>1
            <7> QED BY <6>1, <7>1, <7>2, <7>3, <7>4
          <6> QED BY <6>2, <6>3
        <5> QED BY <5>2, <5>3, <5>4
      <4> QED BY <4>3, <4>4
    <3> QED BY <3>1 DEF SeriesIsWhole, Exists
  <2>13. Moves
    <3>1. Later(offer[n], new)
      BY <1>2, <2>2 DEF Later, NoRow
    <3>2. offer' \in [Offers -> OfferRow \cup {NoRow}]
      BY <1>1, <2>3, <2>4, <2>5 DEF BookInv, BookTypeOK, WriteOffer
    <3> QED BY <1>2, <2>1, <2>3, <2>4, <2>10, <3>1, <3>2, NothingGrows DEF BookInv
  <2>14. Asked
    <3>1. c.rfq # "none" => Exists(rfq[c.rfq]) /\ rfq[c.rfq].supplier = c.supplier
      BY DEF MayRecordOffer
    <3>2. x.rfq # "none" => Exists(rfq[x.rfq]) /\ rfq[x.rfq].supplier = x.supplier
      BY <2>1 DEF BookInv, BookTypeOK, Related
    <3>3. ASSUME NEW o \in Offers \ {n}, Exists(offer'[o]), offer'[o].rfq # "none"
          PROVE  Exists(rfq[offer'[o].rfq]) /\ rfq[offer'[o].rfq].supplier = offer'[o].supplier
      <4>1. Exists(offer[o])
        BY <2>1, <2>3, <3>3
      <4> QED BY <2>10, <3>3, <4>1 DEF BookInv, BookTypeOK, Related
    <3>4. new.rfq # "none" => Exists(rfq[new.rfq]) /\ rfq[new.rfq].supplier = new.supplier
      BY <2>1, <2>2, <3>1, <3>2
    <3> QED BY <1>1, <2>3, <3>3, <3>4
  <2> QED BY <2>12, <2>13, <2>14
<1>5. SeriesIsWhole' /\ Moves /\ Asked
  BY <1>3, <1>4
<1>6. BookTypeOK'
  <2>1. \A s \in Scenarios : Exists(scenario[s]) => scenario[s].offer \in Offers
    BY RowsTyped DEF BookInv, ScenarioRow
  <2>2. \A s \in Scenarios : Exists(scenario[s]) => Exists(offer'[scenario[s].offer])
    BY <1>5, <2>1 DEF BookInv, BookTypeOK, Related
  <2>3. Related'
    BY <1>5, <2>2 DEF BookInv, BookTypeOK, Related, WriteOffer, Exists
  <2> QED BY <1>5, <2>3 DEF BookInv, BookTypeOK, WriteOffer
<1>7. QuotedAsReviewed'
  BY DEF BookInv, QuotedAsReviewed, Selected, WriteOffer, Exists
<1>8. Stands
  BY <1>5 DEF Stands, WriteOffer
<1>9. Grows
  BY <1>5, NothingGrows DEF Grows, WriteOffer, BookInv
<1> QED BY <1>5, <1>6, <1>7, <1>8, <1>9 DEF Kept, BookInv

LEMMA DecisionKeeps ==
  ASSUME BookInv, NEW c \in OfferStatus(Nat), lead' = lead + 1,
         MayDecide(c, offer[c.on]), WriteDecision(c)
  PROVE  Kept
<1> DEFINE n == c.on
           x == offer[n]
           new == Moved(x, c.status)
<1>1. n \in Offers /\ c.status \in Decisions /\ c.status # "Superseded"
  BY DEF OfferStatus, Decisions
<1>2. Exists(x) /\ x \in OfferRow /\ x.status # "Superseded"
  BY <1>1, RowsTyped DEF MayDecide, BookInv
<1>3. /\ new \in OfferRow /\ Later(x, new) /\ new.status = c.status
      /\ new.supplier = x.supplier /\ new.terms = x.terms /\ new.rfq = x.rfq
      /\ new.series = x.series /\ new.revision = x.revision /\ new.previous = x.previous
  BY <1>1, <1>2, MovedRows
<1>4. \A o \in Offers : offer'[o] = IF o = n THEN new ELSE offer[o]
  BY <1>1 DEF WriteDecision, BookInv, BookTypeOK
<1>5. Exists(new)
  BY <1>3 DEF Exists, OfferRow
<1>6. \A o \in Offers :
        /\ Later(offer[o], offer'[o])
        /\ Exists(offer'[o]) <=> Exists(offer[o])
        /\ Exists(offer[o]) =>
             /\ offer'[o].supplier = offer[o].supplier /\ offer'[o].terms = offer[o].terms
             /\ offer'[o].rfq = offer[o].rfq /\ offer'[o].series = offer[o].series
             /\ offer'[o].revision = offer[o].revision
             /\ offer'[o].previous = offer[o].previous
             /\ offer[o].status = "Superseded" => offer'[o] = offer[o]
             /\ offer'[o].status = "Superseded" => offer[o].status = "Superseded"
  BY <1>1, <1>2, <1>3, <1>4, <1>5, NothingGrows DEF BookInv
<1>7. ASSUME NEW o \in Offers, Exists(offer[o])
      PROVE  Follows(o)'
  <2>1. Follows(o) /\ offer[o].previous \in Offers \cup {"none"}
    BY <1>7, RowsTyped DEF BookInv, SeriesIsWhole, OfferRow
  <2>2. CASE offer[o].previous = "none"
    BY <1>6, <1>7, <2>1, <2>2 DEF Follows
  <2>3. CASE offer[o].previous # "none"
    <3>1. offer[o].previous \in Offers /\ offer'[offer[o].previous] = offer[offer[o].previous]
      BY <1>6, <2>1, <2>3 DEF Follows
    <3> QED BY <1>6, <1>7, <2>1, <2>3, <3>1 DEF Follows, Exists
  <2> QED BY <2>2, <2>3
<1>8. SeriesIsWhole'
  <2>1. ASSUME NEW o \in Offers, Exists(offer'[o])
        PROVE  /\ Follows(o)'
               /\ Exists(offer'[offer'[o].series])
               /\ \A p \in Offers \ {o} :
                    Exists(offer'[p]) /\ offer'[p].series = offer'[o].series =>
                      /\ offer'[p].revision # offer'[o].revision
                      /\ offer'[o].status # "Superseded" =>
                           offer'[p].revision < offer'[o].revision
                           /\ offer'[p].status = "Superseded"
    <3>1. Exists(offer[o]) /\ offer[o].series \in Offers
      BY <1>6, <2>1, RowsTyped DEF BookInv, OfferRow
    <3>2. Exists(offer'[offer'[o].series])
      BY <1>6, <3>1 DEF BookInv, SeriesIsWhole
    <3>3. ASSUME NEW p \in Offers \ {o}, Exists(offer'[p]), offer'[p].series = offer'[o].series
          PROVE  /\ offer'[p].revision # offer'[o].revision
                 /\ offer'[o].status # "Superseded" =>
                      offer'[p].revision < offer'[o].revision /\ offer'[p].status = "Superseded"
      <4>1. Exists(offer[p]) /\ offer[p].series = offer[o].series
        BY <1>6, <3>1, <3>3
      <4>2. /\ offer[p].revision # offer[o].revision
            /\ offer[o].status # "Superseded" =>
                 offer[p].revision < offer[o].revision /\ offer[p].status = "Superseded"
        BY <3>1, <4>1 DEF BookInv, SeriesIsWhole
      <4> QED BY <1>6, <3>1, <4>1, <4>2
    <3> QED BY <1>7, <3>1, <3>2, <3>3
  <2> QED BY <2>1 DEF SeriesIsWhole, Exists
<1>9. BookTypeOK'
  <2>1. offer' \in [Offers -> OfferRow \cup {NoRow}]
    BY <1>1, <1>3, <1>4 DEF BookInv, BookTypeOK, WriteDecision
  <2>2. \A s \in Scenarios : Exists(scenario[s]) => scenario[s].offer \in Offers
    BY RowsTyped DEF BookInv, ScenarioRow
  <2>3. /\ \A s \in Scenarios : Exists(scenario[s]) => Exists(offer'[scenario[s].offer])
        /\ \A o \in Offers : Exists(offer'[o]) /\ offer'[o].rfq # "none" =>
             Exists(rfq[offer'[o].rfq]) /\ rfq[offer'[o].rfq].supplier = offer'[o].supplier
    BY <1>6, <2>2 DEF BookInv, BookTypeOK, Related
  <2>4. Related'
    BY <2>3 DEF BookInv, BookTypeOK, Related, WriteDecision, Exists
  <2> QED BY <2>1, <2>4 DEF BookInv, BookTypeOK, WriteDecision
<1>10. QuotedAsReviewed'
  BY DEF BookInv, QuotedAsReviewed, Selected, WriteDecision, Exists
<1>11. Stands
  BY <1>6 DEF Stands, WriteDecision
<1>12. Grows
  BY <1>6, NothingGrows DEF Grows, WriteDecision, BookInv
<1> QED BY <1>8, <1>9, <1>10, <1>11, <1>12 DEF Kept, BookInv

\* The batches on scenarios leave suppliers, requests and offers alone.
LEMMA ScenariosKeep ==
  ASSUME BookInv, lead' = lead + 1, UNCHANGED <<candidate, rfq, offer>>,
         scenario' \in [Scenarios -> ScenarioRow \cup {NoRow}],
         quote' \in [Scenarios -> Terms \cup {"none"}],
         \A s \in Scenarios : Later(scenario[s], scenario'[s]),
         \A s \in Scenarios : Exists(scenario'[s]) => Exists(offer[scenario'[s].offer]),
         \A s \in Scenarios : Exists(scenario[s]) /\ scenario[s].status # "Draft" =>
           scenario'[s].terms = scenario[s].terms /\ scenario'[s].status # "Draft",
         \A s \in Scenarios : quote[s] # "none" => quote'[s] = quote[s],
         QuotedAsReviewed'
  PROVE  Kept
<1>1. BookTypeOK'
  <2>1. Related'
    BY DEF BookInv, BookTypeOK, Related, Exists
  <2> QED BY <2>1 DEF BookInv, BookTypeOK
<1>2. SeriesIsWhole'
  BY DEF BookInv, SeriesIsWhole, Follows, Exists
<1>3. Stands
  BY DEF Stands
<1>4. Grows
  BY NothingGrows DEF Grows, BookInv
<1> QED BY <1>1, <1>2, <1>3, <1>4 DEF Kept, BookInv

LEMMA ScenarioKeeps ==
  ASSUME BookInv, NEW c \in SaveScenario(Nat), lead' = lead + 1,
         MaySaveScenario(c, scenario[c.on]), WriteScenario(c, scenario[c.on])
  PROVE  Kept
<1> DEFINE n == c.on
           x == scenario[n]
           new == scenario'[n]
<1>1. n \in Scenarios /\ c.offer \in Offers /\ c.terms \in Terms /\ Exists(offer[c.offer])
  BY DEF SaveScenario, MaySaveScenario
<1>2. /\ new \in ScenarioRow /\ Later(x, new) /\ new.offer = c.offer
      /\ new.status = "Draft" /\ new.quoted = FALSE /\ quote[n] = "none"
      /\ Exists(x) => x.status = "Draft"
  <2>1. CASE Exists(x)
    <3>1. x \in ScenarioRow /\ x.status = "Draft" /\ x.offer = c.offer
      BY <1>1, <2>1, RowsTyped DEF MaySaveScenario, BookInv
    <3>2. new = Edited(x, c.terms)
      BY <1>1, <2>1 DEF WriteScenario, BookInv, BookTypeOK
    <3>3. x.version \in Nat /\ x.version + 1 \in Nat \ {0} /\ x.quoted \in BOOLEAN
      BY <3>1 DEF ScenarioRow
    <3>4. /\ new.version = x.version + 1 /\ new.offer = x.offer /\ new.status = x.status
          /\ new.quoted = x.quoted
      BY <3>1, <3>2 DEF ScenarioRow, Edited
    <3>5. new \in ScenarioRow
      BY <1>1, <3>1, <3>2, <3>3 DEF ScenarioRow, Edited
    <3>6. Later(x, new)
      BY <3>3, <3>4 DEF Later
    <3>7. ~x.quoted /\ quote[n] = "none"
      BY <1>1, <2>1, <3>1 DEF BookInv, QuotedAsReviewed
    <3>8. new.quoted = FALSE
      BY <3>3, <3>4, <3>7
    <3> QED BY <3>1, <3>4, <3>5, <3>6, <3>7, <3>8
  <2>2. CASE ~Exists(x)
    <3>1. /\ x = NoRow
          /\ new = [offer |-> c.offer, status |-> "Draft", terms |-> c.terms, quoted |-> FALSE,
                    version |-> 1]
      BY <1>1, <2>2, RowsTyped DEF WriteScenario, BookInv, BookTypeOK
    <3>2. 1 \in Nat \ {0} /\ FALSE \in BOOLEAN
      OBVIOUS
    <3>3. new \in ScenarioRow
      BY <1>1, <3>1, <3>2 DEF ScenarioRow
    <3>4. Later(x, new)
      BY <3>1 DEF NoRow, Later
    <3>5. quote[n] = "none"
      BY <1>1, <2>2 DEF BookInv, QuotedAsReviewed
    <3>6. new.offer = c.offer /\ new.status = "Draft" /\ new.quoted = FALSE
      BY <3>1
    <3> QED BY <2>2, <3>3, <3>4, <3>5, <3>6
  <2> QED BY <2>1, <2>2
<1>3. /\ scenario' \in [Scenarios -> ScenarioRow \cup {NoRow}]
      /\ \A s \in Scenarios \ {n} : scenario'[s] = scenario[s]
  BY <1>1, <1>2 DEF WriteScenario, BookInv, BookTypeOK
<1>4. UNCHANGED <<candidate, rfq, offer, quote>>
  BY DEF WriteScenario
<1>5. \A s \in Scenarios : Later(scenario[s], scenario'[s])
  BY <1>2, <1>3, NothingGrows DEF BookInv
<1>6. \A s \in Scenarios : Exists(scenario'[s]) => Exists(offer[scenario'[s].offer])
  BY <1>1, <1>2, <1>3 DEF BookInv, BookTypeOK, Related
<1>7. QuotedAsReviewed'
  <2>1. Exists(new) /\ ~Selected(n)'
    BY <1>2 DEF Exists, ScenarioRow, Selected
  <2>2. \A s \in Scenarios \ {n} : Selected(s)' = Selected(s)
    BY <1>3 DEF Selected, Exists
  <2>3. \A s \in Scenarios : Exists(scenario'[s]) =>
          /\ scenario'[s].quoted <=> quote[s] # "none"
          /\ scenario'[s].quoted => scenario'[s].status # "Draft"
                                     /\ quote[s] = scenario'[s].terms
    BY <1>2, <1>3 DEF BookInv, QuotedAsReviewed
  <2>4. \A s \in Scenarios : ~Exists(scenario'[s]) => quote[s] = "none"
    BY <1>2, <1>3, <2>1 DEF BookInv, QuotedAsReviewed
  <2>5. \A s, t \in Scenarios : Selected(s)' /\ Selected(t)' => s = t
    BY <2>1, <2>2 DEF BookInv, QuotedAsReviewed
  <2> QED BY <1>4, <2>3, <2>4, <2>5 DEF QuotedAsReviewed, Exists, Selected
<1>8. \A s \in Scenarios : Exists(scenario[s]) /\ scenario[s].status # "Draft" =>
        scenario'[s].terms = scenario[s].terms /\ scenario'[s].status # "Draft"
  BY <1>2, <1>3
<1>9. quote' \in [Scenarios -> Terms \cup {"none"}]
  BY <1>4 DEF BookInv, BookTypeOK
<1> QED BY <1>3, <1>4, <1>5, <1>6, <1>7, <1>8, <1>9, ScenariosKeep

LEMMA StatusKeeps ==
  ASSUME BookInv, NEW c \in ScenarioStatus(Nat), lead' = lead + 1,
         MayReviewOrSelect(c, scenario[c.on]), WriteStatus(c)
  PROVE  Kept
<1> DEFINE n == c.on
           x == scenario[n]
           Back(s) == c.status = "Selected" /\ Selected(s)
<1>1. n \in Scenarios /\ c.status \in {"Reviewed", "Selected"}
  BY DEF ScenarioStatus
<1>2. Exists(x) /\ x \in ScenarioRow
  BY <1>1, RowsTyped DEF MayReviewOrSelect, BookInv
<1>3. \A s \in Scenarios :
        scenario'[s] = IF s = n THEN Moved(x, c.status)
                       ELSE IF Back(s) THEN Moved(scenario[s], "Reviewed") ELSE scenario[s]
  BY DEF WriteStatus
<1>4. UNCHANGED <<candidate, rfq, offer, quote>>
  BY DEF WriteStatus
<1>5. ASSUME NEW s \in Scenarios, Exists(scenario[s])
      PROVE  /\ scenario'[s] \in ScenarioRow /\ Later(scenario[s], scenario'[s])
             /\ scenario'[s].offer = scenario[s].offer /\ scenario'[s].terms = scenario[s].terms
             /\ scenario'[s].quoted = scenario[s].quoted
             /\ scenario[s].status # "Draft" => scenario'[s].status # "Draft"
  <2>1. scenario[s] \in ScenarioRow
    BY <1>5, RowsTyped DEF BookInv
  <2>2. CASE s = n
    <3>1. scenario'[s] = Moved(scenario[s], c.status)
      BY <1>3, <2>2
    <3> QED BY <1>1, <2>1, <3>1, ScenarioMoves
  <2>3. CASE s # n /\ Back(s)
    <3>1. scenario'[s] = Moved(scenario[s], "Reviewed")
      BY <1>3, <2>3
    <3> QED BY <2>1, <3>1, ScenarioMoves
  <2>4. CASE s # n /\ ~Back(s)
    BY <1>3, <2>1, <2>4, NothingGrows DEF BookInv
  <2> QED BY <2>2, <2>3, <2>4
<1>6. ASSUME NEW s \in Scenarios, ~Exists(scenario[s])
      PROVE  scenario'[s] = scenario[s]
  <2>1. s # n /\ ~Back(s)
    BY <1>2, <1>6 DEF Selected
  <2> QED BY <1>3, <2>1
<1>7. \A s \in Scenarios : Exists(scenario'[s]) <=> Exists(scenario[s])
  BY <1>5, <1>6 DEF Exists, ScenarioRow
<1>8. scenario' \in [Scenarios -> ScenarioRow \cup {NoRow}]
  BY <1>5, <1>6, RowsTyped DEF WriteStatus, BookInv
<1>9. \A s, t \in Scenarios : Selected(s)' /\ Selected(t)' => s = t
  <2>1. ASSUME NEW s \in Scenarios \ {n}, Selected(s)'
        PROVE  Selected(s) /\ c.status # "Selected"
    <3>1. CASE Back(s)
      <4>1. scenario[s] \in ScenarioRow /\ scenario'[s] = Moved(scenario[s], "Reviewed")
        BY <1>3, <3>1, RowsTyped DEF Selected, BookInv
      <4> QED BY <2>1, <4>1, ScenarioMoves DEF Selected
    <3>2. CASE ~Back(s)
      <4>1. scenario'[s] = scenario[s]
        BY <1>3, <3>2
      <4> QED BY <2>1, <3>2, <4>1 DEF Selected, Exists
    <3> QED BY <3>1, <3>2
  <2>2. Selected(n)' => c.status = "Selected"
    BY <1>1, <1>2, <1>3, ScenarioMoves DEF Selected
  <2> QED BY <1>1, <2>1, <2>2 DEF BookInv, QuotedAsReviewed
<1>10. QuotedAsReviewed'
  <2>1. \A s \in Scenarios : Exists(scenario'[s]) =>
          /\ scenario'[s].quoted <=> quote[s] # "none"
          /\ scenario'[s].quoted => scenario'[s].status # "Draft"
                                     /\ quote[s] = scenario'[s].terms
    BY <1>5, <1>7 DEF BookInv, QuotedAsReviewed
  <2>2. \A s \in Scenarios : ~Exists(scenario'[s]) => quote[s] = "none"
    BY <1>7 DEF BookInv, QuotedAsReviewed
  <2> QED BY <1>4, <1>9, <2>1, <2>2 DEF QuotedAsReviewed, Exists, Selected
<1>11. \A s \in Scenarios : Later(scenario[s], scenario'[s])
  BY <1>5, <1>6, NothingGrows DEF BookInv
<1>12. \A s \in Scenarios : Exists(scenario'[s]) => Exists(offer[scenario'[s].offer])
  BY <1>5, <1>7 DEF BookInv, BookTypeOK, Related
<1>13. \A s \in Scenarios : Exists(scenario[s]) /\ scenario[s].status # "Draft" =>
        scenario'[s].terms = scenario[s].terms /\ scenario'[s].status # "Draft"
  BY <1>5
<1>14. quote' \in [Scenarios -> Terms \cup {"none"}]
  BY <1>4 DEF BookInv, BookTypeOK
<1> QED BY <1>4, <1>8, <1>10, <1>11, <1>12, <1>13, <1>14, ScenariosKeep

LEMMA QuotationKeeps ==
  ASSUME BookInv, NEW c \in PrepareQuotation(Nat), lead' = lead + 1,
         MayPrepare(c, scenario[c.on]), WriteQuotation(c, scenario[c.on])
  PROVE  Kept
<1> DEFINE n == c.on
           x == scenario[n]
           new == scenario'[n]
<1>1. n \in Scenarios
  BY DEF PrepareQuotation
<1>2. Exists(x) /\ x \in ScenarioRow /\ ~x.quoted /\ x.status = "Selected" /\ quote[n] = "none"
  BY <1>1, RowsTyped DEF MayPrepare, BookInv, QuotedAsReviewed
<1>3. /\ \A s \in Scenarios \ {n} : scenario'[s] = scenario[s] /\ quote'[s] = quote[s]
      /\ new = [[x EXCEPT !.quoted = TRUE] EXCEPT !.version = x.version + 1]
      /\ quote'[n] = x.terms
  BY <1>1, <1>2 DEF WriteQuotation, BookInv, BookTypeOK, ScenarioRow
<1>4. x.version \in Nat /\ x.version + 1 \in Nat \ {0} /\ TRUE \in BOOLEAN
  BY <1>2 DEF ScenarioRow
<1>5. /\ new.offer = x.offer /\ new.status = x.status /\ new.terms = x.terms
      /\ new.quoted = TRUE /\ new.version = x.version + 1
  BY <1>2, <1>3 DEF ScenarioRow
<1>6. new \in ScenarioRow /\ Later(x, new)
  <2>1. new \in ScenarioRow
    BY <1>2, <1>3, <1>4 DEF ScenarioRow
  <2> QED BY <2>1, <1>4, <1>5 DEF Later
<1>7. /\ scenario' \in [Scenarios -> ScenarioRow \cup {NoRow}]
      /\ quote' \in [Scenarios -> Terms \cup {"none"}]
  <2>1. x.terms \in Terms
    BY <1>2 DEF ScenarioRow
  <2>2. DOMAIN quote' = Scenarios /\ quote' = [s \in Scenarios |-> quote'[s]]
    BY DEF WriteQuotation, BookInv, BookTypeOK
  <2>3. DOMAIN scenario' = Scenarios /\ scenario' = [s \in Scenarios |-> scenario'[s]]
    BY DEF WriteQuotation, BookInv, BookTypeOK
  <2>4. \A s \in Scenarios : scenario'[s] \in ScenarioRow \cup {NoRow}
    BY <1>3, <1>6 DEF BookInv, BookTypeOK
  <2>5. \A s \in Scenarios : quote'[s] \in Terms \cup {"none"}
    BY <1>3, <2>1 DEF BookInv, BookTypeOK
  <2> QED BY <2>2, <2>3, <2>4, <2>5
<1>8. UNCHANGED <<candidate, rfq, offer>>
  BY DEF WriteQuotation
<1>9. Exists(new) /\ (Exists(x) <=> Exists(new))
  BY <1>2, <1>6 DEF Exists, ScenarioRow
<1>10. \A s \in Scenarios : Later(scenario[s], scenario'[s])
  BY <1>3, <1>6, NothingGrows DEF BookInv
<1>11. \A s \in Scenarios : Exists(scenario'[s]) => Exists(offer[scenario'[s].offer])
  BY <1>2, <1>3, <1>5 DEF BookInv, BookTypeOK, Related
<1>12. \A s \in Scenarios : Exists(scenario[s]) /\ scenario[s].status # "Draft" =>
         scenario'[s].terms = scenario[s].terms /\ scenario'[s].status # "Draft"
  BY <1>3, <1>5
<1>13. \A s \in Scenarios : quote[s] # "none" => quote'[s] = quote[s]
  BY <1>2, <1>3
<1>14. QuotedAsReviewed'
  <2>1. x.terms # "none"
    BY <1>2, NoneIsNothing DEF ScenarioRow
  <2>2. \A s \in Scenarios : Exists(scenario'[s]) =>
          /\ scenario'[s].quoted <=> quote'[s] # "none"
          /\ scenario'[s].quoted => scenario'[s].status # "Draft"
                                     /\ quote'[s] = scenario'[s].terms
    <3>1. \A s \in Scenarios \ {n} : Exists(scenario'[s]) =>
            /\ scenario'[s].quoted <=> quote'[s] # "none"
            /\ scenario'[s].quoted => scenario'[s].status # "Draft"
                                       /\ quote'[s] = scenario'[s].terms
      BY <1>3 DEF BookInv, QuotedAsReviewed
    <3>2. /\ new.quoted /\ quote'[n] # "none"
          /\ new.status # "Draft" /\ quote'[n] = new.terms
      BY <1>2, <1>3, <1>5, <2>1
    <3> QED BY <1>1, <3>1, <3>2
  <2>3. \A s \in Scenarios : ~Exists(scenario'[s]) => quote'[s] = "none"
    BY <1>3, <1>9 DEF BookInv, QuotedAsReviewed
  <2>4. \A s \in Scenarios : Selected(s)' <=> Selected(s)
    BY <1>2, <1>3, <1>5, <1>9 DEF Selected, Exists
  <2>5. \A s, t \in Scenarios : Selected(s)' /\ Selected(t)' => s = t
    BY <2>4 DEF BookInv, QuotedAsReviewed
  <2> QED BY <2>2, <2>3, <2>5 DEF QuotedAsReviewed, Exists, Selected
<1> QED BY <1>7, <1>8, <1>10, <1>11, <1>12, <1>13, <1>14, ScenariosKeep

-----------------------------------------------------------------------------
LEMMA CommandKeeps ==
  ASSUME BookInv, NEW c \in DealCommands(Nat), Judged(c, Target(c)), CarryOut(c, Target(c))
  PROVE  Kept
<1>1. CASE c.do = "candidate"
  BY <1>1, CommandKinds, CandidateKeeps DEF Judged, CarryOut, Target
<1>2. CASE c.do = "rfq"
  BY <1>2, CommandKinds, RfqKeeps DEF Judged, CarryOut, Target
<1>3. CASE c.do = "offer"
  <2>1. c \in RecordOffer(Nat) /\ lead' = lead + 1
    BY <1>3, CommandKinds DEF CarryOut
  <2>2. MayRecordOffer(c, Target(c)) /\ WriteOffer(c, Target(c))
    BY <1>3 DEF Judged, CarryOut
  <2> QED BY <1>3, <2>1, <2>2, OfferKeeps DEF Target
<1>4. CASE c.do = "offer status"
  BY <1>4, CommandKinds, DecisionKeeps DEF Judged, CarryOut, Target
<1>5. CASE c.do = "scenario"
  BY <1>5, CommandKinds, ScenarioKeeps DEF Judged, CarryOut, Target
<1>6. CASE c.do = "scenario status"
  BY <1>6, CommandKinds, StatusKeeps DEF Judged, CarryOut, Target
<1>7. CASE c.do \notin {"candidate", "rfq", "offer", "offer status", "scenario",
                        "scenario status"}
  BY <1>7, CommandKinds, QuotationKeeps DEF Judged, CarryOut, Target
<1> QED BY <1>1, <1>2, <1>3, <1>4, <1>5, <1>6, <1>7

LEMMA MoreVersions ==
  ASSUME NEW v \in Nat
  PROVE  DealCommands({v}) \subseteq DealCommands(Nat)
<1>1. SaveCandidate({v}) \subseteq SaveCandidate(Nat) /\ SaveRfq({v}) \subseteq SaveRfq(Nat)
  BY DEF SaveCandidate, SaveRfq
<1>2. RecordOffer({v}) \subseteq RecordOffer(Nat)
  BY DEF RecordOffer
<1>3. OfferStatus({v}) \subseteq OfferStatus(Nat)
  BY DEF OfferStatus
<1>4. SaveScenario({v}) \subseteq SaveScenario(Nat)
  BY DEF SaveScenario
<1>5. ScenarioStatus({v}) \subseteq ScenarioStatus(Nat)
  BY DEF ScenarioStatus
<1>6. PrepareQuotation({v}) \subseteq PrepareQuotation(Nat)
  BY DEF PrepareQuotation
<1> QED BY <1>1, <1>2, <1>3, <1>4, <1>5, <1>6 DEF DealCommands

LEMMA StepKeeps ==
  ASSUME BookInv, [BookNext]_book
  PROVE  Kept
<1>1. CASE LeadEdited
  BY <1>1, LeadKeeps
<1>2. ASSUME NEW v \in 0..lead, NEW c \in DealCommands({v}),
             Judged(c, Target(c)), CarryOut(c, Target(c))
      PROVE  Kept
  <2>1. {v} \subseteq Nat
    BY DEF BookInv, BookTypeOK
  <2>2. c \in DealCommands(Nat)
    BY <2>1, MoreVersions
  <2> QED BY <1>2, <2>2, CommandKeeps
<1>3. CASE UNCHANGED book
  <2>1. BookTypeOK' /\ SeriesIsWhole' /\ QuotedAsReviewed'
    BY <1>3 DEF BookInv, BookTypeOK, Related, SeriesIsWhole, Follows, QuotedAsReviewed,
       Selected, Exists, book
  <2>2. Stands
    BY <1>3 DEF Stands, book
  <2>3. Grows
    BY <1>3, NothingGrows DEF Grows, book, BookInv
  <2> QED BY <2>1, <2>2, <2>3 DEF Kept, BookInv
<1> QED BY <1>1, <1>2, <1>3 DEF BookNext

LEMMA BookStarts ==
  BookInit => BookInv
<1> SUFFICES ASSUME BookInit PROVE BookInv
  OBVIOUS
<1>1. ~Exists(NoRow)
  BY DEF Exists, NoRow
<1>2. BookTypeOK
  BY <1>1 DEF BookInit, BookTypeOK, Related
<1>3. SeriesIsWhole
  BY <1>1 DEF BookInit, SeriesIsWhole
<1>4. QuotedAsReviewed
  BY <1>1 DEF BookInit, QuotedAsReviewed, Selected
<1> QED BY <1>2, <1>3, <1>4 DEF BookInv

\* Every reachable book of one command at a time has its rows, its series and
\* its quotations in order.
THEOREM BookKeeps ==
  BookSpec => [](SeriesIsWhole /\ QuotedAsReviewed)
<1>1. BookInv /\ [BookNext]_book => BookInv'
  BY StepKeeps DEF Kept
<1>2. BookInv => SeriesIsWhole /\ QuotedAsReviewed
  BY DEF BookInv
<1> QED BY BookStarts, <1>1, <1>2, PTL DEF BookSpec

\* Whatever one command at a time does, nothing sent, received, reviewed or
\* quoted is rewritten.
THEOREM BookHistory ==
  BookSpec => HistoryStands
<1> DEFINE P == Stands
<1>1. BookInv /\ [BookNext]_book => BookInv' /\ [Stands]_book
  BY StepKeeps DEF Kept
<1>2. BookSpec => [][Stands]_book
  BY BookStarts, <1>1, PTL DEF BookSpec
<1> QED BY <1>2 DEF HistoryStands, Stands

-----------------------------------------------------------------------------
(* The handlers *)

\* Who reads its row before the lead, and the command as its rules judge it.
Early(h) == asked[h].do \in RowFirst \ {"scenario"}
WithVersion(c, v) == [c EXCEPT !.version = v]
AsJudged(h) == IF asked[h].do \in {"offer status", "scenario status"}
                 THEN WithVersion(asked[h], seen[h].version) ELSE asked[h]

Held(h) ==
  /\ at[h] # "idle" =>
       /\ asked[h] \in DealCommands(Nat) /\ asked[h].version <= lead
       /\ asked[h].version <= Target(asked[h]).version
  /\ at[h] \in {"rules", "commit"} => root[h] <= lead
  /\ at[h] \in {"root", "rules", "commit"} /\ Early(h) =>
       asked[h].version <= seen[h].version /\ Later(seen[h], Target(asked[h]))
  /\ at[h] = "commit" /\ lead = root[h] =>
       /\ Judged(AsJudged(h), seen[h])
       /\ ~Early(h) => seen[h] = Target(asked[h])

DeskInv == BookInv /\ ExecutionTypeOK /\ \A h \in Handlers : Held(h)

\* The row a command names.
LEMMA CommandNames ==
  ASSUME NEW c \in DealCommands(Nat)
  PROVE  /\ c.version \in Nat
         /\ c.do = "candidate" => c.on \in Suppliers
         /\ c.do = "rfq" => c.on \in Rfqs
         /\ c.do = "offer" => c.previous \in Offers \cup {"none"}
         /\ c.do = "offer status" => c.on \in Offers
         /\ c.do \notin {"candidate", "rfq", "offer", "offer status"} => c.on \in Scenarios
<1>1. /\ \A x \in SaveCandidate(Nat) : x.on \in Suppliers
      /\ \A x \in SaveRfq(Nat) : x.on \in Rfqs
      /\ \A x \in RecordOffer(Nat) : x.previous \in Offers \cup {"none"}
      /\ \A x \in OfferStatus(Nat) : x.on \in Offers
      /\ \A x \in SaveScenario(Nat) : x.on \in Scenarios
      /\ \A x \in ScenarioStatus(Nat) : x.on \in Scenarios
      /\ \A x \in PrepareQuotation(Nat) : x.on \in Scenarios
  BY DEF SaveCandidate, SaveRfq, RecordOffer, OfferStatus, SaveScenario, ScenarioStatus,
         PrepareQuotation
<1>2. /\ c.version \in Nat
      /\ c.do = "candidate" => c \in SaveCandidate(Nat)
      /\ c.do = "rfq" => c \in SaveRfq(Nat)
      /\ c.do = "offer" => c \in RecordOffer(Nat)
      /\ c.do = "offer status" => c \in OfferStatus(Nat)
      /\ c.do = "scenario" => c \in SaveScenario(Nat)
      /\ c.do = "scenario status" => c \in ScenarioStatus(Nat)
      /\ c.do \notin {"candidate", "rfq", "offer", "offer status", "scenario",
                      "scenario status"} => c \in PrepareQuotation(Nat)
  BY CommandKinds
<1> QED BY <1>1, <1>2

LEMMA TargetTyped ==
  ASSUME BookTypeOK, NEW c \in DealCommands(Nat)
  PROVE  /\ Target(c) \in CandidateRow \cup RfqRow \cup OfferRow \cup ScenarioRow \cup {NoRow}
         /\ Target(c).version \in Nat /\ c.version \in Nat
<1>1. c.version \in Nat
  BY CommandNames
<1>2. CASE c.do = "candidate"
  <2>1. Target(c) \in CandidateRow \cup {NoRow}
    BY <1>2, CommandNames DEF Target, BookTypeOK
  <2> QED BY <1>1, <2>1 DEF CandidateRow, NoRow
<1>3. CASE c.do = "rfq"
  <2>1. Target(c) \in RfqRow \cup {NoRow}
    BY <1>3, CommandNames DEF Target, BookTypeOK
  <2> QED BY <1>1, <2>1 DEF RfqRow, NoRow
<1>4. CASE c.do \in {"offer", "offer status"}
  <2>1. Target(c) \in OfferRow \cup {NoRow}
    <3>1. CASE c.do = "offer"
      BY <3>1, CommandNames DEF Target, BookTypeOK
    <3>2. CASE c.do = "offer status"
      BY <3>2, CommandNames DEF Target, BookTypeOK
    <3> QED BY <1>4, <3>1, <3>2
  <2> QED BY <1>1, <2>1 DEF OfferRow, NoRow
<1>5. CASE c.do \notin {"candidate", "rfq", "offer", "offer status"}
  <2>1. c.on \in Scenarios
    BY <1>5, CommandNames
  <2>2. Target(c) \in ScenarioRow \cup {NoRow}
    BY <1>5, <2>1 DEF Target, BookTypeOK
  <2> QED BY <1>1, <2>2 DEF ScenarioRow, NoRow
<1> QED BY <1>2, <1>3, <1>4, <1>5

LEMMA TargetGrows ==
  ASSUME BookTypeOK, BookTypeOK', Grows, NEW c \in DealCommands(Nat)
  PROVE  Later(Target(c), Target(c)') /\ Target(c)'.version \in Nat
<1>1. /\ \A s \in Suppliers : candidate'[s].version \in Nat
      /\ \A r \in Rfqs : rfq'[r].version \in Nat
      /\ \A o \in Offers : offer'[o].version \in Nat
      /\ \A s \in Scenarios : scenario'[s].version \in Nat
  BY DEF BookTypeOK, CandidateRow, RfqRow, OfferRow, ScenarioRow, NoRow
<1>2. CASE c.do = "candidate"
  BY <1>1, <1>2, CommandNames DEF Target, Grows
<1>3. CASE c.do = "rfq"
  BY <1>1, <1>3, CommandNames DEF Target, Grows
<1>4. CASE c.do = "offer"
  <2>1. CASE c.previous = "none"
    BY <1>4, <2>1 DEF Target, Later, NoRow
  <2>2. CASE c.previous # "none"
    BY <1>1, <1>4, <2>2, CommandNames DEF Target, Grows
  <2> QED BY <2>1, <2>2
<1>5. CASE c.do = "offer status"
  BY <1>1, <1>5, CommandNames DEF Target, Grows
<1>6. CASE c.do \notin {"candidate", "rfq", "offer", "offer status"}
  <2>1. c.on \in Scenarios
    BY <1>6, CommandNames
  <2> QED BY <1>1, <1>6, <2>1 DEF Target, Grows
<1> QED BY <1>2, <1>3, <1>4, <1>5, <1>6

LEMMA OwnVersion ==
  ASSUME NEW c \in DealCommands(Nat)
  PROVE  c \in DealCommands({c.version})
<1>1. \A x \in SaveCandidate(Nat) : x \in SaveCandidate({x.version})
  BY DEF SaveCandidate
<1>2. \A x \in SaveRfq(Nat) : x \in SaveRfq({x.version})
  BY DEF SaveRfq
<1>3. \A x \in RecordOffer(Nat) : x \in RecordOffer({x.version})
  BY DEF RecordOffer
<1>4. \A x \in OfferStatus(Nat) : x \in OfferStatus({x.version})
  BY DEF OfferStatus
<1>5. \A x \in SaveScenario(Nat) : x \in SaveScenario({x.version})
  BY DEF SaveScenario
<1>6. \A x \in ScenarioStatus(Nat) : x \in ScenarioStatus({x.version})
  BY DEF ScenarioStatus
<1>7. \A x \in PrepareQuotation(Nat) : x \in PrepareQuotation({x.version})
  BY DEF PrepareQuotation
<1> QED BY <1>1, <1>2, <1>3, <1>4, <1>5, <1>6, <1>7 DEF DealCommands

LEMMA BookMoves ==
  ASSUME BookInv, [BookNext]_book
  PROVE  /\ Grows /\ BookInv' /\ lead \in Nat /\ lead' \in Nat /\ lead <= lead'
         /\ UNCHANGED book \/ lead' = lead + 1
<1>1. Kept
  BY StepKeeps
<1>2. UNCHANGED book \/ lead' = lead + 1
  BY DEF BookNext, LeadEdited, CarryOut
<1>3. lead \in Nat /\ lead' \in Nat
  BY <1>1 DEF Kept, BookInv, BookTypeOK
<1>4. lead <= lead'
  BY <1>2, <1>3 DEF book
<1> QED BY <1>1, <1>2, <1>3, <1>4 DEF Kept

\* What a handler holds while others work.
LEMMA Holding ==
  ASSUME DeskInv, [BookNext]_book, NEW h \in Handlers,
         at'[h] = at[h], asked'[h] = asked[h], seen'[h] = seen[h], root'[h] = root[h]
  PROVE  Held(h)'
<1>1. /\ Grows /\ lead \in Nat /\ lead' \in Nat /\ lead <= lead'
      /\ UNCHANGED book \/ lead' = lead + 1
  BY BookMoves DEF DeskInv
<1>2. CASE at[h] = "idle"
  BY <1>2 DEF Held
<1>3. CASE at[h] # "idle"
  <2>1. PICK c \in DealCommands(Nat) : c = asked[h]
    BY <1>3 DEF DeskInv, Held
  <2>2. /\ Target(c).version \in Nat /\ c.version \in Nat
        /\ Target(c)'.version \in Nat /\ Later(Target(c), Target(c)')
    <3>1. BookTypeOK /\ BookTypeOK'
      BY BookMoves DEF DeskInv, BookInv
    <3> QED BY <1>1, <3>1, TargetTyped, TargetGrows
  <2>3. PICK x : x = seen[h]
    OBVIOUS
  <2>4. /\ c.version <= lead /\ c.version <= Target(c).version
        /\ at[h] \in {"rules", "commit"} => root[h] <= lead
        /\ root[h] \in Nat /\ x.version \in Nat
    <3>1. x.version \in Nat /\ root[h] \in Nat
      BY <2>3 DEF DeskInv, ExecutionTypeOK, CandidateRow, RfqRow, OfferRow, ScenarioRow, NoRow
    <3> QED BY <1>3, <2>1, <3>1 DEF DeskInv, Held
  <2>5. c.version <= lead' /\ c.version <= Target(c)'.version
    BY <1>1, <2>2, <2>4 DEF Later
  <2>6. at[h] \in {"rules", "commit"} => root[h] <= lead'
    BY <1>1, <2>4
  <2>7. at[h] \in {"root", "rules", "commit"} /\ Early(h) =>
          c.version <= x.version /\ Later(x, Target(c)')
    <3>1. at[h] \in {"root", "rules", "commit"} /\ Early(h) =>
            c.version <= x.version /\ Later(x, Target(c))
      BY <2>1, <2>3 DEF DeskInv, Held
    <3> QED BY <2>2, <2>4, <3>1 DEF Later
  <2>8. at[h] = "commit" /\ lead' = root[h] => UNCHANGED book
    BY <1>1, <2>4
  <2>9. ASSUME at[h] = "commit", lead' = root[h]
        PROVE  Judged(AsJudged(h), seen[h])' /\ (~Early(h) => x = Target(c)')
    <3>1. UNCHANGED book /\ lead = root[h]
      BY <2>8, <2>9 DEF book
    <3>2. Judged(AsJudged(h), seen[h]) /\ (~Early(h) => x = Target(c))
      BY <2>1, <2>3, <2>9, <3>1 DEF DeskInv, Held
    <3>3. AsJudged(h)' = AsJudged(h)
      BY DEF AsJudged
    <3>4. Judged(AsJudged(h), seen[h])'
      BY <3>1, <3>2, <3>3 DEF Judged, book, MaySaveCandidate, MaySaveRfq, MayRecordOffer,
         MayDecide, MaySaveScenario, MayReviewOrSelect, MayPrepare, Current, Exists
    <3>5. Target(c)' = Target(c)
      BY <3>1 DEF Target, book
    <3> QED BY <3>2, <3>4, <3>5
  <2>10. Early(h)' = Early(h) /\ Target(asked[h])' = Target(c)'
    BY <2>1 DEF Early, Target
  <2> QED BY <2>1, <2>3, <2>5, <2>6, <2>7, <2>9, <2>10 DEF Held
<1> QED BY <1>2, <1>3

LEMMA Reversioned ==
  ASSUME NEW c \in DealCommands(Nat), c.do \in {"offer status", "scenario status"},
         NEW v \in Nat
  PROVE  WithVersion(c, v).do = c.do /\ (v = c.version => WithVersion(c, v) = c)
<1>1. CASE c.do = "offer status"
  <2>1. c \in OfferStatus(Nat)
    BY <1>1, CommandKinds
  <2> QED BY <2>1 DEF OfferStatus, WithVersion
<1>2. CASE c.do = "scenario status"
  <2>1. c \in ScenarioStatus(Nat)
    BY <1>2, CommandKinds
  <2> QED BY <2>1 DEF ScenarioStatus, WithVersion
<1> QED BY <1>1, <1>2

\* A batch that succeeds finds the row it read, and its rules still hold.
LEMMA SuccessIsJudged ==
  ASSUME DeskInv, NEW h \in Handlers, at[h] = "commit", Succeeds(h)
  PROVE  seen[h] = Target(asked[h]) /\ Judged(asked[h], seen[h])
<1>1. /\ Judged(AsJudged(h), seen[h])
      /\ ~Early(h) => seen[h] = Target(asked[h])
  BY DEF DeskInv, Held, Succeeds
<1>2. CASE ~Early(h)
  <2>1. AsJudged(h) = asked[h]
    BY <1>2 DEF AsJudged, Early, RowFirst
  <2> QED BY <1>1, <1>2, <2>1
<1>3. CASE Early(h)
  <2>1. PICK c \in DealCommands(Nat) : c = asked[h]
    BY DEF DeskInv, Held
  <2>2. c.do \in {"offer status", "scenario status", "quotation"}
    BY <1>3, <2>1 DEF Early, RowFirst
  <2>3. seen[h].version \in Nat
    BY DEF DeskInv, ExecutionTypeOK, CandidateRow, RfqRow, OfferRow, ScenarioRow, NoRow
  <2>4. /\ AsJudged(h).do = c.do
        /\ c.version = seen[h].version => AsJudged(h) = c
    <3>1. CASE c.do = "quotation"
      BY <2>1, <3>1 DEF AsJudged
    <3>2. CASE c.do \in {"offer status", "scenario status"}
      <4>1. AsJudged(h) = WithVersion(c, seen[h].version)
        BY <2>1, <3>2 DEF AsJudged
      <4> QED BY <2>3, <3>2, <4>1, Reversioned
    <3> QED BY <2>2, <3>1, <3>2
  <2>5. Exists(seen[h])
    BY <1>1, <2>2, <2>4 DEF Judged, MayDecide, MayReviewOrSelect, MayPrepare
  <2>6. c.version = Target(c).version
    BY <2>1, <2>5 DEF Succeeds
  <2>7. c.version <= seen[h].version /\ Later(seen[h], Target(c))
    BY <1>3, <2>1 DEF DeskInv, Held
  <2>8. c.version \in Nat
    BY CommandNames
  <2>9. c.version = seen[h].version /\ seen[h] = Target(c)
    BY <2>3, <2>6, <2>7, <2>8 DEF Later
  <2> QED BY <1>1, <2>1, <2>4, <2>9
<1> QED BY <1>2, <1>3

LEMMA OthersHold ==
  ASSUME DeskInv, [BookNext]_book, ExecutionTypeOK', NEW h \in Handlers, Held(h)',
         \A g \in Handlers \ {h} : /\ at'[g] = at[g] /\ asked'[g] = asked[g]
                                   /\ seen'[g] = seen[g] /\ root'[g] = root[g]
  PROVE  DeskInv'
<1>1. BookInv'
  BY BookMoves DEF DeskInv
<1>2. \A g \in Handlers : Held(g)'
  BY Holding
<1> QED BY <1>1, <1>2 DEF DeskInv

LEMMA Forgotten ==
  ASSUME DeskInv, [BookNext]_book, NEW h \in Handlers, Forget(h)
  PROVE  DeskInv'
<1>1. /\ \A g \in Handlers \ {h} : /\ at'[g] = at[g] /\ asked'[g] = asked[g]
                                   /\ seen'[g] = seen[g] /\ root'[g] = root[g]
      /\ at'[h] = "idle"
  BY DEF Forget, DeskInv, ExecutionTypeOK
<1>2. ExecutionTypeOK'
  <2>1. BookTypeOK'
    BY BookMoves DEF DeskInv, BookInv
  <2>2. 0 \in Nat
    OBVIOUS
  <2> QED BY <2>1, <2>2 DEF Forget, DeskInv, ExecutionTypeOK, CandidateRow, RfqRow, OfferRow,
             ScenarioRow
<1>3. Held(h)'
  BY <1>1 DEF Held
<1> QED BY <1>1, <1>2, <1>3, OthersHold

LEMMA AskKeeps ==
  ASSUME DeskInv, NEW h \in Handlers, Ask(h)
  PROVE  DeskInv' /\ UNCHANGED book
<1>0. PICK v \in 0..lead : \E c \in DealCommands({v}) :
        /\ OnPage(c)
        /\ at' = [at EXCEPT ![h] = IF c.do \in RowFirst THEN "row" ELSE "root"]
        /\ asked' = [asked EXCEPT ![h] = c]
  BY DEF Ask
<1>1. PICK c \in DealCommands({v}) :
        /\ OnPage(c)
        /\ at' = [at EXCEPT ![h] = IF c.do \in RowFirst THEN "row" ELSE "root"]
        /\ asked' = [asked EXCEPT ![h] = c]
  BY <1>0
<1>2. UNCHANGED <<seen, root, book>>
  BY DEF Ask
<1>3. v \in Nat /\ lead \in Nat
  BY DEF DeskInv, BookInv, BookTypeOK
<1>4. c \in DealCommands(Nat) /\ c.version = v
  <2>1. c \in DealCommands(Nat)
    BY <1>3, MoreVersions
  <2>2. c.version \in {v}
    BY CommandKinds
  <2> QED BY <2>1, <2>2
<1>5. c.version <= lead /\ c.version = Target(c).version
  <2>1. v <= lead
    BY <1>0, <1>3
  <2>2. c.version = Target(c).version
    BY <1>1 DEF OnPage
  <2> QED BY <1>4, <2>1, <2>2
<1>6. /\ \A g \in Handlers \ {h} : /\ at'[g] = at[g] /\ asked'[g] = asked[g]
                                   /\ seen'[g] = seen[g] /\ root'[g] = root[g]
      /\ at'[h] \in {"row", "root"} /\ asked'[h] = c
      /\ at'[h] = "root" => c.do \notin RowFirst
  BY <1>1, <1>2 DEF DeskInv, ExecutionTypeOK
<1>7. ExecutionTypeOK'
  <2>1. BookTypeOK'
    BY <1>2, BookMoves DEF DeskInv, BookInv
  <2>2. asked' \in [Handlers -> DealCommands(Nat) \cup {NoCommand}]
    BY <1>1, <1>4 DEF DeskInv, ExecutionTypeOK
  <2>3. at' \in [Handlers -> {"idle", "row", "root", "rules", "commit"}]
    BY <1>1 DEF DeskInv, ExecutionTypeOK
  <2> QED BY <1>2, <2>1, <2>2, <2>3 DEF DeskInv, ExecutionTypeOK, CandidateRow, RfqRow,
             OfferRow, ScenarioRow
<1>8. Held(h)'
  <2>1. Target(asked[h])' = Target(c) /\ lead' = lead
    BY <1>2, <1>6 DEF Target, book
  <2>2. Target(c).version \in Nat
    BY <1>4, TargetTyped DEF DeskInv, BookInv
  <2>3. at'[h] = "root" => ~Early(h)'
    BY <1>6 DEF Early
  <2> QED BY <1>3, <1>4, <1>5, <1>6, <2>1, <2>2, <2>3 DEF Held
<1> QED BY <1>2, <1>6, <1>7, <1>8, OthersHold

LEMMA ReadRowKeeps ==
  ASSUME DeskInv, NEW h \in Handlers, ReadRow(h)
  PROVE  DeskInv' /\ UNCHANGED book
<1>1. UNCHANGED <<asked, root, book>> /\ at[h] = "row"
  BY DEF ReadRow
<1>2. PICK c \in DealCommands(Nat) : c = asked[h]
  BY <1>1 DEF DeskInv, Held
<1>3. /\ \A g \in Handlers \ {h} : /\ at'[g] = at[g] /\ asked'[g] = asked[g]
                                   /\ seen'[g] = seen[g] /\ root'[g] = root[g]
      /\ at'[h] = "root" /\ asked'[h] = c
      /\ c.do # "scenario" => seen'[h] = Target(c)
  BY <1>1, <1>2 DEF ReadRow, DeskInv, ExecutionTypeOK
<1>4. /\ Target(c) \in CandidateRow \cup RfqRow \cup OfferRow \cup ScenarioRow \cup {NoRow}
      /\ Target(c).version \in Nat
  BY TargetTyped DEF DeskInv, BookInv
<1>5. ExecutionTypeOK'
  <2>1. BookTypeOK'
    BY <1>1, BookMoves DEF DeskInv, BookInv
  <2>2. seen' \in [Handlers ->
                    CandidateRow \cup RfqRow \cup OfferRow \cup ScenarioRow \cup {NoRow}]
    BY <1>2, <1>4 DEF ReadRow, DeskInv, ExecutionTypeOK
  <2>3. at' \in [Handlers -> {"idle", "row", "root", "rules", "commit"}]
    BY DEF ReadRow, DeskInv, ExecutionTypeOK
  <2> QED BY <1>1, <2>1, <2>2, <2>3 DEF DeskInv, ExecutionTypeOK, CandidateRow, RfqRow,
             OfferRow, ScenarioRow
<1>6. Held(h)'
  <2>1. Target(asked[h])' = Target(c) /\ lead' = lead
    BY <1>1, <1>3 DEF Target, book
  <2>2. c.version <= lead /\ c.version <= Target(c).version
    BY <1>1, <1>2 DEF DeskInv, Held
  <2>3. Early(h)' => c.version <= seen'[h].version /\ Later(seen'[h], Target(c))
    BY <1>3, <1>4, <2>2 DEF Early, Later
  <2> QED BY <1>2, <1>3, <2>1, <2>2, <2>3 DEF Held
<1> QED BY <1>1, <1>3, <1>5, <1>6, OthersHold

LEMMA ReadRootKeeps ==
  ASSUME DeskInv, NEW h \in Handlers, ReadRoot(h)
  PROVE  DeskInv' /\ UNCHANGED book
<1>1. UNCHANGED <<asked, seen, book>> /\ at[h] = "root"
  BY DEF ReadRoot
<1>2. PICK c \in DealCommands(Nat) : c = asked[h]
  BY <1>1 DEF DeskInv, Held
<1>3. /\ \A g \in Handlers \ {h} : /\ at'[g] = at[g] /\ asked'[g] = asked[g]
                                   /\ seen'[g] = seen[g] /\ root'[g] = root[g]
      /\ at'[h] = "rules" /\ asked'[h] = c /\ seen'[h] = seen[h] /\ root'[h] = lead
  BY <1>1, <1>2 DEF ReadRoot, DeskInv, ExecutionTypeOK
<1>4. lead \in Nat
  BY DEF DeskInv, BookInv, BookTypeOK
<1>5. ExecutionTypeOK'
  <2>1. BookTypeOK'
    BY <1>1, BookMoves DEF DeskInv, BookInv
  <2>2. /\ at' \in [Handlers -> {"idle", "row", "root", "rules", "commit"}]
        /\ root' \in [Handlers -> Nat]
    BY <1>4 DEF ReadRoot, DeskInv, ExecutionTypeOK
  <2> QED BY <1>1, <2>1, <2>2 DEF DeskInv, ExecutionTypeOK, CandidateRow, RfqRow,
             OfferRow, ScenarioRow
<1>6. Held(h)'
  <2>1. Target(asked[h])' = Target(c) /\ lead' = lead /\ Early(h)' = Early(h)
    BY <1>1, <1>3 DEF Target, Early, book
  <2>2. /\ c.version <= lead /\ c.version <= Target(c).version
        /\ Early(h) => c.version <= seen[h].version /\ Later(seen[h], Target(c))
    BY <1>1, <1>2 DEF DeskInv, Held
  <2> QED BY <1>2, <1>3, <1>4, <2>1, <2>2 DEF Held
<1> QED BY <1>1, <1>3, <1>5, <1>6, OthersHold

LEMMA RulesKeeps ==
  ASSUME DeskInv, NEW h \in Handlers, Rules(h)
  PROVE  DeskInv' /\ UNCHANGED book
<1>1. at[h] = "rules"
  BY DEF Rules
<1>2. PICK c \in DealCommands(Nat) : c = asked[h]
  BY <1>1 DEF DeskInv, Held
<1>3. PICK x : x = Read(h)
  OBVIOUS
<1>4. PICK d : d = IF c.do \in {"offer status", "scenario status"}
                     THEN WithVersion(c, x.version) ELSE c
  OBVIOUS
<1>5. \/ Answer(h)
      \/ /\ at' = [at EXCEPT ![h] = "commit"] /\ seen' = [seen EXCEPT ![h] = x]
         /\ UNCHANGED <<asked, root, book>> /\ Judged(d, x)
  BY <1>2, <1>3, <1>4 DEF Rules, WithVersion
<1>6. CASE Answer(h)
  <2>1. Forget(h) /\ UNCHANGED book
    BY <1>6 DEF Answer
  <2> QED BY <2>1, Forgotten
<1>7. CASE /\ at' = [at EXCEPT ![h] = "commit"] /\ seen' = [seen EXCEPT ![h] = x]
           /\ UNCHANGED <<asked, root, book>> /\ Judged(d, x)
  <2>1. UNCHANGED <<asked, root, book>> /\ Judged(d, x)
    BY <1>7
  <2>2. /\ \A g \in Handlers \ {h} : /\ at'[g] = at[g] /\ asked'[g] = asked[g]
                                     /\ seen'[g] = seen[g] /\ root'[g] = root[g]
        /\ at'[h] = "commit" /\ asked'[h] = c /\ seen'[h] = x /\ root'[h] = root[h]
    BY <1>2, <1>7 DEF DeskInv, ExecutionTypeOK
  <2>3. /\ Early(h) => x = seen[h]
        /\ ~Early(h) => x = Target(c)
    BY <1>2, <1>3 DEF Read, Early
  <2>4. x \in CandidateRow \cup RfqRow \cup OfferRow \cup ScenarioRow \cup {NoRow}
    <3>1. Target(c) \in CandidateRow \cup RfqRow \cup OfferRow \cup ScenarioRow \cup {NoRow}
      BY TargetTyped DEF DeskInv, BookInv
    <3> QED BY <2>3, <3>1 DEF DeskInv, ExecutionTypeOK
  <2>5. ExecutionTypeOK'
    <3>1. BookTypeOK'
      BY <2>1, BookMoves DEF DeskInv, BookInv
    <3>2. at' \in [Handlers -> {"idle", "row", "root", "rules", "commit"}]
      BY <1>7 DEF DeskInv, ExecutionTypeOK
    <3>3. seen' \in [Handlers ->
                      CandidateRow \cup RfqRow \cup OfferRow \cup ScenarioRow \cup {NoRow}]
      BY <1>7, <2>4 DEF DeskInv, ExecutionTypeOK
    <3> QED BY <2>1, <3>1, <3>2, <3>3 DEF DeskInv, ExecutionTypeOK, CandidateRow, RfqRow,
               OfferRow, ScenarioRow
  <2>6. /\ Target(asked[h])' = Target(c) /\ lead' = lead /\ Early(h)' = Early(h)
        /\ AsJudged(h)' = d
    BY <1>2, <1>4, <2>1, <2>2 DEF Target, Early, AsJudged, book
  <2>7. Judged(AsJudged(h), seen[h])'
    BY <2>1, <2>2, <2>6 DEF Judged, book, MaySaveCandidate, MaySaveRfq, MayRecordOffer,
       MayDecide, MaySaveScenario, MayReviewOrSelect, MayPrepare, Current, Exists
  <2>8. /\ c.version <= lead /\ c.version <= Target(c).version /\ root[h] <= lead
        /\ Early(h) => c.version <= seen[h].version /\ Later(seen[h], Target(c))
    BY <1>1, <1>2 DEF DeskInv, Held
  <2>9. Held(h)'
    BY <1>2, <2>2, <2>3, <2>6, <2>7, <2>8 DEF Held
  <2> QED BY <2>1, <2>2, <2>5, <2>9, OthersHold
<1> QED BY <1>5, <1>6, <1>7

LEMMA CommitKeeps ==
  ASSUME DeskInv, NEW h \in Handlers, Commit(h)
  PROVE  DeskInv' /\ [BookNext]_book
<1>1. at[h] = "commit" /\ Forget(h)
  BY DEF Commit, Answer
<1>2. CASE Succeeds(h)
  <2>1. PICK c \in DealCommands(Nat) : c = asked[h]
    BY <1>1 DEF DeskInv, Held
  <2>2. CarryOut(c, Target(c)) /\ Judged(c, Target(c))
    BY <1>1, <1>2, <2>1, SuccessIsJudged DEF Commit
  <2>3. c \in DealCommands({c.version}) /\ c.version \in 0..lead
    <3>1. c.version \in Nat
      BY CommandNames
    <3>2. c.version <= lead /\ lead \in Nat
      BY <1>1, <2>1 DEF DeskInv, Held, BookInv, BookTypeOK
    <3> QED BY <3>1, <3>2, OwnVersion
  <2>4. lead' = lead + 1
    BY <2>2 DEF CarryOut
  <2>5. BookNext
    BY <2>2, <2>3, <2>4 DEF BookNext
  <2> QED BY <1>1, <2>5, Forgotten
<1>3. CASE ~Succeeds(h)
  <2>1. UNCHANGED book
    BY <1>3 DEF Commit, Answer
  <2> QED BY <1>1, <2>1, Forgotten
<1> QED BY <1>2, <1>3

LEMMA DeskStep ==
  ASSUME DeskInv, [ExecutionNext]_dealVars
  PROVE  DeskInv' /\ [BookNext]_book
<1>1. CASE EditLead
  <2>1. BookNext /\ UNCHANGED handlers
    BY <1>1 DEF EditLead, BookNext
  <2>2. ExecutionTypeOK'
    <3>1. BookTypeOK'
      BY <2>1, BookMoves DEF DeskInv, BookInv
    <3> QED BY <2>1, <3>1 DEF handlers, DeskInv, ExecutionTypeOK, CandidateRow, RfqRow, OfferRow,
               ScenarioRow
  <2>3. \A h \in Handlers : Held(h)'
    BY <2>1, Holding DEF handlers
  <2> QED BY <2>1, <2>2, <2>3, BookMoves DEF DeskInv
<1>2. ASSUME NEW h \in Handlers, Ask(h) \/ ReadRow(h) \/ ReadRoot(h) \/ Rules(h)
      PROVE  DeskInv' /\ [BookNext]_book
  BY <1>2, AskKeeps, ReadRowKeeps, ReadRootKeeps, RulesKeeps
<1>3. ASSUME NEW h \in Handlers, Commit(h)
      PROVE  DeskInv' /\ [BookNext]_book
  BY <1>3, CommitKeeps
<1>4. ASSUME NEW h \in Handlers, Refused(h)
      PROVE  DeskInv' /\ [BookNext]_book
  BY <1>4, Forgotten DEF Refused, Answer
<1>5. CASE UNCHANGED dealVars
  <2>1. UNCHANGED book /\ UNCHANGED handlers
    BY <1>5 DEF dealVars
  <2>2. ExecutionTypeOK'
    <3>1. BookTypeOK'
      BY <2>1, BookMoves DEF DeskInv, BookInv
    <3> QED BY <2>1, <3>1 DEF handlers, DeskInv, ExecutionTypeOK, CandidateRow, RfqRow, OfferRow,
               ScenarioRow
  <2>3. \A h \in Handlers : Held(h)'
    BY <2>1, Holding DEF handlers
  <2> QED BY <2>1, <2>2, <2>3, BookMoves DEF DeskInv
<1> QED BY <1>1, <1>2, <1>3, <1>4, <1>5 DEF ExecutionNext

LEMMA DeskStarts ==
  ExecutionInit => DeskInv
<1> SUFFICES ASSUME ExecutionInit PROVE DeskInv
  OBVIOUS
<1>1. BookInv
  BY BookStarts DEF ExecutionInit
<1>2. ExecutionTypeOK
  BY <1>1 DEF ExecutionInit, ExecutionTypeOK, BookInv
<1>3. \A h \in Handlers : Held(h)
  BY DEF ExecutionInit, Held
<1> QED BY <1>1, <1>2, <1>3 DEF DeskInv

LEMMA DeskHolds ==
  ExecutionSpec => []DeskInv
BY DeskStarts, DeskStep, PTL DEF ExecutionSpec

-----------------------------------------------------------------------------
\* Handlers that read row by row and write awaits later change the deal's book
\* only as if one command at a time had been judged and carried out.
THEOREM HandlersKeepTheBook ==
  ExecutionSpec => KeepsTheBook
<1>1. ExecutionInit => BookInit
  BY DEF ExecutionInit
<1>2. DeskInv /\ [ExecutionNext]_dealVars => DeskInv' /\ [BookNext]_book
  BY DeskStep
<1>3. ExecutionSpec => BookSpec
  BY <1>1, <1>2, DeskStarts, PTL DEF ExecutionSpec, BookSpec
<1> QED BY <1>3 DEF KeepsTheBook

\* A handler whose guards let its batch through writes what the rules say of
\* the rows as they stand, though it read them awaits ago.
THEOREM SuccessIsJudgedAlways ==
  ExecutionSpec => []BatchIsJudged
<1>1. DeskInv => BatchIsJudged
  BY SuccessIsJudged DEF BatchIsJudged
<1> QED BY <1>1, DeskHolds, PTL

\* Under overlapping handlers the offers of a series are numbered without a gap
\* or a double, and only the last of them is not superseded.
THEOREM OverlapsKeepSeries ==
  ExecutionSpec => []SeriesIsWhole
<1>1. DeskInv => SeriesIsWhole
  BY DEF DeskInv, BookInv
<1> QED BY <1>1, DeskHolds, PTL

\* Under overlapping handlers a quotation says what was reviewed, is prepared
\* once, and at most one scenario of the deal is selected.
THEOREM OverlapsQuoteAsReviewed ==
  ExecutionSpec => []QuotedAsReviewed
<1>1. DeskInv => QuotedAsReviewed
  BY DEF DeskInv, BookInv
<1> QED BY <1>1, DeskHolds, PTL

\* Under overlapping handlers nothing sent, received, reviewed or quoted is rewritten.
THEOREM OverlapsKeepHistory ==
  ExecutionSpec => HistoryStands
<1>1. ExecutionSpec => BookSpec
  BY HandlersKeepTheBook DEF KeepsTheBook
<1> QED BY <1>1, BookHistory

\* The rows of the book and what the handlers hold stay what they are meant to be.
THEOREM DeskTypes ==
  ExecutionSpec => []ExecutionTypeOK
<1>1. DeskInv => ExecutionTypeOK
  BY DEF DeskInv
<1> QED BY <1>1, DeskHolds, PTL
=============================================================================
