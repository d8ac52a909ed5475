---------------------------- MODULE RecordsProofs ----------------------------
(***************************************************************************)
(* For any staff, documents, totals and number of concurrent requests: the *)
(* records API behaves like the store of RecordStore (OneAtATime), so what *)
(* that store keeps, the API keeps.                                        *)
(*                                                                         *)
(* The refinement rests on Held: a request about to write holds a row that *)
(* is the stored one if the versions agree.  Everything else is proved of  *)
(* the store alone, one command at a time, and carried over.               *)
(***************************************************************************)
EXTENDS Records, TLAPS

HandoffKinds == {"orders", "logistics", "accounts"}

LEMMA RecordParts ==
  ASSUME NEW r \in Records
  PROVE  /\ r = <<Kind(r), Origin(r)>>
         /\ Kind(r) \in {"quotations"} \cup HandoffKinds => Origin(r) \in Quotes
         /\ r \in Handoffs <=> Kind(r) \in HandoffKinds
         /\ Kind(r) \in {"leads", "quotations", "cash", "proformas"} \cup HandoffKinds
BY DEF Records, Originals, Handoffs, Kind, Origin, HandoffKinds

LEMMA HandoffParts ==
  ASSUME NEW q \in Quotes, NEW k \in {"quotations"} \cup HandoffKinds
  PROVE  /\ <<k, q>> \in Records /\ Kind(<<k, q>>) = k /\ Origin(<<k, q>>) = q
         /\ k \in HandoffKinds => <<k, q>> \in Handoffs
BY DEF Records, Originals, Handoffs, Kind, Origin, HandoffKinds

LEMMA StatusNames ==
  /\ {"Draft", "Paid", "Partially Paid", "New", "Confirmed", "Recorded",
      "Pending Planning"} \subseteq Statuses
  /\ "none" \notin Statuses
<1>1. {"Draft", "Paid", "Partially Paid"} \subseteq Stages("accounts", "Draft")
  BY DEF Stages
<1>2. "New" \in Stages("leads", "Draft") /\ "Confirmed" \in Stages("orders", "Draft")
  BY DEF Stages
<1>3. "Recorded" \in Stages("cash", "Draft")
      /\ "Pending Planning" \in Stages("logistics", "Draft")
  BY DEF Stages
<1>4. \A k \in {"leads", "quotations", "orders", "logistics", "accounts", "cash", "proformas"} :
        "none" \notin Stages(k, "Draft")
  BY DEF Stages
<1> QED BY <1>1, <1>2, <1>3, <1>4 DEF Statuses

LEMMA NewTyped ==
  ASSUME NEW a \in Staff, NEW r \in Records, NEW n \in Amounts,
         NEW p \in Records \cup {NoParent}
  PROVE  New(a, Kind(r), n, p) \in Row /\ New(a, Kind(r), n, p).version = 1
<1>1. FirstStage(Kind(r)) \in Statuses
  BY StatusNames DEF FirstStage
<1>2. <<>> \in Seq(References) /\ 0 \in Nat /\ 1 \in Nat
  OBVIOUS
<1> QED BY <1>1, <1>2 DEF New, Row, Records

LEMMA OutcomeTyped ==
  ASSUME NEW c \in Commands, NEW x \in Row, Allowed(c, x)
  PROVE  Outcome(c, x) \in Row /\ Outcome(c, x).version = x.version
<1>1. CASE c.do = "status"
  BY <1>1 DEF Outcome, Commands, CommandsOn, Row
<1>2. CASE c.do = "edit"
  <2>1. c.amount \in Amounts
    BY <1>2 DEF Commands, CommandsOn
  <2> QED BY <1>2, <2>1, StatusNames DEF Outcome, Edited, Row
<1>3. CASE c.do = "delete"
  BY <1>3 DEF Outcome, Row
<1>4. CASE c.do = "assign"
  BY <1>4 DEF Outcome, Commands, CommandsOn, Row
<1>5. CASE c.do = "payment"
  <2>1. c.reference \in References /\ c.cents \in Nat
    BY <1>5, PositiveAmounts DEF Commands, CommandsOn
  <2>2. Append(x.payments, c.reference) \in Seq(References) /\ x.paid + c.cents \in Nat
    BY <2>1 DEF Row
  <2> QED BY <1>5, <2>2, StatusNames DEF Outcome, PaidIn, Row
<1>6. CASE c.do = "note"
  BY <1>6 DEF Outcome
<1> QED BY <1>1, <1>2, <1>3, <1>4, <1>5, <1>6 DEF Commands, CommandsOn

\* What the rules let nobody do.
LEMMA AllowedIsWriting ==
  ASSUME NEW c \in Commands, NEW x, Allowed(c, x)
  PROVE  ~x.deleted
BY DEF Allowed, MayMove, MayEdit, MayDelete, CanAssign, MayPay, CanWrite
-----------------------------------------------------------------------------
(* The store. *)

\* A command carried out on the row as it stands.
Carries(c) ==
  /\ Exists(c.on)
  /\ Allowed(c, row[c.on])
  /\ \A r \in Created(c) : ~Exists(r)
  /\ Save(c, row[c.on])

\* A record created: what it will be is written under an id nobody has used.
Begins(r, x) ==
  /\ ~Exists(r) /\ ~x.deleted
  /\ Insert(r, x)

LEMMA StoreSteps ==
  ASSUME StoreTypeOK, StoreNext
  PROVE  \/ \E c \in Commands : Carries(c)
         \/ \E r \in Originals, a \in Staff, n \in Amounts, p \in Records \cup {NoParent} :
              Begins(r, New(a, Kind(r), n, p))
<1>1. CASE Create
  BY <1>1 DEF Create, Begins, CanWrite
<1>2. CASE CarryOut
  <2>1. PICK r \in Records :
          /\ Exists(r)
          /\ \E c \in CommandsOn({r}, {row[r].version}) :
               /\ Allowed(c, row[r])
               /\ \A created \in Created(c) : ~Exists(created)
               /\ Save(c, row[r])
    BY <1>2 DEF CarryOut
  <2>2. PICK c \in CommandsOn({r}, {row[r].version}) :
               /\ Allowed(c, row[r])
               /\ \A created \in Created(c) : ~Exists(created)
               /\ Save(c, row[r])
    BY <2>1
  <2>3. row[r].version \in Nat
    BY <2>1 DEF StoreTypeOK, Row, Blank
  <2>4. c.on = r /\ c \in Commands
    BY <2>3 DEF Commands, CommandsOn
  <2> QED BY <2>1, <2>2, <2>4 DEF Carries
<1> QED BY <1>1, <1>2 DEF StoreNext

LEMMA CreatedParts ==
  ASSUME NEW c \in Commands
  PROVE  /\ c.on \in Records /\ c.by \in Staff
         /\ Created(c) \subseteq Handoffs
         /\ \A r \in Created(c) : /\ Kind(r) \in HandoffKinds /\ Kind(c.on) = "quotations"
                                  /\ Origin(r) = Origin(c.on) /\ Origin(r) \in Quotes
                                  /\ r # c.on
<1>1. c.on \in Records /\ c.by \in Staff
  BY DEF Commands, CommandsOn
<1>2. CASE Accepts(c)
  <2>1. Kind(c.on) = "quotations" /\ Origin(c.on) \in Quotes
    BY <1>1, <1>2, RecordParts DEF Accepts
  <2>2. \A k \in HandoffKinds : /\ <<k, Origin(c.on)>> \in Handoffs
                                /\ Kind(<<k, Origin(c.on)>>) = k
                                /\ Origin(<<k, Origin(c.on)>>) = Origin(c.on)
    BY <2>1, HandoffParts
  <2>3. Created(c) = {<<k, Origin(c.on)>> : k \in HandoffKinds}
    BY <1>2 DEF Created, HandoffOf, HandoffKinds
  <2> QED BY <1>1, <2>1, <2>2, <2>3 DEF HandoffKinds
<1>3. CASE ~Accepts(c)
  BY <1>1, <1>3 DEF Created
<1> QED BY <1>2, <1>3

\* What a carried out command writes, row by row.
LEMMA RowsCarried ==
  ASSUME StoreTypeOK, NEW c \in Commands, Carries(c)
  PROVE  /\ row[c.on] \in Row /\ row[c.on].version \in Nat /\ row[c.on].version > 0
         /\ row'[c.on] = [Outcome(c, row[c.on]) EXCEPT !.version = row[c.on].version + 1]
         /\ \A r \in Created(c) : row[r] = Blank /\ row'[r] = Handed(row[c.on], r)
         /\ \A r \in Records \ (Created(c) \cup {c.on}) : row'[r] = row[r]
<1>1. c.on \in Records /\ Created(c) \subseteq Records /\ c.on \notin Created(c)
  BY CreatedParts DEF Records
<1>2. row[c.on] \in Row
  <2>1. row[c.on] \in Row \cup {Blank} /\ Exists(c.on)
    BY <1>1 DEF StoreTypeOK, Carries
  <2> QED BY <2>1 DEF Exists, Blank
<1>3. row[c.on].version \in Nat /\ row[c.on].version > 0
  BY <1>2 DEF Row, Carries, Exists
<1>4. \A r \in Records :
        row'[r] = CASE r = c.on -> [Outcome(c, row[c.on]) EXCEPT !.version = row[r].version + 1]
                    [] r \in Created(c) -> Handed(row[c.on], r)
                    [] OTHER            -> row[r]
  BY DEF Carries, Save
<1>5. row'[c.on] = [Outcome(c, row[c.on]) EXCEPT !.version = row[c.on].version + 1]
  BY <1>1, <1>4
<1>6. \A r \in Created(c) : row'[r] = Handed(row[c.on], r)
  BY <1>1, <1>4
<1>7. \A r \in Records \ (Created(c) \cup {c.on}) : row'[r] = row[r]
  BY <1>4
<1>8. \A r \in Created(c) : row[r] = Blank
  BY <1>1 DEF StoreTypeOK, Carries
<1> QED BY <1>2, <1>3, <1>5, <1>6, <1>7, <1>8

LEMMA HandedTyped ==
  ASSUME NEW x \in Row, NEW r \in Handoffs
  PROVE  Handed(x, r) \in Row /\ Handed(x, r).version = 1
<1>1. FirstStage(Kind(r)) \in Statuses
  BY StatusNames DEF FirstStage
<1>2. r \in Records /\ Origin(r) \in Quotes
  BY RecordParts DEF Records, Handoffs, Origin
<1>3. <<"quotations", Origin(r)>> \in Originals /\ <<"orders", Origin(r)>> \in Handoffs
  BY <1>2 DEF Originals, Handoffs
<1> DEFINE parent == IF Kind(r) = "orders" THEN <<"quotations", Origin(r)>>
                                          ELSE <<"orders", Origin(r)>>
<1>4. parent \in Originals \cup Handoffs \cup {NoParent}
  BY <1>3
<1>5. Handed(x, r) = [x EXCEPT !.status = FirstStage(Kind(r)), !.version = 1, !.parent = parent]
  BY DEF Handed
<1> DEFINE status == FirstStage(Kind(r))
<1>6. status \in Statuses /\ 1 \in Nat
  BY <1>1
<1> HIDE DEF parent, status
<1>7. [x EXCEPT !.status = status, !.version = 1, !.parent = parent] \in Row
  BY <1>4, <1>6 DEF Row
<1>8. [x EXCEPT !.status = status, !.version = 1, !.parent = parent].version = 1
  BY DEF Row
<1> QED BY <1>5, <1>7, <1>8 DEF status, parent

LEMMA StoreTypedInit == StoreInit => StoreTypeOK
BY DEF StoreInit, StoreTypeOK, Exists, Blank

LEMMA CarriesTyped ==
  ASSUME StoreTypeOK, NEW c \in Commands, Carries(c)
  PROVE  StoreTypeOK'
<1> DEFINE x == row[c.on]
<1>1. /\ x \in Row /\ Outcome(c, x) \in Row /\ x.version + 1 \in Nat /\ x.version + 1 > 0
      /\ c.on \in Records /\ c.by \in Staff
  <2>1. x \in Row /\ x.version \in Nat /\ Allowed(c, x)
    BY RowsCarried DEF Carries
  <2>2. Outcome(c, x) \in Row
    BY <2>1, OutcomeTyped
  <2> QED BY <2>1, <2>2, CreatedParts
<1>2. row'[c.on] \in Row /\ row'[c.on].version > 0
  <2>1. row'[c.on] = [Outcome(c, x) EXCEPT !.version = x.version + 1]
    BY RowsCarried
  <2> QED BY <1>1, <2>1 DEF Row
<1>3. \A r \in Created(c) : row'[r] \in Row /\ row'[r].version > 0
  <2>1. \A r \in Created(c) : r \in Handoffs /\ row'[r] = Handed(x, r)
    BY RowsCarried, CreatedParts
  <2> QED BY <1>1, <2>1, HandedTyped
<1>4. row' \in [Records -> Row \cup {Blank}]
  <2>1. \A r \in Records \ (Created(c) \cup {c.on}) : row'[r] \in Row \cup {Blank}
    BY RowsCarried DEF StoreTypeOK
  <2>2. row' = [r \in Records |-> row'[r]]
    BY DEF Carries, Save
  <2>3. \A r \in Records : row'[r] \in Row \cup {Blank}
    BY <1>2, <1>3, <2>1
  <2> QED BY <2>2, <2>3
<1>5. \A r \in Records : ~Exists(r)' => row'[r] = Blank
  <2>1. \A r \in Records \ (Created(c) \cup {c.on}) : row'[r] = row[r]
    BY RowsCarried
  <2> QED BY <1>2, <1>3, <2>1 DEF Exists, StoreTypeOK
<1>6. audit' \in [Records -> Nat]
  BY <1>1 DEF Carries, Save, Following, StoreTypeOK
<1>7. approval' \in [Quotes -> [amount: Amounts, by: Staff, owner: Staff] \cup {NotApproved}]
  <2>1. [amount |-> x.amount, by |-> c.by, owner |-> row[c.on].owner]
          \in [amount: Amounts, by: Staff, owner: Staff]
    BY <1>1 DEF Row
  <2> QED BY <2>1 DEF Carries, Save, Following, StoreTypeOK
<1> QED BY <1>4, <1>5, <1>6, <1>7 DEF StoreTypeOK

LEMMA BeginsTyped ==
  ASSUME StoreTypeOK, NEW r \in Originals, NEW a \in Staff, NEW n \in Amounts,
         NEW p \in Records \cup {NoParent}, Begins(r, New(a, Kind(r), n, p))
  PROVE  StoreTypeOK'
<1>1. r \in Records
  BY DEF Records
<1>2. New(a, Kind(r), n, p) \in Row /\ New(a, Kind(r), n, p).version = 1
  BY <1>1, NewTyped
<1> QED BY <1>1, <1>2 DEF Begins, Insert, StoreTypeOK, Exists

LEMMA StoreTyped == StoreTypeOK /\ [StoreNext]_store => StoreTypeOK'
<1> SUFFICES ASSUME StoreTypeOK, [StoreNext]_store PROVE StoreTypeOK'
  OBVIOUS
<1>1. CASE StoreNext
  BY <1>1, StoreSteps, CarriesTyped, BeginsTyped
<1>2. CASE UNCHANGED store
  BY <1>2 DEF store, StoreTypeOK, Exists
<1> QED BY <1>1, <1>2

\* What a command that the rules allow does to the row it was shown.
LEMMA Outcomes ==
  ASSUME NEW c \in Commands, NEW x \in Row, Allowed(c, x)
  PROVE  LET y == Outcome(c, x) k == Kind(c.on)
         IN  /\ ~x.deleted
             /\ \/ y.status = x.status
                \/ c.do = "status" /\ y.status = c.status /\ MayMove(c.by, k, x, c.status)
                \/ c.do = "edit" /\ k = "quotations"
                   /\ x.status = "Pending Approval" /\ y.status = "Draft"
                \/ c.do = "payment" /\ y.status \in {"Paid", "Partially Paid"}
                   /\ k \in {"accounts", "cash"}
             /\ \/ y.amount = x.amount
                \/ c.do = "edit" /\ ~CommercialLocked(k, x) /\ MayEdit(c.by, k, x)
             /\ \/ y.payments = x.payments /\ y.paid = x.paid
                \/ c.do = "payment" /\ MayPay(c.by, k, x, c.reference, c.cents)
                   /\ y = PaidIn(x, c.reference, c.cents)
             /\ \/ y.deleted = x.deleted
                \/ c.do = "delete" /\ MayDelete(c.by, k, x)
<1>0. ~x.deleted
  BY AllowedIsWriting
<1>1. CASE c.do = "status"
  <2>1. Outcome(c, x) = [x EXCEPT !.status = c.status] /\ MayMove(c.by, Kind(c.on), x, c.status)
    BY <1>1 DEF Outcome, Allowed
  <2> QED BY <1>0, <1>1, <2>1 DEF Row
<1>2. CASE c.do = "edit"
  <2>1. Outcome(c, x) = Edited(Kind(c.on), x, c.amount) /\ MayEdit(c.by, Kind(c.on), x)
    BY <1>2 DEF Outcome, Allowed
  <2> QED BY <1>0, <1>2, <2>1 DEF Edited, Row
<1>3. CASE c.do = "delete"
  <2>1. Outcome(c, x) = [x EXCEPT !.deleted = TRUE] /\ MayDelete(c.by, Kind(c.on), x)
    BY <1>3 DEF Outcome, Allowed
  <2> QED BY <1>0, <1>3, <2>1 DEF Row
<1>4. CASE c.do = "assign"
  <2>1. Outcome(c, x) = [x EXCEPT !.owner = c.to]
    BY <1>4 DEF Outcome
  <2> QED BY <1>0, <2>1 DEF Row
<1>5. CASE c.do = "payment"
  <2>1. /\ Outcome(c, x) = PaidIn(x, c.reference, c.cents)
        /\ MayPay(c.by, Kind(c.on), x, c.reference, c.cents)
    BY <1>5 DEF Outcome, Allowed
  <2>2. Kind(c.on) \in {"accounts", "cash"}
    BY <2>1 DEF MayPay
  <2>3. /\ PaidIn(x, c.reference, c.cents).amount = x.amount
        /\ PaidIn(x, c.reference, c.cents).deleted = x.deleted
        /\ PaidIn(x, c.reference, c.cents).status \in {"Paid", "Partially Paid"}
    BY DEF PaidIn, Row
  <2> QED BY <1>0, <1>5, <2>1, <2>2, <2>3
<1>6. CASE c.do = "note"
  BY <1>0, <1>6 DEF Outcome
<1> QED BY <1>1, <1>2, <1>3, <1>4, <1>5, <1>6 DEF Commands, CommandsOn

LEMMA StageFacts ==
  ASSUME NEW r \in Records, NEW status, NEW s \in Stages(Kind(r), status)
  PROVE  /\ s \in {"Accepted", "Approved"} => Kind(r) = "quotations"
         /\ s = "Issued" => Kind(r) = "proformas"
         /\ s \in {"Paid", "Partially Paid"} => Kind(r) = "accounts"
BY RecordParts DEF Stages, HandoffKinds

LEMMA FirstStages ==
  ASSUME NEW r \in Records
  PROVE  FirstStage(Kind(r)) \notin {"Accepted", "Approved", "Sent", "Issued", "Paid",
                                    "Partially Paid", "Cancelled", "none"}
BY RecordParts DEF FirstStage, HandoffKinds

LEMMA QuotationOf ==
  ASSUME NEW q \in Quotes
  PROVE  /\ <<"quotations", q>> \in Records /\ Kind(<<"quotations", q>>) = "quotations"
         /\ Origin(<<"quotations", q>>) = q
         /\ \A r \in Records : Kind(r) = "quotations" /\ Origin(r) = q => r = <<"quotations", q>>
         /\ \A r \in HandoffOf(<<"quotations", q>>) :
              r \in Records /\ Kind(r) \in HandoffKinds /\ Origin(r) = q
<1>1. /\ <<"quotations", q>> \in Records /\ Kind(<<"quotations", q>>) = "quotations"
      /\ Origin(<<"quotations", q>>) = q
  BY HandoffParts
<1>2. \A r \in Records : Kind(r) = "quotations" /\ Origin(r) = q => r = <<"quotations", q>>
  BY RecordParts
<1>3. \A k \in HandoffKinds : /\ <<k, q>> \in Records /\ Kind(<<k, q>>) = k
                              /\ Origin(<<k, q>>) = q
  BY HandoffParts
<1>4. HandoffOf(<<"quotations", q>>) = {<<k, q>> : k \in HandoffKinds}
  BY <1>1 DEF HandoffOf, HandoffKinds
<1> QED BY <1>1, <1>2, <1>3, <1>4

\* What a carried out command leaves of the row that it changes.
LEMMA After ==
  ASSUME StoreTypeOK, NEW c \in Commands, Carries(c)
  PROVE  LET x == row[c.on] y == Outcome(c, x) z == row'[c.on]
         IN  /\ x \in Row /\ y \in Row
             /\ z.status = y.status /\ z.amount = y.amount /\ z.payments = y.payments
             /\ z.paid = y.paid /\ z.deleted = y.deleted /\ z.version = x.version + 1
<1> DEFINE x == row[c.on] y == Outcome(c, x)
<1>1. x \in Row /\ x.version \in Nat /\ Allowed(c, x)
  BY RowsCarried DEF Carries
<1>2. y \in Row
  BY <1>1, OutcomeTyped
<1>3. row'[c.on] = [y EXCEPT !.version = x.version + 1]
  BY RowsCarried
<1> HIDE DEF y
<1>4. \A n \in Nat : LET z == [y EXCEPT !.version = n]
                     IN  /\ z.status = y.status /\ z.amount = y.amount
                         /\ z.payments = y.payments /\ z.paid = y.paid
                         /\ z.deleted = y.deleted /\ z.version = n
  BY <1>2 DEF Row
<1> QED BY <1>1, <1>2, <1>3, <1>4 DEF y

LEMMA AfterHanded ==
  ASSUME NEW x \in Row, NEW r
  PROVE  LET z == Handed(x, r)
         IN  /\ z.status = FirstStage(Kind(r)) /\ z.amount = x.amount
             /\ z.payments = x.payments /\ z.paid = x.paid /\ z.deleted = x.deleted
             /\ z.version = 1
BY DEF Handed, Row

-----------------------------------------------------------------------------
(* What the store keeps. *)

LEMMA AcceptanceKept ==
  ASSUME StoreTypeOK, AcceptanceIsWhole, StoreNext
  PROVE  AcceptanceIsWhole'
<1> SUFFICES ASSUME NEW q \in Quotes, NEW r \in HandoffOf(<<"quotations", q>>)
             PROVE  /\ Exists(r)' <=> row'[<<"quotations", q>>].status = "Accepted"
                    /\ Exists(r)' => /\ row'[r].amount = row'[<<"quotations", q>>].amount
                                     /\ ~row'[r].deleted
                                     /\ ~row'[<<"quotations", q>>].deleted
  BY DEF AcceptanceIsWhole, HandoffOf, Origin
<1> DEFINE Q == <<"quotations", q>>
<1>1. /\ Q \in Records /\ Kind(Q) = "quotations" /\ Origin(Q) = q
      /\ r \in Records /\ Kind(r) \in HandoffKinds /\ Origin(r) = q /\ r # Q
  BY QuotationOf DEF HandoffKinds
<1>2. /\ Exists(r) <=> row[Q].status = "Accepted"
      /\ Exists(r) => row[r].amount = row[Q].amount /\ ~row[r].deleted /\ ~row[Q].deleted
  BY DEF AcceptanceIsWhole
<1> HIDE DEF Q
<1>3. ASSUME NEW c \in Commands, Carries(c), c.on = Q
      PROVE  /\ Exists(r)' <=> row'[Q].status = "Accepted"
             /\ Exists(r)' => row'[r].amount = row'[Q].amount /\ ~row'[r].deleted
                              /\ ~row'[Q].deleted
  <2> DEFINE x == row[Q] y == Outcome(c, x)
  <2>1. /\ x \in Row /\ row'[Q].status = y.status /\ row'[Q].amount = y.amount
        /\ row'[Q].deleted = y.deleted /\ Allowed(c, x)
    BY <1>3, After DEF Carries
  <2>2. CASE Accepts(c)
    <3>1. r \in Created(c)
      BY <1>1, <1>3, <2>2 DEF Created, HandoffOf, Q
    <3>2. row'[r] = Handed(x, r)
      BY <1>3, <3>1, RowsCarried
    <3>3. y = [x EXCEPT !.status = "Accepted"] /\ ~x.deleted
      BY <2>1, <2>2, AllowedIsWriting DEF Outcome, Accepts
    <3>4. y.status = "Accepted" /\ y.amount = x.amount /\ ~y.deleted
      BY <2>1, <3>3 DEF Row
    <3> QED BY <2>1, <3>2, <3>3, <3>4, AfterHanded DEF Exists
  <2>3. CASE ~Accepts(c)
    <3>1. row'[r] = row[r]
      BY <1>1, <1>3, <2>3, RowsCarried DEF Created
    <3>2. x.status = "Accepted" => /\ CommercialLocked("quotations", x)
                                   /\ ~MayMove(c.by, "quotations", x, c.status)
      BY DEF CommercialLocked, MayMove, Closed
    <3>3. x.status = "Accepted" =>
            y.status = "Accepted" /\ y.amount = x.amount /\ y.deleted = x.deleted
      BY <1>1, <1>3, <2>1, <3>2, Outcomes DEF MayDelete
    <3>4. x.status # "Accepted" => y.status # "Accepted"
      BY <1>1, <1>3, <2>1, <2>3, Outcomes DEF Accepts
    <3>5. CASE x.status = "Accepted"
      <4>1. Exists(r) /\ row[r].amount = x.amount /\ ~row[r].deleted /\ ~x.deleted
        BY <1>2, <3>5
      <4>2. row'[Q].status = "Accepted" /\ row'[Q].amount = x.amount /\ ~row'[Q].deleted
        BY <2>1, <3>3, <3>5, <4>1
      <4> QED BY <3>1, <4>1, <4>2 DEF Exists
    <3>6. CASE x.status # "Accepted"
      BY <1>2, <2>1, <3>1, <3>4, <3>6 DEF Exists
    <3> QED BY <3>5, <3>6
  <2> QED BY <2>2, <2>3
<1>4. ASSUME NEW c \in Commands, Carries(c), c.on # Q
      PROVE  /\ Exists(r)' <=> row'[Q].status = "Accepted"
             /\ Exists(r)' => row'[r].amount = row'[Q].amount /\ ~row'[r].deleted
                              /\ ~row'[Q].deleted
  <2>1. Q \notin Created(c) /\ r \notin Created(c)
    BY <1>1, <1>4, CreatedParts, QuotationOf DEF HandoffKinds, Q
  <2>2. row'[Q] = row[Q]
    BY <1>1, <1>4, <2>1, RowsCarried
  <2>3. CASE c.on # r
    BY <1>1, <1>2, <2>1, <2>2, <2>3, <1>4, RowsCarried DEF Exists
  <2>4. CASE c.on = r
    <3> DEFINE x == row[r] y == Outcome(c, x)
    <3>1. /\ x \in Row /\ row'[r].amount = y.amount /\ row'[r].deleted = y.deleted
          /\ row'[r].version = x.version + 1 /\ Allowed(c, x)
      BY <1>4, <2>4, After DEF Carries
    <3>2. CommercialLocked(Kind(r), x)
      BY <1>1 DEF CommercialLocked, HandoffKinds
    <3>3. y.amount = x.amount /\ y.deleted = x.deleted
      BY <2>4, <3>1, <3>2, Outcomes DEF MayDelete
    <3>4. Exists(r) /\ x.version + 1 > 0
      <4>1. row[c.on].version \in Nat /\ Exists(c.on)
        BY <1>4, RowsCarried DEF Exists
      <4> QED BY <2>4, <4>1
    <3> HIDE DEF y
    <3>5. row'[r].amount = row[r].amount /\ row'[r].deleted = row[r].deleted
      BY <3>1, <3>3
    <3>6. row'[r].version > 0
      BY <3>1, <3>4
    <3> HIDE DEF x
    <3> QED BY <1>2, <2>2, <3>4, <3>5, <3>6 DEF Exists
  <2> QED BY <2>3, <2>4
<1>5. ASSUME NEW r0 \in Originals, NEW a \in Staff, NEW n \in Amounts,
             NEW p \in Records \cup {NoParent}, Begins(r0, New(a, Kind(r0), n, p))
      PROVE  /\ Exists(r)' <=> row'[Q].status = "Accepted"
             /\ Exists(r)' => row'[r].amount = row'[Q].amount /\ ~row'[r].deleted
                              /\ ~row'[Q].deleted
  <2>1. r0 \in Records /\ r0 # r
    BY <1>1, RecordParts DEF Originals, Kind, HandoffKinds, Records
  <2>2. row'[r] = row[r]
    BY <1>1, <1>5, <2>1 DEF Begins, Insert, StoreTypeOK
  <2>3. CASE r0 # Q
    BY <1>1, <1>2, <1>5, <2>2, <2>3 DEF Begins, Insert, StoreTypeOK, Exists
  <2>4. CASE r0 = Q
    <3>1. row[Q] = Blank
      BY <1>1, <1>5, <2>4 DEF Begins, StoreTypeOK
    <3>2. row'[Q].status = FirstStage(Kind(Q))
      BY <1>1, <1>5, <2>4 DEF Begins, Insert, StoreTypeOK, New
    <3>3. FirstStage(Kind(Q)) # "Accepted"
      BY <1>1, FirstStages
    <3>4. row'[Q].status # "Accepted" /\ row[Q].status # "Accepted"
      BY <3>1, <3>2, <3>3 DEF Blank
    <3> QED BY <1>2, <2>2, <3>4 DEF Exists
  <2> QED BY <2>3, <2>4
<1> QED BY <1>3, <1>4, <1>5, StoreSteps DEF Q

\* What one step of the store may make of a row.
Untouched(r) == row'[r] = row[r]
Commanded(r) == \E c \in Commands : c.on = r /\ Carries(c)
HandedOver(r) ==
  /\ row[r] = Blank /\ r \in Handoffs
  /\ \E q \in Records : Kind(q) = "quotations" /\ Exists(q) /\ row[q] \in Row
                       /\ ~row[q].deleted /\ row'[r] = Handed(row[q], r)
Begun(r) ==
  /\ row[r] = Blank /\ r \in Originals
  /\ \E a \in Staff, n \in Amounts, p \in Records \cup {NoParent} :
        row'[r] = New(a, Kind(r), n, p)

LEMMA Changes ==
  ASSUME StoreTypeOK, StoreNext, NEW r \in Records
  PROVE  Untouched(r) \/ Commanded(r) \/ HandedOver(r) \/ Begun(r)
<1>1. ASSUME NEW c \in Commands, Carries(c)
      PROVE  Untouched(r) \/ Commanded(r) \/ HandedOver(r)
  <2>1. CASE r = c.on
    BY <1>1, <2>1 DEF Commanded
  <2>2. CASE r \in Created(c)
    <3>1. /\ row[r] = Blank /\ r \in Handoffs /\ row'[r] = Handed(row[c.on], r)
          /\ c.on \in Records /\ Kind(c.on) = "quotations" /\ row[c.on] \in Row
      BY <1>1, <2>2, RowsCarried, CreatedParts
    <3>2. Exists(c.on) /\ ~row[c.on].deleted
      BY <1>1, AllowedIsWriting DEF Carries
    <3> QED BY <3>1, <3>2 DEF HandedOver
  <2>3. CASE r \notin Created(c) \cup {c.on}
    BY <1>1, <2>3, RowsCarried DEF Untouched
  <2> QED BY <2>1, <2>2, <2>3
<1>2. ASSUME NEW r0 \in Originals, NEW a \in Staff, NEW n \in Amounts,
             NEW p \in Records \cup {NoParent}, Begins(r0, New(a, Kind(r0), n, p))
      PROVE  Untouched(r) \/ Begun(r)
  <2>1. CASE r = r0
    <3>1. row[r] = Blank /\ row'[r] = New(a, Kind(r), n, p)
      BY <1>2, <2>1 DEF Begins, Insert, StoreTypeOK
    <3> QED BY <2>1, <3>1 DEF Begun
  <2>2. CASE r # r0
    BY <1>2, <2>2 DEF Begins, Insert, StoreTypeOK, Untouched
  <2> QED BY <2>1, <2>2
<1> QED BY <1>1, <1>2, StoreSteps

\* What one step of the store may make of a quotation's approval.
LEMMA Approvals ==
  ASSUME StoreTypeOK, StoreNext, NEW q \in Quotes
  PROVE  \/ /\ approval'[q] = approval[q]
            /\ \A c \in Commands : Carries(c) /\ c.on = <<"quotations", q>> =>
                                   ~(c.do = "status" /\ c.status = "Approved")
         \/ \E c \in Commands :
              /\ Carries(c) /\ c.on = <<"quotations", q>>
              /\ c.do = "status" /\ c.status = "Approved"
              /\ MayMove(c.by, "quotations", row[c.on], "Approved")
              /\ approval'[q] =
                   [amount |-> row[c.on].amount, by |-> c.by, owner |-> row[c.on].owner]
<1> DEFINE Q == <<"quotations", q>>
<1>0. Q \in Records /\ Kind(Q) = "quotations" /\ Origin(Q) = q
  BY QuotationOf
<1>1. ASSUME NEW c \in Commands, Carries(c), c.do = "status", c.status = "Approved"
      PROVE  Kind(c.on) = "quotations" /\ MayMove(c.by, "quotations", row[c.on], "Approved")
  <2>1. MayMove(c.by, Kind(c.on), row[c.on], c.status) /\ c.on \in Records
    BY <1>1, CreatedParts DEF Carries, Allowed
  <2>2. c.status \in Stages(Kind(c.on), row[c.on].status)
    BY <2>1 DEF MayMove
  <2>3. Kind(c.on) = "quotations"
    BY <1>1, <2>1, <2>2, StageFacts
  <2> QED BY <1>1, <2>1, <2>3
<1>2. ASSUME NEW c \in Commands, Carries(c), c.do = "status", c.status = "Approved", c.on = Q
      PROVE  approval'[q] = [amount |-> row[c.on].amount, by |-> c.by, owner |-> row[c.on].owner]
  BY <1>0, <1>2 DEF Carries, Save, Following, StoreTypeOK
<1>3. ASSUME NEW c \in Commands, Carries(c), ~(c.do = "status" /\ c.status = "Approved" /\ c.on = Q)
      PROVE  approval'[q] = approval[q]
  <2>1. CASE c.do = "status" /\ c.status = "Approved"
    <3>1. Origin(c.on) # q
      BY <1>1, <1>3, <2>1, QuotationOf, CreatedParts
    <3> QED BY <1>3, <2>1, <3>1 DEF Carries, Save, Following, StoreTypeOK
  <2>2. CASE ~(c.do = "status" /\ c.status = "Approved")
    BY <1>3, <2>2 DEF Carries, Save, Following
  <2> QED BY <2>1, <2>2
<1>4. ASSUME NEW r \in Originals, NEW x, Begins(r, x)
      PROVE  approval'[q] = approval[q]
  BY <1>4 DEF Begins, Insert
<1>5. CASE \E c \in Commands : Carries(c) /\ c.do = "status" /\ c.status = "Approved" /\ c.on = Q
  BY <1>1, <1>2, <1>5
<1>6. CASE ~\E c \in Commands : Carries(c) /\ c.do = "status" /\ c.status = "Approved" /\ c.on = Q
  <2>1. approval'[q] = approval[q]
    BY <1>3, <1>4, <1>6, StoreSteps
  <2> QED BY <1>6, <2>1
<1> QED BY <1>5, <1>6

LEMMA ReviewKept ==
  ASSUME StoreTypeOK, ReviewIsIndependent, StoreNext
  PROVE  ReviewIsIndependent'
<1> SUFFICES ASSUME NEW q \in Quotes, approval'[q] # NotApproved
             PROVE  approval'[q].by # approval'[q].owner
  BY DEF ReviewIsIndependent
<1>1. CASE approval'[q] = approval[q]
  BY <1>1 DEF ReviewIsIndependent
<1>2. CASE \E c \in Commands :
             /\ MayMove(c.by, "quotations", row[c.on], "Approved")
             /\ approval'[q] =
                  [amount |-> row[c.on].amount, by |-> c.by, owner |-> row[c.on].owner]
  <2>1. PICK c \in Commands :
             /\ MayMove(c.by, "quotations", row[c.on], "Approved")
             /\ approval'[q] =
                  [amount |-> row[c.on].amount, by |-> c.by, owner |-> row[c.on].owner]
    BY <1>2
  <2>2. row[c.on].owner # c.by
    BY <2>1 DEF MayMove, CanApprove
  <2> QED BY <2>1, <2>2
<1> QED BY <1>1, <1>2, Approvals

LEMMA TermsKept ==
  ASSUME StoreTypeOK, ApprovedTermsStand, StoreNext
  PROVE  ApprovedTermsStand'
<1> SUFFICES ASSUME NEW q \in Quotes
             PROVE  LET z == row'[<<"quotations", q>>]
                    IN  /\ z.status \in {"Approved", "Sent", "Accepted"} => approval'[q] # NotApproved
                        /\ z.status = "Approved" => z.amount = approval'[q].amount
  BY DEF ApprovedTermsStand
<1> DEFINE Q == <<"quotations", q>> z == row'[Q]
<1>0. Q \in Records /\ Kind(Q) = "quotations" /\ Q \notin Handoffs
  BY QuotationOf, RecordParts DEF HandoffKinds
<1>1. /\ row[Q].status \in {"Approved", "Sent", "Accepted"} => approval[q] # NotApproved
      /\ row[Q].status = "Approved" => row[Q].amount = approval[q].amount
  BY DEF ApprovedTermsStand
<1> HIDE DEF Q
<1>2. ASSUME NEW c \in Commands, Carries(c), c.on = Q
      PROVE  /\ z.status \in {"Approved", "Sent", "Accepted"} => approval'[q] # NotApproved
             /\ z.status = "Approved" => z.amount = approval'[q].amount
  <2> DEFINE x == row[Q] y == Outcome(c, x)
  <2>1. x \in Row /\ z.status = y.status /\ z.amount = y.amount /\ Allowed(c, x)
    BY <1>2, After DEF Carries
  <2>2. CASE c.do = "status" /\ c.status = "Approved"
    <3>1. approval'[q].amount = x.amount
      <4>1. PICK d \in Commands :
              /\ d.on = <<"quotations", q>>
              /\ approval'[q] =
                   [amount |-> row[d.on].amount, by |-> d.by, owner |-> row[d.on].owner]
        BY <1>2, <2>2, Approvals DEF Q
      <4> QED BY <4>1 DEF Q
    <3>2. y.amount = x.amount
      BY <2>1, <2>2, Outcomes
    <3>3. x.amount \in Nat \ {0}
      BY <2>1, PositiveAmounts DEF Row
    <3>4. approval'[q].amount = x.amount /\ NotApproved.amount = 0
      BY <3>1 DEF NotApproved
    <3> QED BY <2>1, <3>2, <3>3, <3>4
  <2>3. CASE ~(c.do = "status" /\ c.status = "Approved")
    <3>1. approval'[q] = approval[q]
      BY <1>0, <1>2, <2>3 DEF Carries, Save, Following
    <3>2. CASE y.status = x.status
      <4>1. y.status = "Approved" => CommercialLocked(Kind(Q), x)
        BY <1>0, <3>2 DEF CommercialLocked
      <4>2. y.status = "Approved" => y.amount = x.amount
        BY <1>2, <2>1, <4>1, Outcomes
      <4> QED BY <1>1, <2>1, <3>1, <3>2, <4>2
    <3>3. CASE c.do = "status" /\ y.status = c.status /\ MayMove(c.by, Kind(Q), x, c.status)
      <4>1. y.status \in {"Sent", "Accepted"} => x.status \in {"Approved", "Sent"}
        BY <1>0, <3>3 DEF MayMove
      <4>2. y.status # "Approved"
        BY <2>3, <3>3
      <4> QED BY <1>1, <2>1, <3>1, <4>1, <4>2
    <3>4. CASE y.status = "Draft" \/ Kind(Q) \in {"accounts", "cash"}
      BY <1>0, <2>1, <3>4
    <3> QED BY <1>2, <2>1, <3>2, <3>3, <3>4, Outcomes
  <2> QED BY <2>2, <2>3
<1>3. CASE ~Commanded(Q) /\ Untouched(Q)
  <2>1. approval'[q] = approval[q]
    BY <1>3, Approvals DEF Commanded, Q
  <2> QED BY <1>1, <1>3, <2>1 DEF Untouched, Q
<1>4. CASE Begun(Q)
  <2>1. row'[Q].status = FirstStage(Kind(Q))
    BY <1>4 DEF Begun, New
  <2>2. z.status \notin {"Approved", "Sent", "Accepted"}
    BY <1>0, <2>1, FirstStages
  <2> QED BY <2>2 DEF Q
<1> QED BY <1>0, <1>2, <1>3, <1>4, Changes DEF Commanded, HandedOver, Q

\* Nothing is paid without a payment, and only invoices and cashbook entries
\* are paid on.
UnpaidIsNothing ==
  \A r \in Records : Exists(r) =>
    /\ row[r].payments = <<>> => row[r].paid = 0
    /\ Kind(r) \notin {"accounts", "cash"} => row[r].payments = <<>>

\* The two invariants about payments, of one row.
Once(payments) ==
  \A i, j \in DOMAIN payments : payments[i] = payments[j] => i = j
SumOf(k, x) ==
  /\ x.paid <= x.amount
  /\ Once(x.payments)
  /\ x.status = "Paid" => x.paid = x.amount
  /\ x.status = "Partially Paid" => 0 < x.paid /\ x.paid < x.amount
  /\ x.payments # <<>> => x.status \notin {"Draft", "Cancelled"} /\ ~x.deleted
  /\ x.payments = <<>> => x.paid = 0
  /\ k \notin {"accounts", "cash"} => x.payments = <<>>

LEMMA SumAfter ==
  ASSUME NEW c \in Commands, NEW x \in Row, Allowed(c, x), SumOf(Kind(c.on), x),
         NEW z, LET y == Outcome(c, x)
                IN  /\ z.status = y.status /\ z.amount = y.amount /\ z.payments = y.payments
                    /\ z.paid = y.paid /\ z.deleted = y.deleted,
         z.amount \in Amounts
  PROVE  SumOf(Kind(c.on), z)
<1> DEFINE k == Kind(c.on) y == Outcome(c, x)
<1>0. /\ c.on \in Records /\ x.paid \in Nat /\ x.payments \in Seq(References)
      /\ x.amount \in Nat \ {0} /\ z.amount \in Nat \ {0} /\ ~x.deleted
  BY CreatedParts, AllowedIsWriting, PositiveAmounts DEF Row
<1> HIDE DEF y
<1>a. /\ z.status = y.status /\ z.amount = y.amount /\ z.payments = y.payments
      /\ z.paid = y.paid /\ z.deleted = y.deleted
  BY DEF y
<1>b. /\ \/ y.status = x.status
         \/ c.do = "status" /\ y.status = c.status /\ MayMove(c.by, k, x, c.status)
         \/ c.do = "edit" /\ k = "quotations"
            /\ x.status = "Pending Approval" /\ y.status = "Draft"
         \/ c.do = "payment" /\ y.status \in {"Paid", "Partially Paid"}
            /\ k \in {"accounts", "cash"}
      /\ \/ y.amount = x.amount
         \/ c.do = "edit" /\ ~CommercialLocked(k, x) /\ MayEdit(c.by, k, x)
      /\ \/ y.payments = x.payments /\ y.paid = x.paid
         \/ c.do = "payment" /\ MayPay(c.by, k, x, c.reference, c.cents)
            /\ y = PaidIn(x, c.reference, c.cents)
      /\ \/ y.deleted = x.deleted
         \/ c.do = "delete" /\ MayDelete(c.by, k, x)
  BY Outcomes DEF y
<1>n. x.paid \in Nat /\ x.amount \in Nat /\ x.amount # 0 /\ z.amount \in Nat
  BY <1>0
<1>c. /\ x.status = "Paid" => x.paid = x.amount
      /\ x.status = "Partially Paid" => 0 < x.paid
      /\ x.payments = <<>> => x.paid = 0
      /\ k \notin {"accounts", "cash"} => x.payments = <<>>
      /\ x.paid <= x.amount
  BY DEF SumOf
<1>d. x.payments = <<>> => x.paid = 0 /\ x.status \notin {"Paid", "Partially Paid"}
  <2>1. x.payments = <<>> => x.paid = 0
    BY <1>c
  <2>2. x.paid = 0 => x.status # "Paid"
    BY <1>n, <1>c
  <2>0. ~(0 < 0)
    OBVIOUS
  <2>3. x.paid = 0 => x.status # "Partially Paid"
    BY <1>c, <2>0, Zenon
  <2> QED BY <2>1, <2>2, <2>3
<1>e. Once(<<>>)
  BY DEF Once
<1>1. CASE c.do = "payment"
  <2>1. /\ MayPay(c.by, k, x, c.reference, c.cents) /\ y = PaidIn(x, c.reference, c.cents)
        /\ c.reference \in References /\ c.cents \in Nat \ {0}
    BY <1>1, PositiveAmounts DEF y, Outcome, Allowed, Commands, CommandsOn
  <2>2. /\ c.cents <= Outstanding(x) /\ Outstanding(x) = x.amount - x.paid
        /\ k \in {"accounts", "cash"} /\ x.status \notin {"Draft", "Cancelled", "Paid"}
        /\ \A i \in DOMAIN x.payments : x.payments[i] # c.reference
    <3>1. /\ c.cents <= Outstanding(x) /\ k \in {"accounts", "cash"}
          /\ x.status \notin {"Draft", "Cancelled", "Paid"}
          /\ \A i \in DOMAIN x.payments : x.payments[i] # c.reference
      BY <2>1 DEF MayPay
    <3>2. Outstanding(x) = x.amount - x.paid
      <4>1. \A p, a \in Nat : p <= a => ~(p > a)
        OBVIOUS
      <4>2. ~(x.paid > x.amount)
        BY <1>n, <1>c, <4>1, Zenon
      <4> QED BY <3>1, <4>2, Zenon DEF Outstanding
    <3> QED BY <3>1, <3>2
  <2>3. /\ y.payments = Append(x.payments, c.reference) /\ y.paid = x.paid + c.cents
        /\ y.amount = x.amount /\ y.deleted = x.deleted
        /\ y.status = IF c.cents = Outstanding(x) THEN "Paid" ELSE "Partially Paid"
    BY <2>1 DEF PaidIn, Row
  <2>4. /\ Append(x.payments, c.reference) # <<>>
        /\ Once(Append(x.payments, c.reference))
    <3>1. Once(x.payments)
      BY DEF SumOf
    <3> DEFINE s == x.payments  e == c.reference
    <3>2. s \in Seq(References) /\ e \in References /\ \A i \in DOMAIN s : s[i] # e
      BY <1>0, <2>1, <2>2
    <3> HIDE DEF s, e
    <3>3. Once(s) => Once(Append(s, e))
      BY <3>2 DEF Once
    <3>4. Append(s, e) # <<>>
      BY <3>2
    <3> QED BY <3>1, <3>3, <3>4 DEF s, e
  <2>5. /\ x.paid + c.cents <= x.amount /\ 0 < x.paid + c.cents
        /\ c.cents = Outstanding(x) => x.paid + c.cents = x.amount
        /\ c.cents # Outstanding(x) => x.paid + c.cents < x.amount
    BY <1>0, <2>1, <2>2
  <2>6. /\ y.status = "Paid" => c.cents = Outstanding(x)
        /\ y.status = "Partially Paid" => c.cents # Outstanding(x)
        /\ y.status \notin {"Draft", "Cancelled"}
    BY <2>3
  <2> QED BY <1>0, <1>a, <2>2, <2>3, <2>4, <2>5, <2>6 DEF SumOf
<1>2. CASE c.do = "status"
  <2>1. /\ y.payments = x.payments /\ y.paid = x.paid /\ y.amount = x.amount
        /\ y.deleted = x.deleted
    BY <1>b, <1>2
  <2>2. CASE y.status = x.status
    BY <1>a, <2>1, <2>2 DEF SumOf
  <2>3. CASE y.status = c.status /\ MayMove(c.by, k, x, c.status)
    <3>1. y.status \notin {"Paid", "Partially Paid"}
      BY <1>0, <2>3, StageFacts DEF MayMove, Module
    <3>2. k \in {"accounts", "cash"} /\ x.payments # <<>> => y.status \notin {"Draft", "Cancelled"}
      BY <2>3 DEF MayMove, Module
    <3> QED BY <1>0, <1>a, <2>1, <3>1, <3>2 DEF SumOf
  <2> QED BY <1>b, <1>2, <2>2, <2>3
<1>3. CASE c.do = "edit"
  <2>1. y.payments = x.payments /\ y.paid = x.paid /\ y.deleted = x.deleted
    BY <1>b, <1>3
  <2>2. CASE y.amount = x.amount /\ y.status = x.status
    BY <1>a, <2>1, <2>2 DEF SumOf
  <2>3. CASE k = "quotations" /\ y.status = "Draft"
    <3>1. /\ z.payments = <<>> /\ z.paid = 0 /\ z.status = "Draft" /\ 0 <= z.amount
          /\ Once(<<>>)
      <4>1. x.payments = <<>> /\ x.paid = 0
        BY <1>c, <1>d, <2>3
      <4> QED BY <1>n, <1>a, <1>e, <2>1, <2>3, <4>1
    <3> HIDE DEF k
    <3> QED BY <3>1 DEF SumOf, k
  <2>4. CASE ~CommercialLocked(k, x) /\ MayEdit(c.by, k, x) /\ y.status = x.status
    <3>1. x.payments = <<>>
      BY <1>c, <2>4 DEF CommercialLocked, MayEdit
    <3>2. /\ z.payments = <<>> /\ z.paid = 0 /\ z.status \notin {"Paid", "Partially Paid"}
          /\ 0 <= z.amount /\ Once(<<>>)
      <4>1. 0 <= z.amount
        BY <1>n
      <4> QED BY <1>a, <1>d, <1>e, <2>1, <2>4, <3>1, <4>1, Zenon
    <3> QED BY <3>2 DEF SumOf
  <2> QED BY <1>b, <1>3, <2>2, <2>3, <2>4
<1>4. CASE c.do = "delete"
  <2>1. /\ y.payments = x.payments /\ y.paid = x.paid /\ y.amount = x.amount
        /\ y.status = x.status
    BY <1>b, <1>4
  <2>2. y.deleted = x.deleted \/ x.payments = <<>>
    BY <1>b DEF MayDelete
  <2> QED BY <1>a, <2>1, <2>2 DEF SumOf
<1>5. CASE c.do \in {"assign", "note"}
  <2>1. /\ y.payments = x.payments /\ y.paid = x.paid /\ y.amount = x.amount
        /\ y.status = x.status /\ y.deleted = x.deleted
    BY <1>b, <1>5
  <2> QED BY <1>a, <2>1 DEF SumOf
<1> QED BY <1>1, <1>2, <1>3, <1>4, <1>5 DEF Commands, CommandsOn

LEMMA PaymentsKept ==
  ASSUME StoreTypeOK, PaymentsAddUp, UnpaidIsNothing, StoreNext
  PROVE  PaymentsAddUp' /\ UnpaidIsNothing'
<1>0. \A r \in Records : Exists(r) => SumOf(Kind(r), row[r])
  BY DEF PaymentsAddUp, UnpaidIsNothing, SumOf, Once
<1> SUFFICES ASSUME NEW r \in Records, Exists(r)'
             PROVE  SumOf(Kind(r), row'[r])
  BY DEF PaymentsAddUp, UnpaidIsNothing, SumOf, Once
<1>1. CASE Untouched(r)
  BY <1>0, <1>1 DEF Untouched, Exists
<1>2. CASE Commanded(r)
  <2>1. PICK c \in Commands : c.on = r /\ Carries(c)
    BY <1>2 DEF Commanded
  <2>2. SumOf(Kind(c.on), row[c.on]) /\ Allowed(c, row[c.on])
    BY <1>0, <2>1 DEF Carries
  <2>3. row[c.on] \in Row /\ Outcome(c, row[c.on]).amount \in Amounts
    BY <2>1, After DEF Row
  <2> QED BY <2>1, <2>2, <2>3, After, SumAfter
<1>3. CASE HandedOver(r)
  <2>1. PICK q \in Records : /\ Kind(q) = "quotations" /\ Exists(q) /\ row[q] \in Row
                             /\ ~row[q].deleted /\ row'[r] = Handed(row[q], r)
    BY <1>3 DEF HandedOver
  <2>2. SumOf("quotations", row[q])
    BY <1>0, <2>1
  <2>3. /\ row'[r].status = FirstStage(Kind(r)) /\ row'[r].amount = row[q].amount
        /\ row'[r].payments = row[q].payments /\ row'[r].paid = row[q].paid
    BY <2>1, AfterHanded
  <2>4. row'[r].status \notin {"Paid", "Partially Paid"}
    BY <2>3, FirstStages
  <2> QED BY <2>2, <2>3, <2>4 DEF SumOf
<1>4. CASE Begun(r)
  <2>1. PICK a \in Staff, n \in Amounts, p \in Records \cup {NoParent} :
          row'[r] = New(a, Kind(r), n, p)
    BY <1>4 DEF Begun
  <2>2. /\ row'[r].payments = <<>> /\ row'[r].paid = 0 /\ row'[r].amount = n
        /\ row'[r].status = FirstStage(Kind(r)) /\ n \in Nat
    BY <2>1, PositiveAmounts DEF New
  <2>3. row'[r].status \notin {"Paid", "Partially Paid"}
    BY <2>2, FirstStages
  <2>4. 0 <= row'[r].amount /\ Once(<<>>)
    BY <2>2 DEF Once
  <2> QED BY <2>2, <2>3, <2>4 DEF SumOf
<1> QED BY <1>1, <1>2, <1>3, <1>4, Changes

\* Nothing tells of a record that does not exist.
AuditStarts == \A r \in Records : ~Exists(r) => audit[r] = 0

LEMMA AuditKept ==
  ASSUME StoreTypeOK, AuditTellsEveryChange, AuditStarts, StoreNext
  PROVE  AuditTellsEveryChange' /\ AuditStarts'
<1> DEFINE Told(r, x, n) == IF x.version > 0
                              THEN x.version = IF r \in Handoffs THEN n + 1 ELSE n
                              ELSE n = 0
<1>1. \A r \in Records : Told(r, row[r], audit[r])
  BY DEF AuditTellsEveryChange, AuditStarts, Exists
<1> SUFFICES ASSUME NEW r \in Records
             PROVE  Told(r, row'[r], audit'[r])
  BY DEF AuditTellsEveryChange, AuditStarts, Exists
<1>2. audit[r] \in Nat /\ r \in DOMAIN audit
  BY DEF StoreTypeOK
<1>3. ASSUME NEW c \in Commands, Carries(c)
      PROVE  Told(r, row'[r], audit'[r])
  <2>0. /\ r = c.on => audit'[r] = audit[r] + 1
        /\ r # c.on => audit'[r] = audit[r]
    BY <1>2, <1>3 DEF Carries, Save, Following, StoreTypeOK
  <2>1. CASE r = c.on
    <3>1. /\ row'[r].version = row[r].version + 1 /\ row[r].version \in Nat
          /\ row[r].version > 0 /\ audit'[r] = audit[r] + 1
      BY <1>2, <1>3, <2>0, <2>1, After, RowsCarried
    <3> QED BY <1>1, <1>2, <3>1
  <2>2. CASE r \in Created(c)
    <3>1. /\ row[r] = Blank /\ r \in Handoffs /\ row'[r] = Handed(row[c.on], r)
          /\ row[c.on] \in Row /\ r # c.on
      BY <1>3, <2>2, RowsCarried, CreatedParts
    <3>2. row'[r].version = 1
      BY <3>1, AfterHanded
    <3>3. audit[r] = 0
      BY <1>1, <3>1 DEF Blank
    <3> QED BY <2>0, <3>1, <3>2, <3>3
  <2>3. CASE r \notin Created(c) \cup {c.on}
    BY <1>1, <1>3, <2>0, <2>3, RowsCarried
  <2> QED BY <2>1, <2>2, <2>3
<1>4. ASSUME NEW r0 \in Originals, NEW a \in Staff, NEW n \in Amounts,
             NEW p \in Records \cup {NoParent}, Begins(r0, New(a, Kind(r0), n, p))
      PROVE  Told(r, row'[r], audit'[r])
  <2>1. CASE r = r0
    <3>1. /\ row[r] = Blank /\ row'[r] = New(a, Kind(r), n, p)
          /\ audit'[r] = audit[r] + 1
      BY <1>2, <1>4, <2>1 DEF Begins, Insert, StoreTypeOK
    <3>2. audit[r] = 0 /\ row'[r].version = 1
      BY <1>1, <3>1 DEF Blank, New
    <3>3. r \notin Handoffs
      BY <2>1, RecordParts DEF Originals, Kind, HandoffKinds
    <3> QED BY <3>1, <3>2, <3>3
  <2>2. CASE r # r0
    <3>1. row'[r] = row[r] /\ audit'[r] = audit[r]
      BY <1>2, <1>4, <2>2 DEF Begins, Insert, StoreTypeOK
    <3> QED BY <1>1, <3>1
  <2> QED BY <2>1, <2>2
<1> HIDE DEF Told
<1> QED BY <1>3, <1>4, StoreSteps

\* The statuses that fix a price belong to quotations and proformas.
EndingsBelong ==
  \A r \in Records :
    /\ row[r].status = "Accepted" => Kind(r) = "quotations"
    /\ row[r].status = "Issued" => Kind(r) = "proformas"

LEMMA Fresh ==
  ASSUME NEW r \in Records, HandedOver(r) \/ Begun(r)
  PROVE  /\ row[r] = Blank /\ row'[r].version = 1
         /\ row'[r].status = FirstStage(Kind(r))
<1>1. CASE HandedOver(r)
  <2>1. PICK q \in Records : row[q] \in Row /\ row'[r] = Handed(row[q], r)
    BY <1>1 DEF HandedOver
  <2>2. row[r] = Blank
    BY <1>1 DEF HandedOver
  <2> QED BY <2>1, <2>2, AfterHanded
<1>2. CASE Begun(r)
  <2>1. PICK a \in Staff, n \in Amounts, p \in Records \cup {NoParent} :
          row'[r] = New(a, Kind(r), n, p)
    BY <1>2 DEF Begun
  <2>2. row[r] = Blank
    BY <1>2 DEF Begun
  <2> QED BY <2>1, <2>2 DEF New
<1> QED BY <1>1, <1>2

LEMMA EndingsKept ==
  ASSUME StoreTypeOK, EndingsBelong, StoreNext
  PROVE  EndingsBelong'
<1> SUFFICES ASSUME NEW r \in Records
             PROVE  /\ row'[r].status = "Accepted" => Kind(r) = "quotations"
                    /\ row'[r].status = "Issued" => Kind(r) = "proformas"
  BY DEF EndingsBelong
<1>1. CASE Untouched(r)
  BY <1>1 DEF Untouched, EndingsBelong
<1>2. CASE Commanded(r)
  <2>1. PICK c \in Commands : c.on = r /\ Carries(c)
    BY <1>2 DEF Commanded
  <2> DEFINE x == row[r] y == Outcome(c, x)
  <2>2. x \in Row /\ row'[r].status = y.status /\ Allowed(c, x)
    BY <2>1, After DEF Carries
  <2>3. CASE y.status = c.status /\ MayMove(c.by, Kind(r), x, c.status)
    <3>1. y.status \in Stages(Kind(r), x.status)
      BY <2>3 DEF MayMove
    <3> QED BY <2>2, <3>1, StageFacts
  <2>4. CASE y.status \in {x.status, "Draft", "Paid", "Partially Paid"}
    BY <2>2, <2>4 DEF EndingsBelong
  <2> QED BY <2>1, <2>2, <2>3, <2>4, Outcomes
<1>3. CASE HandedOver(r) \/ Begun(r)
  <2>1. row'[r].status = FirstStage(Kind(r))
    BY <1>3, Fresh
  <2> QED BY <2>1, FirstStages
<1> QED BY <1>1, <1>2, <1>3, Changes

LEMMA StepOverwritesNothing ==
  ASSUME StoreTypeOK, EndingsBelong, StoreNext, NEW r \in Records, row'[r] # row[r]
  PROVE  /\ row'[r].version = row[r].version + 1
         /\ ~row[r].deleted
         /\ row[r].status = "Accepted" => row'[r].status = "Accepted"
         /\ row[r].status \in {"Accepted", "Issued"} => row'[r].amount = row[r].amount
<1>1. CASE Commanded(r)
  <2>1. PICK c \in Commands : c.on = r /\ Carries(c)
    BY <1>1 DEF Commanded
  <2> DEFINE x == row[r] y == Outcome(c, x)
  <2>2. /\ x \in Row /\ row'[r].status = y.status /\ row'[r].amount = y.amount
        /\ row'[r].version = x.version + 1 /\ Allowed(c, x) /\ ~x.deleted
    BY <2>1, After, AllowedIsWriting DEF Carries
  <2>3. x.status = "Accepted" => ~MayMove(c.by, Kind(r), x, c.status)
    BY DEF MayMove, Closed, EndingsBelong
  <2>4. x.status \in {"Accepted", "Issued"} => CommercialLocked(Kind(r), x)
    BY DEF CommercialLocked, EndingsBelong
  <2>5. x.status = "Accepted" => Kind(r) = "quotations"
    BY DEF EndingsBelong
  <2>6. x.status = "Accepted" => y.status = "Accepted"
    BY <2>1, <2>2, <2>3, <2>5, Outcomes
  <2>7. x.status \in {"Accepted", "Issued"} => y.amount = x.amount
    BY <2>1, <2>2, <2>4, Outcomes
  <2> QED BY <2>2, <2>6, <2>7
<1>2. CASE HandedOver(r) \/ Begun(r)
  <2>1. row[r] = Blank /\ row'[r].version = 1
    BY <1>2, Fresh
  <2> QED BY <2>1 DEF Blank
<1> QED BY <1>1, <1>2, Changes DEF Untouched

LEMMA StepKeepsPayments ==
  ASSUME StoreTypeOK, StoreNext, NEW r \in Records, Exists(r)
  PROVE  /\ \A i \in DOMAIN row[r].payments :
              i \in DOMAIN row'[r].payments /\ row'[r].payments[i] = row[r].payments[i]
         /\ row'[r].paid >= row[r].paid
<1>1. CASE Untouched(r)
  <2>1. row[r].paid \in Nat
    BY DEF StoreTypeOK, Row, Blank
  <2> QED BY <1>1, <2>1 DEF Untouched
<1>2. CASE Commanded(r)
  <2>1. PICK c \in Commands : c.on = r /\ Carries(c)
    BY <1>2 DEF Commanded
  <2> DEFINE x == row[r] y == Outcome(c, x)
  <2>2. /\ x \in Row /\ row'[r].payments = y.payments /\ row'[r].paid = y.paid
        /\ Allowed(c, x) /\ x.paid \in Nat /\ x.payments \in Seq(References)
    BY <2>1, After DEF Carries, Row
  <2>3. CASE y.payments = x.payments /\ y.paid = x.paid
    BY <2>2, <2>3
  <2>4. CASE c.do = "payment"
    <3>1. y = PaidIn(x, c.reference, c.cents) /\ c.reference \in References /\ c.cents \in Nat
      BY <2>4, PositiveAmounts DEF Outcome, Commands, CommandsOn
    <3>2. y.payments = Append(x.payments, c.reference) /\ y.paid = x.paid + c.cents
      BY <2>2, <3>1 DEF PaidIn, Row
    <3> QED BY <2>2, <3>1, <3>2
  <2> QED BY <2>1, <2>2, <2>3, <2>4, Outcomes
<1>3. CASE HandedOver(r) \/ Begun(r)
  BY <1>3 DEF HandedOver, Begun, Exists, Blank
<1> QED BY <1>1, <1>2, <1>3, Changes

\* Everything the store keeps, and what it takes to keep it.
StoreInv ==
  /\ StoreTypeOK
  /\ AcceptanceIsWhole
  /\ ReviewIsIndependent
  /\ ApprovedTermsStand
  /\ PaymentsAddUp /\ UnpaidIsNothing
  /\ AuditTellsEveryChange /\ AuditStarts
  /\ EndingsBelong

LEMMA StoreInvInit == StoreInit => StoreInv
<1> SUFFICES ASSUME StoreInit PROVE StoreInv
  OBVIOUS
<1>1. StoreTypeOK
  BY StoreTypedInit
<1>2. /\ \A r \in Records : row[r] = Blank /\ audit[r] = 0 /\ ~Exists(r)
      /\ \A q \in Quotes : approval[q] = NotApproved
  BY DEF StoreInit, Blank, Exists
<1>3. Blank.status = "none"
  BY DEF Blank
<1>4. AcceptanceIsWhole
  BY <1>2, <1>3, QuotationOf DEF AcceptanceIsWhole
<1>5. ReviewIsIndependent
  BY <1>2 DEF ReviewIsIndependent
<1>6. ApprovedTermsStand
  BY <1>2, <1>3, QuotationOf DEF ApprovedTermsStand
<1>7. PaymentsAddUp /\ UnpaidIsNothing
  BY <1>2 DEF PaymentsAddUp, UnpaidIsNothing
<1>8. AuditTellsEveryChange /\ AuditStarts
  BY <1>2 DEF AuditTellsEveryChange, AuditStarts
<1>9. EndingsBelong
  BY <1>2, <1>3 DEF EndingsBelong
<1> QED BY <1>1, <1>4, <1>5, <1>6, <1>7, <1>8, <1>9 DEF StoreInv

LEMMA StoreInvStep == StoreInv /\ [StoreNext]_store => StoreInv'
<1> SUFFICES ASSUME StoreInv, [StoreNext]_store PROVE StoreInv'
  OBVIOUS
<1>1. CASE StoreNext
  BY <1>1, StoreTyped, AcceptanceKept, ReviewKept, TermsKept, PaymentsKept, AuditKept,
     EndingsKept DEF StoreInv
<1>2. CASE UNCHANGED store
  BY <1>2 DEF store, StoreInv, StoreTypeOK, AcceptanceIsWhole, ReviewIsIndependent,
     ApprovedTermsStand, PaymentsAddUp, UnpaidIsNothing, AuditTellsEveryChange, AuditStarts,
     EndingsBelong, Exists
<1> QED BY <1>1, <1>2

-----------------------------------------------------------------------------
(* Concurrent requests. *)

\* What a request under way holds: a row that is the stored one, or an older
\* version of it, on which the rules allowed the command.
Held(w) ==
  LET c == cmd[w] r == cmd[w].on
  IN  /\ pc[w] \in {"find", "parent", "insert"} => c \in Creations
      /\ pc[w] \in {"parent", "insert"} => CanWrite(c.by, Kind(r), NewRow(w))
      /\ pc[w] \in {"load", "linked", "commit"} => c \in Commands /\ Exists(r)
      /\ pc[w] = "linked" => revision[w] <= row[r].version
      /\ pc[w] = "commit" => /\ revision[w] <= snap[w].version
                             /\ snap[w].version <= row[r].version
                             /\ snap[w].version = row[r].version => snap[w] = row[r]
                             /\ snap[w] \in Row
                             /\ Allowed(c, snap[w])

RecordsInv == TypeOK /\ StoreInv /\ \A w \in Requests : Held(w)

LEMMA Current ==
  ASSUME RecordsInv, NEW w \in Requests, pc[w] = "commit", Succeeds(w)
  PROVE  snap[w] = row[cmd[w].on] /\ Allowed(cmd[w], row[cmd[w].on])
<1> DEFINE r == cmd[w].on
<1>1. /\ revision[w] <= snap[w].version /\ snap[w].version <= row[r].version
      /\ snap[w].version = row[r].version => snap[w] = row[r]
      /\ snap[w] \in Row /\ Allowed(cmd[w], snap[w]) /\ row[r].version = revision[w]
  BY DEF RecordsInv, Held, Succeeds
<1>2. snap[w].version \in Nat /\ revision[w] \in Nat
  BY <1>1 DEF RecordsInv, TypeOK, Row
<1>3. snap[w].version = row[r].version
  BY <1>1, <1>2
<1> QED BY <1>1, <1>3

\* Rows that do not change count no version, those that do count one.
LEMMA VersionsGrow ==
  ASSUME StoreInv, [StoreNext]_store, NEW r \in Records
  PROVE  /\ row[r].version \in Nat /\ row'[r].version \in Nat
         /\ \/ row'[r] = row[r]
            \/ row'[r].version = row[r].version + 1
<1>1. StoreTypeOK /\ StoreTypeOK' /\ EndingsBelong
  BY StoreTyped DEF StoreInv
<1>2. row[r].version \in Nat /\ row'[r].version \in Nat
  BY <1>1 DEF StoreTypeOK, Row, Blank
<1>3. CASE StoreNext
  BY <1>1, <1>2, <1>3, StepOverwritesNothing
<1>4. CASE UNCHANGED store
  BY <1>2, <1>4 DEF store
<1> QED BY <1>3, <1>4

LEMMA StillHeld ==
  ASSUME RecordsInv, [StoreNext]_store, NEW w \in Requests,
         pc'[w] = pc[w], cmd'[w] = cmd[w], snap'[w] = snap[w], revision'[w] = revision[w]
  PROVE  Held(w)'
<1> DEFINE r == cmd[w].on
<1>0. Held(w) /\ revision[w] \in Nat /\ cmd'[w].on = r
  BY DEF RecordsInv, TypeOK
<1>1. CASE pc[w] \in {"idle", "find", "parent", "insert"}
  BY <1>0, <1>1 DEF Held, NewRow
<1>2. CASE pc[w] \in {"load", "linked", "commit"}
  <2>1. cmd[w] \in Commands /\ Exists(r) /\ r \in Records
    BY <1>0, <1>2, CreatedParts DEF Held
  <2>2. /\ row[r].version \in Nat /\ row'[r].version \in Nat
        /\ row'[r] = row[r] \/ row'[r].version = row[r].version + 1
    BY <2>1, VersionsGrow DEF RecordsInv
  <2>3. Exists(r)' /\ row[r].version <= row'[r].version
    BY <2>1, <2>2 DEF Exists
  <2>4. CASE pc[w] = "load"
    BY <1>0, <2>1, <2>3, <2>4 DEF Held, Exists
  <2>5. CASE pc[w] = "linked"
    <3>1. revision[w] <= row'[r].version
      BY <1>0, <2>2, <2>3, <2>5 DEF Held
    <3> QED BY <1>0, <2>1, <2>3, <2>5, <3>1 DEF Held, Exists
  <2>6. CASE pc[w] = "commit"
    <3>1. /\ revision[w] <= snap[w].version /\ snap[w].version <= row[r].version
          /\ snap[w].version = row[r].version => snap[w] = row[r]
          /\ snap[w] \in Row /\ Allowed(cmd[w], snap[w])
      BY <1>0, <2>6 DEF Held
    <3>2. snap[w].version \in Nat
      BY <3>1 DEF Row
    <3>3. snap[w].version <= row'[r].version
      BY <2>2, <2>3, <3>1, <3>2
    <3>4. snap[w].version = row'[r].version => snap[w] = row'[r]
      BY <2>2, <3>1, <3>2
    <3> QED BY <1>0, <2>1, <2>3, <2>6, <3>1, <3>3, <3>4 DEF Held, Exists
  <2> QED BY <1>2, <2>4, <2>5, <2>6
<1> QED BY <1>1, <1>2 DEF RecordsInv, TypeOK, PCs

LocalTypeOK ==
  /\ pc \in [Requests -> PCs]
  /\ cmd \in [Requests -> Commands \cup Creations \cup {NoCommand}]
  /\ snap \in [Requests -> Row \cup {Blank}]
  /\ revision \in [Requests -> Nat]

\* A step of one request leaves what the others hold alone.
Alone(w) ==
  \A v \in Requests \ {w} : /\ pc'[v] = pc[v] /\ cmd'[v] = cmd[v]
                            /\ snap'[v] = snap[v] /\ revision'[v] = revision[v]
Good(w) == [StoreNext]_store /\ LocalTypeOK' /\ Alone(w) /\ Held(w)'

LEMMA Forgotten ==
  ASSUME RecordsInv, NEW w \in Requests, Forget(w)
  PROVE  LocalTypeOK' /\ Alone(w) /\ Held(w)'
<1>1. LocalTypeOK' /\ Alone(w) /\ pc'[w] = "idle"
  BY DEF RecordsInv, TypeOK, Forget, LocalTypeOK, Alone, PCs
<1> QED BY <1>1 DEF Held

LEMMA Answered ==
  ASSUME RecordsInv, NEW w \in Requests, Answer(w)
  PROVE  Good(w)
BY Forgotten DEF Answer, Good

LEMMA Asked ==
  ASSUME RecordsInv, NEW w \in Requests, NEW c, NEW label, Ask(w, c, label),
         \/ label = "find" /\ c \in Creations
         \/ label = "load" /\ c \in Commands /\ Exists(c.on)
  PROVE  Good(w)
<1>1. LocalTypeOK' /\ Alone(w) /\ pc'[w] = label /\ cmd'[w] = c /\ UNCHANGED store
  BY DEF RecordsInv, TypeOK, Ask, LocalTypeOK, Alone, PCs
<1>2. Exists(c.on)' <=> Exists(c.on)
  BY <1>1 DEF Exists, store
<1>3. Held(w)'
  BY <1>1, <1>2 DEF Held
<1> QED BY <1>1, <1>3 DEF Good

\* A request that only moves on holds what it held.
LEMMA Moved ==
  ASSUME RecordsInv, NEW w \in Requests, NEW label \in PCs, Goto(w, label)
  PROVE  /\ LocalTypeOK' /\ Alone(w) /\ UNCHANGED store
         /\ pc'[w] = label /\ cmd'[w] = cmd[w] /\ NewRow(w)' = NewRow(w)
BY DEF RecordsInv, TypeOK, Goto, LocalTypeOK, Alone, NewRow, store

LEMMA AskCreateGood ==
  ASSUME RecordsInv, NEW w \in Requests, AskCreate(w)
  PROVE  Good(w)
<1>1. PICK r \in Originals, a \in Staff, n \in Amounts :
        \E p \in MayFollow(r) :
          Ask(w, [do |-> "create", on |-> r, by |-> a, amount |-> n, parent |-> p], "find")
  BY DEF AskCreate
<1>2. PICK p \in MayFollow(r) :
        Ask(w, [do |-> "create", on |-> r, by |-> a, amount |-> n, parent |-> p], "find")
  BY <1>1
<1>3. p \in Records \cup {NoParent}
  BY DEF MayFollow
<1>4. [do |-> "create", on |-> r, by |-> a, amount |-> n, parent |-> p] \in Creations
  BY <1>3 DEF Creations
<1> QED BY <1>2, <1>4, Asked

LEMMA FindGood ==
  ASSUME RecordsInv, NEW w \in Requests, Find(w)
  PROVE  Good(w)
<1>1. cmd[w] \in Creations
  BY DEF RecordsInv, Held, Find
<1>2. CASE Answer(w)
  BY <1>2, Answered
<1>3. ASSUME NEW label \in {"insert", "parent"}, Goto(w, label),
             CanWrite(cmd[w].by, Kind(cmd[w].on), NewRow(w))
      PROVE  Good(w)
  <2>1. /\ LocalTypeOK' /\ Alone(w) /\ UNCHANGED store
        /\ pc'[w] = label /\ cmd'[w] = cmd[w] /\ NewRow(w)' = NewRow(w)
    BY <1>3, Moved DEF PCs
  <2>2. Held(w)'
    BY <1>1, <1>3, <2>1 DEF Held
  <2> QED BY <2>1, <2>2 DEF Good
<1> QED BY <1>2, <1>3 DEF Find

LEMMA ReadParentGood ==
  ASSUME RecordsInv, NEW w \in Requests, ReadParent(w)
  PROVE  Good(w)
<1>1. cmd[w] \in Creations /\ CanWrite(cmd[w].by, Kind(cmd[w].on), NewRow(w))
  BY DEF RecordsInv, Held, ReadParent
<1>2. CASE Answer(w)
  BY <1>2, Answered
<1>3. CASE Goto(w, "insert")
  <2>1. /\ LocalTypeOK' /\ Alone(w) /\ UNCHANGED store
        /\ pc'[w] = "insert" /\ cmd'[w] = cmd[w] /\ NewRow(w)' = NewRow(w)
    BY <1>3, Moved DEF PCs
  <2>2. Held(w)'
    BY <1>1, <2>1 DEF Held
  <2> QED BY <2>1, <2>2 DEF Good
<1> QED BY <1>2, <1>3 DEF ReadParent

LEMMA InsertGood ==
  ASSUME RecordsInv, NEW w \in Requests, InsertRow(w)
  PROVE  Good(w)
<1> DEFINE c == cmd[w]
<1>1. /\ c.on \in Originals /\ c.by \in Staff /\ c.amount \in Amounts
      /\ c.parent \in Records \cup {NoParent}
      /\ CanWrite(c.by, Kind(c.on), NewRow(w))
  BY DEF RecordsInv, Held, InsertRow, Creations
<1>2. CASE Answer(w)
  BY <1>2, Answered
<1>3. CASE ~Exists(c.on) /\ Insert(c.on, NewRow(w)) /\ Forget(w)
  <2>1. row'[c.on].version = 1
    BY <1>1, <1>3 DEF RecordsInv, TypeOK, StoreTypeOK, Insert, NewRow, New, Records
  <2>2. row[c.on] # row'[c.on]
    BY <1>3, <2>1 DEF Exists
  <2>3. Create
    BY <1>1, <1>3, <2>2 DEF Create, NewRow
  <2> QED BY <1>3, <2>3, Forgotten DEF Good, StoreNext
<1> QED BY <1>2, <1>3 DEF InsertRow, Unique

LEMMA AskChangeGood ==
  ASSUME RecordsInv, NEW w \in Requests, AskChange(w)
  PROVE  Good(w)
<1>1. PICK r \in Records, a \in Staff :
        /\ Exists(r)
        /\ \/ \E s \in Targets : Ask(w, [do |-> "status", on |-> r, by |-> a, status |-> s], "load")
           \/ \E n \in Amounts : Ask(w, [do |-> "edit", on |-> r, by |-> a, amount |-> n,
                                       seen |-> row[r].version], "load")
           \/ Ask(w, [do |-> "delete", on |-> r, by |-> a, seen |-> row[r].version], "load")
           \/ Ask(w, [do |-> "note", on |-> r, by |-> a], "load")
           \/ \E u \in Staff : Ask(w, [do |-> "assign", on |-> r, by |-> a, to |-> u], "load")
           \/ \E ref \in References, n \in Amounts :
                Ask(w, [do |-> "payment", on |-> r, by |-> a, reference |-> ref, cents |-> n], "load")
  BY DEF AskChange
<1>2. row[r].version \in Nat
  BY DEF RecordsInv, TypeOK, StoreTypeOK, Row, Blank
<1>3. ASSUME NEW s \in Targets, Ask(w, [do |-> "status", on |-> r, by |-> a, status |-> s], "load")
      PROVE  Good(w)
  <2>1. [do |-> "status", on |-> r, by |-> a, status |-> s] \in Commands
    BY KnownTargets DEF Commands, CommandsOn
  <2> QED BY <1>1, <1>3, <2>1, Asked
<1>4. ASSUME NEW n \in Amounts,
             Ask(w, [do |-> "edit", on |-> r, by |-> a, amount |-> n, seen |-> row[r].version], "load")
      PROVE  Good(w)
  <2>1. [do |-> "edit", on |-> r, by |-> a, amount |-> n, seen |-> row[r].version] \in Commands
    BY <1>2 DEF Commands, CommandsOn
  <2> QED BY <1>1, <1>4, <2>1, Asked
<1>5. CASE Ask(w, [do |-> "delete", on |-> r, by |-> a, seen |-> row[r].version], "load")
  <2>1. [do |-> "delete", on |-> r, by |-> a, seen |-> row[r].version] \in Commands
    BY <1>2 DEF Commands, CommandsOn
  <2> QED BY <1>1, <1>5, <2>1, Asked
<1>6. CASE Ask(w, [do |-> "note", on |-> r, by |-> a], "load")
  <2>1. [do |-> "note", on |-> r, by |-> a] \in Commands
    BY DEF Commands, CommandsOn
  <2> QED BY <1>1, <1>6, <2>1, Asked
<1>7. ASSUME NEW u \in Staff, Ask(w, [do |-> "assign", on |-> r, by |-> a, to |-> u], "load")
      PROVE  Good(w)
  <2>1. [do |-> "assign", on |-> r, by |-> a, to |-> u] \in Commands
    BY DEF Commands, CommandsOn
  <2> QED BY <1>1, <1>7, <2>1, Asked
<1>8. ASSUME NEW ref \in References, NEW n \in Amounts,
             Ask(w, [do |-> "payment", on |-> r, by |-> a, reference |-> ref, cents |-> n], "load")
      PROVE  Good(w)
  <2>1. [do |-> "payment", on |-> r, by |-> a, reference |-> ref, cents |-> n] \in Commands
    BY DEF Commands, CommandsOn
  <2> QED BY <1>1, <1>8, <2>1, Asked
<1> QED BY <1>1, <1>3, <1>4, <1>5, <1>6, <1>7, <1>8

LEMMA LoadGood ==
  ASSUME RecordsInv, NEW w \in Requests, Load(w)
  PROVE  Good(w)
<1> DEFINE r == cmd[w].on
<1>1. cmd[w] \in Commands /\ Exists(r) /\ r \in Records
  BY CreatedParts DEF RecordsInv, Held, Load
<1>2. row[r] \in Row /\ row[r].version \in Nat
  BY <1>1 DEF RecordsInv, TypeOK, StoreTypeOK, Row, Exists, Blank
<1>3. CASE Answer(w)
  BY <1>3, Answered
<1>4. CASE /\ revision' = [revision EXCEPT ![w] = row[r].version]
           /\ pc' = [pc EXCEPT ![w] = "linked"]
           /\ UNCHANGED <<cmd, snap, store>>
  <2>1. /\ LocalTypeOK' /\ Alone(w) /\ UNCHANGED store /\ row' = row
        /\ pc'[w] = "linked" /\ cmd'[w] = cmd[w] /\ revision'[w] = row[r].version
    BY <1>2, <1>4 DEF RecordsInv, TypeOK, LocalTypeOK, Alone, PCs, store
  <2>2. Held(w)'
    BY <1>1, <1>2, <2>1 DEF Held, Exists
  <2> QED BY <2>1, <2>2 DEF Good
<1>5. CASE /\ Allowed(cmd[w], row[r])
           /\ revision' = [revision EXCEPT ![w] = row[r].version]
           /\ snap' = [snap EXCEPT ![w] = row[r]]
           /\ pc' = [pc EXCEPT ![w] = "commit"]
           /\ UNCHANGED <<cmd, store>>
  <2>1. /\ LocalTypeOK' /\ Alone(w) /\ UNCHANGED store /\ row' = row /\ snap'[w] = row[r]
        /\ pc'[w] = "commit" /\ cmd'[w] = cmd[w] /\ revision'[w] = row[r].version
    BY <1>2, <1>5 DEF RecordsInv, TypeOK, LocalTypeOK, Alone, PCs, store
  <2>2. Held(w)'
    BY <1>1, <1>2, <1>5, <2>1 DEF Held, Exists
  <2> QED BY <2>1, <2>2 DEF Good
<1> QED BY <1>3, <1>4, <1>5 DEF Load

LEMMA ReadLinkedGood ==
  ASSUME RecordsInv, NEW w \in Requests, ReadLinked(w)
  PROVE  Good(w)
<1> DEFINE r == cmd[w].on
<1>1. /\ cmd[w] \in Commands /\ Exists(r) /\ r \in Records
      /\ revision[w] <= row[r].version
  BY CreatedParts DEF RecordsInv, Held, ReadLinked
<1>2. row[r] \in Row /\ row[r].version \in Nat
  BY <1>1 DEF RecordsInv, TypeOK, StoreTypeOK, Row, Exists, Blank
<1>3. CASE Answer(w)
  BY <1>3, Answered
<1>4. CASE /\ Allowed(cmd[w], row[r])
           /\ snap' = [snap EXCEPT ![w] = row[r]]
           /\ pc' = [pc EXCEPT ![w] = "commit"]
           /\ UNCHANGED <<cmd, revision, store>>
  <2>1. /\ LocalTypeOK' /\ Alone(w) /\ UNCHANGED store /\ row' = row /\ snap'[w] = row[r]
        /\ pc'[w] = "commit" /\ cmd'[w] = cmd[w] /\ revision'[w] = revision[w]
    BY <1>2, <1>4 DEF RecordsInv, TypeOK, LocalTypeOK, Alone, PCs, store
  <2>2. Held(w)'
    BY <1>1, <1>2, <1>4, <2>1 DEF Held, Exists
  <2> QED BY <2>1, <2>2 DEF Good
<1> QED BY <1>3, <1>4 DEF ReadLinked

LEMMA CommitGood ==
  ASSUME RecordsInv, NEW w \in Requests, Commit(w)
  PROVE  Good(w)
<1> DEFINE c == cmd[w] r == cmd[w].on
<1>1. c \in Commands /\ Exists(r) /\ r \in Records
  BY CreatedParts DEF RecordsInv, Held, Commit
<1>2. CASE Answer(w)
  BY <1>2, Answered
<1>3. CASE Succeeds(w) /\ Save(c, snap[w]) /\ Forget(w)
  <2>1. snap[w] = row[r] /\ Allowed(c, row[r])
    BY <1>3, Current DEF Commit
  <2>2. Carries(c)
    BY <1>1, <1>3, <2>1 DEF Carries, Succeeds
  <2>3. row'[r].version = row[r].version + 1 /\ row[r].version \in Nat
    BY <2>2, <1>1, After, RowsCarried DEF RecordsInv, TypeOK
  <2>4. row[r] # row'[r]
    BY <2>3
  <2>5. c \in CommandsOn({r}, {row[r].version})
    <3>1. c.do \in {"edit", "delete"} => c.seen = row[r].version
      BY <2>1 DEF Allowed
    <3> QED BY <1>1, <3>1 DEF Commands, CommandsOn
  <2>6. CarryOut
    BY <1>1, <2>2, <2>4, <2>5 DEF CarryOut, Carries
  <2> QED BY <1>3, <2>6, Forgotten DEF Good, StoreNext
<1> QED BY <1>2, <1>3 DEF Commit, RolledBack

LEMMA StepGood ==
  ASSUME RecordsInv, NEW w \in Requests, Step(w)
  PROVE  Good(w)
<1>1. CASE Lose(w)
  BY <1>1, Answered DEF Lose
<1> QED BY <1>1, AskCreateGood, FindGood, ReadParentGood, InsertGood, AskChangeGood, LoadGood,
     ReadLinkedGood, CommitGood DEF Step

LEMMA InvInit == Init => RecordsInv
<1> SUFFICES ASSUME Init PROVE RecordsInv
  OBVIOUS
<1>1. StoreInv
  BY StoreInvInit DEF Init
<1>2. TypeOK
  BY <1>1 DEF StoreInv, Init, TypeOK, PCs
<1>3. \A w \in Requests : Held(w)
  BY DEF Init, Held
<1> QED BY <1>1, <1>2, <1>3 DEF RecordsInv

LEMMA InvStep == RecordsInv /\ [Next]_vars => RecordsInv' /\ [StoreNext]_store
<1> SUFFICES ASSUME RecordsInv, [Next]_vars PROVE RecordsInv' /\ [StoreNext]_store
  OBVIOUS
<1>1. CASE Next
  <2>1. PICK w \in Requests : Step(w)
    BY <1>1 DEF Next
  <2>2. [StoreNext]_store /\ LocalTypeOK' /\ Alone(w) /\ Held(w)'
    BY <2>1, StepGood DEF Good
  <2>3. StoreInv'
    BY <2>2, StoreInvStep DEF RecordsInv
  <2>4. \A v \in Requests : Held(v)'
    <3> SUFFICES ASSUME NEW v \in Requests PROVE Held(v)'
      OBVIOUS
    <3>1. CASE v = w
      BY <2>2, <3>1
    <3>2. CASE v # w
      BY <2>2, <3>2, StillHeld DEF Alone
    <3> QED BY <3>1, <3>2
  <2>5. TypeOK'
    BY <2>2, <2>3 DEF StoreInv, LocalTypeOK, TypeOK
  <2> QED BY <2>2, <2>3, <2>4, <2>5 DEF RecordsInv
<1>2. CASE UNCHANGED vars
  <2>1. /\ UNCHANGED store /\ pc' = pc /\ cmd' = cmd /\ snap' = snap /\ revision' = revision
    BY <1>2 DEF vars, local, store
  <2>2. StoreInv'
    BY <2>1, StoreInvStep DEF RecordsInv
  <2>3. \A v \in Requests : Held(v)'
    BY <2>1, StillHeld
  <2>4. TypeOK'
    BY <2>1, <2>2 DEF RecordsInv, StoreInv, TypeOK
  <2> QED BY <2>1, <2>2, <2>3, <2>4 DEF RecordsInv
<1> QED BY <1>1, <1>2

LEMMA Invariant == Spec => []RecordsInv
BY InvInit, InvStep, PTL DEF Spec

\* Every variable keeps its type (records/route.ts and the tables it writes).
THEOREM Types == Spec => []TypeOK
<1>1. RecordsInv => TypeOK
  BY DEF RecordsInv
<1> QED BY <1>1, Invariant, PTL

\* A batch that is not rolled back writes what the rules allow on the row as it
\* stands (updateRecordWithAudit's version guard).
THEOREM Judged == Spec => []CommitIsJudged
<1>1. RecordsInv => CommitIsJudged
  BY Current DEF CommitIsJudged
<1> QED BY <1>1, Invariant, PTL

\* However many requests overlap, are lost or are sent again, the tables change
\* as if one command at a time read, was judged and wrote: the refinement.
THEOREM OneAtATime == Spec => KeepsThePromise
<1>1. Init => StoreInit
  BY DEF Init
<1>2. RecordsInv /\ [Next]_vars => [StoreNext]_store
  BY InvStep
<1> QED BY <1>1, <1>2, Invariant, PTL DEF Spec, KeepsThePromise, StoreSpec

\* An accepted quotation has its order, shipment and invoice at its price, no
\* other has, and none of the four is deleted (applyTransition, deletionReason).
THEOREM Acceptance == Spec => []AcceptanceIsWhole
<1>1. RecordsInv => AcceptanceIsWhole
  BY DEF RecordsInv, StoreInv
<1> QED BY <1>1, Invariant, PTL

\* Nobody's approval of a quotation is written while they own it (canApprove).
THEOREM Review == Spec => []ReviewIsIndependent
<1>1. RecordsInv => ReviewIsIndependent
  BY DEF RecordsInv, StoreInv
<1> QED BY <1>1, Invariant, PTL

\* A quotation that stands as approved has the total that was approved
\* (assertTransition, commercialLocked).
THEOREM Terms == Spec => []ApprovedTermsStand
<1>1. RecordsInv => ApprovedTermsStand
  BY DEF RecordsInv, StoreInv
<1> QED BY <1>1, Invariant, PTL

\* Concurrent payments never exceed the total, and the status says what the sum
\* says (recordPayment).
THEOREM Payments == Spec => []PaymentsAddUp
<1>1. RecordsInv => PaymentsAddUp
  BY DEF RecordsInv, StoreInv
<1> QED BY <1>1, Invariant, PTL

\* Every version of a row has exactly one audit event (updateRecordWithAudit).
THEOREM Audit == Spec => []AuditTellsEveryChange
<1>1. RecordsInv => AuditTellsEveryChange
  BY DEF RecordsInv, StoreInv
<1> QED BY <1>1, Invariant, PTL

\* No step takes back a recorded payment (recordPayment behind the version guard).
THEOREM PaymentsStay == Spec => PaymentsAreKept
<1> DEFINE Kept == \A r \in Records : Exists(r) =>
       /\ \A i \in DOMAIN row[r].payments :
            i \in DOMAIN row'[r].payments /\ row'[r].payments[i] = row[r].payments[i]
       /\ row'[r].paid >= row[r].paid
<1>1. RecordsInv /\ [Next]_vars => [Kept]_store
  <2> SUFFICES ASSUME RecordsInv, [Next]_vars, store' # store PROVE Kept
    BY DEF store
  <2>1. StoreNext /\ StoreTypeOK
    BY InvStep DEF RecordsInv, TypeOK
  <2> QED BY <2>1, StepKeepsPayments
<1> QED BY <1>1, Invariant, PTL DEF Spec, PaymentsAreKept

\* No step writes over a version it has not seen, a deleted row, or the price of
\* what is accepted or issued.
THEOREM NothingLost == Spec => NothingIsOverwritten
<1> DEFINE Overwrites == \A r \in Records : row'[r] # row[r] =>
       /\ row'[r].version = row[r].version + 1
       /\ ~row[r].deleted
       /\ row[r].status = "Accepted" => row'[r].status = "Accepted"
       /\ row[r].status \in {"Accepted", "Issued"} => row'[r].amount = row[r].amount
<1>1. RecordsInv /\ [Next]_vars => [Overwrites]_store
  <2> SUFFICES ASSUME RecordsInv, [Next]_vars, store' # store PROVE Overwrites
    BY DEF store
  <2>1. StoreNext /\ StoreTypeOK /\ EndingsBelong
    BY InvStep DEF RecordsInv, TypeOK, StoreInv
  <2> QED BY <2>1, StepOverwritesNothing
<1> QED BY <1>1, Invariant, PTL DEF Spec, NothingIsOverwritten
=============================================================================
