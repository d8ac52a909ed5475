------------------------------ MODULE MCRecords ------------------------------
(* Small instances of Records and Relations for TLC.  A behaviour follows one   *)
(* story: who asks for what of which documents, how often a row is changed, and *)
(* how many requests overlap.  A story is about the documents of Records or     *)
(* about those of Relations, and leaves the others alone.                       *)
EXTENDS Records, Relations, TLC

CONSTANT Told     \* the stories of this instance

VARIABLE story
recordsVars == <<vars, relationsVars, story>>

\* A salesperson, a managing director and an accountant.
Roster == [sam |-> "Sales Executive", mo |-> "MD", ann |-> "Accounts Manager"]
RoleOf == [u \in Staff |-> Roster[u]]

Interchangeable == Permutations(Requests) \cup Permutations(Callers)

\* One quotation until it is accepted; payments on the invoice of an accepted one;
\* documents that follow each other, created again while they are changed; and all
\* the documents, one request after another.
Asks ==
  [quote     |-> [by |-> {"sam", "mo"}, of |-> {"quotations"},
                  do |-> {"create", "status", "edit", "delete", "assign"}],
   payments  |-> [by |-> {"sam", "mo"}, of |-> {"quotations", "accounts"},
                  do |-> {"create", "status", "payment"}],
   linked    |-> [by |-> {"mo"}, of |-> {"leads", "quotations", "cash"},
                  do |-> {"create", "edit", "delete", "note", "payment"}],
   documents |-> [by |-> {"sam", "mo", "ann"}, of |-> {Kind(r) : r \in Records} \ {"leads"},
                  do |-> {"create", "status", "edit", "payment"}]]
Changes(r) ==
  CASE story = "quote"    -> MaxVersion
    [] story = "payments" -> MaxVersion
    [] story = "linked"   -> 2
    [] OTHER              -> IF Kind(r) = "quotations" THEN 4
                             ELSE IF Kind(r) = "proformas" THEN 3 ELSE 2
Overlaps == [quote |-> 2, payments |-> 2, linked |-> 2, documents |-> 1]

\* A change that the rules refuse when it is asked for is left out: the row is read
\* again later, so most of those that overtake each other are refused then.
\* Choices that no rule of the story tells apart stand for each other.
Worth(c) ==
  /\ c.by \in Asks[story].by /\ Kind(c.on) \in Asks[story].of /\ c.do \in Asks[story].do
  /\ row[c.on].version < Changes(c.on)
  /\ IF c.do = "create"
       THEN /\ CanWrite(c.by, Kind(c.on), New(c.by, Kind(c.on), c.amount, c.parent))
            /\ story \in {"quote", "payments"} => c.parent = NoParent
            /\ story = "payments" => c.amount = 2
       ELSE Allowed(c, row[c.on])
  /\ c.do = "assign" => c.to \in Asks[story].by
  /\ c.do = "status" =>
       /\ c.status = "Cancelled" => story # "quote"
       /\ c.status = "Issued" => story = "documents"
       /\ Kind(c.on) = "quotations" /\ c.status = "Sent" => story = "quote"
  /\ story \in {"linked", "documents"} /\ c.do = "create" => c.amount = 1
  /\ story = "documents" /\ c.by = "sam" => Kind(c.on) = "quotations"
  /\ story = "documents" /\ c.by = "mo" => c.do = "status" /\ Kind(c.on) \in {"quotations", "orders"}
  /\ story = "documents" /\ c.do = "edit" => Kind(c.on) \in {"proformas", "accounts"}
  /\ story \in {"linked", "documents"} /\ c.do = "payment" => c.reference = "r1"

Busy == {w \in Requests : pc[w] # "idle"}

MCInit == Init /\ RelationsInit /\ story \in Told
Serve ==
  /\ story \in DOMAIN Asks /\ Next
  /\ \A w \in Requests : pc[w] = "idle" /\ pc'[w] # "idle" => Worth(cmd'[w])
  /\ Cardinality(Busy') <= Overlaps[story]
  /\ UNCHANGED <<relationsVars, story>>

-----------------------------------------------------------------------------
\* The people of a customer and the documents that name them; the deal of a lead
\* and its quotation; what a supplier can deliver.
Kept == [k1 |-> "customers", s1 |-> "suppliers", g1 |-> "products",
         e1 |-> "leads", q1 |-> "quotations"]
Homes == [c1 |-> "k1"]
Ends == [x1 |-> <<"s1", "g1">>]
Topics ==
  [people    |-> [of |-> {"k1", "e1"}, do |-> {"create", "contact", "links", "edit", "delete"}],
   deals     |-> [of |-> {"e1", "q1"}, do |-> {"create", "deal", "status", "links", "delete"}],
   catalogue |-> [of |-> {"s1", "g1", "e1"}, do |-> {"create", "capability", "delete"}]]

\* As above: what would be refused when it is asked for is left out.  A link is
\* changed one at a time, and a record is made while nobody else is busy unless it
\* names another one.
MayLink(r, x) ==
  /\ Admitted(r, x)
  /\ x.customer # None => Live(x.customer)
  /\ x.product # None => Live(x.product)
Wanted(c) ==
  /\ c.on \in Topics[story].of /\ c.do \in Topics[story].do
  /\ story = "people" /\ c.on = "e1" => item[c.on].version < MaxChanges - 1 /\ c.do # "delete"
  /\ c.do # "create" => Live(c.on)
  /\ CASE c.do = "create" ->
            /\ item[c.on].is = "none" /\ MayLink(c.on, [Drafted(c) EXCEPT !.primary = None])
            /\ c.parent # None => Live(c.parent)
            /\ \A w \in Callers : place[w] # "idle" => Linking(Drafted(c)) \/ c.parent # None
            /\ c.main # None => ~Known(c.main)
       [] c.do = "links" ->
            LET x == item[c.on] y == Relinked(c, x)
                changed == {f \in {"customer", "contact", "product", "primary"} : c[f] # Keep}
            IN  /\ MayLink(c.on, y) /\ Unlocked(x, c.on) /\ y # [x EXCEPT !.stamp = @ + 1]
                /\ \E f \in changed : changed \subseteq {f, "contact"}
                /\ Cardinality(changed) = 2 => "customer" \in changed /\ y.contact # None
       [] c.do = "contact" -> c.active \/ contact[c.contact].active
       [] c.do = "delete" -> ~HasPeople(c.on) /\ NamedBy(c.on) = {}
       [] OTHER -> TRUE

Relate ==
  /\ story \in DOMAIN Topics /\ RelationsNext
  /\ \A w \in Callers : place[w] = "idle" /\ place'[w] # "idle" => Wanted(wish'[w])
  /\ UNCHANGED <<vars, story>>

\* When the bounds are reached nobody asks for anything.
Rest == Busy = {} /\ (\A w \in Callers : place[w] = "idle") /\ UNCHANGED recordsVars

MCNext == Serve \/ Rest \/ Relate
MCSpec == MCInit /\ [][MCNext]_recordsVars
=============================================================================
