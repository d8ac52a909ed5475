------------------------------ MODULE Relations ------------------------------
(***************************************************************************)
(* Commercial relationships (src/src/lib/commercial/store.ts and the part  *)
(* of the records API that calls it): the people of customers and          *)
(* suppliers, what a supplier can deliver, the deal of a lead, and which   *)
(* customer, contact and product a document names.                         *)
(*                                                                         *)
(* A command reads the record, then whatever it would link to, one await   *)
(* each, and writes in one batch.  Two devices keep the links right: a     *)
(* version guard on each record the command judged, whether or not it      *)
(* changes it, and the triggers of 0013_commercial_operations.sql.         *)
(*                                                                         *)
(* Everybody works for one company and branch and may read and write all   *)
(* of it.  Titles copied from a customer or product are left out; the      *)
(* words copied from a contact (name, email, phone) are that contact and   *)
(* the revision of it that was read.                                       *)
(***************************************************************************)
EXTENDS Integers

CONSTANTS
  KindOf,        \* record -> kind, of all that may be created
  HomeOf,        \* contact -> the customer or supplier its id is derived for
  EndsOf,        \* capability -> its supplier and product
  Deals,         \* ids of deals
  Callers,       \* Worker invocations
  None,          \* null
  MaxChanges     \* bound: people leave a record alone at this version

Items == DOMAIN KindOf
Of(kinds) == {r \in Items : KindOf[r] \in kinds}
OrNone(set) == set \cup {None}
Contacts == DOMAIN HomeOf
Capabilities == DOMAIN EndsOf
Masters == Of({"customers", "suppliers"})
Kinds == {"customers", "suppliers", "products", "leads", "quotations"}

ASSUME RelationKinds ==
  /\ KindOf \in [Items -> Kinds]
  /\ HomeOf \in [Contacts -> Masters]
  /\ EndsOf \in [Capabilities -> Of({"suppliers"}) \X Of({"products"})]
ASSUME NoneIsNobody == None \notin Items \cup Contacts \cup Deals
ASSUME ChangesBound == MaxChanges \in Nat

VARIABLES
  item,          \* BusinessRecord
  contact,       \* Contact: contact -> version, 0 while there is none, and active
  capability,    \* SupplierProductCapability: capability -> version, 0 while there is none
  deal,          \* Deal: deal -> its lead
  told,          \* history: lead -> the deals that callers were told it has
  place,         \* caller -> its next await
  wish,          \* caller -> its command
  held,          \* caller -> the record as it was read
  draft,         \* caller -> the record as it will be written
  second         \* caller -> version of the product it read with a supplier

tables == <<item, contact, capability, deal, told>>
own    == <<place, wish, held, draft, second>>
relationsVars == <<tables, own>>

Nothing == [of |-> None, rev |-> 0]
Absent == [is |-> "none", version |-> 0, stamp |-> 0, status |-> "open", parent |-> None,
           customer |-> None, contact |-> None, product |-> None, primary |-> None,
           deal |-> None, shows |-> Nothing]
Nobody == [version |-> 0, active |-> FALSE]
NoWish == [do |-> "none"]
Live(r) == item[r].is = "live"
Known(c) == contact[c].version > 0

RelationsInit ==
  /\ item = [r \in Items |-> Absent]
  /\ contact = [c \in Contacts |-> Nobody]
  /\ capability = [k \in Capabilities |-> 0]
  /\ deal = [d \in Deals |-> None]
  /\ told = [l \in Of({"leads"}) |-> {}]
  /\ place = [w \in Callers |-> "idle"]
  /\ wish = [w \in Callers |-> NoWish]
  /\ held = [w \in Callers |-> Absent]
  /\ draft = [w \in Callers |-> Absent]
  /\ second = [w \in Callers |-> 0]

\* The caller has its answer, or its invocation is lost: nothing of it remains.
Leave(w) ==
  /\ place' = [place EXCEPT ![w] = "idle"]
  /\ wish' = [wish EXCEPT ![w] = NoWish]
  /\ held' = [held EXCEPT ![w] = Absent]
  /\ draft' = [draft EXCEPT ![w] = Absent]
  /\ second' = [second EXCEPT ![w] = 0]
Refuse(w) == Leave(w) /\ UNCHANGED tables
LoseCaller(w) == place[w] # "idle" /\ Refuse(w)

Advance(w, label) ==
  place' = [place EXCEPT ![w] = label] /\ UNCHANGED <<wish, held, draft, second, tables>>
Carry(w, d, label) ==
  /\ place' = [place EXCEPT ![w] = label]
  /\ draft' = [draft EXCEPT ![w] = d]
  /\ UNCHANGED <<wish, held, second, tables>>

-----------------------------------------------------------------------------
(* What people ask for *)

Keep == "keep"     \* a link the command leaves as it is
Choice(set) == OrNone(set) \cup {Keep}

NewRecords ==
  [do: {"create"}, on: Items, parent: OrNone(Of({"leads"})),
   customer: OrNone(Of({"customers"})), contact: OrNone(Contacts),
   product: OrNone(Of({"products"})), main: OrNone(Contacts)]
Fits(c) ==
  /\ KindOf[c.on] # "quotations" => c.parent = None
  /\ KindOf[c.on] \notin {"leads", "quotations"} =>
       c.customer = None /\ c.contact = None /\ c.product = None
  /\ c.main # None => HomeOf[c.main] = c.on
People == [do: {"contact"}, on: Masters, contact: Contacts, version: Nat, active: BOOLEAN]
Skills == [do: {"capability"}, on: Of({"suppliers"}), capability: Capabilities, version: Nat]
Openings == [do: {"deal"}, on: Of({"leads"})]
Linkings ==
  [do: {"links"}, on: Items, stamp: Nat, customer: Choice(Of({"customers"})),
   contact: Choice(Contacts), product: Choice(Of({"products"})), primary: Choice(Contacts)]
Patches == [do: {"edit", "delete"}, on: Items, stamp: Nat]
Moves == [do: {"status"}, on: Of({"quotations"}), status: {"open", "Approved", "Accepted"}]
Wishes == NewRecords \cup People \cup Skills \cup Openings \cup Linkings \cup Patches \cup Moves

Want(w, c, label) ==
  /\ place[w] = "idle"
  /\ item[c.on].version < MaxChanges
  /\ place' = [place EXCEPT ![w] = label]
  /\ wish' = [wish EXCEPT ![w] = c]
  /\ UNCHANGED <<held, draft, second, tables>>

\* A POST, or quickCustomer, whose read and batch are those of a POST of a customer.
WantRecord(w) == \E c \in NewRecords : Fits(c) /\ Want(w, c, "find")
WantContact(w) == \E c \in Contacts, active \in BOOLEAN :
  Want(w, [do |-> "contact", on |-> HomeOf[c], contact |-> c,
           version |-> contact[c].version, active |-> active], "load")
WantCapability(w) == \E k \in Capabilities :
  Want(w, [do |-> "capability", on |-> EndsOf[k][1], capability |-> k,
           version |-> capability[k]], "load")
WantDeal(w) == \E l \in Of({"leads"}) : Want(w, [do |-> "deal", on |-> l], "load")
WantLinks(w) == \E r \in Items :
  \E cu \in Choice(Of({"customers"})), co \in Choice(Contacts),
     pr \in Choice(Of({"products"})), pc \in Choice(Contacts) :
    Want(w, [do |-> "links", on |-> r, stamp |-> item[r].stamp, customer |-> cu,
             contact |-> co, product |-> pr, primary |-> pc], "load")
WantPatch(w) ==
  \/ \E r \in Items, do \in {"edit", "delete"} :
       Want(w, [do |-> do, on |-> r, stamp |-> item[r].stamp], "load")
  \/ \E c \in Moves : Want(w, c, "load")

-----------------------------------------------------------------------------
(* resolveLinks: one await per link of the draft, in this order *)

FromParent(d)   == IF d.is = "new" /\ d.parent # None THEN "parent" ELSE "write"
FromDeal(d)     == IF d.deal # None THEN "link deal" ELSE FromParent(d)
FromPrimary(d)  == IF d.primary # None THEN "primary" ELSE FromDeal(d)
FromProduct(d)  == IF d.product # None THEN "product" ELSE FromPrimary(d)
FromContact(d)  == IF d.contact # None THEN "contact" ELSE FromProduct(d)
FromCustomer(d) == IF d.customer # None THEN "customer" ELSE FromContact(d)

\* resolveSnapshotEdit: an edit of a document whose customer, product or lead has
\* gone keeps the words it had.
Missing(w) ==
  IF wish[w].do = "edit"
    THEN Carry(w, [draft[w] EXCEPT !.shows = held[w].shows], "write")
    ELSE Refuse(w)

LinkCustomer(w) ==
  /\ place[w] = "customer"
  /\ IF ~Live(draft[w].customer) THEN Missing(w)
     ELSE IF KindOf[wish[w].on] \notin {"leads", "quotations"} THEN Refuse(w)
     ELSE Advance(w, FromContact(draft[w]))

MayName(w, c) ==
  /\ Known(c) /\ HomeOf[c] = draft[w].customer
  /\ contact[c].active \/ held[w].contact = c
LinkContact(w) ==
  /\ place[w] = "contact"
  /\ LET c == draft[w].contact
         d == [draft[w] EXCEPT !.shows = [of |-> c, rev |-> contact[c].version]]
     IN  IF MayName(w, c) THEN Carry(w, d, FromProduct(d)) ELSE Refuse(w)

LinkProduct(w) ==
  /\ place[w] = "product"
  /\ IF Live(draft[w].product) THEN Advance(w, FromPrimary(draft[w])) ELSE Missing(w)

LinkPrimary(w) ==
  /\ place[w] = "primary"
  /\ LET c == draft[w].primary
     IN  IF Known(c) /\ HomeOf[c] = wish[w].on /\ contact[c].active
           THEN Advance(w, FromDeal(draft[w])) ELSE Refuse(w)

\* A deal's row never changes, so reading it and its lead is one step.
LinkDeal(w) ==
  /\ place[w] = "link deal"
  /\ LET d == draft[w] lead == deal[d.deal]
     IN  IF ~Live(lead) THEN Missing(w)
         ELSE IF d.is = "new" /\ (d.parent # lead \/ d.customer # item[lead].customer)
           THEN Refuse(w)
         ELSE Advance(w, FromParent(d))

-----------------------------------------------------------------------------
(* POST: a new record, and quickCustomer *)

Drafted(c) == [Absent EXCEPT !.is = "new", !.parent = c.parent, !.customer = c.customer,
                         !.contact = c.contact, !.product = c.product]

FindRecord(w) ==
  /\ place[w] = "find"
  /\ LET d == Drafted(wish[w])
     IN  IF item[wish[w].on].is # "none" THEN Refuse(w)
         ELSE Carry(w, d, IF d.parent # None THEN "lead" ELSE FromCustomer(d))

\* inheritLeadLinks: the lead, and then its deal.
Agree(mine, its) == mine = None \/ its = None \/ mine = its
Given(mine, its) == IF its # None THEN its ELSE mine
InheritLinks(w) ==
  /\ place[w] = "lead"
  /\ LET d == draft[w] lead == item[d.parent]
     IN  IF /\ Live(d.parent)
            /\ Agree(d.customer, lead.customer) /\ Agree(d.contact, lead.contact)
            /\ Agree(d.product, lead.product)
           THEN Carry(w, [d EXCEPT !.customer = Given(@, lead.customer),
                                   !.contact = Given(@, lead.contact),
                                   !.product = Given(@, lead.product)], "inherit deal")
           ELSE Refuse(w)
DealOf(l) == IF \E d \in Deals : deal[d] = l THEN CHOOSE d \in Deals : deal[d] = l ELSE None
InheritDeal(w) ==
  /\ place[w] = "inherit deal"
  /\ LET d == [draft[w] EXCEPT !.deal = DealOf(draft[w].parent)]
     IN  Carry(w, d, FromCustomer(d))

CheckParent(w) ==
  /\ place[w] = "parent"
  /\ IF Live(draft[w].parent) THEN Advance(w, "write") ELSE Refuse(w)

-----------------------------------------------------------------------------
(* The triggers of 0013_commercial_operations.sql *)

\* What a record may name, deleted rows included, whoever writes it.
LinkedRightly(r, x) ==
  /\ x.customer # None => item[x.customer].is # "none"
  /\ x.product # None => item[x.product].is # "none"
  /\ x.contact # None => Known(x.contact) /\ HomeOf[x.contact] = x.customer
  /\ x.primary # None => Known(x.primary) /\ HomeOf[x.primary] = r /\ contact[x.primary].active
  /\ x.deal # None => deal[x.deal] # None
\* Mutant: the contact's being active is left to resolveLinks.
NamesAnybody(r, x) == TRUE
NamesSomebodyActive(r, x) ==
  x.contact # None /\ x.contact # item[r].contact => contact[x.contact].active
Admitted(r, x) == LinkedRightly(r, x) /\ NamesSomebodyActive(r, x)

\* Contact_deactivate_primary: the row of the parent after guard() and the update.
Guarded(r) == [item[r] EXCEPT !.version = @ + 1]
Deactivated(r, c) ==
  IF item[r].primary = c
    THEN [Guarded(r) EXCEPT !.version = @ + 1, !.stamp = @ + 1, !.primary = None]
    ELSE Guarded(r)

-----------------------------------------------------------------------------
(* The first read of a command, and what follows it *)

Unlocked(x, r) == KindOf[r] = "quotations" => x.status = "open"
Pick(choice, old) == IF choice = Keep THEN old ELSE choice
\* A quotation is "open" in every status that leaves it unlocked, Sent among them.
\* changeLinks: another customer clears the contact and its words.
Relinked(c, x) ==
  LET moved == Pick(c.customer, x.customer) # x.customer
  IN  [x EXCEPT !.customer = Pick(c.customer, @), !.product = Pick(c.product, @),
                !.primary = Pick(c.primary, @), !.stamp = @ + 1,
                !.contact = IF moved THEN Pick(c.contact, None) ELSE Pick(c.contact, @),
                !.shows = IF moved THEN Nothing ELSE @]
Retyped(x) == [x EXCEPT !.stamp = @ + 1, !.shows = Nothing]
Linking(x) == x.customer # None \/ x.contact # None \/ x.product # None

Begin(w, x, d, label) ==
  /\ place' = [place EXCEPT ![w] = label]
  /\ held' = [held EXCEPT ![w] = x]
  /\ draft' = [draft EXCEPT ![w] = d]
  /\ UNCHANGED <<wish, second, tables>>

LoadItem(w) ==
  /\ place[w] = "load"
  /\ LET c == wish[w] x == item[c.on]
     IN  IF ~Live(c.on) THEN Refuse(w) ELSE
         CASE c.do = "contact"    -> Begin(w, x, x, "person")
           [] c.do = "capability" -> Begin(w, x, x, "its product")
           [] c.do = "deal"       -> Begin(w, x, x, "its deal")
           [] c.do = "delete"     -> Begin(w, x, x, "history")
           [] c.do = "links" ->
                IF /\ KindOf[c.on] # "products" /\ Unlocked(x, c.on) /\ x.stamp = c.stamp
                  THEN LET d == Relinked(c, x) IN Begin(w, x, d, FromCustomer(d))
                  ELSE Refuse(w)
           [] c.do = "edit" ->
                IF x.stamp = c.stamp
                  THEN Begin(w, x, Retyped(x),
                             IF Linking(x) THEN FromCustomer(Retyped(x)) ELSE "write")
                  ELSE Refuse(w)
           [] c.do = "status" ->
                LET d == [x EXCEPT !.stamp = @ + 1, !.status = c.status]
                IN  IF x.status \in {c.status, "Accepted"} THEN Refuse(w)
                    ELSE Begin(w, x, d, IF c.status = "Accepted" /\ x.deal = None /\ x.parent # None
                                          THEN "quote lead" ELSE "write")

\* existingDealForQuote: the lead, if it still has the quotation's customer, and its deal.
QuoteLead(w) ==
  /\ place[w] = "quote lead"
  /\ LET lead == draft[w].parent
     IN  Advance(w, IF Live(lead) /\ item[lead].customer = draft[w].customer
                      THEN "quote deal" ELSE "write")
QuoteDeal(w) ==
  /\ place[w] = "quote deal"
  /\ Carry(w, [draft[w] EXCEPT !.deal = DealOf(draft[w].parent)], "write")

\* hasCommercialHistory, but for purchases and stock movements; then the row once more, with the records that name it.
HasPeople(r) ==
  \/ \E c \in Contacts : Known(c) /\ HomeOf[c] = r
  \/ \E d \in Deals : deal[d] = r
  \/ \E k \in Capabilities : capability[k] > 0 /\ r \in {EndsOf[k][1], EndsOf[k][2]}
NamedBy(r) == {x \in Items : r \in {item[x].customer, item[x].product}}
CheckHistory(w) ==
  /\ place[w] = "history"
  /\ IF HasPeople(wish[w].on) \/ NamedBy(wish[w].on) # {} THEN Refuse(w) ELSE Advance(w, "peers")
CheckPeers(w) ==
  /\ place[w] = "peers"
  /\ LET r == wish[w].on x == item[r]
     IN  IF /\ Live(r) /\ x.stamp = wish[w].stamp /\ Unlocked(x, r) /\ x.parent = None
            /\ NamedBy(r) = {} /\ \A child \in Items : item[child].parent # r
           THEN Carry(w, [x EXCEPT !.is = "deleted", !.stamp = @ + 1], "write")
           ELSE Refuse(w)

\* A contact or capability whose id is new, or which is as the caller saw it.
ReadPerson(w) ==
  /\ place[w] = "person"
  /\ IF contact[wish[w].contact].version = wish[w].version THEN Advance(w, "write person")
                                                           ELSE Refuse(w)
ReadItsProduct(w) ==
  /\ place[w] = "its product"
  /\ LET p == EndsOf[wish[w].capability][2]
     IN  IF Live(p)
           THEN /\ place' = [place EXCEPT ![w] = "skill"]
                /\ second' = [second EXCEPT ![w] = item[p].version]
                /\ UNCHANGED <<wish, held, draft, tables>>
           ELSE Refuse(w)
ReadSkill(w) ==
  /\ place[w] = "skill"
  /\ IF capability[wish[w].capability] = wish[w].version THEN Advance(w, "write skill")
                                                         ELSE Refuse(w)

Tell(w) ==
  /\ told' = [told EXCEPT ![wish[w].on] = @ \cup {DealOf(wish[w].on)}]
  /\ Leave(w) /\ UNCHANGED <<item, contact, capability, deal>>
ReadItsDeal(w) ==
  /\ place[w] = "its deal"
  /\ IF DealOf(wish[w].on) # None THEN Tell(w) ELSE Advance(w, "write deal")
ReadDealAgain(w) ==
  /\ place[w] = "again"
  /\ IF DealOf(wish[w].on) # None THEN Tell(w) ELSE Refuse(w)

-----------------------------------------------------------------------------
(* The batches *)

\* guard(): the version of the record as it was read.
\* Mutant: a contact is written without a look at its parent.
AnyVersion(w) == TRUE
Current(w) == item[wish[w].on].version = held[w].version

WriteItem(w) ==
  /\ place[w] = "write" /\ wish[w].do # "create"
  /\ LET r == wish[w].on d == [draft[w] EXCEPT !.version = held[w].version + 1]
     IN  IF Current(w) /\ Admitted(r, d)
           THEN item' = [item EXCEPT ![r] = d] /\ Leave(w)
                /\ UNCHANGED <<contact, capability, deal, told>>
           ELSE Refuse(w)

\* The record, its main contact if it is given one, and the link between them.
InsertItem(w) ==
  /\ place[w] = "write" /\ wish[w].do = "create"
  /\ LET r == wish[w].on main == wish[w].main
         d == [draft[w] EXCEPT !.is = "live", !.version = 1, !.stamp = 1]
     IN  IF item[r].is = "none" /\ Admitted(r, d) /\ (main # None => ~Known(main))
           THEN /\ item' = [item EXCEPT ![r] = [d EXCEPT !.primary = main]]
                /\ contact' = IF main = None THEN contact
                              ELSE [contact EXCEPT ![main] = [version |-> 1, active |-> TRUE]]
                /\ Leave(w) /\ UNCHANGED <<capability, deal, told>>
           ELSE Refuse(w)

WriteContact(w) ==
  /\ place[w] = "write person"
  /\ LET c == wish[w].contact r == wish[w].on
     IN  IF Current(w) /\ contact[c].version = wish[w].version
           THEN /\ contact' = [contact EXCEPT ![c] =
                                 [version |-> @.version + 1, active |-> wish[w].active]]
                /\ item' = [item EXCEPT ![r] = IF contact[c].active /\ ~wish[w].active
                                                 THEN Deactivated(r, c) ELSE Guarded(r)]
                /\ Leave(w) /\ UNCHANGED <<capability, deal, told>>
           ELSE Refuse(w)

WriteCapability(w) ==
  /\ place[w] = "write skill"
  /\ LET k == wish[w].capability ends == EndsOf[k]
     IN  IF /\ Current(w) /\ item[ends[2]].version = second[w]
            /\ capability[k] = wish[w].version
           THEN /\ capability' = [capability EXCEPT ![k] = @ + 1]
                /\ item' = [item EXCEPT ![ends[1]] = Guarded(ends[1]),
                                        ![ends[2]] = Guarded(ends[2])]
                /\ Leave(w) /\ UNCHANGED <<contact, deal, told>>
           ELSE Refuse(w)

WriteDeal(w) ==
  /\ place[w] = "write deal"
  /\ LET l == wish[w].on
     IN  IF Current(w) /\ DealOf(l) = None
           THEN \E d \in Deals :
                  /\ deal[d] = None
                  /\ deal' = [deal EXCEPT ![d] = l]
                  /\ told' = [told EXCEPT ![l] = @ \cup {d}]
                  /\ item' = [item EXCEPT ![l] = Guarded(l)]
                  /\ Leave(w) /\ UNCHANGED <<contact, capability>>
           ELSE Advance(w, "again")

-----------------------------------------------------------------------------
Call(w) ==
  \/ WantRecord(w) \/ WantContact(w) \/ WantCapability(w) \/ WantDeal(w)
  \/ WantLinks(w) \/ WantPatch(w) \/ LoadItem(w)
  \/ FindRecord(w) \/ InheritLinks(w) \/ InheritDeal(w) \/ CheckParent(w)
  \/ LinkCustomer(w) \/ LinkContact(w) \/ LinkProduct(w) \/ LinkPrimary(w) \/ LinkDeal(w)
  \/ QuoteLead(w) \/ QuoteDeal(w) \/ CheckHistory(w) \/ CheckPeers(w)
  \/ ReadPerson(w) \/ ReadItsProduct(w) \/ ReadSkill(w) \/ ReadItsDeal(w) \/ ReadDealAgain(w)
  \/ WriteItem(w) \/ InsertItem(w) \/ WriteContact(w) \/ WriteCapability(w) \/ WriteDeal(w)
  \/ LoseCaller(w)
RelationsNext == \E w \in Callers : Call(w)
RelationsSpec == RelationsInit /\ [][RelationsNext]_relationsVars

-----------------------------------------------------------------------------
Conditions == {"none", "new", "live", "deleted"}
QuoteStatuses == {"open", "Approved", "Accepted"}
ItemRow == [is: Conditions, version: Nat, stamp: Nat, status: QuoteStatuses,
            parent: OrNone(Of({"leads"})), customer: OrNone(Of({"customers"})),
            contact: OrNone(Contacts), product: OrNone(Of({"products"})),
            primary: OrNone(Contacts), deal: OrNone(Deals),
            shows: [of: OrNone(Contacts), rev: Nat]]
Places == {"idle", "find", "load", "lead", "inherit deal", "customer", "contact", "product",
           "primary", "link deal", "parent", "write", "quote lead", "quote deal", "history",
           "peers", "person", "write person", "its product", "skill", "write skill",
           "its deal", "write deal", "again"}
RelationsTypeOK ==
  /\ item \in [Items -> ItemRow]
  /\ contact \in [Contacts -> [version: Nat, active: BOOLEAN]]
  /\ capability \in [Capabilities -> Nat]
  /\ deal \in [Deals -> OrNone(Of({"leads"}))]
  /\ told \in [Of({"leads"}) -> SUBSET Deals]
  /\ place \in [Callers -> Places]
  /\ wish \in [Callers -> Wishes \cup {NoWish}]
  /\ held \in [Callers -> ItemRow] /\ draft \in [Callers -> ItemRow]
  /\ second \in [Callers -> Nat]

\* "Primary contact must be active and belong to its parent; deactivation clears
\* the primary link atomically."
PrimariesStand == \A r \in Items : LET c == item[r].primary IN
  c # None => Known(c) /\ HomeOf[c] = r /\ contact[c].active

\* "contactId must belong to that customer", and the words a document shows are
\* words of the contact it names, never of the one before.
LinksAgree == \A r \in Items : LET x == item[r] IN
  x.contact # None =>
    /\ HomeOf[x.contact] = x.customer
    /\ x.shows.of = x.contact /\ x.shows.rev \in 1..contact[x.contact].version

\* A deletion that found no history leaves none behind: whatever was being added
\* to the record meanwhile was judged on a row that is no longer the same.
NothingIsOrphaned == \A r \in Items : item[r].is = "deleted" => ~HasPeople(r)

\* "unique leadId": a lead has one deal, everybody was told the same, and a
\* quotation names the deal of its own lead.
DealsAreUnique ==
  /\ \A d, e \in Deals : deal[d] = deal[e] /\ deal[d] # None => d = e
  /\ \A l \in Of({"leads"}) : \A d \in told[l] : deal[d] = l
  /\ \A r \in Items : item[r].deal # None => deal[item[r].deal] = item[r].parent

RelationsHold == PrimariesStand /\ LinksAgree /\ NothingIsOrphaned /\ DealsAreUnique

\* Nobody is linked to a contact that has left, however long ago the choice was
\* made, and a document never goes back to older words of its contact.
Chosen(r) == LET x == item[r] y == item'[r] IN
  y.contact # None =>
    IF y.contact # x.contact THEN contact'[y.contact].active
                             ELSE y.shows.rev >= x.shows.rev
ChoicesAreCurrent == [][\A r \in Items : Chosen(r)]_<<item, contact>>
=============================================================================
