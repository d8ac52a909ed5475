--------------------------- MODULE RelationsProofs ---------------------------
(* Contacts, capabilities, deals and links, for any records, contacts and number *)
(* of overlapping commands.                                                      *)
EXTENDS Relations, TLAPS

Resolving == {"customer", "contact", "product", "primary", "link deal", "parent", "write"}

\* A caller is where its command takes it.
Where(w) == place[w] = "idle" \/
  /\ wish[w] \in Wishes /\ wish[w].on \in Items
  /\ wish[w].do = "create" =>
       /\ Fits(wish[w]) /\ wish[w].main \in OrNone(Contacts)
       /\ place[w] \in {"find", "lead", "inherit deal"} \cup Resolving
  /\ wish[w].do = "contact" =>
       /\ wish[w].contact \in Contacts /\ HomeOf[wish[w].contact] = wish[w].on
       /\ place[w] \in {"load", "person", "write person"}
  /\ wish[w].do = "capability" =>
       /\ wish[w].capability \in Capabilities /\ EndsOf[wish[w].capability][1] = wish[w].on
       /\ place[w] \in {"load", "its product", "skill", "write skill"}
  /\ wish[w].do = "deal" =>
       /\ wish[w].on \in Of({"leads"})
       /\ place[w] \in {"load", "its deal", "write deal", "again"}
  /\ wish[w].do \in {"links", "edit"} => place[w] \in {"load"} \cup Resolving
  /\ wish[w].do = "delete" => place[w] \in {"load", "history", "peers", "write"}
  /\ wish[w].do = "status" => place[w] \in {"load", "quote lead", "quote deal", "write"}

\* The words a row shows are of its contact, and its deal is its lead's.
Shown(x) == x.contact # None =>
  x.shows.of = x.contact /\ x.shows.rev \in 1..contact[x.contact].version
Dealt(x) == x.deal # None => x.parent # None /\ deal[x.deal] = x.parent

\* What a caller read is the row as it stands, or an older version of it.
Begun(w) == place[w] \notin {"idle", "load"} /\ wish[w].do # "create"
Reading(w) == Begun(w) =>
  /\ item[wish[w].on].is # "none"
  /\ held[w].is = "live" /\ Shown(held[w]) /\ Dealt(held[w])
  /\ held[w].version <= item[wish[w].on].version
  /\ Current(w) => item[wish[w].on] = held[w]

\* What a caller will write, from the links it has checked.
Checked == {"product", "primary", "link deal", "parent", "write", "quote lead", "quote deal"}
Drawn(w) ==
  /\ place[w] \notin {"idle", "load", "find"} => Dealt(draft[w])
  /\ place[w] \in {"lead", "inherit deal", "quote lead", "quote deal"} => draft[w].parent # None
  /\ place[w] = "contact" => draft[w].contact # None
  /\ place[w] \in Checked => Shown(draft[w])
  /\ Begun(w) =>
       /\ draft[w].is \in {"live", "deleted"}
       /\ draft[w].is = "deleted" => place[w] = "write" /\ wish[w].do = "delete"
       /\ wish[w].do = "edit" => draft[w].contact = held[w].contact
       /\ place[w] \in Checked /\ Current(w) /\ draft[w].contact # None
          /\ draft[w].contact = held[w].contact => draft[w].shows.rev >= held[w].shows.rev

\* A deletion that found nobody finds nobody while the row has not changed; the
\* product of a capability is the one that was read while it has not.
Alone(w) == Begun(w) /\ wish[w].do = "delete" /\ place[w] \in {"peers", "write"} =>
  (Current(w) => ~HasPeople(wish[w].on))
Paired(w) == place[w] \in {"skill", "write skill"} =>
  LET p == EndsOf[wish[w].capability][2]
  IN  /\ item[p].is # "none" /\ second[w] <= item[p].version
      /\ second[w] = item[p].version => Live(p)

CallerInv(w) == Where(w) /\ Reading(w) /\ Drawn(w) /\ Alone(w) /\ Paired(w)
RowInv(r) ==
  /\ item[r].is = "none" => item[r] = Absent
  /\ item[r].is # "new" /\ Dealt(item[r])
RelationsInv ==
  /\ RelationsTypeOK /\ RelationsHold
  /\ \A r \in Items : RowInv(r)
  /\ \A w \in Callers : CallerInv(w)

-----------------------------------------------------------------------------
(* Initial states and rows *)

LEMMA AbsentRow == Absent \in ItemRow
BY DEF Absent, ItemRow, Conditions, QuoteStatuses, Nothing, OrNone

LEMMA RelationsInitInv == RelationsInit => RelationsInv
<1> SUFFICES ASSUME RelationsInit PROVE RelationsInv
  OBVIOUS
<1>1. RelationsTypeOK
  BY AbsentRow DEF RelationsInit, RelationsTypeOK, Nobody, Places, OrNone
<1>2. RelationsHold
  <2>1. \A r \in Items : item[r].primary = None /\ item[r].contact = None
                          /\ item[r].is = "none" /\ item[r].deal = None
    BY DEF RelationsInit, Absent
  <2>2. \A d \in Deals : deal[d] = None
    BY DEF RelationsInit
  <2>3. \A l \in Of({"leads"}) : told[l] = {}
    BY DEF RelationsInit
  <2> QED BY <2>1, <2>2, <2>3
       DEF RelationsHold, PrimariesStand, LinksAgree, NothingIsOrphaned, DealsAreUnique
<1>3. \A r \in Items : RowInv(r)
  BY DEF RelationsInit, RowInv, Dealt, Absent
<1>4. \A w \in Callers : CallerInv(w)
  BY DEF RelationsInit, CallerInv, Where, Reading, Drawn, Alone, Paired, Begun, Checked
<1> QED BY <1>1, <1>2, <1>3, <1>4 DEF RelationsInv

\* What commands do to a row keeps it a row.
LEMMA RowsStayRows ==
  ASSUME NEW x \in ItemRow
  PROVE  /\ x.shows \in [of: OrNone(Contacts), rev: Nat]
         /\ \A s \in [of: OrNone(Contacts), rev: Nat] : [x EXCEPT !.shows = s] \in ItemRow
         /\ \A d \in OrNone(Deals) : [x EXCEPT !.deal = d] \in ItemRow
         /\ \A v \in Nat : [x EXCEPT !.version = v] \in ItemRow
         /\ \A c \in OrNone(Contacts) : [x EXCEPT !.primary = c] \in ItemRow
         /\ \A s \in QuoteStatuses :
              [x EXCEPT !.stamp = @ + 1, !.status = s] \in ItemRow
         /\ [x EXCEPT !.version = @ + 1] \in ItemRow
         /\ [x EXCEPT !.version = @ + 1, !.stamp = @ + 1, !.primary = None] \in ItemRow
         /\ [x EXCEPT !.is = "deleted", !.stamp = @ + 1] \in ItemRow
         /\ [x EXCEPT !.is = "live", !.version = 1, !.stamp = 1] \in ItemRow
         /\ Retyped(x) \in ItemRow
<1>0. x.stamp + 1 \in Nat /\ x.version + 1 \in Nat
  BY DEF ItemRow
<1>1. x.shows \in [of: OrNone(Contacts), rev: Nat]
  BY DEF ItemRow
<1>2. \A s \in [of: OrNone(Contacts), rev: Nat] : [x EXCEPT !.shows = s] \in ItemRow
  BY DEF ItemRow
<1>3. \A d \in OrNone(Deals) : [x EXCEPT !.deal = d] \in ItemRow
  BY DEF ItemRow
<1>4. \A v \in Nat : [x EXCEPT !.version = v] \in ItemRow
  BY DEF ItemRow
<1>5. \A c \in OrNone(Contacts) : [x EXCEPT !.primary = c] \in ItemRow
  BY DEF ItemRow
<1>6. \A s \in QuoteStatuses :
        [x EXCEPT !.stamp = @ + 1, !.status = s] \in ItemRow
  BY <1>0 DEF ItemRow
<1>7. [x EXCEPT !.version = @ + 1] \in ItemRow
  BY <1>0 DEF ItemRow
<1>8. [x EXCEPT !.version = @ + 1, !.stamp = @ + 1, !.primary = None] \in ItemRow
  <2>1. None \in OrNone(Contacts)
    BY DEF OrNone
  <2> QED BY <1>0, <2>1 DEF ItemRow
<1>9. [x EXCEPT !.is = "deleted", !.stamp = @ + 1] \in ItemRow
  <2>1. "deleted" \in Conditions
    BY DEF Conditions
  <2> QED BY <1>0, <2>1 DEF ItemRow
<1>10. [x EXCEPT !.is = "live", !.version = 1, !.stamp = 1] \in ItemRow
  <2>1. "live" \in Conditions
    BY DEF Conditions
  <2> QED BY <1>0, <2>1 DEF ItemRow
<1>11. Retyped(x) \in ItemRow
  <2>1. Nothing \in [of: OrNone(Contacts), rev: Nat]
    BY DEF Nothing, OrNone
  <2> QED BY <1>0, <2>1 DEF ItemRow, Retyped
<1> QED BY <1>1, <1>2, <1>3, <1>4, <1>5, <1>6, <1>7, <1>8, <1>9, <1>10, <1>11

\* A command says which kind it is.
LEMMA WishKinds ==
  ASSUME NEW c \in Wishes
  PROVE  /\ c.do = "create" => c \in NewRecords
         /\ c.do = "contact" => c \in People
         /\ c.do = "capability" => c \in Skills
         /\ c.do = "deal" => c \in Openings
         /\ c.do = "links" => c \in Linkings
         /\ c.do \in {"edit", "delete"} => c \in Patches
         /\ c.do = "status" => c \in Moves
         /\ c.do \in {"create", "contact", "capability", "deal", "links", "edit", "delete", "status"}
         /\ c.on \in Items
BY RelationKinds DEF Wishes, NewRecords, People, Skills, Openings, Linkings, Patches, Moves, Of, Masters

\* The awaits of resolveLinks that are still to come.
LEMMA NextLink ==
  ASSUME NEW d
  PROVE  /\ FromParent(d) \in {"parent", "write"}
         /\ FromDeal(d) \in {"link deal", "parent", "write"}
         /\ FromPrimary(d) \in {"primary", "link deal", "parent", "write"}
         /\ FromProduct(d) \in {"product", "primary", "link deal", "parent", "write"}
         /\ FromContact(d) \in {"contact", "product", "primary", "link deal", "parent", "write"}
         /\ FromContact(d) = "contact" <=> d.contact # None
         /\ FromCustomer(d) \in Resolving
         /\ FromCustomer(d) = "contact" => d.contact # None
         /\ FromCustomer(d) \notin {"customer", "contact"} => d.contact = None
BY DEF FromParent, FromDeal, FromPrimary, FromProduct, FromContact, FromCustomer, Resolving

-----------------------------------------------------------------------------
(* Steps that only read *)

OwnTypes ==
  /\ place \in [Callers -> Places]
  /\ wish \in [Callers -> Wishes \cup {NoWish}]
  /\ held \in [Callers -> ItemRow] /\ draft \in [Callers -> ItemRow]
  /\ second \in [Callers -> Nat]
Same(v) == /\ place'[v] = place[v] /\ wish'[v] = wish[v] /\ held'[v] = held[v]
           /\ draft'[v] = draft[v] /\ second'[v] = second[v]

\* A caller looks at the tables and at what is its own.
LEMMA SameCaller ==
  ASSUME NEW v \in Callers, CallerInv(v), Same(v), UNCHANGED <<item, contact, capability, deal>>
  PROVE  CallerInv(v)'
<1>1. item' = item /\ contact' = contact /\ capability' = capability /\ deal' = deal
  OBVIOUS
<1>2. Where(v)'
  BY DEF CallerInv, Where, Same
<1>3. Reading(v)'
  BY <1>1 DEF CallerInv, Reading, Same, Begun, Shown, Dealt, Current
<1>4. Drawn(v)'
  BY <1>1 DEF CallerInv, Drawn, Same, Begun, Shown, Dealt, Current
<1>5. Alone(v)'
  BY <1>1 DEF CallerInv, Alone, Same, Begun, Current, HasPeople, Known
<1>6. Paired(v)'
  BY <1>1 DEF CallerInv, Paired, Same, Live
<1> QED BY <1>2, <1>3, <1>4, <1>5, <1>6 DEF CallerInv

LEMMA ReadKeeps ==
  ASSUME RelationsInv, NEW w \in Callers, UNCHANGED tables, OwnTypes',
         \A v \in Callers \ {w} : Same(v), CallerInv(w)'
  PROVE  RelationsInv'
<1>1. item' = item /\ contact' = contact /\ capability' = capability /\ deal' = deal /\ told' = told
  BY DEF tables
<1>2. RelationsTypeOK'
  BY <1>1 DEF RelationsInv, RelationsTypeOK, OwnTypes
<1>3. RelationsHold'
  BY <1>1 DEF RelationsInv, RelationsHold, PrimariesStand, LinksAgree, NothingIsOrphaned,
              DealsAreUnique, HasPeople, Known
<1>4. \A r \in Items : RowInv(r)'
  BY <1>1 DEF RelationsInv, RowInv, Dealt
<1>5. \A v \in Callers : CallerInv(v)'
  BY <1>1, SameCaller DEF RelationsInv
<1> QED BY <1>2, <1>3, <1>4, <1>5 DEF RelationsInv

\* Leaving is always right.
LEMMA LeaveTypes ==
  ASSUME RelationsInv, NEW w \in Callers, Leave(w)
  PROVE  OwnTypes' /\ CallerInv(w)' /\ \A v \in Callers \ {w} : Same(v)
<1>1. OwnTypes'
  BY AbsentRow DEF Leave, OwnTypes, RelationsInv, RelationsTypeOK, Places
<1>2. place'[w] = "idle"
  BY DEF Leave, RelationsInv, RelationsTypeOK
<1>3. CallerInv(w)'
  BY <1>2 DEF CallerInv, Where, Reading, Drawn, Alone, Paired, Begun, Checked
<1>4. \A v \in Callers \ {w} : Same(v)
  BY DEF Leave, Same, RelationsInv, RelationsTypeOK
<1> QED BY <1>1, <1>3, <1>4

LEMMA RefuseKeeps ==
  ASSUME RelationsInv, NEW w \in Callers, Refuse(w)
  PROVE  RelationsInv'
BY LeaveTypes, ReadKeeps DEF Refuse

\* Advance is Carry with the draft as it is.
LEMMA CarryTypes ==
  ASSUME RelationsInv, NEW w \in Callers, NEW d \in ItemRow, NEW label \in Places, Carry(w, d, label)
  PROVE  /\ OwnTypes' /\ UNCHANGED tables /\ \A v \in Callers \ {w} : Same(v)
         /\ place'[w] = label /\ draft'[w] = d
         /\ wish'[w] = wish[w] /\ held'[w] = held[w] /\ second'[w] = second[w]
BY DEF Carry, OwnTypes, Same, RelationsInv, RelationsTypeOK

LEMMA AdvanceCarries ==
  ASSUME RelationsInv, NEW w \in Callers, NEW label \in Places, Advance(w, label)
  PROVE  Carry(w, draft[w], label) /\ draft[w] \in ItemRow
BY DEF Advance, Carry, RelationsInv, RelationsTypeOK

\* A command about to be carried out, whose caller asked for it.
LEMMA CallerFacts ==
  ASSUME RelationsInv, NEW w \in Callers, place[w] # "idle"
  PROVE  /\ CallerInv(w) /\ wish[w] \in Wishes /\ wish[w].on \in Items
         /\ item[wish[w].on] \in ItemRow /\ held[w] \in ItemRow /\ draft[w] \in ItemRow
         /\ wish[w].do \in {"create", "contact", "capability", "deal", "links", "edit", "delete", "status"}
BY WishKinds DEF RelationsInv, CallerInv, Where, RelationsTypeOK


\* Whoever asks has read nothing yet.
LEMMA WantKeeps ==
  ASSUME RelationsInv, NEW w \in Callers, NEW c \in Wishes, NEW label \in {"find", "load"},
         Want(w, c, label), c.do = "create" <=> label = "find",
         c.do = "create" => Fits(c),
         c.do = "contact" => HomeOf[c.contact] = c.on,
         c.do = "capability" => EndsOf[c.capability][1] = c.on
  PROVE  RelationsInv'
<1>1. /\ place'[w] = label /\ wish'[w] = c
      /\ OwnTypes' /\ UNCHANGED tables /\ \A v \in Callers \ {w} : Same(v)
  BY DEF Want, OwnTypes, Same, RelationsInv, RelationsTypeOK, Places
<1>2. Where(w)'
  <2>1. /\ c.do = "create" => c.main \in OrNone(Contacts)
        /\ c.do = "contact" => c.contact \in Contacts
        /\ c.do = "capability" => c.capability \in Capabilities
        /\ c.do = "deal" => c.on \in Of({"leads"})
        /\ c.on \in Items
    BY WishKinds DEF NewRecords, People, Skills, Openings
  <2>2. c.do = "create" => Fits(wish[w])'
    BY <1>1 DEF Fits
  <2> QED BY <1>1, <2>1, <2>2 DEF Where
<1>3. Reading(w)' /\ Drawn(w)' /\ Alone(w)' /\ Paired(w)'
  BY <1>1 DEF Reading, Drawn, Alone, Paired, Begun, Checked
<1> QED BY <1>1, <1>2, <1>3, ReadKeeps DEF CallerInv

LEMMA AskingKeeps ==
  ASSUME RelationsInv, NEW w \in Callers,
         WantRecord(w) \/ WantContact(w) \/ WantCapability(w) \/ WantDeal(w)
           \/ WantLinks(w) \/ WantPatch(w)
  PROVE  RelationsInv'
<1>1. CASE WantRecord(w)
  BY <1>1, WantKeeps DEF WantRecord, NewRecords, Wishes
<1>2. CASE WantContact(w)
  <2>1. PICK c \in Contacts, active \in BOOLEAN :
          Want(w, [do |-> "contact", on |-> HomeOf[c], contact |-> c,
                   version |-> contact[c].version, active |-> active], "load")
    BY <1>2 DEF WantContact
  <2>2. [do |-> "contact", on |-> HomeOf[c], contact |-> c,
         version |-> contact[c].version, active |-> active] \in People
    BY RelationKinds DEF People, RelationsInv, RelationsTypeOK
  <2> QED BY <2>1, <2>2, WantKeeps DEF Wishes
<1>3. CASE WantCapability(w)
  <2>1. PICK k \in Capabilities :
          Want(w, [do |-> "capability", on |-> EndsOf[k][1], capability |-> k,
                   version |-> capability[k]], "load")
    BY <1>3 DEF WantCapability
  <2>2. [do |-> "capability", on |-> EndsOf[k][1], capability |-> k,
         version |-> capability[k]] \in Skills
    BY RelationKinds DEF Skills, RelationsInv, RelationsTypeOK
  <2> QED BY <2>1, <2>2, WantKeeps DEF Wishes
<1>4. CASE WantDeal(w)
  BY <1>4, WantKeeps DEF WantDeal, Openings, Wishes
<1>5. CASE WantLinks(w)
  <2>1. PICK r \in Items, cu \in Choice(Of({"customers"})), co \in Choice(Contacts),
             pr \in Choice(Of({"products"})), pc \in Choice(Contacts) :
          Want(w, [do |-> "links", on |-> r, stamp |-> item[r].stamp, customer |-> cu,
                   contact |-> co, product |-> pr, primary |-> pc], "load")
    BY <1>5 DEF WantLinks
  <2>2. item[r].stamp \in Nat
    BY DEF RelationsInv, RelationsTypeOK, ItemRow
  <2>3. [do |-> "links", on |-> r, stamp |-> item[r].stamp, customer |-> cu,
         contact |-> co, product |-> pr, primary |-> pc] \in Linkings
    BY <2>2 DEF Linkings
  <2> DEFINE c == [do |-> "links", on |-> r, stamp |-> item[r].stamp, customer |-> cu,
                   contact |-> co, product |-> pr, primary |-> pc]
  <2>4. c \in Wishes /\ c.do = "links" /\ Want(w, c, "load")
    BY <2>1, <2>3 DEF Wishes
  <2> HIDE DEF c
  <2> QED BY <2>4, WantKeeps
<1>6. CASE WantPatch(w)
  <2>1. CASE \E r \in Items, do \in {"edit", "delete"} :
               Want(w, [do |-> do, on |-> r, stamp |-> item[r].stamp], "load")
    <3>1. PICK r \in Items, do \in {"edit", "delete"} :
            Want(w, [do |-> do, on |-> r, stamp |-> item[r].stamp], "load")
      BY <2>1
    <3>2. [do |-> do, on |-> r, stamp |-> item[r].stamp] \in Patches
      BY DEF Patches, RelationsInv, RelationsTypeOK, ItemRow
    <3> QED BY <3>1, <3>2, WantKeeps DEF Wishes
  <2>2. CASE \E c \in Moves : Want(w, c, "load")
    BY <2>2, WantKeeps DEF Moves, Wishes
  <2> QED BY <1>6, <2>1, <2>2 DEF WantPatch
<1> QED BY <1>1, <1>2, <1>3, <1>4, <1>5, <1>6

\* What a caller must know of the draft it goes on with while it resolves links.
Resolved(w, d, label) ==
  /\ Dealt(d) /\ d.is = draft[w].is
  /\ label = "contact" => d.contact # None
  /\ label \notin {"customer", "contact"} => Shown(d)
  /\ wish[w].do = "edit" => d.contact = held[w].contact
  /\ Begun(w) /\ label \notin {"customer", "contact"} /\ Current(w)
     /\ d.contact # None /\ d.contact = held[w].contact => d.shows.rev >= held[w].shows.rev

LEMMA ResolvingKeeps ==
  ASSUME RelationsInv, NEW w \in Callers, place[w] \in Resolving \ {"write"},
         NEW d \in ItemRow, NEW label \in Resolving, Carry(w, d, label), Resolved(w, d, label)
  PROVE  RelationsInv'
<1>1. label \in Places /\ CallerInv(w)
  BY CallerFacts DEF Resolving, Places
<1>2. /\ OwnTypes' /\ UNCHANGED tables /\ \A v \in Callers \ {w} : Same(v)
      /\ place'[w] = label /\ draft'[w] = d
      /\ wish'[w] = wish[w] /\ held'[w] = held[w] /\ second'[w] = second[w]
  BY <1>1, CarryTypes
<1>3. item' = item /\ contact' = contact /\ capability' = capability /\ deal' = deal
  BY <1>2 DEF tables
<1>4. wish[w].do \in {"create", "links", "edit"} /\ (Begun(w) <=> wish[w].do # "create")
      /\ (Begun(w)' <=> wish[w].do # "create")
  BY <1>1, <1>2, CallerFacts DEF CallerInv, Where, Begun, Resolving
<1>5. Where(w)'
  BY <1>1, <1>2, <1>4 DEF CallerInv, Where, Resolving, Fits
<1>6. Reading(w)'
  BY <1>1, <1>2, <1>3, <1>4 DEF CallerInv, Reading, Current, Shown, Dealt
<1>7. Drawn(w)'
  <2>1. Dealt(draft[w])' /\ (label \notin {"customer", "contact"} => Shown(draft[w])')
    BY <1>2, <1>3 DEF Resolved, Dealt, Shown
  <2>2. Begun(w) => d.is = "live"
    BY <1>1 DEF CallerInv, Drawn, Resolved
  <2>3. Current(w)' <=> Current(w)
    BY <1>2, <1>3 DEF Current
  <2> QED BY <1>2, <1>4, <2>1, <2>2, <2>3 DEF Drawn, Resolved, Resolving, Checked
<1>8. Alone(w)' /\ Paired(w)'
  BY <1>2, <1>4 DEF Alone, Paired, Resolving
<1> QED BY <1>2, <1>5, <1>6, <1>7, <1>8, ReadKeeps DEF CallerInv

\* A draft that goes on as it is, from a place where its links have been checked.
LEMMA GoesOn ==
  ASSUME RelationsInv, NEW w \in Callers, place[w] \in Resolving \ {"write"},
         NEW label \in Resolving, Advance(w, label), label = "contact" => draft[w].contact # None,
         place[w] \in {"customer", "contact"} => label = "contact" \/ draft[w].contact = None,
         label # "customer"
  PROVE  RelationsInv'
<1>1. Carry(w, draft[w], label) /\ CallerInv(w) /\ draft[w] \in ItemRow
  BY AdvanceCarries, CallerFacts DEF Resolving, Places
<1>2. wish[w].do \in {"create", "links", "edit"}
  BY CallerFacts DEF CallerInv, Where, Resolving
<1>3. Dealt(draft[w]) /\ (wish[w].do = "edit" => draft[w].contact = held[w].contact)
  BY <1>1, <1>2 DEF CallerInv, Drawn, Resolving, Begun
<1>4. label # "contact" => Shown(draft[w])
  BY <1>1 DEF CallerInv, Drawn, Resolving, Checked, Shown
<1>5. Begun(w) /\ label # "contact" /\ Current(w) /\ draft[w].contact # None
        /\ draft[w].contact = held[w].contact => draft[w].shows.rev >= held[w].shows.rev
  BY <1>1 DEF CallerInv, Drawn, Resolving, Checked
<1>6. Resolved(w, draft[w], label)
  BY <1>3, <1>4, <1>5 DEF Resolved
<1> QED BY <1>1, <1>6, ResolvingKeeps

\* resolveSnapshotEdit gives an edit the words it had.
LEMMA MissingKeeps ==
  ASSUME RelationsInv, NEW w \in Callers, place[w] \in Resolving \ {"write"}, Missing(w)
  PROVE  RelationsInv'
<1>1. CASE wish[w].do # "edit"
  BY <1>1, RefuseKeeps DEF Missing
<1>2. CASE wish[w].do = "edit"
  <2> DEFINE d == [draft[w] EXCEPT !.shows = held[w].shows]
  <2>1. Carry(w, d, "write")
    BY <1>2 DEF Missing
  <2>2. CallerInv(w) /\ draft[w] \in ItemRow /\ held[w] \in ItemRow
    BY CallerFacts DEF Resolving
  <2>3. d \in ItemRow
    BY <2>2, RowsStayRows
  <2>4. /\ d.is = draft[w].is /\ d.contact = draft[w].contact /\ d.deal = draft[w].deal
        /\ d.parent = draft[w].parent /\ d.shows = held[w].shows
    BY <2>2 DEF ItemRow
  <2>5. /\ Dealt(draft[w]) /\ draft[w].contact = held[w].contact /\ Shown(held[w])
    BY <1>2, <2>2 DEF CallerInv, Drawn, Reading, Begun, Resolving
  <2>6. held[w].shows.rev \in Nat
    BY <2>2 DEF ItemRow
  <2> HIDE DEF d
  <2>7. Resolved(w, d, "write")
    BY <2>4, <2>5, <2>6 DEF Resolved, Dealt, Shown
  <2> QED BY <2>1, <2>3, <2>7, ResolvingKeeps DEF Resolving
<1> QED BY <1>1, <1>2

LEMMA LinkingKeeps ==
  ASSUME RelationsInv, NEW w \in Callers,
         LinkCustomer(w) \/ LinkContact(w) \/ LinkProduct(w) \/ LinkPrimary(w)
           \/ LinkDeal(w) \/ CheckParent(w)
  PROVE  RelationsInv'
<1> DEFINE d == draft[w]
<1>1. CASE LinkCustomer(w)
  BY <1>1, GoesOn, MissingKeeps, RefuseKeeps, NextLink DEF LinkCustomer, Resolving
<1>2. CASE LinkContact(w)
  <2> DEFINE c == d.contact
             e == [d EXCEPT !.shows = [of |-> c, rev |-> contact[c].version]]
  <2>1. CASE ~MayName(w, c)
    BY <1>2, <2>1, RefuseKeeps DEF LinkContact
  <2>2. CASE MayName(w, c)
    <3>1. Carry(w, e, FromProduct(e)) /\ place[w] = "contact"
      BY <1>2, <2>2 DEF LinkContact
    <3>2. CallerInv(w) /\ d \in ItemRow /\ held[w] \in ItemRow
      BY <3>1, CallerFacts
    <3>3. c \in Contacts /\ contact[c].version \in Nat /\ contact[c].version > 0
      BY <2>2, <3>1, <3>2
         DEF CallerInv, Drawn, ItemRow, OrNone, MayName, Known, RelationsInv, RelationsTypeOK
    <3>4. [of |-> c, rev |-> contact[c].version] \in [of: OrNone(Contacts), rev: Nat]
      BY <3>3 DEF OrNone
    <3>5. e \in ItemRow
      BY <3>2, <3>4, RowsStayRows
    <3>6. /\ e.is = d.is /\ e.contact = c /\ e.deal = d.deal /\ e.parent = d.parent
          /\ e.shows.of = c /\ e.shows.rev = contact[c].version
      BY <3>2 DEF ItemRow
    <3>7. Dealt(d) /\ (Begun(w) => Shown(held[w]))
          /\ (wish[w].do = "edit" => c = held[w].contact)
      BY <3>1, <3>2 DEF CallerInv, Drawn, Reading, Begun
    <3> HIDE DEF e
    <3>8. FromProduct(e) \in Resolving \ {"customer", "contact"}
      BY NextLink DEF Resolving
    <3>9. Dealt(e) /\ Shown(e)
      BY <3>3, <3>6, <3>7 DEF Dealt, Shown
    <3>10. Begun(w) /\ e.contact = held[w].contact => e.shows.rev >= held[w].shows.rev
      BY <3>3, <3>6, <3>7, NoneIsNobody DEF Shown
    <3>11. Resolved(w, e, FromProduct(e))
      BY <3>6, <3>7, <3>8, <3>9, <3>10 DEF Resolved
    <3>12. place[w] \in Resolving \ {"write"}
      BY <3>1 DEF Resolving
    <3> QED BY <3>1, <3>5, <3>8, <3>11, <3>12, ResolvingKeeps
  <2> QED BY <2>1, <2>2
<1>3. CASE LinkProduct(w)
  BY <1>3, GoesOn, MissingKeeps, NextLink DEF LinkProduct, Resolving
<1>4. CASE LinkPrimary(w)
  BY <1>4, GoesOn, RefuseKeeps, NextLink DEF LinkPrimary, Resolving
<1>5. CASE LinkDeal(w)
  BY <1>5, GoesOn, MissingKeeps, RefuseKeeps, NextLink DEF LinkDeal, Resolving
<1>6. CASE CheckParent(w)
  BY <1>6, GoesOn, RefuseKeeps DEF CheckParent, Resolving
<1> QED BY <1>1, <1>2, <1>3, <1>4, <1>5, <1>6

\* A lead has the deal that names it, or none.
LEMMA DealOfLead ==
  ASSUME RelationsTypeOK, NEW l
  PROVE  /\ DealOf(l) # None => DealOf(l) \in Deals /\ deal[DealOf(l)] = l
         /\ DealOf(l) = None => \A d \in Deals : deal[d] # l
         /\ DealOf(l) \in OrNone(Deals)
<1>1. CASE \E d \in Deals : deal[d] = l
  <2>1. DealOf(l) = CHOOSE d \in Deals : deal[d] = l
    BY <1>1 DEF DealOf
  <2>2. DealOf(l) \in Deals /\ deal[DealOf(l)] = l
    BY <1>1, <2>1
  <2> QED BY <2>2, NoneIsNobody DEF OrNone
<1>2. CASE ~\E d \in Deals : deal[d] = l
  BY <1>2 DEF DealOf, OrNone
<1> QED BY <1>1, <1>2

LEMMA CreatingKeeps ==
  ASSUME RelationsInv, NEW w \in Callers, place[w] \in {"find", "lead", "inherit deal"},
         NEW d \in ItemRow, NEW label \in {"lead", "inherit deal"} \cup Resolving,
         Carry(w, d, label), Dealt(d),
         label \in {"lead", "inherit deal"} => d.parent # None,
         label = "contact" => d.contact # None,
         label \notin {"lead", "inherit deal", "customer", "contact"} => d.contact = None
  PROVE  RelationsInv'
<1>1. label \in Places /\ CallerInv(w)
  BY CallerFacts DEF Resolving, Places
<1>2. /\ OwnTypes' /\ UNCHANGED tables /\ \A v \in Callers \ {w} : Same(v)
      /\ place'[w] = label /\ draft'[w] = d
      /\ wish'[w] = wish[w] /\ held'[w] = held[w] /\ second'[w] = second[w]
  BY <1>1, CarryTypes
<1>3. wish[w].do = "create"
  BY <1>1, CallerFacts DEF CallerInv, Where, Resolving
<1>4. Where(w)'
  BY <1>1, <1>2, <1>3 DEF CallerInv, Where, Fits
<1>5. Dealt(draft[w])' /\ (d.contact = None => Shown(draft[w])')
  BY <1>2 DEF Dealt, Shown, tables
<1>6. Reading(w)' /\ Alone(w)' /\ ~Begun(w)'
  BY <1>2, <1>3 DEF Reading, Alone, Begun
<1>7. Drawn(w)'
  BY <1>2, <1>5, <1>6 DEF Drawn, Checked, Resolving
<1>8. Paired(w)'
  BY <1>2 DEF Paired, Resolving
<1> QED BY <1>2, <1>4, <1>6, <1>7, <1>8, ReadKeeps DEF CallerInv

LEMMA NewRecordKeeps ==
  ASSUME RelationsInv, NEW w \in Callers, FindRecord(w) \/ InheritLinks(w) \/ InheritDeal(w)
  PROVE  RelationsInv'
<1> DEFINE x == draft[w]
<1>1. CASE FindRecord(w)
  <2> DEFINE d == Drafted(wish[w])
  <2>1. CallerInv(w) /\ wish[w] \in Wishes /\ place[w] = "find"
    BY <1>1, CallerFacts DEF FindRecord
  <2>2. wish[w] \in NewRecords
    BY <2>1, CallerFacts, WishKinds DEF CallerInv, Where, Resolving
  <2>3. d \in ItemRow
    <3>1. "new" \in Conditions /\ "open" \in QuoteStatuses /\ None \in OrNone(Contacts)
          /\ None \in OrNone(Deals) /\ Nothing \in [of: OrNone(Contacts), rev: Nat]
      BY DEF Conditions, QuoteStatuses, OrNone, Nothing
    <3> QED BY <2>2, <3>1 DEF Drafted, Absent, ItemRow, NewRecords
  <2>4. d.deal = None
    BY DEF Drafted, Absent
  <2> HIDE DEF d
  <2>5. CASE item[wish[w].on].is # "none"
    BY <1>1, <2>5, RefuseKeeps DEF FindRecord
  <2>6. CASE item[wish[w].on].is = "none"
    <3>1. Carry(w, d, IF d.parent # None THEN "lead" ELSE FromCustomer(d))
      BY <1>1, <2>6 DEF FindRecord, d
    <3>2. CASE d.parent # None
      BY <2>1, <2>3, <2>4, <3>1, <3>2, CreatingKeeps DEF Dealt
    <3>3. CASE d.parent = None
      <4>1. FromCustomer(d) \in Resolving \ {"lead", "inherit deal"}
        BY NextLink DEF Resolving
      <4> QED BY <2>1, <2>3, <2>4, <3>1, <3>3, <4>1, CreatingKeeps, NextLink DEF Dealt
    <3> QED BY <3>2, <3>3
  <2> QED BY <2>5, <2>6
<1>2. CASE InheritLinks(w)
  <2> DEFINE lead == item[x.parent]
             d == [x EXCEPT !.customer = Given(@, lead.customer),
                            !.contact = Given(@, lead.contact),
                            !.product = Given(@, lead.product)]
  <2>1. CallerInv(w) /\ x \in ItemRow /\ place[w] = "lead"
    BY <1>2, CallerFacts DEF InheritLinks
  <2>2. x.parent # None /\ Dealt(x)
    BY <2>1 DEF CallerInv, Drawn
  <2>3. CASE Carry(w, d, "inherit deal")
    <3>1. lead \in ItemRow
      BY <2>1, <2>2 DEF ItemRow, OrNone, Of, RelationsInv, RelationsTypeOK
    <3>2. /\ Given(x.customer, lead.customer) \in OrNone(Of({"customers"}))
          /\ Given(x.contact, lead.contact) \in OrNone(Contacts)
          /\ Given(x.product, lead.product) \in OrNone(Of({"products"}))
      BY <2>1, <3>1 DEF Given, ItemRow
    <3>3. d \in ItemRow /\ d.parent = x.parent /\ d.deal = x.deal
      BY <2>1, <3>2 DEF ItemRow
    <3> HIDE DEF d
    <3> QED BY <2>1, <2>2, <2>3, <3>3, CreatingKeeps DEF Dealt
  <2>4. CASE Refuse(w)
    BY <2>4, RefuseKeeps
  <2> QED BY <1>2, <2>3, <2>4 DEF InheritLinks
<1>3. CASE InheritDeal(w)
  <2> DEFINE d == [x EXCEPT !.deal = DealOf(x.parent)]
  <2>1. CallerInv(w) /\ x \in ItemRow /\ place[w] = "inherit deal" /\ Carry(w, d, FromCustomer(d))
    BY <1>3, CallerFacts DEF InheritDeal
  <2>2. x.parent # None
    BY <2>1 DEF CallerInv, Drawn
  <2>3. d \in ItemRow /\ d.parent = x.parent /\ d.deal = DealOf(x.parent)
    BY <2>1, DealOfLead, RowsStayRows DEF ItemRow, RelationsInv
  <2> HIDE DEF d
  <2>4. Dealt(d)
    BY <2>2, <2>3, DealOfLead DEF Dealt, RelationsInv
  <2>5. FromCustomer(d) \in Resolving \ {"lead", "inherit deal"}
    BY NextLink DEF Resolving
  <2> QED BY <2>1, <2>3, <2>4, <2>5, CreatingKeeps, NextLink
<1> QED BY <1>1, <1>2, <1>3

LEMMA NoLessThanItself == ASSUME NEW n \in Nat PROVE n <= n /\ n >= n
OBVIOUS

\* The first read of a command: what it knows of the row holds, as the row stands.
LEMMA BeginKeeps ==
  ASSUME RelationsInv, NEW w \in Callers, place[w] = "load", Live(wish[w].on),
         NEW d \in ItemRow, NEW label \in Places \ {"idle", "load", "find", "peers", "skill", "write skill"},
         Begin(w, item[wish[w].on], d, label), Where(w)',
         d.is = "live", d.deal = item[wish[w].on].deal, d.parent = item[wish[w].on].parent,
         label = "contact" => d.contact # None,
         label \in {"lead", "inherit deal", "quote lead", "quote deal"} => d.parent # None,
         label \in Checked => d.contact = None
           \/ (d.contact = item[wish[w].on].contact /\ d.shows = item[wish[w].on].shows),
         wish[w].do = "edit" => d.contact = item[wish[w].on].contact,
         wish[w].do = "delete" => label = "history"
  PROVE  RelationsInv'
<1> DEFINE r == wish[w].on
           x == item[r]
<1>1. /\ CallerInv(w) /\ wish[w] \in Wishes /\ r \in Items /\ x \in ItemRow
      /\ wish[w].do # "create"
  BY CallerFacts DEF CallerInv, Where, Resolving
<1>2. /\ OwnTypes' /\ UNCHANGED tables /\ \A v \in Callers \ {w} : Same(v)
      /\ place'[w] = label /\ held'[w] = x /\ draft'[w] = d
      /\ wish'[w] = wish[w] /\ second'[w] = second[w]
  BY <1>1 DEF Begin, OwnTypes, Same, RelationsInv, RelationsTypeOK
<1>3. item' = item /\ contact' = contact /\ capability' = capability /\ deal' = deal
  BY <1>2 DEF tables
<1>4. Dealt(x) /\ Shown(x) /\ x.is = "live" /\ x.version \in Nat
  BY <1>1 DEF RelationsInv, RowInv, RelationsHold, LinksAgree, Shown, Live, ItemRow
<1>5. Reading(w)'
  <2>1. Shown(held[w])' /\ Dealt(held[w])'
    BY <1>2, <1>3, <1>4 DEF Shown, Dealt
  <2>2. held'[w] = x /\ item'[wish'[w].on] = x /\ x.is = "live"
    BY <1>2, <1>3, <1>4
  <2>3. x.version <= x.version
    BY <1>4, NoLessThanItself
  <2> HIDE DEF x, r
  <2> QED BY <2>1, <2>2, <2>3 DEF Reading, Shown, Dealt
<1>6. Drawn(w)'
  <2>1. Dealt(draft[w])'
    BY <1>2, <1>3, <1>4 DEF Dealt
  <2>2. label \in Checked => Shown(draft[w])'
    BY <1>2, <1>3, <1>4 DEF Shown
  <2>3. label \in Checked /\ d.contact # None /\ d.contact = x.contact => d.shows.rev >= x.shows.rev
    <3>1. x.shows.rev \in Nat
      BY <1>1, RowsStayRows
    <3>2. x.shows.rev >= x.shows.rev
      BY <3>1, NoLessThanItself
    <3>3. CASE d.shows = x.shows
      BY <3>2, <3>3
    <3>4. CASE d.shows # x.shows
      BY <3>4
    <3> QED BY <3>3, <3>4
  <2> QED BY <1>2, <2>1, <2>2, <2>3 DEF Drawn
<1>7. Alone(w)' /\ Paired(w)'
  BY <1>2 DEF Alone, Paired
<1> QED BY <1>2, <1>5, <1>6, <1>7, ReadKeeps DEF CallerInv

LEMMA LoadKeeps ==
  ASSUME RelationsInv, NEW w \in Callers, LoadItem(w)
  PROVE  RelationsInv'
<1> DEFINE c == wish[w]
           x == item[c.on]
<1>1. /\ place[w] = "load" /\ CallerInv(w) /\ c \in Wishes /\ c.on \in Items /\ x \in ItemRow
      /\ c.do \in {"contact", "capability", "deal", "links", "edit", "delete", "status"}
  BY CallerFacts DEF LoadItem, CallerInv, Where, Resolving
<1>2. CASE Refuse(w)
  BY <1>2, RefuseKeeps
<1>3. ASSUME ~Refuse(w) PROVE RelationsInv'
  <2>1. Live(c.on) /\ x.is = "live"
    BY <1>3 DEF LoadItem, Live
  <2>2. ASSUME NEW d, NEW label, Begin(w, x, d, label)
        PROVE  wish'[w] = c /\ place'[w] = label
    BY <2>2 DEF Begin, RelationsInv, RelationsTypeOK
  <2>3. CASE c.do \in {"contact", "capability", "deal", "delete"}
    <3>1. PICK label \in {"person", "its product", "its deal", "history"} :
            /\ Begin(w, x, x, label)
            /\ label = "person" <=> c.do = "contact"
            /\ label = "its product" <=> c.do = "capability"
            /\ label = "its deal" <=> c.do = "deal"
            /\ label = "history" <=> c.do = "delete"
      BY <1>1, <2>1, <2>3 DEF LoadItem
    <3>2. Where(w)'
      BY <1>1, <2>2, <2>3, <3>1 DEF CallerInv, Where
    <3> QED BY <1>1, <2>1, <2>3, <3>1, <3>2, BeginKeeps DEF Places, Checked
  <2>4. CASE c.do = "links"
    <3> DEFINE d == Relinked(c, x)
    <3>1. Begin(w, x, d, FromCustomer(d))
      BY <1>1, <1>3, <2>1, <2>4 DEF LoadItem
    <3>2. c \in Linkings
      BY <1>1, <2>4, WishKinds
    <3>3. /\ Pick(c.customer, x.customer) \in OrNone(Of({"customers"}))
          /\ Pick(c.product, x.product) \in OrNone(Of({"products"}))
          /\ Pick(c.primary, x.primary) \in OrNone(Contacts)
          /\ Pick(c.contact, x.contact) \in OrNone(Contacts)
          /\ Pick(c.contact, None) \in OrNone(Contacts)
          /\ Nothing \in [of: OrNone(Contacts), rev: Nat] /\ x.stamp + 1 \in Nat
      BY <1>1, <3>2 DEF Pick, Linkings, Choice, ItemRow, OrNone, Nothing
    <3>4. d \in ItemRow /\ d.is = "live" /\ d.deal = x.deal /\ d.parent = x.parent
      BY <1>1, <2>1, <3>3 DEF Relinked, ItemRow
    <3> HIDE DEF d
    <3>5. FromCustomer(d) \in Resolving
      BY NextLink
    <3>6. Where(w)'
      BY <1>1, <2>2, <2>4, <3>1, <3>5 DEF CallerInv, Where
    <3>7. FromCustomer(d) \in Checked => d.contact = None
      <4>1. FromCustomer(d) \in Checked => FromCustomer(d) \notin {"customer", "contact"}
        BY DEF Checked
      <4> QED BY <4>1, NextLink
    <3>8. FromCustomer(d) = "contact" => d.contact # None
      BY NextLink
    <3>9. FromCustomer(d) \in Places \ {"idle", "load", "find", "peers", "skill", "write skill",
                                        "lead", "inherit deal", "quote lead", "quote deal"}
      BY <3>5 DEF Resolving, Places
    <3> QED BY <1>1, <2>1, <2>4, <3>1, <3>4, <3>6, <3>7, <3>8, <3>9, BeginKeeps
  <2>5. CASE c.do = "edit"
    <3> DEFINE d == Retyped(x)
    <3>1. PICK label : /\ Begin(w, x, d, label)
                       /\ label = IF Linking(x) THEN FromCustomer(d) ELSE "write"
      BY <1>1, <1>3, <2>1, <2>5 DEF LoadItem
    <3>2. /\ d \in ItemRow /\ d.is = "live" /\ d.deal = x.deal /\ d.parent = x.parent
          /\ d.contact = x.contact
      BY <1>1, <2>1, RowsStayRows DEF Retyped, ItemRow
    <3>3. ~Linking(x) => d.contact = None
      BY <3>2 DEF Linking
    <3> HIDE DEF d
    <3>4. label \in Resolving
      BY <3>1, NextLink DEF Resolving
    <3>5. Where(w)'
      BY <1>1, <2>2, <2>5, <3>1, <3>4 DEF CallerInv, Where
    <3>6. label \in Checked => d.contact = None
      <4>1. label \in Checked => label \notin {"customer", "contact"}
        BY DEF Checked
      <4> QED BY <3>1, <3>3, <4>1, NextLink
    <3>7. label = "contact" => d.contact # None
      BY <3>1, NextLink
    <3>8. label \in Places \ {"idle", "load", "find", "peers", "skill", "write skill",
                              "lead", "inherit deal", "quote lead", "quote deal"}
      BY <3>4 DEF Resolving, Places
    <3> QED BY <1>1, <2>1, <2>5, <3>1, <3>2, <3>5, <3>6, <3>7, <3>8, BeginKeeps
  <2>6. CASE c.do = "status"
    <3> DEFINE d == [x EXCEPT !.stamp = @ + 1, !.status = c.status]
    <3>1. PICK label \in {"quote lead", "write"} :
            Begin(w, x, d, label) /\ (label = "quote lead" => x.parent # None)
      BY <1>1, <1>3, <2>1, <2>6 DEF LoadItem
    <3>2. c.status \in QuoteStatuses
      BY <1>1, <2>6, WishKinds DEF Moves, QuoteStatuses
    <3>3. /\ d \in ItemRow /\ d.is = "live" /\ d.deal = x.deal /\ d.parent = x.parent
          /\ d.contact = x.contact /\ d.shows = x.shows
      BY <1>1, <2>1, <3>2, RowsStayRows DEF ItemRow
    <3> HIDE DEF d
    <3>4. Where(w)'
      BY <1>1, <2>2, <2>6, <3>1 DEF CallerInv, Where
    <3> QED BY <1>1, <2>1, <2>6, <3>1, <3>3, <3>4, BeginKeeps DEF Places
  <2> QED BY <1>1, <2>3, <2>4, <2>5, <2>6
<1> QED BY <1>2, <1>3
-----------------------------------------------------------------------------
(* The other reads of a command *)

LEMMA PursuitKeeps ==
  ASSUME RelationsInv, NEW w \in Callers, Begun(w),
         NEW d \in ItemRow, NEW label \in Places \ {"idle", "load"}, Carry(w, d, label),
         Where(w)', Drawn(w)', Alone(w)', Paired(w)'
  PROVE  RelationsInv'
<1>1. /\ OwnTypes' /\ UNCHANGED tables /\ \A v \in Callers \ {w} : Same(v)
      /\ place'[w] = label /\ draft'[w] = d
      /\ wish'[w] = wish[w] /\ held'[w] = held[w] /\ second'[w] = second[w]
  BY CarryTypes
<1>2. item' = item /\ contact' = contact /\ deal' = deal
  BY <1>1 DEF tables
<1>3. Reading(w)
  BY CallerFacts DEF Begun, CallerInv
<1>4. Reading(w)'
  BY <1>1, <1>2, <1>3 DEF Reading, Begun, Shown, Dealt, Current
<1> QED BY <1>1, <1>4, ReadKeeps DEF CallerInv

\* Accepting a quotation looks for the deal of its lead.
LEMMA QuotingKeeps ==
  ASSUME RelationsInv, NEW w \in Callers, QuoteLead(w) \/ QuoteDeal(w)
  PROVE  RelationsInv'
<1> DEFINE x == draft[w]
<1>1. PICK d \in ItemRow, label \in {"quote deal", "write"} :
        /\ Carry(w, d, label) /\ place[w] \in {"quote lead", "quote deal"}
        /\ d.is = x.is /\ d.parent = x.parent /\ d.contact = x.contact /\ d.shows = x.shows
        /\ d.deal = x.deal \/ d.deal = DealOf(x.parent)
  <2>1. CASE QuoteLead(w)
    <3>1. PICK label \in {"quote deal", "write"} : Advance(w, label)
      BY <2>1 DEF QuoteLead
    <3>2. Carry(w, x, label) /\ x \in ItemRow
      BY <3>1, AdvanceCarries DEF Places
    <3> QED BY <2>1, <3>2 DEF QuoteLead
  <2>2. CASE QuoteDeal(w)
    <3> DEFINE d == [x EXCEPT !.deal = DealOf(x.parent)]
    <3>1. Carry(w, d, "write") /\ place[w] = "quote deal"
      BY <2>2 DEF QuoteDeal
    <3>2. x \in ItemRow
      BY <3>1, CallerFacts
    <3>3. d \in ItemRow
      BY <3>2, DealOfLead, RowsStayRows DEF RelationsInv
    <3>4. /\ d.is = x.is /\ d.parent = x.parent /\ d.contact = x.contact /\ d.shows = x.shows
          /\ d.deal = DealOf(x.parent)
      BY <3>2 DEF ItemRow
    <3> HIDE DEF d
    <3> QED BY <3>1, <3>3, <3>4
  <2> QED BY <2>1, <2>2
<1>2. CallerInv(w) /\ wish[w].do = "status"
  BY <1>1, CallerFacts DEF CallerInv, Where, Resolving
<1>3. Begun(w) /\ Dealt(x) /\ Shown(x) /\ x.parent # None /\ x.is = "live"
  BY <1>1, <1>2 DEF Begun, CallerInv, Drawn, Checked
<1>4. /\ UNCHANGED tables /\ place'[w] = label /\ draft'[w] = d
      /\ wish'[w] = wish[w] /\ held'[w] = held[w]
  <2>1. label \in Places
    BY DEF Places
  <2> HIDE DEF x
  <2> QED BY <1>1, <2>1, CarryTypes
<1>5. item' = item /\ contact' = contact /\ deal' = deal
  BY <1>4 DEF tables
<1>6. Where(w)' /\ Alone(w)' /\ Paired(w)'
  <2>1. Where(w)'
    BY <1>2, <1>4, CallerFacts, <1>1 DEF CallerInv, Where, Resolving
  <2>2. Alone(w)' /\ Paired(w)'
    BY <1>2, <1>4 DEF Alone, Paired
  <2> QED BY <2>1, <2>2
<1>7. Drawn(w)'
  <2>1. Dealt(d)
    BY <1>1, <1>3, DealOfLead DEF Dealt, RelationsInv
  <2>2. Dealt(draft[w])' /\ Shown(draft[w])'
    BY <1>1, <1>3, <1>4, <1>5, <2>1 DEF Dealt, Shown
  <2>3. Current(w)' => Current(w)
    BY <1>4, <1>5 DEF Current
  <2>4. Current(w) /\ d.contact # None /\ d.contact = held[w].contact
          => d.shows.rev >= held[w].shows.rev
    BY <1>1, <1>2, <1>3 DEF CallerInv, Drawn, Checked
  <2> QED BY <1>1, <1>2, <1>3, <1>4, <2>2, <2>3, <2>4 DEF Drawn
<1>8. label \in Places \ {"idle", "load"}
  BY DEF Places
<1> QED BY <1>1, <1>3, <1>6, <1>7, <1>8, PursuitKeeps

\* A deletion reads the history of its record, and then the record once more.
LEMMA HistoryKeeps ==
  ASSUME RelationsInv, NEW w \in Callers, CheckHistory(w) \/ CheckPeers(w)
  PROVE  RelationsInv'
<1> DEFINE r == wish[w].on
           x == item[r]
<1>1. /\ CallerInv(w) /\ wish[w].do = "delete" /\ r \in Items /\ x \in ItemRow
      /\ place[w] \in {"history", "peers"}
  BY CallerFacts DEF CheckHistory, CheckPeers, CallerInv, Where, Resolving
<1>2. Begun(w) /\ Dealt(draft[w]) /\ draft[w].is = "live" /\ draft[w] \in ItemRow
  BY <1>1, CallerFacts DEF Begun, CallerInv, Drawn
<1>3. CASE Refuse(w)
  BY <1>3, RefuseKeeps
<1>4. ASSUME ~Refuse(w), CheckHistory(w) PROVE RelationsInv'
  <2>1. Advance(w, "peers") /\ ~HasPeople(r)
    BY <1>4 DEF CheckHistory
  <2>2. Carry(w, draft[w], "peers") /\ "peers" \in Places
    BY <2>1, AdvanceCarries DEF Places
  <2>3. /\ UNCHANGED tables /\ place'[w] = "peers" /\ draft'[w] = draft[w]
        /\ wish'[w] = wish[w] /\ held'[w] = held[w]
    BY <1>2, <2>2, CarryTypes
  <2>4. Where(w)' /\ Paired(w)'
    BY <1>1, <2>3 DEF CallerInv, Where, Paired
  <2>5. Drawn(w)'
    BY <1>1, <1>2, <2>3 DEF Drawn, Dealt, Checked, tables
  <2>6. Alone(w)'
    BY <2>1, <2>3 DEF Alone, HasPeople, Known, tables
  <2> QED BY <1>2, <2>2, <2>4, <2>5, <2>6, PursuitKeeps
<1>5. ASSUME ~Refuse(w), CheckPeers(w) PROVE RelationsInv'
  <2> DEFINE d == [x EXCEPT !.is = "deleted", !.stamp = @ + 1]
  <2>1. Carry(w, d, "write") /\ place[w] = "peers" /\ x.is = "live"
    BY <1>5 DEF CheckPeers, Live
  <2>2. /\ d \in ItemRow /\ d.is = "deleted" /\ d.contact = x.contact /\ d.shows = x.shows
        /\ d.deal = x.deal /\ d.parent = x.parent
    BY <1>1, RowsStayRows DEF ItemRow
  <2> HIDE DEF d
  <2>3. /\ UNCHANGED tables /\ place'[w] = "write" /\ draft'[w] = d
        /\ wish'[w] = wish[w] /\ held'[w] = held[w]
    BY <2>1, <2>2, CarryTypes DEF Places
  <2>4. item' = item /\ contact' = contact /\ capability' = capability /\ deal' = deal
    BY <2>3 DEF tables
  <2>5. Where(w)' /\ Paired(w)'
    BY <1>1, <2>3 DEF CallerInv, Where, Paired, Resolving
  <2>6. Alone(w)'
    BY <1>1, <1>2, <2>1, <2>3, <2>4 DEF CallerInv, Alone, Begun, HasPeople, Known, Current
  <2>7. Dealt(draft[w])' /\ Shown(draft[w])'
    <3>1. Dealt(x) /\ Shown(x)
      BY <1>1 DEF RelationsInv, RowInv, RelationsHold, LinksAgree, Shown
    <3> QED BY <2>2, <2>3, <2>4, <3>1 DEF Dealt, Shown
  <2>8. Current(w)' => d.shows.rev >= held[w].shows.rev
    <3>1. Current(w)' => x = held[w]
      BY <1>1, <1>2, <2>3, <2>4 DEF Current, CallerInv, Reading
    <3>2. x.shows.rev \in Nat
      BY <1>1, RowsStayRows
    <3>3. x.shows.rev >= x.shows.rev
      BY <3>2, NoLessThanItself
    <3> QED BY <2>2, <3>1, <3>3
  <2>9. Drawn(w)'
    BY <1>1, <2>2, <2>3, <2>7, <2>8 DEF Drawn
  <2> QED BY <1>2, <2>1, <2>2, <2>5, <2>6, <2>9, PursuitKeeps DEF Places
<1> QED BY <1>3, <1>4, <1>5

\* A command on people, products or deals carries no draft.
LEMMA LooksKeep ==
  ASSUME RelationsInv, NEW w \in Callers,
         NEW label \in {"write person", "write skill", "write deal", "again"},
         place[w] \in {"person", "skill", "its deal", "write deal"}, Advance(w, label),
         label = "write person" <=> wish[w].do = "contact",
         label = "write skill" <=> wish[w].do = "capability"
  PROVE  RelationsInv'
<1>1. /\ CallerInv(w) /\ wish[w].do \in {"contact", "capability", "deal"}
      /\ draft[w] \in ItemRow
  BY CallerFacts DEF CallerInv, Where, Resolving
<1>2. Begun(w) /\ Dealt(draft[w]) /\ draft[w].is = "live"
  BY <1>1 DEF Begun, CallerInv, Drawn
<1>3. Carry(w, draft[w], label) /\ label \in Places \ {"idle", "load"}
  BY AdvanceCarries DEF Places
<1>4. /\ UNCHANGED tables /\ place'[w] = label /\ draft'[w] = draft[w]
      /\ wish'[w] = wish[w] /\ held'[w] = held[w] /\ second'[w] = second[w]
  BY <1>1, <1>3, CarryTypes
<1>5. Where(w)' /\ Alone(w)'
  BY <1>1, <1>4 DEF CallerInv, Where, Alone
<1>6. Drawn(w)'
  BY <1>1, <1>2, <1>4 DEF Drawn, Dealt, Checked, tables
<1>7. Paired(w)'
  <2>1. label = "write skill" => place[w] = "skill"
    BY <1>1 DEF CallerInv, Where
  <2> QED BY <1>1, <1>4, <2>1 DEF CallerInv, Paired, Live, tables
<1> QED BY <1>1, <1>2, <1>3, <1>5, <1>6, <1>7, PursuitKeeps

LEMMA ReadingPeopleKeeps ==
  ASSUME RelationsInv, NEW w \in Callers, ReadPerson(w) \/ ReadItsProduct(w) \/ ReadSkill(w)
  PROVE  RelationsInv'
<1>1. CallerInv(w) /\ wish[w] \in Wishes /\ draft[w] \in ItemRow
  BY CallerFacts DEF ReadPerson, ReadItsProduct, ReadSkill
<1>2. CASE Refuse(w)
  BY <1>2, RefuseKeeps
<1>3. ASSUME ~Refuse(w), ReadPerson(w) PROVE RelationsInv'
  <2>1. Advance(w, "write person") /\ place[w] = "person"
    BY <1>3 DEF ReadPerson
  <2>2. wish[w].do = "contact"
    BY <1>1, <2>1, CallerFacts DEF CallerInv, Where, Resolving
  <2> QED BY <2>1, <2>2, LooksKeep
<1>4. ASSUME ~Refuse(w), ReadSkill(w) PROVE RelationsInv'
  <2>1. Advance(w, "write skill") /\ place[w] = "skill"
    BY <1>4 DEF ReadSkill
  <2>2. wish[w].do = "capability"
    BY <1>1, <2>1, CallerFacts DEF CallerInv, Where, Resolving
  <2> QED BY <2>1, <2>2, LooksKeep
<1>5. ASSUME ~Refuse(w), ReadItsProduct(w) PROVE RelationsInv'
  <2> DEFINE p == EndsOf[wish[w].capability][2]
  <2>1. /\ place[w] = "its product" /\ Live(p)
        /\ place' = [place EXCEPT ![w] = "skill"]
        /\ second' = [second EXCEPT ![w] = item[p].version]
        /\ wish' = wish /\ held' = held /\ draft' = draft /\ UNCHANGED tables
    BY <1>5 DEF ReadItsProduct
  <2>2. wish[w].do = "capability" /\ wish[w].capability \in Capabilities
    BY <1>1, <2>1, CallerFacts DEF CallerInv, Where, Resolving
  <2>3. p \in Items /\ item[p].version \in Nat
    BY <2>2, RelationKinds DEF RelationsInv, RelationsTypeOK, ItemRow, Of
  <2>4. /\ OwnTypes' /\ place'[w] = "skill" /\ second'[w] = item[p].version
        /\ \A v \in Callers \ {w} : Same(v)
    BY <2>1, <2>3 DEF OwnTypes, Same, RelationsInv, RelationsTypeOK, Places
  <2>5. Where(w)'
    BY <1>1, <2>1, <2>2, <2>4 DEF CallerInv, Where
  <2>6. Reading(w)'
    BY <1>1, <2>1, <2>2, <2>4 DEF CallerInv, Reading, Begun, Shown, Dealt, Current, tables
  <2>7. Drawn(w)' /\ Alone(w)'
    BY <1>1, <2>1, <2>2, <2>4 DEF CallerInv, Drawn, Alone, Dealt, Checked, Begun, tables
  <2>8. Paired(w)'
    <3>1. item' = item /\ item[p].is # "none" /\ item[p].version <= item[p].version
      BY <2>1, <2>3, NoLessThanItself DEF tables, Live
    <3> QED BY <2>1, <2>4, <3>1 DEF Paired, Live
  <2> QED BY <2>1, <2>4, <2>5, <2>6, <2>7, <2>8, ReadKeeps DEF CallerInv
<1> QED BY <1>2, <1>3, <1>4, <1>5

\* Everybody is told a deal that the lead has.
LEMMA TellKeeps ==
  ASSUME RelationsInv, NEW w \in Callers, place[w] \in {"its deal", "again"},
         DealOf(wish[w].on) # None, Tell(w)
  PROVE  RelationsInv'
<1> DEFINE l == wish[w].on
<1>1. l \in Of({"leads"})
  BY CallerFacts DEF CallerInv, Where, Resolving
<1>2. DealOf(l) \in Deals /\ deal[DealOf(l)] = l
  BY DealOfLead DEF RelationsInv
<1>3. /\ item' = item /\ contact' = contact /\ capability' = capability /\ deal' = deal
      /\ told' = [told EXCEPT ![l] = @ \cup {DealOf(l)}] /\ Leave(w)
  BY DEF Tell
<1>4. OwnTypes' /\ CallerInv(w)' /\ \A v \in Callers \ {w} : Same(v)
  BY <1>3, LeaveTypes
<1>5. \A v \in Callers : CallerInv(v)'
  BY <1>3, <1>4, SameCaller DEF RelationsInv
<1>6. RelationsTypeOK'
  BY <1>1, <1>2, <1>3, <1>4 DEF RelationsInv, RelationsTypeOK, OwnTypes
<1>7. RelationsHold'
  <2>1. \A k \in Of({"leads"}) : \A d \in told'[k] : deal[d] = k
    BY <1>1, <1>2, <1>3 DEF RelationsInv, RelationsTypeOK, RelationsHold, DealsAreUnique
  <2>2. DealsAreUnique'
    BY <1>3, <2>1 DEF RelationsInv, RelationsHold, DealsAreUnique
  <2> QED BY <1>3, <2>2 DEF RelationsInv, RelationsHold, PrimariesStand, LinksAgree,
                            NothingIsOrphaned, HasPeople, Known
<1>8. \A r \in Items : RowInv(r)'
  BY <1>3 DEF RelationsInv, RowInv, Dealt
<1> QED BY <1>5, <1>6, <1>7, <1>8 DEF RelationsInv

LEMMA ReadingDealsKeeps ==
  ASSUME RelationsInv, NEW w \in Callers, ReadItsDeal(w) \/ ReadDealAgain(w)
  PROVE  RelationsInv'
<1>1. CASE DealOf(wish[w].on) # None
  BY <1>1, TellKeeps DEF ReadItsDeal, ReadDealAgain
<1>2. CASE DealOf(wish[w].on) = None /\ ReadDealAgain(w)
  BY <1>2, RefuseKeeps DEF ReadDealAgain
<1>3. CASE DealOf(wish[w].on) = None /\ ReadItsDeal(w)
  <2>1. Advance(w, "write deal") /\ place[w] = "its deal"
    BY <1>3 DEF ReadItsDeal
  <2>2. wish[w].do = "deal"
    BY <2>1, CallerFacts DEF CallerInv, Where, Resolving
  <2> QED BY <2>1, <2>2, LooksKeep
<1> QED BY <1>1, <1>2, <1>3

-----------------------------------------------------------------------------
(* The batches *)

TableTypes ==
  /\ item \in [Items -> ItemRow]
  /\ contact \in [Contacts -> [version: Nat, active: BOOLEAN]]
  /\ capability \in [Capabilities -> Nat]
  /\ deal \in [Deals -> OrNone(Of({"leads"}))]
  /\ told \in [Of({"leads"}) -> SUBSET Deals]

\* What a batch does to what others have read: a row stays as it is or gets a
\* greater version, and nobody joins a row that stays as it is.
Grows ==
  /\ \A r \in Items :
       /\ item'[r] = item[r] \/ item'[r].version > item[r].version
       /\ item[r].is # "none" => item'[r].is # "none"
       /\ item'[r] = item[r] /\ ~HasPeople(r) => ~HasPeople(r)'
  /\ \A c \in Contacts : contact'[c].version >= contact[c].version
  /\ \A d \in Deals : deal[d] # None => deal'[d] = deal[d]

LEMMA GrownShown ==
  ASSUME RelationsTypeOK, TableTypes', Grows, NEW x \in ItemRow
  PROVE  (Shown(x) => Shown(x)') /\ (Dealt(x) => Dealt(x)')
<1>1. Shown(x) => Shown(x)'
  <2>1. CASE x.contact = None
    BY <2>1 DEF Shown
  <2>2. CASE x.contact # None
    <3>1. x.contact \in Contacts /\ x.shows.rev \in Nat
      BY <2>2 DEF ItemRow, OrNone
    <3>2. /\ contact[x.contact].version \in Nat /\ contact'[x.contact].version \in Nat
          /\ contact'[x.contact].version >= contact[x.contact].version
      BY <3>1 DEF RelationsTypeOK, TableTypes, Grows
    <3> QED BY <3>1, <3>2 DEF Shown
  <2> QED BY <2>1, <2>2
<1>2. Dealt(x) => Dealt(x)'
  BY DEF Dealt, Grows, ItemRow, OrNone
<1> QED BY <1>1, <1>2

LEMMA StaysBelow ==
  ASSUME NEW a \in Nat, NEW b \in Nat, NEW c \in Nat, a <= b, c > b
  PROVE  a <= c /\ a # c
OBVIOUS

LEMMA OthersStand ==
  ASSUME RelationsInv, TableTypes', Grows, NEW v \in Callers, Same(v)
  PROVE  CallerInv(v)'
<1> DEFINE r == wish[v].on
<1>1. CallerInv(v) /\ held[v] \in ItemRow /\ draft[v] \in ItemRow
  BY DEF RelationsInv, RelationsTypeOK
<1>2. Where(v)'
  BY <1>1 DEF CallerInv, Where, Same, Fits
<1>3. Begun(v)' <=> Begun(v)
  BY DEF Begun, Same
<1>4. Begun(v) => /\ r \in Items /\ item[r].version \in Nat /\ held[v].version \in Nat
                  /\ held[v].version <= item[r].version /\ item'[r].version \in Nat
  BY <1>1, CallerFacts DEF Begun, CallerInv, Reading, ItemRow, TableTypes
<1>5. Begun(v) /\ Current(v)' => Current(v) /\ item'[r] = item[r]
  BY <1>4 DEF Current, Same, Grows
<1>6. Reading(v)'
  <2> SUFFICES ASSUME Begun(v) PROVE Reading(v)'
    BY <1>3 DEF Reading
  <2>1. /\ item[r].is # "none" /\ held[v].is = "live" /\ Shown(held[v]) /\ Dealt(held[v])
        /\ Current(v) => item[r] = held[v]
    BY <1>1 DEF CallerInv, Reading
  <2>2. item'[r].is # "none" /\ held[v].version <= item'[r].version
    BY <1>4, <2>1 DEF Grows
  <2>3. Shown(held[v])' /\ Dealt(held[v])'
    <3>1. Shown(held[v]) /\ Dealt(held[v]) /\ held'[v] = held[v]
      BY <2>1 DEF Same
    <3>2. \A x \in ItemRow : (Shown(x) => Shown(x)') /\ (Dealt(x) => Dealt(x)')
      BY GrownShown DEF RelationsInv
    <3> QED BY <1>1, <3>1, <3>2 DEF Shown, Dealt
  <2> QED BY <1>5, <2>1, <2>2, <2>3 DEF Reading, Same
<1>7. Drawn(v)'
  <2>1. /\ Dealt(draft[v]) => Dealt(draft[v])'
        /\ Shown(draft[v]) => Shown(draft[v])'
    <3>1. draft'[v] = draft[v]
      BY DEF Same
    <3>2. \A x \in ItemRow : (Shown(x) => Shown(x)') /\ (Dealt(x) => Dealt(x)')
      BY GrownShown DEF RelationsInv
    <3> QED BY <1>1, <3>1, <3>2 DEF Shown, Dealt
  <2> QED BY <1>1, <1>3, <1>5, <2>1 DEF CallerInv, Drawn, Same
<1>8. Alone(v)'
  <2> SUFFICES ASSUME Begun(v), wish[v].do = "delete", place[v] \in {"peers", "write"}, Current(v)'
               PROVE  ~HasPeople(wish[v].on)'
    BY <1>3 DEF Alone, Same
  <2>1. ~HasPeople(r) /\ item'[r] = item[r] /\ r \in Items /\ wish'[v] = wish[v]
    BY <1>1, <1>4, <1>5 DEF CallerInv, Alone, Same
  <2>2. ~HasPeople(r)'
    BY <2>1 DEF Grows
  <2> QED BY <2>1, <2>2 DEF HasPeople
<1>9. Paired(v)'
  <2> DEFINE p == EndsOf[wish[v].capability][2]
  <2> SUFFICES ASSUME place[v] \in {"skill", "write skill"}
               PROVE  /\ item'[p].is # "none" /\ second[v] <= item'[p].version
                      /\ second[v] = item'[p].version => item'[p].is = "live"
    BY DEF Paired, Same, Live
  <2>1. wish[v].capability \in Capabilities
    BY <1>1, CallerFacts DEF CallerInv, Where, Resolving
  <2>2. p \in Items /\ second[v] \in Nat /\ item[p].version \in Nat /\ item'[p].version \in Nat
    BY <2>1, RelationKinds DEF RelationsInv, RelationsTypeOK, TableTypes, ItemRow, Of
  <2>3. /\ item[p].is # "none" /\ second[v] <= item[p].version
        /\ second[v] = item[p].version => item[p].is = "live"
    BY <1>1 DEF CallerInv, Paired, Live
  <2>4. /\ item'[p] = item[p] \/ item'[p].version > item[p].version
        /\ item'[p].is # "none"
    BY <2>2, <2>3 DEF Grows
  <2> HIDE DEF p
  <2>5. CASE item'[p] = item[p]
    BY <2>2, <2>3, <2>4, <2>5
  <2>6. CASE item'[p].version > item[p].version
    <3>1. second[v] <= item'[p].version /\ second[v] # item'[p].version
      BY <2>2, <2>3, <2>6, StaysBelow
    <3> QED BY <2>4, <3>1
  <2> QED BY <2>4, <2>5, <2>6
<1> QED BY <1>2, <1>6, <1>7, <1>8, <1>9 DEF CallerInv

LEMMA BatchKeeps ==
  ASSUME RelationsInv, NEW w \in Callers, Leave(w), TableTypes', Grows,
         RelationsHold', \A r \in Items : RowInv(r)'
  PROVE  RelationsInv'
<1>1. OwnTypes' /\ CallerInv(w)' /\ \A v \in Callers \ {w} : Same(v)
  BY LeaveTypes
<1>2. RelationsTypeOK'
  BY <1>1 DEF RelationsTypeOK, TableTypes, OwnTypes
<1>3. \A v \in Callers : CallerInv(v)'
  BY <1>1, OthersStand
<1> QED BY <1>2, <1>3 DEF RelationsInv

\* The caller whose batch is about to be judged, and its record.
LEMMA Judged ==
  ASSUME RelationsInv, NEW w \in Callers, Begun(w), Current(w)
  PROVE  LET r == wish[w].on IN
         /\ r \in Items /\ item[r] \in ItemRow /\ held[w] = item[r] /\ item[r].is = "live"
         /\ draft[w] \in ItemRow /\ CallerInv(w)
BY CallerFacts DEF Begun, CallerInv, Reading

\* A record is written.
LEMMA WritingItemKeeps ==
  ASSUME RelationsInv, NEW w \in Callers, WriteItem(w)
  PROVE  RelationsInv'
<1> DEFINE r == wish[w].on
           e == draft[w]
           d == [e EXCEPT !.version = held[w].version + 1]
<1>1. CASE Refuse(w)
  BY <1>1, RefuseKeeps
<1>2. ASSUME ~Refuse(w) PROVE RelationsInv'
  <2>1. /\ place[w] = "write" /\ wish[w].do # "create" /\ Current(w) /\ Admitted(r, d)
        /\ item' = [item EXCEPT ![r] = d] /\ Leave(w)
        /\ contact' = contact /\ capability' = capability /\ deal' = deal /\ told' = told
    BY <1>2 DEF WriteItem
  <2>2. Begun(w)
    BY <2>1 DEF Begun
  <2>3. /\ r \in Items /\ item[r] \in ItemRow /\ held[w] = item[r] /\ item[r].is = "live"
        /\ e \in ItemRow /\ CallerInv(w)
    BY <2>1, <2>2, Judged
  <2>4. Dealt(e) /\ Shown(e) /\ e.is \in {"live", "deleted"}
    BY <2>1, <2>2, <2>3 DEF CallerInv, Drawn, Checked
  <2>5. e.is = "deleted" => ~HasPeople(r)
    BY <2>1, <2>2, <2>3 DEF CallerInv, Drawn, Alone
  <2>6. item[r].version \in Nat /\ item[r].version + 1 \in Nat
    BY <2>3 DEF ItemRow
  <2>7. d \in ItemRow
    BY <2>3, <2>6, RowsStayRows
  <2>8. /\ d.is = e.is /\ d.contact = e.contact /\ d.shows = e.shows /\ d.deal = e.deal
        /\ d.parent = e.parent /\ d.customer = e.customer /\ d.primary = e.primary
        /\ d.version = item[r].version + 1
    BY <2>3 DEF ItemRow
  <2> HIDE DEF d
  <2>9. item'[r] = d /\ \A q \in Items \ {r} : item'[q] = item[q]
    BY <2>1, <2>3 DEF RelationsInv, RelationsTypeOK
  <2>10. \A q \in Items : HasPeople(q)' <=> HasPeople(q)
    BY <2>1 DEF HasPeople, Known
  <2>11. TableTypes'
    BY <2>1, <2>7 DEF RelationsInv, RelationsTypeOK, TableTypes
  <2>12. Grows
    <3>1. d.version > item[r].version
      BY <2>6, <2>8
    <3>2. \A c \in Contacts : contact'[c].version >= contact[c].version
      BY <2>1, NoLessThanItself DEF RelationsInv, RelationsTypeOK
    <3>3. d.is # "none"
      BY <2>4, <2>8
    <3> QED BY <2>1, <2>9, <2>10, <3>1, <3>2, <3>3 DEF Grows
  <2>13. PrimariesStand'
    <3>1. d.primary # None =>
            Known(d.primary) /\ HomeOf[d.primary] = r /\ contact[d.primary].active
      BY <2>1 DEF Admitted, LinkedRightly
    <3> QED BY <2>1, <2>9, <3>1 DEF RelationsInv, RelationsHold, PrimariesStand, Known
  <2>14. LinksAgree'
    <3>1. d.contact # None => /\ HomeOf[d.contact] = d.customer
                             /\ d.shows.of = d.contact
                             /\ d.shows.rev \in 1..contact[d.contact].version
      BY <2>1, <2>4, <2>8 DEF Admitted, LinkedRightly, Shown
    <3> QED BY <2>1, <2>9, <3>1 DEF RelationsInv, RelationsHold, LinksAgree
  <2>15. NothingIsOrphaned'
    BY <2>5, <2>8, <2>9, <2>10 DEF RelationsInv, RelationsHold, NothingIsOrphaned
  <2>16. DealsAreUnique'
    BY <2>1, <2>4, <2>8, <2>9 DEF RelationsInv, RelationsHold, DealsAreUnique, Dealt
  <2>17. \A q \in Items : RowInv(q)'
    <3>1. \A q \in Items : q = r => RowInv(q)'
      BY <2>1, <2>4, <2>8, <2>9 DEF RowInv, Dealt
    <3>2. \A q \in Items : q # r => RowInv(q)'
      BY <2>1, <2>9 DEF RelationsInv, RowInv, Dealt
    <3> QED BY <3>1, <3>2
  <2> QED BY <2>1, <2>11, <2>12, <2>13, <2>14, <2>15, <2>16, <2>17, BatchKeeps DEF RelationsHold
<1> QED BY <1>1, <1>2

\* A record is created, with its main contact.
LEMMA InsertingItemKeeps ==
  ASSUME RelationsInv, NEW w \in Callers, InsertItem(w)
  PROVE  RelationsInv'
<1> DEFINE r == wish[w].on
           main == wish[w].main
           e == draft[w]
           d == [e EXCEPT !.is = "live", !.version = 1, !.stamp = 1]
           n == [d EXCEPT !.primary = main]
<1>1. CASE Refuse(w)
  BY <1>1, RefuseKeeps
<1>2. ASSUME ~Refuse(w) PROVE RelationsInv'
  <2>1. /\ place[w] = "write" /\ wish[w].do = "create" /\ item[r].is = "none"
        /\ Admitted(r, d) /\ (main # None => ~Known(main))
        /\ item' = [item EXCEPT ![r] = n] /\ Leave(w)
        /\ contact' = IF main = None THEN contact
                      ELSE [contact EXCEPT ![main] = [version |-> 1, active |-> TRUE]]
        /\ capability' = capability /\ deal' = deal /\ told' = told
    BY <1>2 DEF InsertItem
  <2>2. r \in Items /\ e \in ItemRow /\ CallerInv(w)
    BY <2>1, CallerFacts
  <2>3. Dealt(e) /\ Shown(e) /\ main \in OrNone(Contacts) /\ (main # None => HomeOf[main] = r)
    BY <2>1, <2>2 DEF CallerInv, Where, Fits, Drawn, Checked
  <2>4. item[r].version = 0 /\ item[r].contact = None
    BY <2>1, <2>2 DEF RelationsInv, RowInv, Absent
  <2>5. d \in ItemRow
    BY <2>2, RowsStayRows
  <2>6. /\ d.is = "live" /\ d.contact = e.contact /\ d.shows = e.shows /\ d.deal = e.deal
        /\ d.parent = e.parent /\ d.customer = e.customer /\ d.version = 1
    BY <2>2 DEF ItemRow
  <2>7. LinkedRightly(r, d)
    BY <2>1 DEF Admitted
  <2> HIDE DEF d
  <2>8. n \in ItemRow
    BY <2>3, <2>5, RowsStayRows
  <2>9. /\ n.is = "live" /\ n.contact = d.contact /\ n.shows = d.shows /\ n.deal = d.deal
        /\ n.parent = d.parent /\ n.customer = d.customer /\ n.version = 1 /\ n.primary = main
    BY <2>5, <2>6 DEF ItemRow
  <2> HIDE DEF n
  <2>10. item'[r] = n /\ \A q \in Items \ {r} : item'[q] = item[q]
    BY <2>1, <2>2 DEF RelationsInv, RelationsTypeOK
  <2>11. \A c \in Contacts :
           /\ contact[c].version \in Nat
           /\ c # main => contact'[c] = contact[c]
           /\ c = main => contact'[c].version = 1 /\ contact'[c].active /\ contact[c].version = 0
    <3> SUFFICES ASSUME NEW c \in Contacts
                 PROVE  /\ contact[c].version \in Nat
                        /\ c # main => contact'[c] = contact[c]
                        /\ c = main => contact'[c].version = 1 /\ contact'[c].active
                                         /\ contact[c].version = 0
      OBVIOUS
    <3>1. contact[c].version \in Nat
      BY DEF RelationsInv, RelationsTypeOK
    <3>2. c # main => contact'[c] = contact[c]
      BY <2>1 DEF RelationsInv, RelationsTypeOK
    <3>3. ASSUME c = main
          PROVE  contact'[c].version = 1 /\ contact'[c].active /\ contact[c].version = 0
      <4>1. c # None
        BY NoneIsNobody
      <4>2. contact'[c] = [version |-> 1, active |-> TRUE]
        BY <2>1, <3>3, <4>1 DEF RelationsInv, RelationsTypeOK
      <4>3. contact[c].version = 0
        BY <2>1, <3>1, <3>3, <4>1 DEF Known
      <4> QED BY <4>2, <4>3
    <3> QED BY <3>1, <3>2, <3>3
  <2>12. TableTypes'
    <3>1. contact' \in [Contacts -> [version: Nat, active: BOOLEAN]]
      BY <2>1, <2>3 DEF RelationsInv, RelationsTypeOK, OrNone
    <3> QED BY <2>1, <2>8, <3>1 DEF RelationsInv, RelationsTypeOK, TableTypes
  <2>13. \A q \in Items : q # r => (HasPeople(q)' <=> HasPeople(q))
    <3>1. \A c \in Contacts : HomeOf[c] # r => (Known(c)' <=> Known(c))
      BY <2>3, <2>11, NoneIsNobody DEF Known
    <3> QED BY <2>1, <3>1 DEF HasPeople
  <2>14. Grows
    <3>1. n.version > item[r].version
      BY <2>4, <2>9
    <3>2. \A c \in Contacts : contact'[c].version >= contact[c].version
      BY <2>11, NoLessThanItself
    <3>3. item'[r] # item[r] /\ n.is # "none"
      BY <2>1, <2>9, <2>10
    <3> QED BY <2>1, <2>10, <2>13, <3>1, <3>2, <3>3 DEF Grows
  <2>15. PrimariesStand'
    <3> SUFFICES ASSUME NEW q \in Items, item'[q].primary # None
                 PROVE  LET c == item'[q].primary
                        IN  contact'[c].version > 0 /\ HomeOf[c] = q /\ contact'[c].active
      BY DEF PrimariesStand, Known
    <3>1. CASE q = r
      BY <2>3, <2>9, <2>10, <2>11, <3>1 DEF OrNone
    <3>2. CASE q # r
      <4> DEFINE c == item[q].primary
      <4>1. item'[q] = item[q]
        BY <2>10, <3>2
      <4>2. c \in Contacts /\ Known(c) /\ HomeOf[c] = q /\ contact[c].active
        BY <4>1 DEF RelationsInv, RelationsTypeOK, RelationsHold, PrimariesStand, ItemRow, OrNone
      <4>3. c # main
        BY <2>11, <4>2 DEF Known
      <4> QED BY <2>11, <4>1, <4>2, <4>3 DEF Known
    <3> QED BY <3>1, <3>2
  <2>16. \A x \in ItemRow : (Shown(x) => Shown(x)') /\ (Dealt(x) => Dealt(x)')
    BY <2>12, <2>14, GrownShown DEF RelationsInv
  <2>17. LinksAgree'
    <3> SUFFICES ASSUME NEW q \in Items, item'[q].contact # None
                 PROVE  HomeOf[item'[q].contact] = item'[q].customer /\ Shown(item[q])'
      BY DEF LinksAgree, Shown
    <3>1. CASE q = r
      <4>1. HomeOf[n.contact] = n.customer
        BY <2>7, <2>9, <2>10, <3>1 DEF LinkedRightly
      <4>2. n.contact # None =>
              n.shows.of = n.contact /\ n.shows.rev \in 1..contact'[n.contact].version
        <5>1. \A x \in ItemRow : x = e => Shown(x)'
          BY <2>3, <2>16
        <5>2. e.contact # None =>
                e.shows.of = e.contact /\ e.shows.rev \in 1..contact'[e.contact].version
          BY <2>2, <5>1 DEF Shown
        <5> QED BY <2>6, <2>9, <5>2
      <4> QED BY <2>10, <3>1, <4>1, <4>2 DEF Shown
    <3>2. CASE q # r
      <4>1. item'[q] = item[q] /\ item[q] \in ItemRow
        BY <2>10, <3>2 DEF RelationsInv, RelationsTypeOK
      <4>2. HomeOf[item[q].contact] = item[q].customer /\ Shown(item[q])
        BY <4>1 DEF RelationsInv, RelationsHold, LinksAgree, Shown
      <4>3. \A x \in ItemRow : x = item[q] => Shown(x)'
        BY <2>16, <4>2
      <4> QED BY <4>1, <4>2, <4>3 DEF Shown
    <3> QED BY <3>1, <3>2
  <2>18. NothingIsOrphaned'
    <3>1. n.is # "deleted"
      BY <2>9
    <3> QED BY <2>10, <2>13, <3>1 DEF RelationsInv, RelationsHold, NothingIsOrphaned
  <2>19. DealsAreUnique'
    <3>1. n.deal # None => deal[n.deal] = n.parent
      BY <2>3, <2>6, <2>9 DEF Dealt
    <3> QED BY <2>1, <2>10, <3>1 DEF RelationsInv, RelationsHold, DealsAreUnique
  <2>20. \A q \in Items : RowInv(q)'
    <3>1. \A q \in Items : q = r => RowInv(q)'
      BY <2>1, <2>3, <2>6, <2>9, <2>10 DEF RowInv, Dealt
    <3>2. \A q \in Items : q # r => RowInv(q)'
      BY <2>1, <2>10 DEF RelationsInv, RowInv, Dealt
    <3> QED BY <3>1, <3>2
  <2> QED BY <2>1, <2>12, <2>14, <2>15, <2>17, <2>18, <2>19, <2>20, BatchKeeps DEF RelationsHold
<1> QED BY <1>1, <1>2

\* The batches that only guard a record: it changes its version, and at most
\* loses its main contact.
Bumped(r) == item'[r] = item[r] \/
  /\ item[r].is = "live" /\ item'[r].is = "live" /\ item'[r].version > item[r].version
  /\ item'[r].contact = item[r].contact /\ item'[r].shows = item[r].shows
  /\ item'[r].customer = item[r].customer /\ item'[r].parent = item[r].parent
  /\ item'[r].deal = item[r].deal /\ item'[r].primary \in {item[r].primary, None}

LEMMA BumpsKeep ==
  ASSUME RelationsInv, NEW w \in Callers, Leave(w), TableTypes', \A r \in Items : Bumped(r),
         \A r \in Items : item'[r] = item[r] /\ ~HasPeople(r) => ~HasPeople(r)',
         \A c \in Contacts : contact'[c].version >= contact[c].version,
         \A r \in Items : LET c == item'[r].primary IN
           c # None /\ contact[c].active => contact'[c].active,
         \A d \in Deals : deal[d] # None => deal'[d] = deal[d],
         \A d, e \in Deals : deal'[d] = deal'[e] /\ deal'[d] # None => d = e,
         \A l \in Of({"leads"}) : \A d \in told'[l] : deal'[d] = l
  PROVE  RelationsInv'
<1>1. Grows
  BY DEF Grows, Bumped
<1>2. \A x \in ItemRow : (Shown(x) => Shown(x)') /\ (Dealt(x) => Dealt(x)')
  BY <1>1, GrownShown DEF RelationsInv
<1>3. \A r \in Items : item[r] \in ItemRow /\ item'[r] \in ItemRow
  BY DEF RelationsInv, RelationsTypeOK, TableTypes
<1>4. PrimariesStand'
  <2> SUFFICES ASSUME NEW r \in Items, item'[r].primary # None
               PROVE  LET c == item'[r].primary
                      IN  contact'[c].version > 0 /\ HomeOf[c] = r /\ contact'[c].active
    BY DEF PrimariesStand, Known
  <2> DEFINE c == item[r].primary
  <2>1. item'[r].primary = c
    BY DEF Bumped
  <2>2. c \in Contacts /\ Known(c) /\ HomeOf[c] = r /\ contact[c].active
    BY <1>3, <2>1 DEF RelationsInv, RelationsHold, PrimariesStand, ItemRow, OrNone
  <2>3. contact[c].version \in Nat /\ contact'[c].version \in Nat
    BY <2>2 DEF RelationsInv, RelationsTypeOK, TableTypes
  <2> QED BY <2>1, <2>2, <2>3 DEF Known
<1>5. LinksAgree'
  <2> SUFFICES ASSUME NEW r \in Items, item'[r].contact # None
               PROVE  /\ HomeOf[item'[r].contact] = item'[r].customer
                      /\ item'[r].shows.of = item'[r].contact
                      /\ item'[r].shows.rev \in 1..contact'[item'[r].contact].version
    BY DEF LinksAgree
  <2>1. /\ item'[r].contact = item[r].contact /\ item'[r].shows = item[r].shows
        /\ item'[r].customer = item[r].customer
    BY DEF Bumped
  <2>2. HomeOf[item[r].contact] = item[r].customer /\ Shown(item[r])
    BY <2>1 DEF RelationsInv, RelationsHold, LinksAgree, Shown
  <2>3. \A x \in ItemRow : x = item[r] => Shown(x)'
    BY <1>2, <2>2
  <2>4. /\ item[r].shows.of = item[r].contact
        /\ item[r].shows.rev \in 1..contact'[item[r].contact].version
    BY <1>3, <2>1, <2>3 DEF Shown
  <2> QED BY <2>1, <2>2, <2>4
<1>6. NothingIsOrphaned'
  <2> SUFFICES ASSUME NEW r \in Items, item'[r].is = "deleted" PROVE ~HasPeople(r)'
    BY DEF NothingIsOrphaned
  <2>1. item'[r] = item[r]
    BY DEF Bumped
  <2> QED BY <2>1 DEF RelationsInv, RelationsHold, NothingIsOrphaned
<1>7. \A r \in Items : Dealt(item[r])' /\ item'[r].is # "new"
                       /\ (item'[r].is = "none" => item'[r] = Absent)
  <2> SUFFICES ASSUME NEW r \in Items
               PROVE  /\ item'[r].deal # None =>
                           item'[r].parent # None /\ deal'[item'[r].deal] = item'[r].parent
                      /\ item'[r].is # "new"
                      /\ item'[r].is = "none" => item'[r] = Absent
    BY DEF Dealt
  <2>1. RowInv(r)
    BY DEF RelationsInv
  <2>2. item[r].deal # None => item[r].parent # None /\ deal'[item[r].deal] = item[r].parent
    BY <1>3, <2>1 DEF RowInv, Dealt, ItemRow, OrNone
  <2> QED BY <2>1, <2>2 DEF RowInv, Bumped
<1>8. DealsAreUnique'
  <2>1. \A r \in Items : item'[r].deal # None => deal'[item'[r].deal] = item'[r].parent
    BY <1>7 DEF Dealt
  <2> QED BY <2>1 DEF DealsAreUnique
<1>9. \A r \in Items : RowInv(r)'
  BY <1>7 DEF RowInv
<1> QED BY <1>1, <1>4, <1>5, <1>6, <1>8, <1>9, BatchKeeps DEF RelationsHold

\* What guard() and the deactivation trigger do to a row.
LEMMA GuardedRow ==
  ASSUME RelationsInv, NEW r \in Items, item[r].is = "live", NEW c,
         NEW n \in {Guarded(r), Deactivated(r, c)}
  PROVE  /\ n \in ItemRow /\ n.is = "live" /\ n.version > item[r].version
         /\ n.contact = item[r].contact /\ n.shows = item[r].shows
         /\ n.customer = item[r].customer /\ n.parent = item[r].parent
         /\ n.deal = item[r].deal /\ n.primary \in {item[r].primary, None}
         /\ n = Deactivated(r, c) => n.primary = None \/ n.primary # c
<1> DEFINE x == item[r]
           g == [x EXCEPT !.version = @ + 1]
           e == [g EXCEPT !.version = @ + 1, !.stamp = @ + 1, !.primary = None]
<1>1. x \in ItemRow /\ x.version \in Nat
  BY DEF RelationsInv, RelationsTypeOK, ItemRow
<1>2. /\ g \in ItemRow /\ g.is = "live" /\ g.version = x.version + 1
      /\ g.contact = x.contact /\ g.shows = x.shows /\ g.customer = x.customer
      /\ g.parent = x.parent /\ g.deal = x.deal /\ g.primary = x.primary
  BY <1>1, RowsStayRows DEF ItemRow
<1>3. Guarded(r) = g /\ Deactivated(r, c) = IF x.primary = c THEN e ELSE g
  BY DEF Guarded, Deactivated
<1> HIDE DEF g
<1>4. /\ e \in ItemRow /\ e.is = "live" /\ e.version = g.version + 1
      /\ e.contact = g.contact /\ e.shows = g.shows /\ e.customer = g.customer
      /\ e.parent = g.parent /\ e.deal = g.deal /\ e.primary = None
  BY <1>2, RowsStayRows DEF ItemRow
<1> HIDE DEF e
<1>5. x.version + 1 > x.version /\ x.version + 1 + 1 > x.version
  BY <1>1
<1> HIDE DEF x
<1>6. CASE n = g
  BY <1>2, <1>3, <1>4, <1>5, <1>6 DEF x
<1>7. CASE n = e
  BY <1>2, <1>3, <1>4, <1>5, <1>7 DEF x
<1> QED BY <1>3, <1>6, <1>7

LEMMA GreaterDiffers == ASSUME NEW a \in Nat, NEW b \in Nat, b > a PROVE b # a
OBVIOUS

LEMMA WritingContactKeeps ==
  ASSUME RelationsInv, NEW w \in Callers, WriteContact(w)
  PROVE  RelationsInv'
<1> DEFINE r == wish[w].on
           c == wish[w].contact
           n == IF contact[c].active /\ ~wish[w].active THEN Deactivated(r, c) ELSE Guarded(r)
<1>1. CASE Refuse(w)
  BY <1>1, RefuseKeeps
<1>2. ASSUME ~Refuse(w) PROVE RelationsInv'
  <2>1. /\ place[w] = "write person" /\ Current(w) /\ Leave(w)
        /\ contact' = [contact EXCEPT ![c] = [version |-> @.version + 1, active |-> wish[w].active]]
        /\ item' = [item EXCEPT ![r] = n]
        /\ capability' = capability /\ deal' = deal /\ told' = told
    BY <1>2 DEF WriteContact
  <2>2. /\ wish[w].do = "contact" /\ c \in Contacts /\ HomeOf[c] = r /\ Begun(w)
        /\ wish[w] \in Wishes
    BY <2>1, CallerFacts DEF CallerInv, Where, Resolving, Begun
  <2>3. r \in Items /\ item[r].is = "live"
    BY <2>1, <2>2, Judged
  <2>4. wish[w].active \in BOOLEAN
    BY <2>2, WishKinds DEF People
  <2>5. /\ n \in ItemRow /\ n.is = "live" /\ n.version > item[r].version
        /\ n.contact = item[r].contact /\ n.shows = item[r].shows
        /\ n.customer = item[r].customer /\ n.parent = item[r].parent
        /\ n.deal = item[r].deal /\ n.primary \in {item[r].primary, None}
        /\ contact[c].active /\ ~wish[w].active => n.primary = None \/ n.primary # c
    BY <2>3, GuardedRow
  <2> HIDE DEF n
  <2>6. item'[r] = n /\ \A q \in Items : q # r => item'[q] = item[q]
    BY <2>1, <2>3 DEF RelationsInv, RelationsTypeOK
  <2>7. /\ contact[c].version \in Nat
        /\ contact'[c] = [version |-> contact[c].version + 1, active |-> wish[w].active]
        /\ \A a \in Contacts : a # c => contact'[a] = contact[a]
    BY <2>1, <2>2 DEF RelationsInv, RelationsTypeOK
  <2>8. TableTypes'
    <3> DEFINE m == [version |-> contact[c].version + 1, active |-> wish[w].active]
    <3>1. contact' \in [Contacts -> [version: Nat, active: BOOLEAN]]
      <4>1. m \in [version: Nat, active: BOOLEAN]
        BY <2>4, <2>7
      <4>2. contact' = [contact EXCEPT ![c] = m]
        BY <2>1
      <4>3. contact \in [Contacts -> [version: Nat, active: BOOLEAN]]
        BY DEF RelationsInv, RelationsTypeOK
      <4> HIDE DEF m
      <4> QED BY <4>1, <4>2, <4>3
    <3> QED BY <2>1, <2>5, <3>1 DEF RelationsInv, RelationsTypeOK, TableTypes
  <2>9. \A q \in Items : Bumped(q)
    BY <2>3, <2>5, <2>6 DEF Bumped
  <2>10. \A q \in Items : item'[q] = item[q] /\ ~HasPeople(q) => ~HasPeople(q)'
    <3>1. item'[r] # item[r]
      <4>1. item[r].version \in Nat /\ n.version \in Nat
        BY <2>3, <2>5 DEF RelationsInv, RelationsTypeOK, ItemRow
      <4>2. n.version # item[r].version
        BY <2>5, <4>1, GreaterDiffers
      <4> QED BY <2>6, <4>2
    <3>2. \A a \in Contacts : HomeOf[a] # r => (Known(a)' <=> Known(a))
      BY <2>2, <2>7 DEF Known
    <3> QED BY <2>1, <3>1, <3>2 DEF HasPeople
  <2>11. \A a \in Contacts : contact'[a].version >= contact[a].version
    <3>1. contact'[c].version >= contact[c].version
      BY <2>7
    <3>2. \A a \in Contacts : contact[a].version \in Nat
      BY DEF RelationsInv, RelationsTypeOK
    <3> QED BY <2>7, <3>1, <3>2, NoLessThanItself
  <2>12. ASSUME NEW q \in Items, item'[q].primary # None, contact[item'[q].primary].active
         PROVE  contact'[item'[q].primary].active
    <3> DEFINE a == item'[q].primary
    <3>1. a \in Contacts /\ a = item[q].primary
      BY <2>8, <2>9, <2>12 DEF Bumped, TableTypes, ItemRow, OrNone
    <3>2. HomeOf[a] = q
      BY <2>12, <3>1 DEF RelationsInv, RelationsHold, PrimariesStand
    <3>3. CASE a # c
      BY <2>7, <2>12, <3>1, <3>3
    <3>4. CASE a = c
      <4>1. q = r
        BY <2>2, <3>2, <3>4
      <4>2. wish[w].active
        BY <2>5, <2>6, <2>12, <3>4, <4>1
      <4> QED BY <2>7, <3>4, <4>2
    <3> QED BY <3>3, <3>4
  <2>13. /\ \A d \in Deals : deal[d] # None => deal'[d] = deal[d]
         /\ \A d, e \in Deals : deal'[d] = deal'[e] /\ deal'[d] # None => d = e
         /\ \A l \in Of({"leads"}) : \A d \in told'[l] : deal'[d] = l
    BY <2>1 DEF RelationsInv, RelationsHold, DealsAreUnique
  <2> QED BY <2>1, <2>8, <2>9, <2>10, <2>11, <2>12, <2>13, BumpsKeep
<1> QED BY <1>1, <1>2

\* A batch that leaves contacts and deals alone.
LEMMA WritingCapabilityKeeps ==
  ASSUME RelationsInv, NEW w \in Callers, WriteCapability(w)
  PROVE  RelationsInv'
<1> DEFINE k == wish[w].capability
           s == EndsOf[k][1]
           p == EndsOf[k][2]
<1>1. CASE Refuse(w)
  BY <1>1, RefuseKeeps
<1>2. ASSUME ~Refuse(w) PROVE RelationsInv'
  <2>1. /\ place[w] = "write skill" /\ Current(w) /\ item[p].version = second[w] /\ Leave(w)
        /\ capability' = [capability EXCEPT ![k] = @ + 1]
        /\ item' = [item EXCEPT ![s] = Guarded(s), ![p] = Guarded(p)]
        /\ contact' = contact /\ deal' = deal /\ told' = told
    BY <1>2 DEF WriteCapability
  <2>2. /\ wish[w].do = "capability" /\ k \in Capabilities /\ s = wish[w].on /\ Begun(w)
        /\ CallerInv(w)
    BY <2>1, CallerFacts DEF CallerInv, Where, Resolving, Begun
  <2>3. s \in Items /\ item[s].is = "live"
    BY <2>1, <2>2, Judged
  <2>4. p \in Items /\ item[p].is = "live"
    <3>1. p \in Items
      BY <2>2, RelationKinds DEF Of
    <3>2. Live(p)
      BY <2>1, <2>2 DEF CallerInv, Paired
    <3> QED BY <3>1, <3>2 DEF Live
  <2> HIDE DEF s, p
  <2>5. \A q \in {s, p} :
          /\ Guarded(q) \in ItemRow /\ Guarded(q).is = "live" /\ Guarded(q).version > item[q].version
          /\ Guarded(q).contact = item[q].contact /\ Guarded(q).shows = item[q].shows
          /\ Guarded(q).customer = item[q].customer /\ Guarded(q).parent = item[q].parent
          /\ Guarded(q).deal = item[q].deal /\ Guarded(q).primary \in {item[q].primary, None}
    BY <2>3, <2>4, GuardedRow
  <2>6. \A q \in Items : item'[q] = IF q \in {s, p} THEN Guarded(q) ELSE item[q]
    BY <2>1, <2>3, <2>4 DEF RelationsInv, RelationsTypeOK
  <2>7. TableTypes'
    <3>1. capability' \in [Capabilities -> Nat]
      <4>1. capability \in [Capabilities -> Nat]
        BY DEF RelationsInv, RelationsTypeOK
      <4>2. capability[k] + 1 \in Nat
        BY <2>2, <4>1
      <4> QED BY <2>1, <4>1, <4>2
    <3>2. item' \in [Items -> ItemRow]
      <4>1. item \in [Items -> ItemRow] /\ Guarded(s) \in ItemRow /\ Guarded(p) \in ItemRow
        BY <2>5 DEF RelationsInv, RelationsTypeOK
      <4> QED BY <2>1, <4>1
    <3> QED BY <2>1, <3>1, <3>2 DEF RelationsInv, RelationsTypeOK, TableTypes
  <2>8. \A q \in Items : Bumped(q)
    BY <2>3, <2>4, <2>5, <2>6 DEF Bumped
  <2>9. \A q \in Items : item'[q] = item[q] /\ ~HasPeople(q) => ~HasPeople(q)'
    <3> SUFFICES ASSUME NEW q \in Items, item'[q] = item[q], ~HasPeople(q) PROVE ~HasPeople(q)'
      OBVIOUS
    <3>1. q \notin {s, p}
      <4>1. item[q].version \in Nat /\ item'[q].version \in Nat
        BY <2>7 DEF RelationsInv, RelationsTypeOK, TableTypes, ItemRow
      <4>2. item'[q].version = item[q].version
        OBVIOUS
      <4>3. ~(item'[q].version > item[q].version)
        BY <4>1, <4>2
      <4> QED BY <2>5, <2>6, <4>3
    <3>2. \A a \in Capabilities : a # k => capability'[a] = capability[a]
      BY <2>1 DEF RelationsInv, RelationsTypeOK
    <3>3. EndsOf[k][1] = s /\ EndsOf[k][2] = p
      BY DEF s, p
    <3> QED BY <2>1, <3>1, <3>2, <3>3 DEF HasPeople, Known
  <2>10. \A a \in Contacts : contact'[a].version >= contact[a].version
    BY <2>1, NoLessThanItself DEF RelationsInv, RelationsTypeOK
  <2>11. /\ \A q \in Items : LET a == item'[q].primary IN
              a # None /\ contact[a].active => contact'[a].active
         /\ \A d \in Deals : deal[d] # None => deal'[d] = deal[d]
         /\ \A d, e \in Deals : deal'[d] = deal'[e] /\ deal'[d] # None => d = e
         /\ \A l \in Of({"leads"}) : \A d \in told'[l] : deal'[d] = l
    BY <2>1 DEF RelationsInv, RelationsHold, DealsAreUnique
  <2> QED BY <2>1, <2>7, <2>8, <2>9, <2>10, <2>11, BumpsKeep
<1> QED BY <1>1, <1>2

LEMMA WritingDealKeeps ==
  ASSUME RelationsInv, NEW w \in Callers, WriteDeal(w)
  PROVE  RelationsInv'
<1> DEFINE l == wish[w].on
<1>1. /\ place[w] = "write deal" /\ wish[w].do = "deal" /\ l \in Of({"leads"}) /\ Begun(w)
  BY CallerFacts DEF WriteDeal, CallerInv, Where, Resolving, Begun
<1>2. CASE Advance(w, "again")
  BY <1>1, <1>2, LooksKeep
<1>3. ASSUME ~Advance(w, "again") PROVE RelationsInv'
  <2>1. PICK b \in Deals :
          /\ Current(w) /\ DealOf(l) = None /\ deal[b] = None /\ Leave(w)
          /\ deal' = [deal EXCEPT ![b] = l]
          /\ told' = [told EXCEPT ![l] = @ \cup {b}]
          /\ item' = [item EXCEPT ![l] = Guarded(l)]
          /\ contact' = contact /\ capability' = capability
    BY <1>3 DEF WriteDeal
  <2>2. l \in Items /\ item[l].is = "live"
    BY <1>1, <2>1, Judged
  <2>3. /\ Guarded(l) \in ItemRow /\ Guarded(l).is = "live" /\ Guarded(l).version > item[l].version
        /\ Guarded(l).contact = item[l].contact /\ Guarded(l).shows = item[l].shows
        /\ Guarded(l).customer = item[l].customer /\ Guarded(l).parent = item[l].parent
        /\ Guarded(l).deal = item[l].deal /\ Guarded(l).primary \in {item[l].primary, None}
    BY <2>2, GuardedRow
  <2>4. \A d \in Deals : deal[d] # l
    BY <2>1, DealOfLead DEF RelationsInv
  <2> HIDE DEF l
  <2>5. item'[l] = Guarded(l) /\ \A q \in Items : q # l => item'[q] = item[q]
    BY <2>1, <2>2 DEF RelationsInv, RelationsTypeOK
  <2>6. deal'[b] = l /\ \A d \in Deals : d # b => deal'[d] = deal[d]
    BY <2>1 DEF RelationsInv, RelationsTypeOK
  <2>7. TableTypes'
    <3>1. deal' \in [Deals -> OrNone(Of({"leads"}))] /\ told' \in [Of({"leads"}) -> SUBSET Deals]
      BY <1>1, <2>1 DEF RelationsInv, RelationsTypeOK, OrNone, l
    <3> QED BY <2>1, <2>3, <3>1 DEF RelationsInv, RelationsTypeOK, TableTypes
  <2>8. \A q \in Items : Bumped(q)
    BY <2>2, <2>3, <2>5 DEF Bumped
  <2>9. \A q \in Items : item'[q] = item[q] /\ ~HasPeople(q) => ~HasPeople(q)'
    <3>1. item'[l] # item[l]
      <4>1. item[l].version \in Nat /\ Guarded(l).version \in Nat
        BY <2>2, <2>3 DEF RelationsInv, RelationsTypeOK, ItemRow
      <4>2. Guarded(l).version # item[l].version
        BY <2>3, <4>1, GreaterDiffers
      <4> QED BY <2>5, <4>2
    <3> QED BY <2>1, <2>6, <3>1 DEF HasPeople, Known
  <2>10. \A a \in Contacts : contact'[a].version >= contact[a].version
    BY <2>1, NoLessThanItself DEF RelationsInv, RelationsTypeOK
  <2>11. \A q \in Items : LET a == item'[q].primary IN
           a # None /\ contact[a].active => contact'[a].active
    BY <2>1
  <2>12. \A d \in Deals : deal[d] # None => deal'[d] = deal[d]
    BY <2>1, <2>6
  <2>13. \A d, e \in Deals : deal'[d] = deal'[e] /\ deal'[d] # None => d = e
    BY <2>4, <2>6 DEF RelationsInv, RelationsHold, DealsAreUnique
  <2>14. \A k \in Of({"leads"}) : \A d \in told'[k] : deal'[d] = k
    <3> SUFFICES ASSUME NEW k \in Of({"leads"}), NEW d \in told'[k] PROVE deal'[d] = k
      OBVIOUS
    <3>1. d \in told[k] \/ (k = l /\ d = b)
      BY <2>1 DEF RelationsInv, RelationsTypeOK
    <3>2. CASE d \in told[k]
      <4>1. deal[d] = k /\ d \in Deals
        BY <3>2 DEF RelationsInv, RelationsTypeOK, RelationsHold, DealsAreUnique
      <4>2. k # None
        BY NoneIsNobody DEF Of
      <4> QED BY <2>12, <4>1, <4>2
    <3>3. CASE k = l /\ d = b
      BY <2>6, <3>3
    <3> QED BY <3>1, <3>2, <3>3
  <2> QED BY <2>1, <2>7, <2>8, <2>9, <2>10, <2>11, <2>12, <2>13, <2>14, BumpsKeep
<1> QED BY <1>2, <1>3

-----------------------------------------------------------------------------
(* Every step *)

LEMMA RelationsStep ==
  RelationsInv /\ [RelationsNext]_relationsVars => RelationsInv'
<1> SUFFICES ASSUME RelationsInv, [RelationsNext]_relationsVars PROVE RelationsInv'
  OBVIOUS
<1>1. CASE UNCHANGED relationsVars
  <2>1. UNCHANGED tables /\ OwnTypes' /\ \A v \in Callers : Same(v)
    BY <1>1 DEF relationsVars, own, OwnTypes, Same, RelationsInv, RelationsTypeOK
  <2>2. item' = item /\ contact' = contact /\ capability' = capability /\ deal' = deal /\ told' = told
    BY <2>1 DEF tables
  <2>3. \A v \in Callers : CallerInv(v)'
    BY <2>1, <2>2, SameCaller DEF RelationsInv
  <2>4. RelationsTypeOK'
    BY <2>1, <2>2 DEF RelationsInv, RelationsTypeOK, OwnTypes
  <2>5. RelationsHold' /\ \A r \in Items : RowInv(r)'
    BY <2>2 DEF RelationsInv, RelationsHold, PrimariesStand, LinksAgree, NothingIsOrphaned,
                DealsAreUnique, HasPeople, Known, RowInv, Dealt
  <2> QED BY <2>3, <2>4, <2>5 DEF RelationsInv
<1>2. ASSUME NEW w \in Callers, Call(w) PROVE RelationsInv'
  <2>1. CASE \/ WantRecord(w) \/ WantContact(w) \/ WantCapability(w) \/ WantDeal(w)
             \/ WantLinks(w) \/ WantPatch(w)
    BY <2>1, AskingKeeps
  <2>2. CASE LoadItem(w)
    BY <2>2, LoadKeeps
  <2>3. CASE FindRecord(w) \/ InheritLinks(w) \/ InheritDeal(w)
    BY <2>3, NewRecordKeeps
  <2>4. CASE \/ LinkCustomer(w) \/ LinkContact(w) \/ LinkProduct(w) \/ LinkPrimary(w)
             \/ LinkDeal(w) \/ CheckParent(w)
    BY <2>4, LinkingKeeps
  <2>5. CASE QuoteLead(w) \/ QuoteDeal(w)
    BY <2>5, QuotingKeeps
  <2>6. CASE CheckHistory(w) \/ CheckPeers(w)
    BY <2>6, HistoryKeeps
  <2>7. CASE ReadPerson(w) \/ ReadItsProduct(w) \/ ReadSkill(w)
    BY <2>7, ReadingPeopleKeeps
  <2>8. CASE ReadItsDeal(w) \/ ReadDealAgain(w)
    BY <2>8, ReadingDealsKeeps
  <2>9. CASE WriteItem(w)
    BY <2>9, WritingItemKeeps
  <2>10. CASE InsertItem(w)
    BY <2>10, InsertingItemKeeps
  <2>11. CASE WriteContact(w)
    BY <2>11, WritingContactKeeps
  <2>12. CASE WriteCapability(w)
    BY <2>12, WritingCapabilityKeeps
  <2>13. CASE WriteDeal(w)
    BY <2>13, WritingDealKeeps
  <2>14. CASE LoseCaller(w)
    BY <2>14, RefuseKeeps DEF LoseCaller
  <2> QED BY <1>2, <2>1, <2>2, <2>3, <2>4, <2>5, <2>6, <2>7, <2>8, <2>9, <2>10, <2>11, <2>12,
             <2>13, <2>14 DEF Call
<1> QED BY <1>1, <1>2 DEF RelationsNext

LEMMA RelationsInvariant == RelationsSpec => []RelationsInv
BY RelationsInitInv, RelationsStep, PTL DEF RelationsSpec

\* Rows, links and callers are what their types say, however commands overlap
\* and wherever one of them is lost.
THEOREM RelationsTypes ==
  RelationsSpec => []RelationsTypeOK
<1>1. RelationsInv => RelationsTypeOK
  BY DEF RelationsInv
<1> QED BY <1>1, RelationsInvariant, PTL

\* A main contact is active and at home, a document names a contact of its
\* customer and words that contact had, a deleted record leaves nobody behind,
\* and a lead has one deal: for any number of overlapping commands, each of
\* which judged rows that it had read awaits before its batch.
THEOREM LinksStand ==
  RelationsSpec => []RelationsHold
<1>1. RelationsInv => RelationsHold
  BY DEF RelationsInv
<1> QED BY <1>1, RelationsInvariant, PTL

-----------------------------------------------------------------------------
(* Choices *)

\* A row whose words and contact stay as they are.
LEMMA KeptChoice ==
  ASSUME RelationsInv, NEW r \in Items,
         item'[r].contact = item[r].contact, item'[r].shows = item[r].shows
  PROVE  Chosen(r)
<1>1. item[r].shows.rev \in Nat
  BY RowsStayRows DEF RelationsInv, RelationsTypeOK
<1>2. item[r].shows.rev >= item[r].shows.rev
  BY <1>1, NoLessThanItself
<1> QED BY <1>2 DEF Chosen

\* A caller's batch on its record, and the two that write words.
LEMMA WritingChooses ==
  ASSUME RelationsInv, NEW w \in Callers, WriteItem(w), NEW q \in Items
  PROVE  Chosen(q)
<1> DEFINE r == wish[w].on
           e == draft[w]
           d == [e EXCEPT !.version = held[w].version + 1]
<1>1. CASE item' = item
  BY <1>1, KeptChoice
<1>2. CASE item' # item
  <2>1. /\ place[w] = "write" /\ wish[w].do # "create" /\ Current(w) /\ Admitted(r, d)
        /\ item' = [item EXCEPT ![r] = d] /\ contact' = contact
    BY <1>2 DEF WriteItem, Refuse, tables
  <2>2. Begun(w)
    BY <2>1 DEF Begun
  <2>3. /\ r \in Items /\ held[w] = item[r] /\ e \in ItemRow /\ CallerInv(w)
    BY <2>1, <2>2, Judged
  <2>4. d.contact = e.contact /\ d.shows = e.shows
    BY <2>3 DEF ItemRow
  <2>5. /\ d.contact # None /\ d.contact # item[r].contact => contact[d.contact].active
        /\ d.contact # None /\ d.contact = item[r].contact => d.shows.rev >= item[r].shows.rev
    <3>1. e.contact # None /\ e.contact = held[w].contact => e.shows.rev >= held[w].shows.rev
      BY <2>1, <2>2, <2>3 DEF CallerInv, Drawn, Checked
    <3>2. d.contact # None /\ d.contact # item[r].contact => contact[d.contact].active
      BY <2>1 DEF Admitted, NamesSomebodyActive
    <3> QED BY <2>3, <2>4, <3>1, <3>2
  <2> HIDE DEF d
  <2>6. item'[q] = IF q = r THEN d ELSE item[q]
    BY <2>1, <2>3 DEF RelationsInv, RelationsTypeOK
  <2>7. CASE q = r
    BY <2>1, <2>5, <2>6, <2>7 DEF Chosen
  <2>8. CASE q # r
    BY <2>6, <2>8, KeptChoice
  <2> QED BY <2>7, <2>8
<1> QED BY <1>1, <1>2

LEMMA InsertingChooses ==
  ASSUME RelationsInv, NEW w \in Callers, InsertItem(w), NEW q \in Items
  PROVE  Chosen(q)
<1> DEFINE r == wish[w].on
           main == wish[w].main
           d == [draft[w] EXCEPT !.is = "live", !.version = 1, !.stamp = 1]
           n == [d EXCEPT !.primary = main]
<1>1. CASE item' = item
  BY <1>1, KeptChoice
<1>2. CASE item' # item
  <2>1. /\ place[w] = "write" /\ wish[w].do = "create" /\ item[r].is = "none" /\ Admitted(r, d)
        /\ item' = [item EXCEPT ![r] = n] /\ (main # None => ~Known(main))
        /\ contact' = IF main = None THEN contact
                      ELSE [contact EXCEPT ![main] = [version |-> 1, active |-> TRUE]]
    BY <1>2 DEF InsertItem, Refuse, tables
  <2>2. r \in Items /\ draft[w] \in ItemRow
    BY <2>1, CallerFacts
  <2>3. item[r].contact = None
    BY <2>1, <2>2 DEF RelationsInv, RowInv, Absent
  <2>4. d \in ItemRow
    BY <2>2, RowsStayRows
  <2>5. d.contact # None => Known(d.contact) /\ contact[d.contact].active
    BY <2>1, <2>3 DEF Admitted, NamesSomebodyActive, LinkedRightly
  <2> HIDE DEF d
  <2>6. n.contact = d.contact
    BY <2>4 DEF ItemRow
  <2> HIDE DEF n
  <2>7. item'[q] = IF q = r THEN n ELSE item[q]
    BY <2>1, <2>2 DEF RelationsInv, RelationsTypeOK
  <2>8. CASE q # r
    BY <2>7, <2>8, KeptChoice
  <2>9. CASE q = r
    <3>1. d.contact # None => contact'[d.contact].active
      <4> SUFFICES ASSUME d.contact # None PROVE contact'[d.contact].active
        OBVIOUS
      <4>1. d.contact \in Contacts /\ d.contact # main
        BY <2>1, <2>4, <2>5 DEF ItemRow, OrNone
      <4> QED BY <2>1, <2>5, <4>1 DEF RelationsInv, RelationsTypeOK
    <3> QED BY <2>3, <2>6, <2>7, <2>9, <3>1 DEF Chosen
  <2> QED BY <2>8, <2>9
<1> QED BY <1>1, <1>2

\* Every other step leaves contacts and words as they are.
LEMMA GuardingChooses ==
  ASSUME RelationsInv, NEW w \in Callers, WriteContact(w) \/ WriteCapability(w) \/ WriteDeal(w),
         NEW q \in Items
  PROVE  Chosen(q)
<1>1. /\ item'[q].contact = item[q].contact /\ item'[q].shows = item[q].shows
  <2>1. item[q] \in ItemRow /\ item \in [Items -> ItemRow]
    BY DEF RelationsInv, RelationsTypeOK
  <2>2. \A c : /\ Guarded(q).contact = item[q].contact /\ Guarded(q).shows = item[q].shows
               /\ Deactivated(q, c).contact = item[q].contact
               /\ Deactivated(q, c).shows = item[q].shows
    BY <2>1 DEF Guarded, Deactivated, ItemRow
  <2>3. item'[q] \in {item[q], Guarded(q), Deactivated(q, wish[w].contact)}
    <3>1. CASE WriteContact(w)
      BY <2>1, <3>1 DEF WriteContact, Refuse, tables
    <3>2. CASE WriteCapability(w)
      BY <2>1, <3>2 DEF WriteCapability, Refuse, tables
    <3>3. CASE WriteDeal(w)
      BY <2>1, <3>3 DEF WriteDeal, Advance, tables
    <3> QED BY <3>1, <3>2, <3>3
  <2> QED BY <2>2, <2>3
<1> QED BY <1>1, KeptChoice

Choosing == \A r \in Items : Chosen(r)
LEMMA ChoosingStep ==
  RelationsInv /\ [RelationsNext]_relationsVars => Choosing
<1> SUFFICES ASSUME RelationsInv, [RelationsNext]_relationsVars, NEW q \in Items PROVE Chosen(q)
  BY DEF Choosing
<1>1. CASE item' = item
  BY <1>1, KeptChoice
<1>2. CASE item' # item
  <2>1. PICK w \in Callers : Call(w)
    BY <1>2 DEF RelationsNext, relationsVars, tables
  <2>2. \/ WriteItem(w) \/ InsertItem(w)
        \/ WriteContact(w) \/ WriteCapability(w) \/ WriteDeal(w)
    <3>1. ~Refuse(w) /\ (\A label : ~Advance(w, label)) /\ (\A d, label : ~Carry(w, d, label))
          /\ (\A c, label : ~Want(w, c, label)) /\ (\A x, d, label : ~Begin(w, x, d, label)) /\ ~Tell(w)
      BY <1>2 DEF Refuse, Advance, Carry, Want, Begin, Tell, tables
    <3>2. /\ ~WantRecord(w) /\ ~WantContact(w) /\ ~WantCapability(w) /\ ~WantDeal(w)
          /\ ~WantLinks(w) /\ ~WantPatch(w)
      BY <3>1 DEF WantRecord, WantContact, WantCapability, WantDeal, WantLinks, WantPatch
    <3>3. ~LoadItem(w)
      <4> SUFFICES ASSUME LoadItem(w) PROVE FALSE
        OBVIOUS
      <4>1. wish[w].do \in {"contact", "capability", "deal", "links", "edit", "delete", "status"}
        BY CallerFacts DEF LoadItem, CallerInv, Where, Resolving
      <4> QED BY <3>1, <4>1 DEF LoadItem
    <3>4. /\ ~FindRecord(w) /\ ~InheritLinks(w) /\ ~InheritDeal(w) /\ ~CheckParent(w)
      BY <3>1 DEF FindRecord, InheritLinks, InheritDeal, CheckParent
    <3>5. /\ ~LinkCustomer(w) /\ ~LinkContact(w) /\ ~LinkProduct(w) /\ ~LinkPrimary(w) /\ ~LinkDeal(w)
      BY <3>1 DEF LinkCustomer, LinkContact, LinkProduct, LinkPrimary, LinkDeal, Missing
    <3>6. /\ ~QuoteLead(w) /\ ~QuoteDeal(w) /\ ~CheckHistory(w) /\ ~CheckPeers(w)
      BY <3>1 DEF QuoteLead, QuoteDeal, CheckHistory, CheckPeers
    <3>7. /\ ~ReadPerson(w) /\ ~ReadItsProduct(w) /\ ~ReadSkill(w) /\ ~ReadItsDeal(w)
          /\ ~ReadDealAgain(w) /\ ~LoseCaller(w)
      BY <1>2, <3>1 DEF ReadPerson, ReadItsProduct, ReadSkill, ReadItsDeal, ReadDealAgain,
                        LoseCaller, tables
    <3> QED BY <2>1, <3>2, <3>3, <3>4, <3>5, <3>6, <3>7 DEF Call
  <2> QED BY <2>2, WritingChooses, InsertingChooses, GuardingChooses
<1> QED BY <1>1, <1>2

\* Nobody is newly linked to a contact that has left, and a document's words of a
\* contact are never replaced by older ones, whoever read what when.
THEOREM ChoicesStayCurrent ==
  RelationsSpec => ChoicesAreCurrent
<1>1. RelationsSpec => [][Choosing]_<<item, contact>>
  BY RelationsInvariant, ChoosingStep, PTL DEF RelationsSpec
<1> QED BY <1>1 DEF ChoicesAreCurrent, Choosing
=============================================================================
