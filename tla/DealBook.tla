------------------------------- MODULE DealBook -------------------------------
(***************************************************************************)
(* The commercial book of one deal (src/src/lib/execution/store.ts): the   *)
(* suppliers considered, the requests sent to them, every revision of      *)
(* their offers, the cost scenarios built on an offer and the quotations   *)
(* prepared from a selected scenario.  Here one command at a time is       *)
(* judged on the book as it stands and carried out whole; Execution has    *)
(* the handlers, which read row by row and write awaits later.             *)
(***************************************************************************)
EXTENDS Integers

CONSTANTS
  Suppliers,   \* a supplier with the product it would supply (DealSupplier_pair)
  Rfqs, Offers, Scenarios,   \* ids of rows: each is one request's identity
  Terms        \* what details can say: quantities, prices, costs

ASSUME NoneIsNothing == "none" \notin Rfqs \cup Offers \cup Terms

VARIABLES
  lead,        \* version of the deal's lead, the root every batch guards
  candidate, rfq, offer, scenario,
  quote        \* scenario -> terms of the quotation `${scenario}-Q`, if there is one

book == <<lead, candidate, rfq, offer, scenario, quote>>

NoRow == [version |-> 0]
Exists(x) == x.version > 0

Sourcing == {"Candidate", "No response", "Declined", "Removed"}
Decisions == {"Under review", "Declined", "Selected"}
RfqStages == {"Draft", "Prepared", "Sent externally", "Responded", "Closed"}
RfqMoves(s) ==
  CASE s = "Draft"           -> {"Draft", "Prepared", "Closed"}
    [] s = "Prepared"        -> {"Draft", "Prepared", "Sent externally", "Closed"}
    [] s = "Sent externally" -> {"Responded", "Closed"}
    [] s = "Responded"       -> {"Closed"}
    [] OTHER                 -> {}
Sent == {"Sent externally", "Responded", "Closed"}

\* Version 0 is a command that names no row: it creates one under its identity.
SaveCandidate(V) == [do: {"candidate"}, on: Suppliers, status: Sourcing, version: V]
SaveRfq(V) == [do: {"rfq"}, on: Rfqs, supplier: Suppliers, status: RfqStages, terms: Terms,
               version: V]
RecordOffer(V) == [do: {"offer"}, on: Offers, supplier: Suppliers, terms: Terms,
                   previous: Offers \cup {"none"}, rfq: Rfqs \cup {"none"}, version: V]
OfferStatus(V) == [do: {"offer status"}, on: Offers, status: Decisions, version: V]
SaveScenario(V) == [do: {"scenario"}, on: Scenarios, offer: Offers, terms: Terms, version: V]
ScenarioStatus(V) == [do: {"scenario status"}, on: Scenarios, status: {"Reviewed", "Selected"},
                      version: V]
PrepareQuotation(V) == [do: {"quotation"}, on: Scenarios, version: V]
DealCommands(V) ==
  SaveCandidate(V) \cup SaveRfq(V) \cup RecordOffer(V) \cup OfferStatus(V) \cup SaveScenario(V)
    \cup ScenarioStatus(V) \cup PrepareQuotation(V)

\* The row the command changes; a new revision of an offer changes the previous one.
Target(c) ==
  CASE c.do = "candidate" -> candidate[c.on]
    [] c.do = "rfq" -> rfq[c.on]
    [] c.do = "offer" -> IF c.previous = "none" THEN NoRow ELSE offer[c.previous]
    [] c.do = "offer status" -> offer[c.on]
    [] OTHER -> scenario[c.on]

BookInit ==
  /\ lead = 1
  /\ candidate = [s \in Suppliers |-> NoRow]
  /\ rfq = [r \in Rfqs |-> NoRow]
  /\ offer = [o \in Offers |-> NoRow]
  /\ scenario = [s \in Scenarios |-> NoRow]
  /\ quote = [s \in Scenarios |-> "none"]

-----------------------------------------------------------------------------
(* The rules, of a command and the row x that was read for it.  Reasons to   *)
(* refuse that lie outside the deal (roles, an inactive supplier, missing    *)
(* capability, an expired offer, a cost out of range) may stop any request.  *)

MaySaveCandidate(c, x) ==
  Exists(x) => x.status # c.status /\ x.version = c.version

MaySaveRfq(c, x) ==
  /\ Exists(candidate[c.supplier]) /\ candidate[c.supplier].status # "Removed"
  /\ IF Exists(x)
       THEN /\ x.supplier = c.supplier /\ x.version = c.version
            /\ c.status \in RfqMoves(x.status)
            /\ x.status \in Sent => c.terms = x.terms
       ELSE c.version = 0 /\ c.status = "Draft"

MayRecordOffer(c, x) ==
  /\ c.rfq # "none" => Exists(rfq[c.rfq]) /\ rfq[c.rfq].supplier = c.supplier
  /\ ~Exists(offer[c.on])
  /\ c.previous # "none" =>
       /\ Exists(x) /\ x.supplier = c.supplier
       /\ x.version = c.version /\ x.status # "Superseded"

MayDecide(c, x) == Exists(x) /\ x.version = c.version /\ x.status # "Superseded"

MaySaveScenario(c, x) ==
  /\ Exists(offer[c.offer])
  /\ IF Exists(x)
       THEN x.offer = c.offer /\ x.version = c.version /\ x.status = "Draft"
       ELSE c.version = 0

Current(o) == offer[o].status \notin {"Superseded", "Declined"}
MayReviewOrSelect(c, x) ==
  /\ Exists(x) /\ x.version = c.version
  /\ <<x.status, c.status>> \in {<<"Draft", "Reviewed">>, <<"Reviewed", "Selected">>}
  /\ c.status = "Selected" => Current(x.offer)

\* Mutant: a scenario may be quoted before it is reviewed and selected.
MayPrepareDraft(c, x) ==
  /\ Exists(x) /\ x.version = c.version
  /\ ~x.quoted /\ Current(x.offer)
MayPrepare(c, x) ==
  /\ Exists(x) /\ x.version = c.version
  /\ ~x.quoted /\ x.status = "Selected" /\ Current(x.offer)

Judged(c, x) ==
  CASE c.do = "candidate"       -> MaySaveCandidate(c, x)
    [] c.do = "rfq"             -> MaySaveRfq(c, x)
    [] c.do = "offer"           -> MayRecordOffer(c, x)
    [] c.do = "offer status"    -> MayDecide(c, x)
    [] c.do = "scenario"        -> MaySaveScenario(c, x)
    [] c.do = "scenario status" -> MayReviewOrSelect(c, x)
    [] OTHER                    -> MayPrepare(c, x)

-----------------------------------------------------------------------------
(* The batches.                                                             *)

Moved(x, status) == [x EXCEPT !.status = status, !.version = @ + 1]

WriteCandidate(c, x) ==
  /\ candidate' = [candidate EXCEPT ![c.on] =
       IF Exists(x) THEN Moved(@, c.status) ELSE [status |-> c.status, version |-> 1]]
  /\ UNCHANGED <<rfq, offer, scenario, quote>>

WriteRfq(c, x) ==
  /\ rfq' = [rfq EXCEPT ![c.on] =
       IF Exists(x) THEN [Moved(@, c.status) EXCEPT !.terms = c.terms]
       ELSE [supplier |-> c.supplier, status |-> "Draft", terms |-> c.terms, version |-> 1]]
  /\ UNCHANGED <<candidate, offer, scenario, quote>>

Revision(c, x) ==
  [supplier |-> c.supplier, status |-> "Received", terms |-> c.terms, version |-> 1,
   rfq |-> IF c.rfq = "none" /\ Exists(x) THEN x.rfq ELSE c.rfq,
   series |-> IF Exists(x) THEN x.series ELSE c.on,
   revision |-> IF Exists(x) THEN x.revision + 1 ELSE 1,
   previous |-> c.previous]
\* Mutant: the previous revision is not superseded.
WriteOfferBeside(c, x) ==
  /\ offer' = [offer EXCEPT ![c.on] = Revision(c, x)]
  /\ UNCHANGED <<candidate, rfq, scenario, quote>>
WriteOffer(c, x) ==
  /\ offer' = [o \in Offers |->
       CASE o = c.on       -> Revision(c, x)
         [] o = c.previous -> Moved(offer[o], "Superseded")
         [] OTHER          -> offer[o]]
  /\ UNCHANGED <<candidate, rfq, scenario, quote>>

WriteDecision(c) ==
  /\ offer' = [offer EXCEPT ![c.on] = Moved(@, c.status)]
  /\ UNCHANGED <<candidate, rfq, scenario, quote>>

Edited(x, terms) == [x EXCEPT !.terms = terms, !.version = @ + 1]
WriteScenario(c, x) ==
  /\ scenario' = [scenario EXCEPT ![c.on] =
       IF Exists(x) THEN Edited(@, c.terms)
       ELSE [offer |-> c.offer, status |-> "Draft", terms |-> c.terms, quoted |-> FALSE,
             version |-> 1]]
  /\ UNCHANGED <<candidate, rfq, offer, quote>>

\* Selecting one scenario of the deal puts the selected one back to Reviewed.
Selected(s) == Exists(scenario[s]) /\ scenario[s].status = "Selected"
WriteStatus(c) ==
  /\ scenario' = [s \in Scenarios |->
       IF s = c.on THEN Moved(scenario[s], c.status)
       ELSE IF c.status = "Selected" /\ Selected(s) THEN Moved(scenario[s], "Reviewed")
       ELSE scenario[s]]
  /\ UNCHANGED <<candidate, rfq, offer, quote>>

WriteQuotation(c, x) ==
  /\ scenario' = [scenario EXCEPT ![c.on].quoted = TRUE, ![c.on].version = @ + 1]
  /\ quote' = [quote EXCEPT ![c.on] = x.terms]
  /\ UNCHANGED <<candidate, rfq, offer>>

\* Every batch begins with the guard of the lead, which counts its version up.
CarryOut(c, x) ==
  /\ lead' = lead + 1
  /\ CASE c.do = "candidate"       -> WriteCandidate(c, x)
       [] c.do = "rfq"             -> WriteRfq(c, x)
       [] c.do = "offer"           -> WriteOffer(c, x)
       [] c.do = "offer status"    -> WriteDecision(c)
       [] c.do = "scenario"        -> WriteScenario(c, x)
       [] c.do = "scenario status" -> WriteStatus(c)
       [] OTHER                    -> WriteQuotation(c, x)

\* The lead is a business record of its own (Records): any command on it
\* counts its version up and leaves the deal's rows alone.
LeadEdited == lead' = lead + 1 /\ UNCHANGED <<candidate, rfq, offer, scenario, quote>>

\* No row is ever ahead of the lead.
BookNext ==
  \/ LeadEdited
  \/ /\ lead' = lead + 1
     /\ \E v \in 0..lead : \E c \in DealCommands({v}) :
          Judged(c, Target(c)) /\ CarryOut(c, Target(c))
BookSpec == BookInit /\ [][BookNext]_book

-----------------------------------------------------------------------------
CandidateRow == [status: Sourcing, version: Nat \ {0}]
RfqRow == [supplier: Suppliers, status: RfqStages, terms: Terms, version: Nat \ {0}]
OfferRow == [supplier: Suppliers, status: {"Received", "Superseded"} \cup Decisions,
             terms: Terms, version: Nat \ {0}, rfq: Rfqs \cup {"none"}, series: Offers,
             revision: Nat \ {0}, previous: Offers \cup {"none"}]
ScenarioRow == [offer: Offers, status: {"Draft", "Reviewed", "Selected"}, terms: Terms,
                quoted: BOOLEAN, version: Nat \ {0}]
\* The relationships the insert triggers demand.
Related ==
  /\ \A r \in Rfqs : Exists(rfq[r]) => Exists(candidate[rfq[r].supplier])
  /\ \A o \in Offers : Exists(offer[o]) /\ offer[o].rfq # "none" =>
       Exists(rfq[offer[o].rfq]) /\ rfq[offer[o].rfq].supplier = offer[o].supplier
  /\ \A s \in Scenarios : Exists(scenario[s]) => Exists(offer[scenario[s].offer])
BookTypeOK ==
  /\ lead \in Nat
  /\ candidate \in [Suppliers -> CandidateRow \cup {NoRow}]
  /\ rfq \in [Rfqs -> RfqRow \cup {NoRow}]
  /\ offer \in [Offers -> OfferRow \cup {NoRow}]
  /\ scenario \in [Scenarios -> ScenarioRow \cup {NoRow}]
  /\ quote \in [Scenarios -> Terms \cup {"none"}]
  /\ Related

\* However many revisions are recorded at once, the offers of a series are
\* numbered without a gap or a double, each follows the one before, of the same
\* supplier, and only the last is not superseded: the unique indexes and the
\* revision trigger of 0014_deal_execution.sql never have to abort a batch.
Follows(o) ==
  LET x == offer[o]
  IN  IF x.previous = "none" THEN x.revision = 1 /\ x.series = o
      ELSE LET p == offer[x.previous]
           IN  /\ Exists(p) /\ p.status = "Superseded" /\ p.supplier = x.supplier
               /\ p.series = x.series /\ x.revision = p.revision + 1
SeriesIsWhole ==
  \A o \in Offers : Exists(offer[o]) =>
    /\ Follows(o)
    /\ Exists(offer[offer[o].series])
    /\ \A p \in Offers \ {o} : Exists(offer[p]) /\ offer[p].series = offer[o].series =>
         /\ offer[p].revision # offer[o].revision
         /\ offer[o].status # "Superseded" =>
              offer[p].revision < offer[o].revision /\ offer[p].status = "Superseded"

\* A quotation says what was reviewed, also after edits and selections that
\* raced it, it is prepared once, and one scenario of the deal is selected at most.
QuotedAsReviewed ==
  /\ \A s \in Scenarios : Exists(scenario[s]) =>
       /\ scenario[s].quoted <=> quote[s] # "none"
       /\ scenario[s].quoted => scenario[s].status # "Draft" /\ quote[s] = scenario[s].terms
  /\ \A s \in Scenarios : ~Exists(scenario[s]) => quote[s] = "none"
  /\ \A s, t \in Scenarios : Selected(s) /\ Selected(t) => s = t

\* What was sent, received or reviewed is never rewritten: terms, provenance
\* and the quotation stay, a superseded offer stays superseded, a review stays.
HistoryStands ==
  [][/\ \A r \in Rfqs : Exists(rfq[r]) /\ rfq[r].status \in Sent =>
          rfq'[r].terms = rfq[r].terms /\ rfq'[r].status \in Sent
     /\ \A o \in Offers : Exists(offer[o]) =>
          /\ offer'[o].terms = offer[o].terms /\ offer'[o].previous = offer[o].previous
          /\ offer'[o].series = offer[o].series /\ offer'[o].rfq = offer[o].rfq
          /\ offer[o].status = "Superseded" => offer'[o] = offer[o]
     /\ \A s \in Scenarios : Exists(scenario[s]) /\ scenario[s].status # "Draft" =>
          scenario'[s].terms = scenario[s].terms /\ scenario'[s].status # "Draft"
     /\ \A s \in Scenarios : quote[s] # "none" => quote'[s] = quote[s]]_book
=============================================================================
