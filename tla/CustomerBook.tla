---------------------------- MODULE CustomerBook ----------------------------
(***************************************************************************)
(* The restaurant's book of customers: counters that follow the orders,    *)
(* and the segments a campaign is sent to.                                 *)
(*                                                                         *)
(* A placed order counts its customer up, a cancelled one counts him down, *)
(* each in the transaction of the order; but a change of status decides on *)
(* an order it read before. A guest may tick the marketing box when he     *)
(* orders; the book's own form writes the consent as it was ticked there.  *)
(* The segment filter of the lists and campaigns and the badges of a       *)
(* profile are two pieces of code over the same columns.                   *)
(*                                                                         *)
(* totalSpent and the segment HIGH_VALUE are left out: rounds and          *)
(* discounts change an order's total and not the customer's, so nothing    *)
(* can be said of it.                                                      *)
(***************************************************************************)
EXTENDS Naturals, FiniteSets

CONSTANTS
    Regulars,       \* phone numbers
    Tickets,        \* orders with a phone number
    Clerks,         \* slots for requests of the staff
    Nobody,
    VipFloor        \* VIP_ORDER_FLOOR

VARIABLES
    book,           \* the table customers
    ticket,         \* the orders: whose, of which type, and how they stand
    clerk           \* what each request has read

bookVars == <<book, ticket, clerk>>

NewCeiling == 1
Types == {"DINE_IN", "TAKEAWAY", "DELIVERY"}

\* "idle" is how many times thirty days have gone since the last order.
Page == [known: BOOLEAN, orders: Nat, dineIn: Nat, takeaway: Nat, idle: 0 .. 2, consent: BOOLEAN, dated: BOOLEAN]
BlankPage == [known |-> FALSE, orders |-> 0, dineIn |-> 0, takeaway |-> 0, idle |-> 0, consent |-> FALSE, dated |-> FALSE]

TicketRow == [guest: Regulars, type: Types, status: {"OPEN", "COMPLETED", "CANCELLED"}]
Ticket == TicketRow \cup {Nobody}

ASSUME BookAssumption == VipFloor \in Nat /\ Nobody \notin TicketRow

Resting == [stage |-> "none"]

-----------------------------------------------------------------------------
\* LISTABLE_SEGMENTS, but for ALL and HIGH_VALUE.
Segments == {"NEW", "RETURNING", "VIP", "INACTIVE_30", "INACTIVE_60", "DINE_IN", "TAKEAWAY"}

\* segmentFilter(), which lists, counts and campaigns use.
InSegment(s, p) ==
    CASE s = "NEW" -> p.orders > 0 /\ p.orders <= NewCeiling
      [] s = "RETURNING" -> p.orders > NewCeiling
      [] s = "VIP" -> p.orders >= VipFloor
      [] s = "INACTIVE_30" -> p.known /\ p.idle >= 1
      [] s = "INACTIVE_60" -> p.known /\ p.idle >= 2
      [] s = "DINE_IN" -> p.dineIn > 0 /\ p.takeaway = 0
      [] s = "TAKEAWAY" -> p.takeaway > 0 /\ p.dineIn = 0

\* segmentsForCustomer(), the badges.
Badge(s, worn) == IF worn THEN {s} ELSE {}
Badges(p) ==
    UNION {Badge("NEW", p.orders > 0 /\ p.orders <= NewCeiling),
           Badge("RETURNING", p.orders > NewCeiling),
           Badge("VIP", p.orders >= VipFloor),
           Badge("INACTIVE_60", p.known /\ p.idle = 2),
           Badge("INACTIVE_30", p.known /\ p.idle = 1),
           Badge("DINE_IN", p.dineIn > 0 /\ p.takeaway = 0),
           Badge("TAKEAWAY", p.takeaway > 0 /\ p.dineIn = 0)}

\* Delivery counts with takeaway: both are "not at a table".
AtTable(type) == IF type = "DINE_IN" THEN 1 ELSE 0

CountedIn(p, type, tick) ==
    [p EXCEPT !.known = TRUE, !.orders = @ + 1, !.idle = 0,
              !.dineIn = @ + AtTable(type), !.takeaway = @ + 1 - AtTable(type),
              !.consent = @ \/ tick, !.dated = @ \/ (tick /\ ~p.consent)]

CountedOutByHead(p, type) == [p EXCEPT !.orders = @ - 1]
CountedOut(p, type) ==
    [p EXCEPT !.orders = @ - 1, !.dineIn = @ - AtTable(type), !.takeaway = @ - (1 - AtTable(type))]

-----------------------------------------------------------------------------
\* create(): the upsert, the order and the counters in one transaction. The
\* box turns consent on and never off.
PlaceTicket(o, g, type, tick) ==
    /\ ticket[o] = Nobody
    /\ ticket' = [ticket EXCEPT ![o] = [guest |-> g, type |-> type, status |-> "OPEN"]]
    /\ book' = [book EXCEPT ![g] = CountedIn(@, type, tick)]
    /\ UNCHANGED clerk

\* updateStatus(): an order is read, and may be completed or cancelled ...
BeginMove(k, o, to) ==
    /\ clerk[k] = Resting
    /\ ticket[o] # Nobody /\ ticket[o].status = "OPEN"
    /\ clerk' = [clerk EXCEPT ![k] = [stage |-> "moving", ticket |-> o, type |-> ticket[o].type, to |-> to]]
    /\ UNCHANGED <<book, ticket>>

\* ... and is, whatever became of it since.
CommitMove(k) ==
    /\ clerk[k].stage = "moving"
    /\ LET o == clerk[k].ticket IN
         /\ ticket' = [ticket EXCEPT ![o].status = clerk[k].to]
         /\ book' = IF clerk[k].to = "CANCELLED"
                      THEN [book EXCEPT ![ticket[o].guest] = CountedOut(@, clerk[k].type)]
                      ELSE book
    /\ clerk' = [clerk EXCEPT ![k] = Resting]

\* CustomersService.update(): the form sends the consent as it shows it, and
\* the date moves only when that is a change to the row that was read.
BeginUpdate(k, g, consent) ==
    /\ clerk[k] = Resting /\ book[g].known
    /\ clerk' = [clerk EXCEPT ![k] =
         [stage |-> "updating", guest |-> g, consent |-> consent, changed |-> consent # book[g].consent]]
    /\ UNCHANGED <<book, ticket>>

Consented(p, consent, changed) ==
    [p EXCEPT !.consent = consent, !.dated = IF changed THEN consent ELSE @]

CommitUpdate(k) ==
    /\ clerk[k].stage = "updating"
    /\ book' = [book EXCEPT ![clerk[k].guest] = Consented(@, clerk[k].consent, clerk[k].changed)]
    /\ clerk' = [clerk EXCEPT ![k] = Resting]
    /\ UNCHANGED ticket

\* The request ends before its write.
WalksOff(k) ==
    /\ clerk[k] # Resting
    /\ clerk' = [clerk EXCEPT ![k] = Resting]
    /\ UNCHANGED <<book, ticket>>

\* Thirty days without an order of this customer.
DaysPass(g) ==
    /\ book[g].known /\ book[g].idle < 2
    /\ book' = [book EXCEPT ![g].idle = @ + 1]
    /\ UNCHANGED <<ticket, clerk>>

-----------------------------------------------------------------------------
BookInit ==
    /\ book = [g \in Regulars |-> BlankPage]
    /\ ticket = [o \in Tickets |-> Nobody]
    /\ clerk = [k \in Clerks |-> Resting]

BookNext ==
    \/ \E o \in Tickets, g \in Regulars, type \in Types, tick \in BOOLEAN : PlaceTicket(o, g, type, tick)
    \/ \E k \in Clerks :
         \/ \E o \in Tickets, to \in {"COMPLETED", "CANCELLED"} : BeginMove(k, o, to)
         \/ \E g \in Regulars, consent \in BOOLEAN : BeginUpdate(k, g, consent)
         \/ CommitMove(k) \/ CommitUpdate(k) \/ WalksOff(k)
    \/ \E g \in Regulars : DaysPass(g)

BookSpec == BookInit /\ [][BookNext]_bookVars

-----------------------------------------------------------------------------
\* Type invariant.
BookTypeOK ==
    /\ book \in [Regulars -> Page]
    /\ ticket \in [Tickets -> Ticket]
    /\ \A k \in Clerks : clerk[k].stage \in {"none", "moving", "updating"}

\* "A segment that meant one thing in the list and another in the campaign
\* would send the wrong people the wrong message" (customer-segments.ts:8): the
\* counters behind the segments are those of a customer's standing orders,
\* through orders placed, completed and cancelled on an earlier look, so that he
\* is in the segments of how often he came that his orders put him in, and never
\* in the one of tables, or of no tables, with half of them the other kind. The
\* badges of a profile are the segments a campaign would find him in, except
\* that who is badged as away for sixty days has no badge for thirty. A consent
\* on record has a date. With orders coming in at any time and one request of the
\* staff at work; two cancellations of one order count it down twice.
Standing(g) == {o \in Tickets : ticket[o] # Nobody /\ ticket[o].guest = g /\ ticket[o].status # "CANCELLED"}
Seated(g) == {o \in Standing(g) : ticket[o].type = "DINE_IN"}
SegmentsAreTrue ==
    \A g \in Regulars :
        LET p == book[g]
            n == Cardinality(Standing(g))
            d == Cardinality(Seated(g))
        IN  /\ p.orders = n /\ p.dineIn = d /\ p.takeaway = n - d
            /\ InSegment("NEW", p) <=> n = 1
            /\ InSegment("RETURNING", p) <=> n >= 2
            /\ InSegment("VIP", p) <=> n >= VipFloor
            /\ InSegment("DINE_IN", p) => d > n - d
            /\ InSegment("TAKEAWAY", p) => d < n - d
            /\ \A s \in Segments \ {"INACTIVE_30"} : s \in Badges(p) <=> InSegment(s, p)
            /\ InSegment("INACTIVE_30", p) <=> "INACTIVE_30" \in Badges(p) \/ "INACTIVE_60" \in Badges(p)
            /\ p.consent => p.dated

=============================================================================
