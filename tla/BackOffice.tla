------------------------------ MODULE BackOffice ------------------------------
(***************************************************************************)
(* The parts of the program around the orders, side by side: messages,     *)
(* campaigns, what the restaurant has bought, its accounts, the session of *)
(* a browser, the calls of the guests, the menu and the carts filled from  *)
(* it, the book of customers, and what the screens show of the orders.     *)
(*                                                                         *)
(* No action of one part is guarded by, or writes, a variable of another,  *)
(* and every property below speaks of one part. (A campaign and the outbox *)
(* put their rows into one table of messages; to the campaign they count,  *)
(* to the outbox one that a campaign asked for is like any other.) Every   *)
(* interleaving of the parts is therefore, seen from one of them, one of   *)
(* its own behaviours with steps in between that it cannot tell from       *)
(* nothing: the program runs one part here, any of them, and leaves the    *)
(* others as they start.                                                   *)
(***************************************************************************)
EXTENDS SmsOutbox, Subscriptions, Campaigns, WebSession, StaffAccounts, GuestCalls, Carts, CustomerBook, OrderScreens

VARIABLE part       \* the part that is at work

Parts == {"messages", "billing", "campaigns", "session", "staff", "floor", "menu", "book", "orders"}

BackOfficeVars == <<vars, subVars, campVars, webVars, staffVars, floorVars, cartVars, bookVars, railVars, part>>

\* A part that is not at work has one state, its plainest. Screens do not see
\* each other, and what they are sent does not depend on who else is there: one
\* is open at a time. A takeaway goes the road of a table's order under names of
\* its own, and is left out.
BackOfficeInit ==
    /\ part \in Parts
    /\ Init
    /\ SubInit /\ (part # "billing" => tenant = "active")
    /\ CampInit
    /\ WebInit /\ (part # "session" => jar = NoToken)
    /\ StaffInit
    /\ FloorInit
    /\ CartInit /\ (part # "menu" => shopper = "guest" /\ \A d \in Dishes : menu[d].group = NoGroup)
    /\ BookInit
    /\ RailInit /\ Cardinality(up) = 1
    /\ \A o \in Slips : slip[o].type # "TAKEAWAY"
    /\ part # "orders" => up \subseteq Kitchens /\ \A o \in Slips : slip[o].type = "DINE_IN"

Messages ==
    /\ part = "messages" /\ Next
    /\ UNCHANGED <<subVars, campVars, webVars, staffVars, floorVars, cartVars, bookVars, railVars, part>>

Billing ==
    /\ part = "billing" /\ SubNext
    /\ UNCHANGED <<vars, campVars, webVars, staffVars, floorVars, cartVars, bookVars, railVars, part>>

Campaigning ==
    /\ part = "campaigns" /\ CampNext
    /\ UNCHANGED <<vars, subVars, webVars, staffVars, floorVars, cartVars, bookVars, railVars, part>>

Browsing ==
    /\ part = "session" /\ WebNext
    /\ UNCHANGED <<vars, subVars, campVars, staffVars, floorVars, cartVars, bookVars, railVars, part>>

Staffing ==
    /\ part = "staff" /\ StaffNext
    /\ UNCHANGED <<vars, subVars, campVars, webVars, floorVars, cartVars, bookVars, railVars, part>>

Serving ==
    /\ part = "floor" /\ FloorNext
    /\ UNCHANGED <<vars, subVars, campVars, webVars, staffVars, cartVars, bookVars, railVars, part>>

Selling ==
    /\ part = "menu" /\ CartNext
    /\ UNCHANGED <<vars, subVars, campVars, webVars, staffVars, floorVars, bookVars, railVars, part>>

Bookkeeping ==
    /\ part = "book" /\ BookNext
    /\ UNCHANGED <<vars, subVars, campVars, webVars, staffVars, floorVars, cartVars, railVars, part>>

Showing ==
    /\ part = "orders" /\ RailNext
    /\ UNCHANGED <<vars, subVars, campVars, webVars, staffVars, floorVars, cartVars, bookVars, part>>

BackOfficeNext ==
    \/ Messages \/ Billing \/ Campaigning \/ Browsing
    \/ Staffing \/ Serving \/ Selling \/ Bookkeeping \/ Showing

\* The fairness of SmsOutbox, and those of GuestCalls and OrderScreens when they
\* are at work.
BackOfficeFairness ==
    /\ Fairness
    /\ \A s \in Screens :
         /\ WF_floorVars(part = "floor" /\ Poll(s))
         /\ WF_floorVars(part = "floor" /\ ListOpenCalls(s))
         /\ WF_floorVars(part = "floor" /\ Show(s))
    /\ \A p \in Screened :
         /\ WF_railVars(part = "orders" /\ PollRows(p))
         /\ WF_railVars(part = "orders" /\ ReadRows(p))
         /\ WF_railVars(part = "orders" /\ ShowRows(p))

BackOfficeSpec == BackOfficeInit /\ [][BackOfficeNext]_BackOfficeVars /\ BackOfficeFairness

-----------------------------------------------------------------------------
\* Type invariant: those of the parts.
BackOfficeTypeOK ==
    /\ part \in Parts
    /\ TypeOK
    /\ SubTypeOK
    /\ CampTypeOK
    /\ WebTypeOK
    /\ StaffTypeOK
    /\ FloorTypeOK
    /\ CartTypeOK
    /\ BookTypeOK
    /\ RailTypeOK

=============================================================================
