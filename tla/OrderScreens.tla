---------------------------- MODULE OrderScreens ----------------------------
(***************************************************************************)
(* What the screens show of the orders: the kitchen's rail of tickets      *)
(* (kds/page.tsx) and the guest's tracking page (tracking-view.tsx), the   *)
(* queries behind them, and the events that make them ask again            *)
(* (orders.service.ts, payments.service.ts, realtime.gateway.ts).          *)
(*                                                                         *)
(* A change commits, and only later is its event emitted, to the sockets   *)
(* that are connected then; the process may end before. An event carries   *)
(* no data a screen uses: the screen asks for the rows. Every screen polls *)
(* besides, the tracking page until it shows an order that has ended.      *)
(* A tap on a ticket asks for the step the ticket offers, which may be one *)
(* of a while ago.                                                         *)
(***************************************************************************)
EXTENDS OrderLifecycle, FiniteSets

CONSTANTS
    Slips,          \* orders; each has the tracking page of its guest
    Kitchens,       \* kitchen screens
    Movers,         \* requests of the staff for a status
    Counter,        \* the place of a request that no kitchen screen made
    MaxRounds,      \* bound: rounds added to an order
    MaxTaps,        \* bound: taps on tickets
    MaxFaults       \* bound: fetches and requests that fail

ASSUME ScreensAssumption ==
    /\ Counter \notin Kitchens
    /\ Slips \cap Kitchens = {}
    /\ MaxRounds \in Nat /\ MaxTaps \in Nat /\ MaxFaults \in Nat

VARIABLES
    slip,           \* the rows of orders
    news,           \* events of committed changes that are yet to be emitted
    mover,          \* the updateStatus() of each request
    up,             \* screens that are open
    asked,          \* the query of each screen
    copy,           \* the rows each screen shows
    taps,
    faults          \* fetches and requests that have failed

railVars == <<slip, news, mover, up, asked, copy, taps, faults>>

Screened == Slips \cup Kitchens     \* a slip stands for its tracking page

\* KITCHEN_ACTIVE_STATUSES
KitchenActive == {"SENT_TO_KITCHEN", "PREPARING", "READY", "READY_FOR_PICKUP"}

\* paid goes once from PENDING to PAID and from there to REFUNDED: what else a
\* payment may do is the matter of OrderDesk.
SlipRow == [id: Slips, type: OrderType, status: OrderStatus \cup {"UNPLACED"},
            rounds: 0 .. MaxRounds, paid: {"PENDING", "PAID", "REFUNDED"}]

\* "order" is ORDER_CREATED, ORDER_STATUS_CHANGED or ORDER_UPDATED: who hears of
\* one hears of all.
Events == {"order", "payment"} \X Slips

\* What a ticket has of the row: nothing about the payment.
RailTicket == [id: Slips, type: OrderType, status: OrderStatus, rounds: 0 .. MaxRounds]
TicketOf(row) == [f \in {"id", "type", "status", "rounds"} |-> row[f]]

IsPlaced(o) == slip[o].status # "UNPLACED"
HasEnded(row) == row.status \in Terminal

\* A query is on its way to the API, or has its answer.
NoQuery == [stage |-> "idle", rows |-> {}]
NewQuery == [stage |-> "asking", rows |-> {}]
Fetched(rows) == [stage |-> "answered", rows |-> rows]

AtRest == [stage |-> "idle"]
Moving(place, o, to) == [stage |-> "moving", place |-> place, order |-> o, to |-> to]
\* Only a kitchen screen does something with its answer.
Answering(place) == IF place \in Kitchens THEN [stage |-> "answering", place |-> place] ELSE AtRest

RailInit ==
    /\ slip \in [Slips -> {row \in SlipRow : row.status = "UNPLACED" /\ row.rounds = 0 /\ row.paid = "PENDING"}]
    /\ \A o \in Slips : slip[o].id = o
    /\ news = {}
    /\ mover = [m \in Movers |-> AtRest]
    /\ up \in SUBSET Screened
    /\ asked = [p \in Screened |-> NoQuery]
    /\ copy = [p \in Screened |-> {}]
    /\ taps = 0
    /\ faults = 0

-----------------------------------------------------------------------------
(* Changes of an order, each a commit and an event to come.                 *)

Asks(pages) == asked' = [p \in Screened |-> IF p \in pages \cap up THEN NewQuery ELSE asked[p]]
Announce(kind, o) == news' = news \cup {<<kind, o>>}

\* createOrder(); the page of the guest opens on it. autoConfirmOrders and the
\* counter send it straight to the kitchen.
PlaceSlip(o, status) ==
    /\ ~ IsPlaced(o)
    /\ slip' = [slip EXCEPT ![o].status = status]
    /\ Asks({o})
    /\ Announce("order", o)
    /\ UNCHANGED <<mover, up, copy, taps, faults>>

\* addItems(): an active order that is not paid, whatever the kitchen has done.
\* (A round that was checked before the order ended lands all the same: that is
\* the matter of OrderDesk, and no property here speaks of the rounds of an order
\* that has ended.)
AddToSlip(o) ==
    /\ slip[o].status \in ActiveStatus
    /\ slip[o].paid # "PAID"
    /\ slip[o].rounds < MaxRounds
    /\ slip' = [slip EXCEPT ![o].rounds = @ + 1]
    /\ Announce("order", o)
    /\ UNCHANGED <<mover, up, asked, copy, taps, faults>>

\* recordPayment() does not look at the status.
PaySlip(o) ==
    /\ IsPlaced(o)
    /\ slip[o].paid = "PENDING"
    /\ slip' = [slip EXCEPT ![o].paid = "PAID"]
    /\ Announce("payment", o)
    /\ UNCHANGED <<mover, up, asked, copy, taps, faults>>

\* refund() emits nothing.
RefundSlip(o) ==
    /\ slip[o].paid = "PAID"
    /\ slip' = [slip EXCEPT ![o].paid = "REFUNDED"]
    /\ UNCHANGED <<news, mover, up, asked, copy, taps, faults>>

-----------------------------------------------------------------------------
(* updateStatus(), for a ticket of the kitchen or for another screen.       *)

\* What the server asks of the order it has read.
Allows(row, to) ==
    /\ CanTransition(row.type, row.status, to)
    /\ to = "COMPLETED" => row.paid = "PAID"

\* The step a ticket offers: the first of its transitions but the cancellation.
NextStatus(row) == CHOOSE to \in OrderStatus \ {"CANCELLED"} : CanTransition(row.type, row.status, to)

\* A tap. A step the order cannot take (or has taken) is answered at once, and
\* the screen asks again whatever the answer was.
TapTicket(m, k, card) ==
    LET to == NextStatus(card)
    IN  /\ taps < MaxTaps
        /\ taps' = taps + 1
        /\ mover[m] = AtRest
        /\ mover' = [mover EXCEPT ![m] = IF Allows(slip[card.id], to) THEN Moving(k, card.id, to)
                                                                     ELSE Answering(k)]
        /\ UNCHANGED <<slip, news, up, asked, copy, faults>>

\* The other screens: any step the order can take as it is read.
MoveSlip(m, o, to) ==
    /\ IsPlaced(o)
    /\ mover[m] = AtRest
    /\ Allows(slip[o], to)
    /\ mover' = [mover EXCEPT ![m] = Moving(Counter, o, to)]
    /\ UNCHANGED <<slip, news, up, asked, copy, taps, faults>>

\* The transaction. What remains to be done, the tables and the event, does not
\* keep the answer from coming, late as it may be.
CommitSlip(m) ==
    LET o == mover[m].order
    IN  /\ mover[m].stage = "moving"
        /\ slip' = [slip EXCEPT ![o].status = mover[m].to]
        /\ mover' = [mover EXCEPT ![m] = Answering(mover[m].place)]
        /\ Announce("order", o)
        /\ UNCHANGED <<up, asked, copy, taps, faults>>

\* onSuccess and onError both refresh the rail.
HearAnswer(m) ==
    /\ mover[m].stage = "answering"
    /\ mover' = [mover EXCEPT ![m] = AtRest]
    /\ Asks({mover[m].place})
    /\ UNCHANGED <<slip, news, up, copy, taps, faults>>

MoveFails(m) ==
    /\ faults < MaxFaults
    /\ faults' = faults + 1
    /\ mover[m].stage = "moving"
    /\ mover' = [mover EXCEPT ![m] = Answering(mover[m].place)]
    /\ UNCHANGED <<slip, news, up, asked, copy, taps>>

-----------------------------------------------------------------------------
(* Events and screens.                                                      *)

\* The kitchen's room hears of orders; the guest's of all that happens to its
\* order, if only by the notification written of it.
Hears(p, event) == p = event[2] \/ (p \in Kitchens /\ event[1] = "order")

\* The event is emitted, to the sockets that are connected now: any of those
\* that would hear. Nothing says when, or that it ever is.
EmitEvent(event, wired) ==
    /\ event \in news
    /\ \A p \in wired : Hears(p, event)
    /\ news' = news \ {event}
    /\ Asks(wired)
    /\ UNCHANGED <<slip, mover, up, copy, taps, faults>>

\* Mutant: the rail polls while there is something on it.
PollsBusy(p) ==
    IF p \in Kitchens THEN copy[p] # {} ELSE IsPlaced(p) /\ \A row \in copy[p] : ~ HasEnded(row)

\* refetchInterval: the rail's is fixed, the guest's page stops at an order that
\* it shows as ended.
Polls(p) ==
    IF p \in Kitchens THEN TRUE ELSE IsPlaced(p) /\ \A row \in copy[p] : ~ HasEnded(row)

PollRows(p) ==
    /\ p \in up /\ Polls(p)
    /\ asked[p].stage = "idle"
    /\ asked' = [asked EXCEPT ![p] = NewQuery]
    /\ UNCHANGED <<slip, news, mover, up, copy, taps, faults>>

\* kitchenQueue() and track()
RowsFor(p) ==
    IF p \in Kitchens THEN {TicketOf(slip[o]) : o \in {x \in Slips : slip[x].status \in KitchenActive}}
                      ELSE {slip[p]}

ReadRows(p) ==
    /\ asked[p].stage = "asking"
    /\ asked' = [asked EXCEPT ![p] = Fetched(RowsFor(p))]
    /\ UNCHANGED <<slip, news, mover, up, copy, taps, faults>>

ShowRows(p) ==
    /\ asked[p].stage = "answered"
    /\ copy' = [copy EXCEPT ![p] = asked[p].rows]
    /\ asked' = [asked EXCEPT ![p] = NoQuery]
    /\ UNCHANGED <<slip, news, mover, up, taps, faults>>

QueryFails(p) ==
    /\ faults < MaxFaults
    /\ faults' = faults + 1
    /\ asked[p].stage # "idle"
    /\ asked' = [asked EXCEPT ![p] = NoQuery]
    /\ UNCHANGED <<slip, news, mover, up, copy, taps>>

RailNext ==
    \/ \E o \in Slips :
         \/ AddToSlip(o) \/ PaySlip(o) \/ RefundSlip(o)
         \/ \E status \in {"PENDING", "SENT_TO_KITCHEN"} : PlaceSlip(o, status)
         \/ \E m \in Movers, to \in OrderStatus : MoveSlip(m, o, to)
    \/ \E m \in Movers :
         \/ CommitSlip(m) \/ HearAnswer(m) \/ MoveFails(m)
         \/ \E k \in Kitchens : \E card \in copy[k] : TapTicket(m, k, card)
    \/ \E event \in news, wired \in SUBSET up : EmitEvent(event, wired)
    \/ \E p \in Screened : PollRows(p) \/ ReadRows(p) \/ ShowRows(p) \/ QueryFails(p)

(***************************************************************************)
(* Fairness. A screen polls when it is due, and a query that is neither    *)
(* failed nor overtaken by a new one is answered and shown. Nothing is     *)
(* asked of sockets, events, guests or staff.                              *)
(***************************************************************************)
RailFairness ==
    \A p \in Screened :
        /\ WF_railVars(PollRows(p))
        /\ WF_railVars(ReadRows(p))
        /\ WF_railVars(ShowRows(p))

RailSpec == RailInit /\ [][RailNext]_railVars /\ RailFairness

-----------------------------------------------------------------------------
\* Type invariant. A rail never shows a ticket that is not the kitchen's, a
\* guest's page no order but its own.
RailTypeOK ==
    /\ slip \in [Slips -> SlipRow]
    /\ news \subseteq Events
    /\ \A m \in Movers :
         \/ mover[m] = AtRest
         \/ mover[m].stage = "answering" /\ mover[m].place \in Kitchens
         \/ /\ mover[m].stage = "moving" /\ mover[m].place \in Kitchens \cup {Counter}
            /\ mover[m].order \in Slips /\ mover[m].to \in OrderStatus
    /\ up \subseteq Screened
    /\ \A p \in Screened :
         /\ asked[p].stage \in {"idle", "asking", "answered"}
         /\ \A row \in copy[p] \cup asked[p].rows :
              IF p \in Kitchens THEN row \in RailTicket /\ row.status \in KitchenActive
                                ELSE row \in SlipRow /\ row.id = p
    /\ taps \in 0 .. MaxTaps
    /\ faults \in 0 .. MaxFaults

\* "Polling stays on as a fallback so the timeline still advances on a flaky
\* mobile connection" (tracking-view.tsx:30), and the rail's tickets "appear
\* without a reload" (kds/page.tsx:137): once guests and staff pause, the rail
\* holds the kitchen's tickets with all their rounds, and the guest's page shows
\* his order as it is, with sockets that come and go, events that are never
\* emitted, fetches that fail or answer late. Of an order that has ended only
\* the end is sure to be shown: its page no longer asks. The staff makes one
\* request at a time. Two can bring a cancelled order back, as desk_terminal
\* shows, behind a page that has stopped asking.
IsHonest(p) ==
    IF p \in Kitchens THEN copy[p] = RowsFor(p)
    ELSE IsPlaced(p) => \E row \in copy[p] :
           row = slip[p] \/ (HasEnded(slip[p]) /\ row.status = slip[p].status)
ScreensSettle == <>[](\A p \in up : IsHonest(p))

=============================================================================
