------------------------------ MODULE OrderDesk ------------------------------
(***************************************************************************)
(* Orders and their money as the API serves them: OrdersService and        *)
(* PaymentsService, one action per database round trip that matters.       *)
(*                                                                         *)
(* A handler reads the order (or the payment) first, checks its rules on   *)
(* that copy, and writes in a transaction later.  Calls is the pool of     *)
(* requests in flight, and calls[c] keeps what request c has read and not  *)
(* yet used.  The database is PostgreSQL at READ COMMITTED: a transaction  *)
(* shows its writes when it commits, and a row update waits for the row.   *)
(* Tables, customers and coupons have modules of their own.                *)
(***************************************************************************)
EXTENDS OrderLifecycle, FiniteSetsExt

CONSTANTS
  Orders,       \* order ids
  Payments,     \* payment ids
  Calls,        \* slots for API requests in flight
  Types,        \* the order types in play, a subset of OrderType
  Prices,       \* what one round of items may cost
  Discounts,    \* manual discounts staff may give
  Fees,         \* what the delivery zones charge
  ServiceBps,   \* the restaurant's service charge and tax; they do not change
  TaxBps,       \*   while its orders are open
  MaxSubtotal,  \* bound: no round is added beyond this subtotal
  MaxAmount,    \* bound: no payment above this amount is asked for
  MaxPaid,      \* bound: no callback is looked up beyond this paidTotal
  OnlineToo,    \* whether an online gateway is configured
  CanFail       \* whether a request may die before it has finished

ASSUME DeskAssumption ==
  /\ Types \subseteq OrderType
  /\ Prices \subseteq Nat \ {0}
  /\ Discounts \subseteq Nat
  /\ Fees \subseteq Nat
  /\ ServiceBps \in Nat /\ TaxBps \in Nat
  /\ MaxSubtotal \in Nat
  /\ MaxAmount \in Nat
  /\ MaxPaid \in Nat
  /\ OnlineToo \in BOOLEAN
  /\ CanFail \in BOOLEAN

VARIABLES
  order,    \* order[o]: the row of the order
  items,    \* items[o]: what the committed item rows of the order add up to
  trail,    \* trail[o]: the hops in the order's status history
  payment,  \* payment[p]: the row of the payment
  gateway,  \* gateway[p]: what the customer did at the online gateway
  calls     \* calls[c]: where request c is, and what it has read

vars == <<order, items, trail, payment, gateway, calls>>

NoStatus == "NONE"
Keep == -1     \* updateDetails without a discountAmount

M == INSTANCE Money

Rates == [serviceBps |-> ServiceBps, taxBps |-> TaxBps]

\* Mutant: no clamp.
TotalUncapped(subtotal, discount, fee) == subtotal - discount + fee

Total(subtotal, discount, fee) == M!OrderTotal(subtotal, discount, Rates, fee)

\* Only a delivery has a zone.
FeesOf(type) == IF type = "DELIVERY" THEN Fees ELSE {0}

Blank == [type |-> "DINE_IN", status |-> NoStatus, subtotal |-> 0, fee |-> 0,
          discount |-> 0, total |-> 0, paid |-> 0, payStatus |-> "PENDING"]

NoPayment == [status |-> "NONE", of |-> "NONE", amount |-> 0, refunded |-> 0,
              online |-> FALSE]

Idle == [pc |-> "idle"]

Init ==
  /\ order = [o \in Orders |-> Blank]
  /\ items = [o \in Orders |-> 0]
  /\ trail = [o \in Orders |-> {}]
  /\ payment = [p \in Payments |-> NoPayment]
  /\ gateway = [p \in Payments |-> "none"]
  /\ calls = [c \in Calls |-> Idle]

Placed(o) == order[o].status # NoStatus
IsIdle(c) == calls[c].pc = "idle"
Begin(c, request) == IsIdle(c) /\ calls' = [calls EXCEPT ![c] = request]
Finish(c) == calls' = [calls EXCEPT ![c] = Idle]

-----------------------------------------------------------------------------
(* Placing an order: one transaction, seen only once it has committed.     *)

\* buildInitialHistory: each intermediate hop, so the timeline stays truthful.
InitialTrail(autoAdvance) ==
  {<<NoStatus, "PENDING">>} \cup
    (IF autoAdvance
     THEN {<<"PENDING", "CONFIRMED">>, <<"CONFIRMED", "SENT_TO_KITCHEN">>}
     ELSE {})

CreateOrder(o, type, price, discount, fee, autoAdvance) ==
  /\ ~Placed(o)
  /\ fee \in FeesOf(type)
  /\ order' = [order EXCEPT ![o] =
       [type |-> type,
        status |-> IF autoAdvance THEN "SENT_TO_KITCHEN" ELSE "PENDING",
        subtotal |-> price,
        fee |-> fee,
        discount |-> M!CappedDiscount(price, discount),
        total |-> Total(price, discount, fee),
        paid |-> 0,
        payStatus |-> "PENDING"]]
  /\ items' = [items EXCEPT ![o] = price]
  /\ trail' = [trail EXCEPT ![o] = InitialTrail(autoAdvance)]
  /\ UNCHANGED <<payment, gateway, calls>>

-----------------------------------------------------------------------------
(* PATCH /orders/:id/status                                                *)

\* Mutant: the paid check of COMPLETED is forgotten.
BeginStatusUnpaid(c, o, to) ==
  /\ Placed(o)
  /\ CanTransition(order[o].type, order[o].status, to)
  /\ Begin(c, [pc |-> "status", order |-> o, from |-> order[o].status, to |-> to])
  /\ UNCHANGED <<order, items, trail, payment, gateway>>

\* Mutant: the hop is looked up in the tables of every order type.
BeginStatusAnyType(c, o, to) ==
  /\ Placed(o)
  /\ \E type \in OrderType : CanTransition(type, order[o].status, to)
  /\ to = "COMPLETED" => order[o].payStatus = "PAID"
  /\ Begin(c, [pc |-> "status", order |-> o, from |-> order[o].status, to |-> to])
  /\ UNCHANGED <<order, items, trail, payment, gateway>>

\* getOwnedOrder, then the transition table and the paid check on that copy.
BeginStatus(c, o, to) ==
  /\ Placed(o)
  /\ CanTransition(order[o].type, order[o].status, to)
  /\ to = "COMPLETED" => order[o].payStatus = "PAID"
  /\ Begin(c, [pc |-> "status", order |-> o, from |-> order[o].status, to |-> to])
  /\ UNCHANGED <<order, items, trail, payment, gateway>>

\* The transaction: a history row from the status that was read, and an
\* update of the order by its id alone.
CommitStatus(c) ==
  /\ calls[c].pc = "status"
  /\ LET o == calls[c].order
         to == calls[c].to
     IN  /\ order' = [order EXCEPT ![o].status = to]
         /\ trail' = [trail EXCEPT ![o] = @ \cup {<<calls[c].from, to>>}]
  /\ Finish(c)
  /\ UNCHANGED <<items, payment, gateway>>

-----------------------------------------------------------------------------
(* POST /orders/:id/items                                                  *)

\* Mutant: a settled order takes another round.
BeginAddItemsToPaid(c, o, price) ==
  /\ order[o].status \in ActiveStatus
  /\ order[o].subtotal + price <= MaxSubtotal
  /\ Begin(c, [pc |-> "add", order |-> o, price |-> price])
  /\ UNCHANGED <<order, items, trail, payment, gateway>>

BeginAddItems(c, o, price) ==
  /\ order[o].status \in ActiveStatus
  /\ order[o].payStatus # "PAID"
  /\ order[o].subtotal + price <= MaxSubtotal
  /\ Begin(c, [pc |-> "add", order |-> o, price |-> price])
  /\ UNCHANGED <<order, items, trail, payment, gateway>>

\* Mutant: only the new items are added up.
ReadNewItems(c) ==
  /\ calls[c].pc = "add"
  /\ LET o == calls[c].order
     IN  calls' = [calls EXCEPT ![c] =
           [pc |-> "added", order |-> o, price |-> calls[c].price,
            subtotal |-> calls[c].price, discount |-> order[o].discount]]
  /\ UNCHANGED <<order, items, trail, payment, gateway>>

\* Inside the transaction: insert the items, then read back every item row
\* that is committed or its own, and the discount.
ReadItems(c) ==
  /\ calls[c].pc = "add"
  /\ LET o == calls[c].order
     IN  calls' = [calls EXCEPT ![c] =
           [pc |-> "added", order |-> o, price |-> calls[c].price,
            subtotal |-> items[o] + calls[c].price,
            discount |-> order[o].discount]]
  /\ UNCHANGED <<order, items, trail, payment, gateway>>

\* recalculateTotals writes the bill and the transaction commits. The courier
\* fee is already fixed on the order.
CommitItems(c) ==
  /\ calls[c].pc = "added"
  /\ LET o == calls[c].order
         subtotal == calls[c].subtotal
         discount == calls[c].discount
     IN  /\ items' = [items EXCEPT ![o] = @ + calls[c].price]
         /\ order' = [order EXCEPT
              ![o].subtotal = subtotal,
              ![o].discount = M!CappedDiscount(subtotal, discount),
              ![o].total = Total(subtotal, discount, order[o].fee)]
  /\ Finish(c)
  /\ UNCHANGED <<trail, payment, gateway>>

-----------------------------------------------------------------------------
(* PATCH /orders/:id                                                       *)

BeginDetails(c, o, discount) ==
  /\ Placed(o)
  /\ order[o].payStatus # "PAID"
  /\ Begin(c, [pc |-> "details", order |-> o, discount |-> discount])
  /\ UNCHANGED <<order, items, trail, payment, gateway>>

\* The transaction updates the order first, so it holds the row while it
\* reads the items and writes the bill: one atomic step.
CommitDetails(c) ==
  /\ calls[c].pc = "details"
  /\ LET o == calls[c].order
         discount == IF calls[c].discount = Keep THEN order[o].discount
                     ELSE calls[c].discount
     IN  order' = [order EXCEPT
           ![o].subtotal = items[o],
           ![o].discount = M!CappedDiscount(items[o], discount),
           ![o].total = Total(items[o], discount, order[o].fee)]
  /\ Finish(c)
  /\ UNCHANGED <<items, trail, payment, gateway>>

-----------------------------------------------------------------------------
(* POST /orders/:id/payment                                                *)

\* Mutant: the amount replaces what was paid before.
CreditOnce(row, amount) ==
  [row EXCEPT !.paid = amount,
              !.payStatus = IF amount >= row.total THEN "PAID" ELSE "PENDING"]

\* applySettledPayment: an atomic increment, then the status it implies.
Credit(row, amount) ==
  [row EXCEPT !.paid = @ + amount,
              !.payStatus = IF row.paid + amount >= row.total THEN "PAID"
                            ELSE "PENDING"]

Outstanding(o) == order[o].total - order[o].paid

\* The order is read and the amount checked against what is outstanding.
BeginPayment(c, o, amount, online) ==
  /\ Placed(o)
  /\ 0 < amount
  /\ amount <= Outstanding(o)
  /\ online => OnlineToo
  /\ Begin(c, [pc |-> "pay", order |-> o, amount |-> amount, online |-> online])
  /\ UNCHANGED <<order, items, trail, payment, gateway>>

\* Cash and card: the payment row is born PAID and the order is credited.
CommitPayment(c, p) ==
  /\ calls[c].pc = "pay"
  /\ ~calls[c].online
  /\ payment[p].status = "NONE"
  /\ payment' = [payment EXCEPT ![p] =
       [status |-> "PAID", of |-> calls[c].order, amount |-> calls[c].amount,
        refunded |-> 0, online |-> FALSE]]
  /\ order' = [order EXCEPT ![calls[c].order] = Credit(@, calls[c].amount)]
  /\ Finish(c)
  /\ UNCHANGED <<items, trail, gateway>>

\* Online: the gateway has opened a session and the row waits as PENDING.
OpenOnlinePayment(c, p) ==
  /\ calls[c].pc = "pay"
  /\ calls[c].online
  /\ payment[p].status = "NONE"
  /\ payment' = [payment EXCEPT ![p] =
       [status |-> "PENDING", of |-> calls[c].order, amount |-> calls[c].amount,
        refunded |-> 0, online |-> TRUE]]
  /\ gateway' = [gateway EXCEPT ![p] = "open"]
  /\ Finish(c)
  /\ UNCHANGED <<order, items, trail>>

\* The customer pays at the gateway (or never does).
PayAtGateway(p) ==
  /\ gateway[p] = "open"
  /\ gateway' = [gateway EXCEPT ![p] = "paid"]
  /\ UNCHANGED <<order, items, trail, payment, calls>>

-----------------------------------------------------------------------------
(* POST /public/payments/verify, the gateway's return path                 *)

\* The lookup; a payment that reads PAID is answered without another step.
BeginVerify(c, p) ==
  /\ payment[p].online
  /\ payment[p].status # "PAID"
  /\ order[payment[p].of].paid <= MaxPaid
  /\ Begin(c, [pc |-> "verify", payment |-> p])
  /\ UNCHANGED <<order, items, trail, payment, gateway>>

\* The gateway says no, or cannot be reached: FAILED, whatever is there now.
MarkFailed(c) ==
  /\ calls[c].pc = "verify"
  /\ payment' = [payment EXCEPT ![calls[c].payment].status = "FAILED"]
  /\ Finish(c)
  /\ UNCHANGED <<order, items, trail, gateway>>

\* Mutant: the redirect itself is believed.
MarkPaidUnverified(c) ==
  /\ calls[c].pc = "verify"
  /\ payment' = [payment EXCEPT ![calls[c].payment].status = "PAID"]
  /\ calls' = [calls EXCEPT ![c] = [pc |-> "credit", payment |-> calls[c].payment]]
  /\ UNCHANGED <<order, items, trail, gateway>>

\* The gateway says yes, the first time (100) or again (101).
MarkPaid(c) ==
  /\ calls[c].pc = "verify"
  /\ gateway[calls[c].payment] = "paid"
  /\ payment' = [payment EXCEPT ![calls[c].payment].status = "PAID"]
  /\ calls' = [calls EXCEPT ![c] = [pc |-> "credit", payment |-> calls[c].payment]]
  /\ UNCHANGED <<order, items, trail, gateway>>

\* A transaction of its own credits the order.
CreditOrder(c) ==
  /\ calls[c].pc = "credit"
  /\ LET row == payment[calls[c].payment]
     IN  order' = [order EXCEPT ![row.of] = Credit(@, row.amount)]
  /\ Finish(c)
  /\ UNCHANGED <<items, trail, payment, gateway>>

-----------------------------------------------------------------------------
(* POST /orders/:id/payment/refund                                         *)

\* The payment is read and checked, and the provider gives the money back;
\* the online gateway refuses every refund.
BeginRefund(c, p, amount) ==
  /\ payment[p].status = "PAID"
  /\ ~payment[p].online
  /\ 0 < amount
  /\ amount <= payment[p].amount - payment[p].refunded
  /\ Begin(c, [pc |-> "refund", payment |-> p, refunded |-> payment[p].refunded + amount])
  /\ UNCHANGED <<order, items, trail, payment, gateway>>

\* Mutant: a full refund leaves the payment PAID.
RefundedStillPaid(p, refunded) ==
  [payment[p] EXCEPT !.refunded = refunded,
                     !.status = IF refunded > payment[p].amount THEN "REFUNDED"
                                ELSE "PAID"]

\* The payment row after the refund, from the amount read at the start.
Refunded(p, refunded) ==
  [payment[p] EXCEPT !.refunded = refunded,
                     !.status = IF refunded >= payment[p].amount THEN "REFUNDED"
                                ELSE "PAID"]

Settled(row) == row.status \in {"PAID", "REFUNDED"}

\* The settled payment rows of an order, net of what went back.
Receipts(rows, o) ==
  MapThenSumSet(LAMBDA p : rows[p].amount - rows[p].refunded,
                {p \in Payments : rows[p].of = o /\ Settled(rows[p])})

\* recomputeOrderPayment's choice of status.
RefundStatus(rows, o, paid, total) ==
  IF paid >= total THEN "PAID"
  ELSE IF paid = 0 /\ \E p \in Payments : rows[p].of = o /\ rows[p].status = "REFUNDED"
       THEN "REFUNDED"
       ELSE "PENDING"

\* Inside the transaction: the payment row is updated and held, then the
\* committed payments and the order's total are read.
ReadReceipts(c) ==
  /\ calls[c].pc = "refund"
  /\ LET p == calls[c].payment
         o == payment[p].of
         rows == [payment EXCEPT ![p] = Refunded(p, calls[c].refunded)]
         paid == Receipts(rows, o)
     IN  /\ \A d \in Calls : ~(calls[d].pc = "refunded" /\ calls[d].payment = p)
         /\ calls' = [calls EXCEPT ![c] =
              [pc |-> "refunded", payment |-> p, refunded |-> calls[c].refunded,
               paid |-> paid,
               payStatus |-> RefundStatus(rows, o, paid, order[o].total)]]
  /\ UNCHANGED <<order, items, trail, payment, gateway>>

CommitRefund(c) ==
  /\ calls[c].pc = "refunded"
  /\ LET p == calls[c].payment
     IN  /\ payment' = [payment EXCEPT ![p] = Refunded(p, calls[c].refunded)]
         /\ order' = [order EXCEPT ![payment[p].of].paid = calls[c].paid,
                                   ![payment[p].of].payStatus = calls[c].payStatus]
  /\ Finish(c)
  /\ UNCHANGED <<items, trail, gateway>>

-----------------------------------------------------------------------------
\* The process dies or the connection drops: what the request has not
\* committed is rolled back, what it has committed stays.
Fail(c) ==
  /\ CanFail
  /\ ~IsIdle(c)
  /\ Finish(c)
  /\ UNCHANGED <<order, items, trail, payment, gateway>>

Request(c) ==
  \/ \E o \in Orders :
       \/ \E to \in OrderStatus : BeginStatus(c, o, to)
       \/ \E price \in Prices : BeginAddItems(c, o, price)
       \/ \E discount \in Discounts \cup {Keep} : BeginDetails(c, o, discount)
       \/ \E amount \in 1..MaxAmount, online \in BOOLEAN :
            BeginPayment(c, o, amount, online)
  \/ \E p \in Payments :
       \/ BeginVerify(c, p)
       \/ \E amount \in 1..MaxAmount : BeginRefund(c, p, amount)

Serve(c) ==
  \/ CommitStatus(c)
  \/ ReadItems(c)
  \/ CommitItems(c)
  \/ CommitDetails(c)
  \/ \E p \in Payments : CommitPayment(c, p) \/ OpenOnlinePayment(c, p)
  \/ MarkFailed(c)
  \/ MarkPaid(c)
  \/ CreditOrder(c)
  \/ ReadReceipts(c)
  \/ CommitRefund(c)

Next ==
  \/ \E o \in Orders, type \in Types, price \in Prices,
        discount \in Discounts, fee \in Fees \cup {0}, autoAdvance \in BOOLEAN :
       CreateOrder(o, type, price, discount, fee, autoAdvance)
  \/ \E c \in Calls : Request(c) \/ Serve(c) \/ Fail(c)
  \/ \E p \in Payments : PayAtGateway(p)

Spec == Init /\ [][Next]_vars

-----------------------------------------------------------------------------
(* Properties                                                              *)

PayStatus == {"PENDING", "PAID", "REFUNDED"}

CallState ==
  {Idle}
    \cup [pc: {"status"}, order: Orders, from: OrderStatus, to: OrderStatus]
    \cup [pc: {"add"}, order: Orders, price: Prices]
    \cup [pc: {"added"}, order: Orders, price: Prices, subtotal: Nat, discount: Nat]
    \cup [pc: {"details"}, order: Orders, discount: Discounts \cup {Keep}]
    \cup [pc: {"pay"}, order: Orders, amount: Nat \ {0}, online: BOOLEAN]
    \cup [pc: {"verify", "credit"}, payment: Payments]
    \cup [pc: {"refund"}, payment: Payments, refunded: Nat]

\* The two records that carry a sum of payments; which sum ReceiptsMatch says.
OrderRow(paid) ==
  [type: OrderType, status: OrderStatus \cup {NoStatus}, subtotal: Nat, fee: Nat,
   discount: Nat, total: Nat, paid: {paid}, payStatus: PayStatus]

Recomputed(paid) ==
  [pc: {"refunded"}, payment: Payments, refunded: Nat, paid: {paid},
   payStatus: PayStatus]

PaymentRow ==
  [status: {"NONE", "PENDING", "PAID", "FAILED", "REFUNDED"},
   of: Orders \cup {"NONE"}, amount: Nat, refunded: Nat, online: BOOLEAN]

\* The rows hold what their columns can hold (no bill is ever negative), and a
\* request in flight holds what its handler has read.
TypeOK ==
  /\ order = [o \in Orders |-> order[o]]
  /\ \A o \in Orders : order[o] \in OrderRow(order[o].paid)
  /\ items \in [Orders -> Nat]
  /\ trail \in [Orders -> SUBSET ((OrderStatus \cup {NoStatus}) \X OrderStatus)]
  /\ payment \in [Payments -> PaymentRow]
  /\ gateway \in [Payments -> {"none", "open", "paid"}]
  /\ calls = [c \in Calls |-> calls[c]]
  /\ \A c \in Calls :
       IF calls[c].pc = "refunded" THEN calls[c] \in Recomputed(calls[c].paid)
                                   ELSE calls[c] \in CallState

\* However stale the copies the handlers decide on, an order never holds a
\* status of another order type: no dine-in order is ever out for delivery.
StatusFitsType ==
  \A o \in Orders : Placed(o) => order[o].status \in StatusesOf(order[o].type)

\* The customer's timeline (toTrackingDto) never shows a step as done that the
\* order's history has no moment for, even when two members of staff move the
\* order at once or it was sent to the kitchen as it was placed.
TimelineTruthful ==
  \A o \in Orders : \A step \in TrackingSteps(order[o].type) :
    Placed(o) /\ StepComplete(step, order[o].status) =>
      \E hop \in trail[o] : hop[2] = step

\* What an order says of its own course is true, to the staff and to the guest.
HistoryIsTrue == StatusFitsType /\ TimelineTruthful

\* No payment is recorded as refunded beyond its amount, and it reads REFUNDED
\* exactly when all of it went back, whichever refunds overlap.
RefundsWithinAmount ==
  \A p \in Payments :
    /\ payment[p].refunded <= payment[p].amount
    /\ payment[p].status = "REFUNDED" =>
         payment[p].refunded = payment[p].amount
    /\ payment[p].refunded > 0 /\ payment[p].refunded = payment[p].amount =>
         payment[p].status = "REFUNDED"

\* An abandoned redirect never marks an online payment paid, and the credit of
\* an order is only ever on its way for money the gateway has taken.
OnlyPaidMoneyIsCaptured ==
  /\ \A p \in Payments :
       payment[p].online /\ payment[p].status = "PAID" => gateway[p] = "paid"
  /\ \A c \in Calls : calls[c].pc = "credit" => gateway[calls[c].payment] = "paid"

\* What customers handed over for an order: at the gateway, and at the counter
\* net of what the counter gave back.
Received(o) ==
  MapThenSumSet(LAMBDA p : payment[p].amount - payment[p].refunded,
                {p \in Payments : /\ payment[p].of = o
                                  /\ Settled(payment[p]) \/ gateway[p] = "paid"})

\* Gateways retry callbacks, and verifying twice must be harmless: an order is
\* never credited with more than its customers handed over.
CallbackIsHarmless == \A o \in Orders : order[o].paid <= Received(o)

\* Once no callback is between its two writes, what the order says was paid is
\* what its payment rows add up to, net of refunds.
ReceiptsMatch ==
  (\A c \in Calls : calls[c].pc # "credit") =>
    \A o \in Orders : order[o].paid = Receipts(payment, o)

\* The bill is always the bill of the items on the order: what they cost less
\* the discount, with service charge and tax, and with the courier fee it was
\* placed with, which "adding a drink to a delivery" must not drop.
BillMatchesItems ==
  \A o \in Orders :
    /\ order[o].subtotal = items[o]
    /\ order[o].total = Total(items[o], order[o].discount, order[o].fee)

\* An order that reads PAID has been paid in full: a settled order cannot be
\* changed under the payment that settled it.
PaidMeansCovered ==
  \A o \in Orders : order[o].payStatus = "PAID" => order[o].paid >= order[o].total

\* The order stays PENDING until paidTotal reaches total, and no longer: an
\* order with nothing left to pay reads PAID, so that it can be completed.
CoveredMeansPaid ==
  \A o \in Orders :
    Placed(o) /\ order[o].paid >= order[o].total => order[o].payStatus # "PENDING"

\* Terminal states never transition again.
TerminalIsFinal ==
  [][\A o \in Orders :
       order[o].status \in Terminal => order'[o].status = order[o].status]_vars

\* With its requests served one at a time, the desk is OrderFlow: every change
\* of status is a legal hop from the status before it, COMPLETED comes after
\* the money, terminal is final, and a settled bill stays closed.
Flow == INSTANCE OrderFlow WITH
          type <- [o \in Orders |-> order[o].type],
          status <- [o \in Orders |-> order[o].status],
          payStatus <- [o \in Orders |-> order[o].payStatus],
          total <- [o \in Orders |-> order[o].total]

FlowSpec == Flow!Spec
=============================================================================
