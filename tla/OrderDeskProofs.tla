--------------------------- MODULE OrderDeskProofs ---------------------------
(***************************************************************************)
(* Proofs about OrderDesk, for any orders, payments and requests in        *)
(* flight, with any of them failing at any moment.                         *)
(***************************************************************************)
EXTENDS OrderDesk, TLAPS

-----------------------------------------------------------------------------
(* Types                                                                   *)

\* A bill is never negative, whatever the discount: computeOrderTotals clamps.
LEMMA BillIsNat ==
  ASSUME NEW s \in Nat, NEW d \in Int, NEW f \in Nat
  PROVE  M!CappedDiscount(s, d) \in Nat /\ Total(s, d, f) \in Nat
<1>1. M!CappedDiscount(s, d) \in Nat /\ M!CappedDiscount(s, d) <= s
  BY DEF M!CappedDiscount, M!Smaller, M!Larger
<1>2. ASSUME NEW n \in Nat, NEW bps \in Nat PROVE M!BpsOf(n, bps) \in Nat
  <2>1. n * bps + 5000 \in Nat
    OBVIOUS
  <2> QED
    BY <2>1 DEF M!BpsOf
<1> DEFINE base == s - M!CappedDiscount(s, d)
           service == M!BpsOf(base, ServiceBps)
           tax == M!BpsOf(base + service, TaxBps)
<1>3. base \in Nat
  BY <1>1
<1>4. service \in Nat
  BY <1>2, <1>3, DeskAssumption
<1>5. tax \in Nat
  <2> HIDE DEF base, service
  <2>1. base + service \in Nat /\ TaxBps \in Nat
    BY <1>3, <1>4, DeskAssumption
  <2> QED
    BY <1>2, <2>1
<1>6. Total(s, d, f) = base + service + tax + f
  <2>1. M!Larger(0, f) = f
    BY DEF M!Larger
  <2> QED
    BY <2>1 DEF Total, Rates, M!OrderTotal
<1> HIDE DEF base, service, tax
<1> QED
  BY <1>1, <1>3, <1>4, <1>5, <1>6

\* Crediting a payment keeps the row a row.
LEMMA CreditedRow ==
  ASSUME NEW row, row \in OrderRow(row.paid), NEW amount
  PROVE  Credit(row, amount) \in OrderRow(Credit(row, amount).paid)
BY DEF Credit, OrderRow, PayStatus

\* What a request holds, by where it is.
LEMMA RequestTypes ==
  ASSUME TypeOK, NEW c \in Calls
  PROVE  /\ calls[c].pc = "status" =>
              calls[c].order \in Orders /\ calls[c].from \in OrderStatus /\ calls[c].to \in OrderStatus
         /\ calls[c].pc = "add" => calls[c].order \in Orders /\ calls[c].price \in Prices
         /\ calls[c].pc = "added" =>
              /\ calls[c].order \in Orders
              /\ calls[c].price \in Prices
              /\ calls[c].subtotal \in Nat
              /\ calls[c].discount \in Nat
         /\ calls[c].pc = "details" =>
              calls[c].order \in Orders /\ calls[c].discount \in Discounts \cup {Keep}
         /\ calls[c].pc = "pay" =>
              /\ calls[c].order \in Orders
              /\ calls[c].amount \in Nat \ {0}
              /\ calls[c].online \in BOOLEAN
         /\ calls[c].pc \in {"verify", "credit"} => calls[c].payment \in Payments
         /\ calls[c].pc \in {"refund", "refunded"} =>
              calls[c].payment \in Payments /\ calls[c].refunded \in Nat
         /\ calls[c].pc = "refunded" => calls[c].payStatus \in PayStatus
<1>1. CASE calls[c].pc = "refunded"
  BY <1>1 DEF TypeOK, Recomputed
<1>2. CASE calls[c].pc # "refunded"
  <2>1. calls[c] \in CallState
    BY <1>2 DEF TypeOK
  <2> QED
    BY <2>1, <1>2 DEF CallState, Idle
<1> QED
  BY <1>1, <1>2

\* A request that moves on to a typed state keeps the pool typed.
LEMMA TypedPool ==
  ASSUME TypeOK, NEW c \in Calls, NEW next \in CallState,
         calls' = [calls EXCEPT ![c] = next]
  PROVE  /\ calls' = [d \in Calls |-> calls'[d]]
         /\ \A d \in Calls :
              IF calls'[d].pc = "refunded" THEN calls'[d] \in Recomputed(calls'[d].paid)
                                           ELSE calls'[d] \in CallState
<1>1. next.pc # "refunded"
  BY DEF CallState, Idle
<1>2. calls' = [d \in Calls |-> calls'[d]] /\ calls'[c] = next
  BY DEF TypeOK
<1>3. \A d \in Calls \ {c} : calls'[d] = calls[d]
  BY DEF TypeOK
<1> QED
  BY <1>1, <1>2, <1>3 DEF TypeOK

\* The same for a row of the orders table.
LEMMA TypedOrders ==
  ASSUME TypeOK, NEW o, NEW row, row \in OrderRow(row.paid),
         order' = [order EXCEPT ![o] = row]
  PROVE  /\ order' = [x \in Orders |-> order'[x]]
         /\ \A x \in Orders : order'[x] \in OrderRow(order'[x].paid)
<1>1. order' = [x \in Orders |-> order'[x]]
  BY DEF TypeOK
<1>2. ASSUME NEW x \in Orders PROVE order'[x] = order[x] \/ order'[x] = row
  BY DEF TypeOK
<1> QED
  BY <1>1, <1>2 DEF TypeOK

LEMMA InitTypeOK == Init => TypeOK
<1> SUFFICES ASSUME Init PROVE TypeOK
  OBVIOUS
<1>1. Blank \in OrderRow(0) /\ Blank.paid = 0
  BY DEF Blank, OrderRow, OrderType, PayStatus
<1>2. NoPayment \in PaymentRow
  BY DEF NoPayment, PaymentRow
<1>3. Idle \in CallState /\ Idle.pc # "refunded"
  BY DEF Idle, CallState
<1> QED
  BY <1>1, <1>2, <1>3 DEF Init, TypeOK

\* Every step keeps the types.
LEMMA NextTypeOK == TypeOK /\ [Next]_vars => TypeOK'
<1> SUFFICES ASSUME TypeOK, [Next]_vars PROVE TypeOK'
  OBVIOUS
<1> DEFINE Pool == /\ calls' = [d \in Calls |-> calls'[d]]
                   /\ \A d \in Calls :
                        IF calls'[d].pc = "refunded"
                        THEN calls'[d] \in Recomputed(calls'[d].paid)
                        ELSE calls'[d] \in CallState
           Rows == /\ order' = [x \in Orders |-> order'[x]]
                   /\ \A x \in Orders : order'[x] \in OrderRow(order'[x].paid)
<1>idle. Idle \in CallState
  BY DEF CallState
<1>done. ASSUME NEW c \in Calls, Finish(c) PROVE Pool
  BY <1>done, <1>idle, TypedPool DEF Finish
<1>begun. ASSUME NEW c \in Calls, NEW request \in CallState, Begin(c, request) PROVE Pool
  BY <1>begun, TypedPool DEF Begin
<1>1. ASSUME NEW o \in Orders, NEW type \in Types, NEW price \in Prices,
             NEW discount \in Discounts, NEW fee \in Fees \cup {0}, NEW auto \in BOOLEAN,
             CreateOrder(o, type, price, discount, fee, auto)
      PROVE  TypeOK'
  <2> DEFINE row == [type |-> type,
                     status |-> IF auto THEN "SENT_TO_KITCHEN" ELSE "PENDING",
                     subtotal |-> price, fee |-> fee,
                     discount |-> M!CappedDiscount(price, discount),
                     total |-> Total(price, discount, fee),
                     paid |-> 0,
                     payStatus |-> "PENDING"]
  <2>1. price \in Nat /\ discount \in Int /\ fee \in Nat /\ type \in OrderType
    BY DeskAssumption
  <2>2. row \in OrderRow(row.paid)
    BY <2>1, BillIsNat DEF OrderRow, OrderStatus, ActiveStatus, PayStatus
  <2>3. order' = [order EXCEPT ![o] = row]
    BY <1>1 DEF CreateOrder
  <2> HIDE DEF row
  <2>4. Rows
    BY <2>2, <2>3, TypedOrders
  <2>5. InitialTrail(auto) \subseteq (OrderStatus \cup {NoStatus}) \X OrderStatus
    BY DEF InitialTrail, OrderStatus, ActiveStatus
  <2> QED
    BY <1>1, <2>1, <2>4, <2>5 DEF CreateOrder, TypeOK
<1>2. ASSUME NEW c \in Calls, Request(c) PROVE TypeOK'
  <2>1. Pool
    <3>1. ASSUME NEW o \in Orders, NEW to \in OrderStatus, BeginStatus(c, o, to) PROVE Pool
      <4>1. order[o].status \in OrderStatus
        BY <3>1 DEF BeginStatus, Placed, TypeOK, OrderRow
      <4>2. [pc |-> "status", order |-> o, from |-> order[o].status, to |-> to] \in CallState
        BY <4>1 DEF CallState
      <4> QED
        BY <3>1, <4>2, <1>begun DEF BeginStatus
    <3>2. ASSUME NEW o \in Orders, NEW price \in Prices, BeginAddItems(c, o, price) PROVE Pool
      <4>1. [pc |-> "add", order |-> o, price |-> price] \in CallState
        BY DEF CallState
      <4> QED
        BY <3>2, <4>1, <1>begun DEF BeginAddItems
    <3>3. ASSUME NEW o \in Orders, NEW discount \in Discounts \cup {Keep},
                 BeginDetails(c, o, discount)
          PROVE  Pool
      <4>1. [pc |-> "details", order |-> o, discount |-> discount] \in CallState
        BY DEF CallState
      <4> QED
        BY <3>3, <4>1, <1>begun DEF BeginDetails
    <3>4. ASSUME NEW o \in Orders, NEW amount \in 1..MaxAmount, NEW online \in BOOLEAN,
                 BeginPayment(c, o, amount, online)
          PROVE  Pool
      <4>1. [pc |-> "pay", order |-> o, amount |-> amount, online |-> online] \in CallState
        BY DeskAssumption DEF CallState
      <4> QED
        BY <3>4, <4>1, <1>begun DEF BeginPayment
    <3>5. ASSUME NEW p \in Payments, BeginVerify(c, p) PROVE Pool
      <4>1. [pc |-> "verify", payment |-> p] \in CallState
        BY DEF CallState
      <4> QED
        BY <3>5, <4>1, <1>begun DEF BeginVerify
    <3>6. ASSUME NEW p \in Payments, NEW amount \in 1..MaxAmount, BeginRefund(c, p, amount)
          PROVE  Pool
      <4>1. payment[p].refunded + amount \in Nat
        BY DeskAssumption DEF TypeOK, PaymentRow
      <4>2. [pc |-> "refund", payment |-> p, refunded |-> payment[p].refunded + amount]
              \in CallState
        BY <4>1 DEF CallState
      <4> QED
        BY <3>6, <4>2, <1>begun DEF BeginRefund
    <3> QED
      BY <1>2, <3>1, <3>2, <3>3, <3>4, <3>5, <3>6 DEF Request
  <2>2. UNCHANGED <<order, items, trail, payment, gateway>>
    BY <1>2 DEF Request, BeginStatus, BeginAddItems, BeginDetails, BeginPayment,
                BeginVerify, BeginRefund
  <2> QED
    BY <2>1, <2>2 DEF TypeOK
<1>3. ASSUME NEW c \in Calls, CommitStatus(c) PROVE TypeOK'
  <2> DEFINE o == calls[c].order
             to == calls[c].to
             row == [order[o] EXCEPT !.status = to]
  <2>1. o \in Orders /\ to \in OrderStatus /\ calls[c].from \in OrderStatus
    BY <1>3, RequestTypes DEF CommitStatus
  <2>2. row \in OrderRow(row.paid)
    BY <2>1 DEF TypeOK, OrderRow
  <2>3. order' = [order EXCEPT ![o] = row]
    BY <1>3 DEF CommitStatus
  <2> HIDE DEF row
  <2>4. Rows
    BY <2>2, <2>3, TypedOrders
  <2>5. trail' \in [Orders -> SUBSET ((OrderStatus \cup {NoStatus}) \X OrderStatus)]
    BY <1>3, <2>1 DEF CommitStatus, TypeOK
  <2> QED
    BY <1>3, <2>4, <2>5, <1>done DEF CommitStatus, TypeOK
<1>4. ASSUME NEW c \in Calls, ReadItems(c) PROVE TypeOK'
  <2> DEFINE o == calls[c].order
             next == [pc |-> "added", order |-> o, price |-> calls[c].price,
                      subtotal |-> items[o] + calls[c].price,
                      discount |-> order[o].discount]
  <2>1. o \in Orders /\ calls[c].price \in Prices /\ calls[c].price \in Nat
    BY <1>4, RequestTypes, DeskAssumption DEF ReadItems
  <2>2. items[o] \in Nat /\ order[o].discount \in Nat
    BY <2>1 DEF TypeOK, OrderRow
  <2>3. next \in CallState
    BY <2>1, <2>2 DEF CallState
  <2>4. calls' = [calls EXCEPT ![c] = next]
    BY <1>4 DEF ReadItems
  <2> HIDE DEF next
  <2> QED
    BY <1>4, <2>3, <2>4, TypedPool DEF ReadItems, TypeOK
<1>5. ASSUME NEW c \in Calls, CommitItems(c) PROVE TypeOK'
  <2> DEFINE o == calls[c].order
             row == [order[o] EXCEPT
                       !.subtotal = calls[c].subtotal,
                       !.discount = M!CappedDiscount(calls[c].subtotal, calls[c].discount),
                       !.total = Total(calls[c].subtotal, calls[c].discount, order[o].fee)]
  <2>1. /\ o \in Orders
        /\ calls[c].price \in Nat
        /\ calls[c].subtotal \in Nat
        /\ calls[c].discount \in Int
    BY <1>5, RequestTypes, DeskAssumption DEF CommitItems
  <2>fee. order[o].fee \in Nat
    BY <2>1 DEF TypeOK, OrderRow
  <2>2. /\ M!CappedDiscount(calls[c].subtotal, calls[c].discount) \in Nat
        /\ Total(calls[c].subtotal, calls[c].discount, order[o].fee) \in Nat
    BY <2>1, <2>fee, BillIsNat
  <2>3. row \in OrderRow(row.paid)
    BY <2>1, <2>2 DEF TypeOK, OrderRow
  <2>4. order' = [order EXCEPT ![o] = row]
    BY <1>5 DEF CommitItems
  <2> HIDE DEF row
  <2>5. Rows
    BY <2>3, <2>4, TypedOrders
  <2>6. items' \in [Orders -> Nat]
    <3>1. items' = [items EXCEPT ![o] = items[o] + calls[c].price]
      BY <1>5 DEF CommitItems
    <3>2. items \in [Orders -> Nat] /\ items[o] + calls[c].price \in Nat
      BY <2>1 DEF TypeOK
    <3> QED
      BY <3>1, <3>2
  <2> QED
    BY <1>5, <2>5, <2>6, <1>done DEF CommitItems, TypeOK
<1>6. ASSUME NEW c \in Calls, CommitDetails(c) PROVE TypeOK'
  <2> DEFINE o == calls[c].order
             discount == IF calls[c].discount = Keep THEN order[o].discount
                         ELSE calls[c].discount
             row == [order[o] EXCEPT
                       !.subtotal = items[o],
                       !.discount = M!CappedDiscount(items[o], discount),
                       !.total = Total(items[o], discount, order[o].fee)]
  <2>1. o \in Orders /\ calls[c].discount \in Discounts \cup {Keep}
    BY <1>6, RequestTypes DEF CommitDetails
  <2>2. items[o] \in Nat /\ discount \in Int /\ order[o].fee \in Nat
    BY <2>1, DeskAssumption DEF TypeOK, OrderRow, Keep
  <2>3. M!CappedDiscount(items[o], discount) \in Nat /\ Total(items[o], discount, order[o].fee) \in Nat
    BY <2>2, BillIsNat
  <2>4. order' = [order EXCEPT ![o] = row]
    BY <1>6 DEF CommitDetails
  <2> HIDE DEF discount
  <2>5. row \in OrderRow(row.paid)
    BY <2>1, <2>2, <2>3 DEF TypeOK, OrderRow
  <2> HIDE DEF row
  <2>6. Rows
    BY <2>4, <2>5, TypedOrders
  <2> QED
    BY <1>6, <2>6, <1>done DEF CommitDetails, TypeOK
<1>7. ASSUME NEW c \in Calls, NEW p \in Payments, CommitPayment(c, p) PROVE TypeOK'
  <2> DEFINE o == calls[c].order
             row == Credit(order[o], calls[c].amount)
  <2>1. o \in Orders /\ calls[c].amount \in Nat
    BY <1>7, RequestTypes DEF CommitPayment
  <2>2. row \in OrderRow(row.paid)
    BY <2>1, CreditedRow DEF TypeOK
  <2>3. order' = [order EXCEPT ![o] = row]
    BY <1>7 DEF CommitPayment
  <2> HIDE DEF row
  <2>4. Rows
    BY <2>2, <2>3, TypedOrders
  <2>5. payment' \in [Payments -> PaymentRow]
    BY <1>7, <2>1 DEF CommitPayment, TypeOK, PaymentRow
  <2> QED
    BY <1>7, <2>4, <2>5, <1>done DEF CommitPayment, TypeOK
<1>8. ASSUME NEW c \in Calls, NEW p \in Payments, OpenOnlinePayment(c, p) PROVE TypeOK'
  <2>1. calls[c].order \in Orders /\ calls[c].amount \in Nat
    BY <1>8, RequestTypes DEF OpenOnlinePayment
  <2>2. payment' \in [Payments -> PaymentRow]
    BY <1>8, <2>1 DEF OpenOnlinePayment, TypeOK, PaymentRow
  <2>3. gateway' \in [Payments -> {"none", "open", "paid"}]
    BY <1>8 DEF OpenOnlinePayment, TypeOK
  <2> QED
    BY <1>8, <2>2, <2>3, <1>done DEF OpenOnlinePayment, TypeOK
<1>9. ASSUME NEW c \in Calls, MarkFailed(c) PROVE TypeOK'
  <2>1. payment' \in [Payments -> PaymentRow]
    BY <1>9 DEF MarkFailed, TypeOK, PaymentRow
  <2> QED
    BY <1>9, <2>1, <1>done DEF MarkFailed, TypeOK
<1>10. ASSUME NEW c \in Calls, MarkPaid(c) PROVE TypeOK'
  <2>1. payment' \in [Payments -> PaymentRow]
    <3>1. payment' = [payment EXCEPT ![calls[c].payment].status = "PAID"]
      BY <1>10 DEF MarkPaid
    <3> QED
      BY <3>1 DEF TypeOK, PaymentRow
  <2>2. [pc |-> "credit", payment |-> calls[c].payment] \in CallState
    BY <1>10, RequestTypes DEF MarkPaid, CallState
  <2>3. Pool
    BY <1>10, <2>2, TypedPool DEF MarkPaid
  <2> QED
    BY <1>10, <2>1, <2>3 DEF MarkPaid, TypeOK
<1>11. ASSUME NEW c \in Calls, CreditOrder(c) PROVE TypeOK'
  <2> DEFINE o == payment[calls[c].payment].of
             row == Credit(order[o], payment[calls[c].payment].amount)
  <2>1. order' = [order EXCEPT ![o] = row]
    BY <1>11 DEF CreditOrder
  <2>2. Rows
    <3>1. CASE o \in Orders
      <4>1. row \in OrderRow(row.paid)
        BY <3>1, CreditedRow DEF TypeOK
      <4> HIDE DEF row
      <4> QED
        BY <2>1, <4>1, TypedOrders
    <3>2. CASE o \notin Orders
      <4>1. order' = order
        BY <2>1, <3>2 DEF TypeOK
      <4> QED
        BY <4>1 DEF TypeOK
    <3> QED
      BY <3>1, <3>2
  <2> QED
    BY <1>11, <2>2, <1>done DEF CreditOrder, TypeOK
<1>12. ASSUME NEW c \in Calls, ReadReceipts(c) PROVE TypeOK'
  <2> DEFINE p == calls[c].payment
             rows == [payment EXCEPT ![p] = Refunded(p, calls[c].refunded)]
             paid == Receipts(rows, payment[p].of)
             status == RefundStatus(rows, payment[p].of, paid, order[payment[p].of].total)
             next == [pc |-> "refunded", payment |-> p, refunded |-> calls[c].refunded,
                      paid |-> paid, payStatus |-> status]
  <2>1. calls' = [calls EXCEPT ![c] = next]
    BY <1>12 DEF ReadReceipts
  <2>2. status \in PayStatus
    BY DEF RefundStatus, PayStatus
  <2>3. p \in Payments /\ calls[c].refunded \in Nat
    BY <1>12, RequestTypes DEF ReadReceipts
  <2> HIDE DEF p, paid, status
  <2>4. next.pc = "refunded" /\ next \in Recomputed(next.paid)
    BY <2>2, <2>3 DEF Recomputed
  <2> HIDE DEF next
  <2>5. Pool
    <3>1. calls' = [d \in Calls |-> calls'[d]] /\ calls'[c] = next
      BY <2>1 DEF TypeOK
    <3>2. \A d \in Calls \ {c} : calls'[d] = calls[d]
      BY <2>1 DEF TypeOK
    <3> QED
      BY <2>4, <3>1, <3>2 DEF TypeOK
  <2> QED
    BY <1>12, <2>5 DEF ReadReceipts, TypeOK
<1>13. ASSUME NEW c \in Calls, CommitRefund(c) PROVE TypeOK'
  <2> DEFINE p == calls[c].payment
             o == payment[p].of
             row == [order[o] EXCEPT !.paid = calls[c].paid,
                                     !.payStatus = calls[c].payStatus]
  <2>1. p \in Payments /\ calls[c].refunded \in Nat /\ calls[c].payStatus \in PayStatus
    BY <1>13, RequestTypes DEF CommitRefund
  <2>2. order' = [order EXCEPT ![o] = row]
    BY <1>13 DEF CommitRefund
  <2>3. Rows
    <3>1. CASE o \in Orders
      <4>1. row \in OrderRow(row.paid)
        BY <3>1, <2>1 DEF TypeOK, OrderRow
      <4> HIDE DEF row
      <4> QED
        BY <2>2, <4>1, TypedOrders
    <3>2. CASE o \notin Orders
      <4>1. order' = order
        BY <2>2, <3>2 DEF TypeOK
      <4> QED
        BY <4>1 DEF TypeOK
    <3> QED
      BY <3>1, <3>2
  <2>4. payment' \in [Payments -> PaymentRow]
    <3>1. payment' = [payment EXCEPT ![p] = Refunded(p, calls[c].refunded)]
      BY <1>13 DEF CommitRefund
    <3>2. payment \in [Payments -> PaymentRow]
      BY DEF TypeOK
    <3>3. Refunded(p, calls[c].refunded) \in PaymentRow
      BY <2>1, <3>2 DEF Refunded, PaymentRow
    <3> QED
      BY <3>1, <3>2, <3>3
  <2> QED
    BY <1>13, <2>3, <2>4, <1>done DEF CommitRefund, TypeOK
<1>14. ASSUME NEW c \in Calls, Fail(c) PROVE TypeOK'
  BY <1>14, <1>done DEF Fail, TypeOK
<1>15. ASSUME NEW p \in Payments, PayAtGateway(p) PROVE TypeOK'
  BY <1>15 DEF PayAtGateway, TypeOK
<1>16. CASE UNCHANGED vars
  BY <1>16 DEF vars, TypeOK
<1> QED
  BY <1>1, <1>2, <1>3, <1>4, <1>5, <1>6, <1>7, <1>8, <1>9, <1>10, <1>11, <1>12,
     <1>13, <1>14, <1>15, <1>16 DEF Next, Serve

\* The rows keep their types and no bill is ever negative, however many
\* requests interleave, act on stale copies or die half way.
THEOREM Typed == Spec => []TypeOK
<1> QED
  BY InitTypeOK, NextTypeOK, PTL DEF Spec

-----------------------------------------------------------------------------
(* Statuses and the trail they leave                                       *)

\* A step leaves an order's type, status and trail alone, places the order, or
\* commits one request's move.
LEMMA StatusMoves ==
  ASSUME TypeOK, [Next]_vars, NEW o \in Orders
  PROVE  \/ /\ order'[o].type = order[o].type
            /\ order'[o].status = order[o].status
            /\ trail'[o] = trail[o]
         \/ /\ ~Placed(o)
            /\ order'[o].type \in OrderType
            /\ \E auto \in BOOLEAN :
                 /\ order'[o].status = IF auto THEN "SENT_TO_KITCHEN" ELSE "PENDING"
                 /\ trail'[o] = InitialTrail(auto)
         \/ \E c \in Calls :
              /\ calls[c].pc = "status" /\ calls[c].order = o
              /\ order'[o].type = order[o].type
              /\ order'[o].status = calls[c].to
              /\ trail'[o] = trail[o] \cup {<<calls[c].from, calls[c].to>>}
<1> DEFINE Same == /\ order'[o].type = order[o].type
                   /\ order'[o].status = order[o].status
                   /\ trail'[o] = trail[o]
<1>0. order = [x \in Orders |-> order[x]] /\ \A x \in Orders : order[x] \in OrderRow(order[x].paid)
  BY DEF TypeOK
<1>1. ASSUME NEW x \in Orders, NEW type \in Types, NEW price \in Prices,
             NEW discount \in Discounts, NEW fee \in Fees \cup {0}, NEW auto \in BOOLEAN,
             CreateOrder(x, type, price, discount, fee, auto)
      PROVE  \/ Same
             \/ /\ ~Placed(o)
                /\ order'[o].type \in OrderType
                /\ order'[o].status = IF auto THEN "SENT_TO_KITCHEN" ELSE "PENDING"
                /\ trail'[o] = InitialTrail(auto)
  BY <1>0, <1>1, DeskAssumption DEF CreateOrder, TypeOK
<1>2. ASSUME NEW c \in Calls, CommitStatus(c)
      PROVE  \/ Same
             \/ /\ calls[c].pc = "status" /\ calls[c].order = o
                /\ order'[o].type = order[o].type
                /\ order'[o].status = calls[c].to
                /\ trail'[o] = trail[o] \cup {<<calls[c].from, calls[c].to>>}
  BY <1>0, <1>2 DEF CommitStatus, TypeOK, OrderRow
<1>3. ASSUME NEW c \in Calls,
             Request(c) \/ ReadItems(c) \/ MarkFailed(c) \/ MarkPaid(c)
               \/ ReadReceipts(c) \/ Fail(c)
      PROVE  Same
  BY <1>3 DEF Request, BeginStatus, BeginAddItems, BeginDetails, BeginPayment,
              BeginVerify, BeginRefund, ReadItems, MarkFailed, MarkPaid, ReadReceipts, Fail
<1> DEFINE Kept(x, row) == /\ order' = [order EXCEPT ![x] = row]
                           /\ trail' = trail
                           /\ x = o => row.type = order[o].type /\ row.status = order[o].status
<1>same. ASSUME NEW x, NEW row, Kept(x, row) PROVE Same
  BY <1>0, <1>same
<1>4. ASSUME NEW c \in Calls, CommitItems(c) \/ CommitDetails(c) \/ CommitRefund(c)
      PROVE  Same
  <2>1. CASE CommitItems(c)
    <3> DEFINE x == calls[c].order
               row == [order[x] EXCEPT
                         !.subtotal = calls[c].subtotal,
                         !.discount = M!CappedDiscount(calls[c].subtotal, calls[c].discount),
                         !.total = Total(calls[c].subtotal, calls[c].discount, order[x].fee)]
    <3>1. order' = [order EXCEPT ![x] = row] /\ trail' = trail
      BY <2>1 DEF CommitItems
    <3>2. x = o => row.type = order[o].type /\ row.status = order[o].status
      BY <1>0 DEF OrderRow
    <3> HIDE DEF x, row
    <3> QED
      BY <3>1, <3>2, <1>same
  <2>2. CASE CommitDetails(c)
    <3> DEFINE x == calls[c].order
               discount == IF calls[c].discount = Keep THEN order[x].discount
                           ELSE calls[c].discount
               row == [order[x] EXCEPT
                         !.subtotal = items[x],
                         !.discount = M!CappedDiscount(items[x], discount),
                         !.total = Total(items[x], discount, order[x].fee)]
    <3>1. order' = [order EXCEPT ![x] = row] /\ trail' = trail
      BY <2>2 DEF CommitDetails
    <3> HIDE DEF discount
    <3>2. x = o => row.type = order[o].type /\ row.status = order[o].status
      BY <1>0 DEF OrderRow
    <3> HIDE DEF x, row
    <3> QED
      BY <3>1, <3>2, <1>same
  <2>3. CASE CommitRefund(c)
    <3> DEFINE x == payment[calls[c].payment].of
               row == [order[x] EXCEPT !.paid = calls[c].paid,
                                       !.payStatus = calls[c].payStatus]
    <3>1. order' = [order EXCEPT ![x] = row] /\ trail' = trail
      BY <2>3 DEF CommitRefund
    <3>2. x = o => row.type = order[o].type /\ row.status = order[o].status
      BY <1>0 DEF OrderRow
    <3> HIDE DEF x, row
    <3> QED
      BY <3>1, <3>2, <1>same
  <2> QED
    BY <1>4, <2>1, <2>2, <2>3
<1>credit. ASSUME NEW x, NEW amount, trail' = trail,
                  order' = [order EXCEPT ![x] = Credit(order[x], amount)]
           PROVE  Same
  <2>1. x = o => /\ Credit(order[x], amount).type = order[o].type
                 /\ Credit(order[x], amount).status = order[o].status
    BY <1>0 DEF Credit, OrderRow
  <2> QED
    BY <1>credit, <2>1, <1>same
<1>5. ASSUME NEW c \in Calls, NEW p \in Payments,
             CommitPayment(c, p) \/ OpenOnlinePayment(c, p)
      PROVE  Same
  BY <1>5, <1>credit DEF CommitPayment, OpenOnlinePayment
<1>6. ASSUME NEW c \in Calls, CreditOrder(c) PROVE Same
  BY <1>6, <1>credit DEF CreditOrder
<1>7. ASSUME NEW p \in Payments, PayAtGateway(p) PROVE Same
  BY <1>7 DEF PayAtGateway
<1>8. CASE UNCHANGED vars
  BY <1>8 DEF vars
<1> QED
  BY <1>1, <1>2, <1>3, <1>4, <1>5, <1>6, <1>7, <1>8 DEF Next, Serve

\* A request that is about to move a status was so before, or has just checked
\* its move against the order.
LEMMA StatusRequests ==
  ASSUME TypeOK, [Next]_vars, NEW c \in Calls, calls'[c].pc = "status"
  PROVE  \/ calls'[c] = calls[c]
         \/ \E o \in Orders, to \in OrderStatus :
              /\ Placed(o)
              /\ CanTransition(order[o].type, order[o].status, to)
              /\ UNCHANGED order
              /\ calls'[c] = [pc |-> "status", order |-> o,
                              from |-> order[o].status, to |-> to]
<1>0. calls = [d \in Calls |-> calls[d]] /\ Idle.pc # "status"
  BY DEF TypeOK, Idle
<1>1. ASSUME NEW d \in Calls, Finish(d) PROVE calls'[c] = calls[c]
  BY <1>0, <1>1 DEF Finish
<1>2. ASSUME NEW d \in Calls, Request(d)
      PROVE  \/ calls'[c] = calls[c]
             \/ \E o \in Orders, to \in OrderStatus :
                  /\ Placed(o)
                  /\ CanTransition(order[o].type, order[o].status, to)
                  /\ UNCHANGED order
                  /\ calls'[c] = [pc |-> "status", order |-> o,
                                  from |-> order[o].status, to |-> to]
  <2>1. CASE d # c
    BY <1>0, <1>2, <2>1 DEF Request, BeginStatus, BeginAddItems, BeginDetails,
                            BeginPayment, BeginVerify, BeginRefund, Begin
  <2>2. CASE d = c
    <3>1. PICK o \in Orders, to \in OrderStatus : BeginStatus(c, o, to)
      BY <1>0, <1>2, <2>2 DEF Request, BeginAddItems, BeginDetails, BeginPayment,
                              BeginVerify, BeginRefund, Begin
    <3> QED
      BY <1>0, <3>1 DEF BeginStatus, Begin
  <2> QED
    BY <2>1, <2>2
<1>3. ASSUME NEW d \in Calls, Serve(d) \/ Fail(d) PROVE calls'[c] = calls[c]
  <2>1. CASE ReadItems(d) \/ MarkPaid(d) \/ ReadReceipts(d)
    BY <1>0, <2>1 DEF ReadItems, MarkPaid, ReadReceipts
  <2>2. CASE ~(ReadItems(d) \/ MarkPaid(d) \/ ReadReceipts(d))
    BY <1>1, <1>3, <2>2 DEF Serve, Fail, CommitStatus, CommitItems, CommitDetails,
         CommitPayment, OpenOnlinePayment, MarkFailed, CreditOrder, CommitRefund
  <2> QED
    BY <2>1, <2>2
<1> QED
  BY <1>2, <1>3 DEF Next, CreateOrder, PayAtGateway, vars

\* The statuses an order has been in, by its history.
Reached(o) == {hop[2] : hop \in trail[o]}

\* The strengthening: the history of an order is a path of its own type that
\* starts at PENDING and holds its status, and every move on its way starts
\* somewhere on that path, however long ago it was checked.
TrailInv ==
  \A o \in Orders : Placed(o) =>
    /\ order[o].status \in StatusesOf(order[o].type) \cap Reached(o)
    /\ \A hop \in trail[o] :
         \/ hop = <<NoStatus, "PENDING">>
         \/ hop \in TransitionTable(order[o].type) /\ hop[1] \in Reached(o)

MoveInv ==
  \A c \in Calls : calls[c].pc = "status" =>
    /\ Placed(calls[c].order)
    /\ CanTransition(order[calls[c].order].type, calls[c].from, calls[c].to)
    /\ calls[c].from \in Reached(calls[c].order)

StatusInv == TypeOK /\ TrailInv /\ MoveInv

\* A legal hop ends in a status of the type.
LEMMA HopsStayOnRoad ==
  ASSUME NEW type \in OrderType, NEW from, NEW to, CanTransition(type, from, to)
  PROVE  to \in StatusesOf(type) /\ to # NoStatus
BY DEF OrderType, CanTransition, TransitionTable, SharedHops, Cancellable, DineInHops,
       DeliveryHops, TakeawayHops, StatusesOf, Road, Terminal, NoStatus

\* A placed order stays placed and keeps its type and its history.
LEMMA PlacedStays ==
  ASSUME StatusInv, [Next]_vars, NEW o \in Orders, Placed(o)
  PROVE  /\ Placed(o)'
         /\ order'[o].type = order[o].type
         /\ trail[o] \subseteq trail'[o]
<1>1. CASE \E c \in Calls :
             /\ calls[c].pc = "status" /\ calls[c].order = o
             /\ order'[o].type = order[o].type
             /\ order'[o].status = calls[c].to
             /\ trail'[o] = trail[o] \cup {<<calls[c].from, calls[c].to>>}
  <2>1. PICK c \in Calls :
             /\ calls[c].pc = "status" /\ calls[c].order = o
             /\ order'[o].type = order[o].type
             /\ order'[o].status = calls[c].to
             /\ trail'[o] = trail[o] \cup {<<calls[c].from, calls[c].to>>}
    BY <1>1
  <2>2. calls[c].to # NoStatus
    BY <2>1, HopsStayOnRoad DEF StatusInv, MoveInv, TypeOK, OrderRow
  <2> QED
    BY <2>1, <2>2 DEF Placed
<1> QED
  BY <1>1, StatusMoves DEF StatusInv, Placed

LEMMA InitStatusInv == Init => StatusInv
<1> SUFFICES ASSUME Init PROVE StatusInv
  OBVIOUS
<1>1. TypeOK
  BY InitTypeOK
<1>2. TrailInv
  BY DEF Init, TrailInv, Placed, Blank
<1>3. MoveInv
  BY DEF Init, MoveInv, Idle
<1> QED
  BY <1>1, <1>2, <1>3 DEF StatusInv

LEMMA NextStatusInv == StatusInv /\ [Next]_vars => StatusInv'
<1> SUFFICES ASSUME StatusInv, [Next]_vars PROVE StatusInv'
  OBVIOUS
<1>1. TypeOK'
  BY NextTypeOK DEF StatusInv
<1>2. TrailInv'
  <2> SUFFICES ASSUME NEW o \in Orders, Placed(o)'
               PROVE  /\ order'[o].status \in StatusesOf(order'[o].type)
                      /\ \E hop \in trail'[o] : order'[o].status = hop[2]
                      /\ \A hop \in trail'[o] :
                           \/ hop = <<NoStatus, "PENDING">>
                           \/ /\ hop \in TransitionTable(order'[o].type)
                              /\ \E before \in trail'[o] : hop[1] = before[2]
    BY DEF TrailInv, Reached
  <2>1. CASE /\ order'[o].type = order[o].type
             /\ order'[o].status = order[o].status
             /\ trail'[o] = trail[o]
    BY <2>1 DEF StatusInv, TrailInv, Placed, Reached
  <2>2. CASE /\ order'[o].type \in OrderType
             /\ \E auto \in BOOLEAN :
                  /\ order'[o].status = IF auto THEN "SENT_TO_KITCHEN" ELSE "PENDING"
                  /\ trail'[o] = InitialTrail(auto)
    <3>1. PICK auto \in BOOLEAN :
                  /\ order'[o].status = IF auto THEN "SENT_TO_KITCHEN" ELSE "PENDING"
                  /\ trail'[o] = InitialTrail(auto)
      BY <2>2
    <3>2. order'[o].status \in StatusesOf(order'[o].type)
      BY <3>1 DEF StatusesOf
    <3>3. {<<"PENDING", "CONFIRMED">>, <<"CONFIRMED", "SENT_TO_KITCHEN">>}
            \subseteq TransitionTable(order'[o].type)
      BY DEF TransitionTable, SharedHops
    <3>4. CASE auto
      <4>1. trail'[o] = {<<NoStatus, "PENDING">>, <<"PENDING", "CONFIRMED">>,
                         <<"CONFIRMED", "SENT_TO_KITCHEN">>}
        BY <3>1, <3>4 DEF InitialTrail
      <4> DEFINE a == <<NoStatus, "PENDING">>
                 b == <<"PENDING", "CONFIRMED">>
                 c == <<"CONFIRMED", "SENT_TO_KITCHEN">>
      <4>2. trail'[o] = {a, b, c} /\ order'[o].status = c[2] /\ b[1] = a[2] /\ c[1] = b[2]
        BY <3>1, <3>4, <4>1
      <4>3. b \in TransitionTable(order'[o].type) /\ c \in TransitionTable(order'[o].type)
        BY <3>3
      <4> HIDE DEF a, b, c
      <4>4. \A hop \in trail'[o] :
              \/ hop = a
              \/ /\ hop \in TransitionTable(order'[o].type)
                 /\ \E before \in trail'[o] : hop[1] = before[2]
        BY <4>2, <4>3
      <4> QED
        BY <3>2, <4>2, <4>4 DEF a
    <3>5. CASE ~auto
      <4>1. trail'[o] = {<<NoStatus, "PENDING">>}
        BY <3>1, <3>5 DEF InitialTrail
      <4> QED
        BY <3>1, <3>2, <3>5, <4>1
    <3> QED
      BY <3>4, <3>5
  <2>3. CASE \E c \in Calls :
              /\ calls[c].pc = "status" /\ calls[c].order = o
              /\ order'[o].type = order[o].type
              /\ order'[o].status = calls[c].to
              /\ trail'[o] = trail[o] \cup {<<calls[c].from, calls[c].to>>}
    <3>1. PICK c \in Calls :
              /\ calls[c].pc = "status" /\ calls[c].order = o
              /\ order'[o].type = order[o].type
              /\ order'[o].status = calls[c].to
              /\ trail'[o] = trail[o] \cup {<<calls[c].from, calls[c].to>>}
      BY <2>3
    <3>2. /\ Placed(o)
          /\ CanTransition(order[o].type, calls[c].from, calls[c].to)
          /\ calls[c].from \in Reached(o)
      BY <3>1 DEF StatusInv, MoveInv
    <3>3. order[o].type \in OrderType
      BY DEF StatusInv, TypeOK, OrderRow
    <3>4. order'[o].status \in StatusesOf(order'[o].type)
      BY <3>1, <3>2, <3>3, HopsStayOnRoad
    <3>5. \E hop \in trail'[o] : order'[o].status = hop[2]
      <4> DEFINE new == <<calls[c].from, calls[c].to>>
      <4>1. new \in trail'[o] /\ order'[o].status = new[2]
        BY <3>1
      <4> QED
        BY <4>1
    <3>6. PICK origin \in trail[o] : calls[c].from = origin[2]
      BY <3>2 DEF Reached
    <3>7. ASSUME NEW hop \in trail'[o]
          PROVE  \/ hop = <<NoStatus, "PENDING">>
                 \/ /\ hop \in TransitionTable(order'[o].type)
                    /\ \E before \in trail'[o] : hop[1] = before[2]
      <4>1. CASE hop \in trail[o]
        BY <3>1, <3>2, <4>1 DEF StatusInv, TrailInv, Reached
      <4>2. CASE hop = <<calls[c].from, calls[c].to>>
        BY <3>1, <3>2, <3>6, <4>2 DEF CanTransition
      <4> QED
        BY <3>1, <3>7, <4>1, <4>2
    <3> QED
      BY <3>4, <3>5, <3>7
  <2> QED
    BY <2>1, <2>2, <2>3, StatusMoves DEF StatusInv
<1>3. MoveInv'
  <2> SUFFICES ASSUME NEW c \in Calls, calls'[c].pc = "status"
               PROVE  /\ order'[calls'[c].order].status # NoStatus
                      /\ CanTransition(order'[calls'[c].order].type, calls'[c].from, calls'[c].to)
                      /\ \E hop \in trail'[calls'[c].order] : calls'[c].from = hop[2]
    BY DEF MoveInv, Reached, Placed
  <2>1. CASE calls'[c] = calls[c]
    <3> DEFINE o == calls[c].order
    <3>1. o \in Orders /\ Placed(o)
      BY <2>1, RequestTypes DEF StatusInv, MoveInv
    <3>2. /\ CanTransition(order[o].type, calls[c].from, calls[c].to)
          /\ \E hop \in trail[o] : calls[c].from = hop[2]
      BY <2>1 DEF StatusInv, MoveInv, Reached
    <3> QED
      BY <2>1, <3>1, <3>2, PlacedStays DEF Placed
  <2>2. CASE \E o \in Orders, to \in OrderStatus :
               /\ Placed(o)
               /\ CanTransition(order[o].type, order[o].status, to)
               /\ UNCHANGED order
               /\ calls'[c] = [pc |-> "status", order |-> o,
                               from |-> order[o].status, to |-> to]
    <3>1. PICK o \in Orders, to \in OrderStatus :
               /\ Placed(o)
               /\ CanTransition(order[o].type, order[o].status, to)
               /\ UNCHANGED order
               /\ calls'[c] = [pc |-> "status", order |-> o,
                               from |-> order[o].status, to |-> to]
      BY <2>2
    <3>2. \E hop \in trail[o] : order[o].status = hop[2]
      BY <3>1 DEF StatusInv, TrailInv, Reached
    <3>3. trail[o] \subseteq trail'[o]
      BY <3>1, PlacedStays
    <3> QED
      BY <3>1, <3>2, <3>3 DEF Placed
  <2> QED
    BY <2>1, <2>2, StatusRequests DEF StatusInv
<1> QED
  BY <1>1, <1>2, <1>3 DEF StatusInv

\* An order never holds a status of another order type, however stale the copy
\* updateStatus checked the move on: the tables of a type are closed.
THEOREM StatusAlwaysFitsType == Spec => []StatusFitsType
<1>1. StatusInv => StatusFitsType
  BY DEF StatusInv, TrailInv, StatusFitsType
<1> QED
  BY InitStatusInv, NextStatusInv, <1>1, PTL DEF Spec

\* Before every status it has been in but PENDING, an order was in one its
\* transition table leads from.
LEMMA ReachedFrom ==
  ASSUME StatusInv, NEW o \in Orders, Placed(o), NEW s \in Reached(o), s # "PENDING"
  PROVE  \E p \in Reached(o) : <<p, s>> \in TransitionTable(order[o].type)
<1>1. PICK hop \in trail[o] : hop[2] = s
  BY DEF Reached
<1>2. hop \in (OrderStatus \cup {NoStatus}) \X OrderStatus
  BY DEF StatusInv, TypeOK
<1>3. hop = <<hop[1], s>>
  BY <1>1, <1>2
<1>4. hop \in TransitionTable(order[o].type) /\ hop[1] \in Reached(o)
  BY <1>1 DEF StatusInv, TrailInv
<1> QED
  BY <1>3, <1>4

\* The ranks STATUS_PROGRESS gives.
LEMMA Ranks ==
  /\ StatusProgress["PENDING"] = 0 /\ StatusProgress["CONFIRMED"] = 1
  /\ StatusProgress["SENT_TO_KITCHEN"] = 2 /\ StatusProgress["PREPARING"] = 3
  /\ StatusProgress["READY"] = 4 /\ StatusProgress["READY_FOR_PICKUP"] = 4
  /\ StatusProgress["SERVED"] = 5 /\ StatusProgress["PICKED_UP"] = 5
  /\ StatusProgress["OUT_FOR_DELIVERY"] = 5 /\ StatusProgress["DELIVERED"] = 6
  /\ StatusProgress["COMPLETED"] = 6
BY DEF StatusProgress, OrderStatus, ActiveStatus, Terminal

\* Up to PREPARING the road is the same for every type.
LEMMA SharedRoad ==
  ASSUME StatusInv, NEW o \in Orders, Placed(o), order[o].type \in OrderType
  PROVE  /\ "PREPARING" \in Reached(o) => "SENT_TO_KITCHEN" \in Reached(o)
         /\ "SENT_TO_KITCHEN" \in Reached(o) => "CONFIRMED" \in Reached(o)
         /\ "CONFIRMED" \in Reached(o) => "PENDING" \in Reached(o)
<1>1. \A p : /\ <<p, "PREPARING">> \in TransitionTable(order[o].type) => p = "SENT_TO_KITCHEN"
             /\ <<p, "SENT_TO_KITCHEN">> \in TransitionTable(order[o].type) => p = "CONFIRMED"
             /\ <<p, "CONFIRMED">> \in TransitionTable(order[o].type) => p = "PENDING"
  BY DEF OrderType, TransitionTable, SharedHops, Cancellable, DineInHops, DeliveryHops,
         TakeawayHops
<1> QED
  BY <1>1, ReachedFrom

\* The timeline never shows a step as done that the order's history has no
\* moment for.
THEOREM TimelineAlwaysTruthful == Spec => []TimelineTruthful
<1>1. StatusInv => TimelineTruthful
  <2> SUFFICES ASSUME StatusInv, NEW o \in Orders, NEW step \in TrackingSteps(order[o].type),
                      Placed(o), StepComplete(step, order[o].status)
               PROVE  step \in Reached(o)
    BY DEF TimelineTruthful, Reached
  <2>1. order[o].type \in OrderType
    BY DEF StatusInv, TypeOK, OrderRow
  <2>2. order[o].status \in StatusesOf(order[o].type) /\ order[o].status \in Reached(o)
    BY DEF StatusInv, TrailInv
  <2>3. order[o].status # "CANCELLED" /\ StatusProgress[step] < StatusProgress[order[o].status]
    BY DEF StepComplete
  <2>4. CASE order[o].type = "DINE_IN"
    <3>1. \A p : /\ <<p, "READY">> \in TransitionTable("DINE_IN") => p = "PREPARING"
                 /\ <<p, "SERVED">> \in TransitionTable("DINE_IN") => p = "READY"
                 /\ <<p, "COMPLETED">> \in TransitionTable("DINE_IN") => p = "SERVED"
      BY DEF TransitionTable, SharedHops, Cancellable, DineInHops
    <3>2. /\ "READY" \in Reached(o) => "PREPARING" \in Reached(o)
          /\ "SERVED" \in Reached(o) => "READY" \in Reached(o)
          /\ "COMPLETED" \in Reached(o) => "SERVED" \in Reached(o)
      BY <2>4, <3>1, ReachedFrom
    <3>3. step \in {"PENDING", "SENT_TO_KITCHEN", "PREPARING", "READY", "SERVED"}
      BY <2>4 DEF TrackingSteps
    <3>4. order[o].status \in {"PENDING", "CONFIRMED", "SENT_TO_KITCHEN", "PREPARING",
                               "READY", "SERVED", "COMPLETED"}
      BY <2>2, <2>3, <2>4 DEF StatusesOf, Road, Terminal
    <3> QED
      BY <2>1, <2>2, <2>3, <3>2, <3>3, <3>4, SharedRoad, Ranks
  <2>5. CASE order[o].type = "TAKEAWAY"
    <3>1. \A p : /\ <<p, "READY_FOR_PICKUP">> \in TransitionTable("TAKEAWAY") => p = "PREPARING"
                 /\ <<p, "PICKED_UP">> \in TransitionTable("TAKEAWAY") => p = "READY_FOR_PICKUP"
                 /\ <<p, "COMPLETED">> \in TransitionTable("TAKEAWAY") => p = "PICKED_UP"
      BY DEF TransitionTable, SharedHops, Cancellable, TakeawayHops
    <3>2. /\ "READY_FOR_PICKUP" \in Reached(o) => "PREPARING" \in Reached(o)
          /\ "PICKED_UP" \in Reached(o) => "READY_FOR_PICKUP" \in Reached(o)
          /\ "COMPLETED" \in Reached(o) => "PICKED_UP" \in Reached(o)
      BY <2>5, <3>1, ReachedFrom
    <3>3. step \in {"PENDING", "SENT_TO_KITCHEN", "PREPARING", "READY_FOR_PICKUP", "PICKED_UP"}
      BY <2>5 DEF TrackingSteps
    <3>4. order[o].status \in {"PENDING", "CONFIRMED", "SENT_TO_KITCHEN", "PREPARING",
                               "READY_FOR_PICKUP", "PICKED_UP", "COMPLETED"}
      BY <2>2, <2>3, <2>5 DEF StatusesOf, Road, Terminal
    <3> QED
      BY <2>1, <2>2, <2>3, <3>2, <3>3, <3>4, SharedRoad, Ranks
  <2>6. CASE order[o].type = "DELIVERY"
    <3>1. \A p : /\ <<p, "READY">> \in TransitionTable("DELIVERY") => p = "PREPARING"
                 /\ <<p, "OUT_FOR_DELIVERY">> \in TransitionTable("DELIVERY") => p = "READY"
                 /\ <<p, "DELIVERED">> \in TransitionTable("DELIVERY") => p = "OUT_FOR_DELIVERY"
                 /\ <<p, "COMPLETED">> \in TransitionTable("DELIVERY") => p = "DELIVERED"
      BY DEF TransitionTable, SharedHops, Cancellable, DeliveryHops
    <3>2. /\ "READY" \in Reached(o) => "PREPARING" \in Reached(o)
          /\ "OUT_FOR_DELIVERY" \in Reached(o) => "READY" \in Reached(o)
          /\ "DELIVERED" \in Reached(o) => "OUT_FOR_DELIVERY" \in Reached(o)
          /\ "COMPLETED" \in Reached(o) => "DELIVERED" \in Reached(o)
      BY <2>6, <3>1, ReachedFrom
    <3>3. step \in {"PENDING", "SENT_TO_KITCHEN", "PREPARING", "OUT_FOR_DELIVERY", "DELIVERED"}
      BY <2>6 DEF TrackingSteps
    <3>4. order[o].status \in {"PENDING", "CONFIRMED", "SENT_TO_KITCHEN", "PREPARING",
                               "READY", "OUT_FOR_DELIVERY", "DELIVERED", "COMPLETED"}
      BY <2>2, <2>3, <2>6 DEF StatusesOf, Road, Terminal
    <3> QED
      BY <2>1, <2>2, <2>3, <3>2, <3>3, <3>4, SharedRoad, Ranks
  <2> QED
    BY <2>1, <2>4, <2>5, <2>6 DEF OrderType
<1> QED
  BY InitStatusInv, NextStatusInv, <1>1, PTL DEF Spec

\* An order's status and its timeline are true together.
THEOREM HistoryStaysTrue == Spec => []HistoryIsTrue
<1>1. StatusFitsType /\ TimelineTruthful => HistoryIsTrue
  BY DEF HistoryIsTrue
<1> QED
  BY StatusAlwaysFitsType, TimelineAlwaysTruthful, <1>1, PTL

-----------------------------------------------------------------------------
(* Payments                                                                *)

\* What a step does to one payment: nothing but the customer paying at the
\* gateway, its birth, a verdict of the gateway, or a refund.
LEMMA PaymentMoves ==
  ASSUME TypeOK, [Next]_vars, NEW p \in Payments
  PROVE  \/ /\ payment'[p] = payment[p]
            /\ gateway'[p] = gateway[p] \/ gateway'[p] = "paid"
         \/ /\ payment[p].status = "NONE"
            /\ \E c \in Calls :
                 calls[c].pc = "pay" /\ payment'[p].amount = calls[c].amount
            /\ payment'[p].refunded = 0
            /\ \/ payment'[p].status = "PAID" /\ payment'[p].online = FALSE
               \/ payment'[p].status = "PENDING" /\ payment'[p].online = TRUE
         \/ \E c \in Calls :
              /\ calls[c].pc = "verify" /\ calls[c].payment = p
              /\ \/ payment'[p] = [payment[p] EXCEPT !.status = "FAILED"]
                 \/ /\ payment'[p] = [payment[p] EXCEPT !.status = "PAID"]
                    /\ gateway[p] = "paid"
              /\ gateway'[p] = gateway[p]
         \/ \E c \in Calls :
              /\ calls[c].pc = "refunded" /\ calls[c].payment = p
              /\ payment'[p] = Refunded(p, calls[c].refunded)
              /\ gateway'[p] = gateway[p]
<1> DEFINE Same == /\ payment'[p] = payment[p]
                   /\ gateway'[p] = gateway[p] \/ gateway'[p] = "paid"
<1>0. payment \in [Payments -> PaymentRow] /\ gateway \in [Payments -> {"none", "open", "paid"}]
  BY DEF TypeOK
<1>1. ASSUME NEW c \in Calls,
             Request(c) \/ CommitStatus(c) \/ ReadItems(c) \/ CommitItems(c)
               \/ CommitDetails(c) \/ CreditOrder(c) \/ ReadReceipts(c) \/ Fail(c)
      PROVE  Same
  BY <1>1 DEF Request, BeginStatus, BeginAddItems, BeginDetails, BeginPayment,
              BeginVerify, BeginRefund, CommitStatus, ReadItems, CommitItems,
              CommitDetails, CreditOrder, ReadReceipts, Fail
<1>2. ASSUME NEW c \in Calls, NEW q \in Payments, CommitPayment(c, q)
      PROVE  \/ Same
             \/ /\ payment[p].status = "NONE"
                /\ calls[c].pc = "pay" /\ payment'[p].amount = calls[c].amount
                /\ payment'[p].refunded = 0
                /\ payment'[p].status = "PAID" /\ payment'[p].online = FALSE
  BY <1>0, <1>2 DEF CommitPayment
<1>3. ASSUME NEW c \in Calls, NEW q \in Payments, OpenOnlinePayment(c, q)
      PROVE  \/ Same
             \/ /\ payment[p].status = "NONE"
                /\ calls[c].pc = "pay" /\ payment'[p].amount = calls[c].amount
                /\ payment'[p].refunded = 0
                /\ payment'[p].status = "PENDING" /\ payment'[p].online = TRUE
  BY <1>0, <1>3 DEF OpenOnlinePayment
<1>4. ASSUME NEW c \in Calls, MarkFailed(c) \/ MarkPaid(c)
      PROVE  \/ Same
             \/ /\ calls[c].pc = "verify" /\ calls[c].payment = p
                /\ \/ payment'[p] = [payment[p] EXCEPT !.status = "FAILED"]
                   \/ /\ payment'[p] = [payment[p] EXCEPT !.status = "PAID"]
                      /\ gateway[p] = "paid"
                /\ gateway'[p] = gateway[p]
  BY <1>0, <1>4 DEF MarkFailed, MarkPaid
<1>5. ASSUME NEW c \in Calls, CommitRefund(c)
      PROVE  \/ Same
             \/ /\ calls[c].pc = "refunded" /\ calls[c].payment = p
                /\ payment'[p] = Refunded(p, calls[c].refunded)
                /\ gateway'[p] = gateway[p]
  <2>1. /\ calls[c].pc = "refunded" /\ UNCHANGED gateway
        /\ payment' = [payment EXCEPT ![calls[c].payment] =
                         Refunded(calls[c].payment, calls[c].refunded)]
    BY <1>5 DEF CommitRefund
  <2> QED
    BY <1>0, <2>1
<1>6. ASSUME NEW q \in Payments, PayAtGateway(q) PROVE Same
  BY <1>0, <1>6 DEF PayAtGateway
<1>7. CASE UNCHANGED vars
  BY <1>7 DEF vars
<1> QED
  BY <1>1, <1>2, <1>3, <1>4, <1>5, <1>6, <1>7 DEF Next, Serve, CreateOrder

\* How a request comes to hold a payment it will verify, credit or refund.
LEMMA PaymentRequests ==
  ASSUME TypeOK, [Next]_vars, NEW c \in Calls
  PROVE  \/ calls'[c] = calls[c]
         \/ calls'[c].pc \notin {"verify", "credit", "refund", "refunded"}
         \/ \E p \in Payments :
              /\ UNCHANGED <<payment, gateway>>
              /\ calls'[c].payment = p
              /\ \/ calls'[c].pc = "verify" /\ payment[p].online
                 \/ /\ calls'[c].pc = "refund"
                    /\ payment[p].status = "PAID" /\ ~payment[p].online
                    /\ \E amount \in 1..MaxAmount :
                         /\ amount <= payment[p].amount - payment[p].refunded
                         /\ calls'[c].refunded = payment[p].refunded + amount
         \/ /\ calls[c].pc = "verify" /\ calls'[c].pc = "credit"
            /\ calls'[c].payment = calls[c].payment
            /\ gateway[calls[c].payment] = "paid" /\ UNCHANGED gateway
         \/ /\ calls[c].pc = "refund" /\ calls'[c].pc = "refunded"
            /\ calls'[c].payment = calls[c].payment
            /\ calls'[c].refunded = calls[c].refunded
<1> DEFINE Elsewhere == \/ calls'[c] = calls[c]
                        \/ calls'[c].pc \notin {"verify", "credit", "refund", "refunded"}
<1>0. calls = [d \in Calls |-> calls[d]] /\ Idle.pc = "idle"
  BY DEF TypeOK, Idle
<1>1. ASSUME NEW d \in Calls, Finish(d) PROVE Elsewhere
  BY <1>0, <1>1 DEF Finish
<1>2. ASSUME NEW d \in Calls, NEW request, Begin(d, request), d # c \/
               request.pc \notin {"verify", "credit", "refund", "refunded"}
      PROVE  Elsewhere
  BY <1>0, <1>2 DEF Begin
<1>3. ASSUME NEW d \in Calls, NEW o \in Orders,
             \/ \E to \in OrderStatus : BeginStatus(d, o, to)
             \/ \E price \in Prices : BeginAddItems(d, o, price)
             \/ \E discount \in Discounts \cup {Keep} : BeginDetails(d, o, discount)
             \/ \E amount \in 1..MaxAmount, online \in BOOLEAN :
                  BeginPayment(d, o, amount, online)
      PROVE  Elsewhere
  BY <1>2, <1>3 DEF BeginStatus, BeginAddItems, BeginDetails, BeginPayment
<1>4. ASSUME NEW d \in Calls, NEW p \in Payments, BeginVerify(d, p)
      PROVE  \/ Elsewhere
             \/ /\ UNCHANGED <<payment, gateway>> /\ calls'[c].payment = p
                /\ calls'[c].pc = "verify" /\ payment[p].online
  BY <1>0, <1>4 DEF BeginVerify, Begin
<1>5. ASSUME NEW d \in Calls, NEW p \in Payments, NEW amount \in 1..MaxAmount,
             BeginRefund(d, p, amount)
      PROVE  \/ Elsewhere
             \/ /\ UNCHANGED <<payment, gateway>> /\ calls'[c].payment = p
                /\ calls'[c].pc = "refund"
                /\ payment[p].status = "PAID" /\ ~payment[p].online
                /\ amount <= payment[p].amount - payment[p].refunded
                /\ calls'[c].refunded = payment[p].refunded + amount
  BY <1>0, <1>5 DEF BeginRefund, Begin
<1>6. ASSUME NEW d \in Calls, MarkPaid(d)
      PROVE  \/ Elsewhere
             \/ /\ calls[c].pc = "verify" /\ calls'[c].pc = "credit"
                /\ calls'[c].payment = calls[c].payment
                /\ gateway[calls[c].payment] = "paid" /\ UNCHANGED gateway
  BY <1>0, <1>6 DEF MarkPaid
<1>7. ASSUME NEW d \in Calls, ReadReceipts(d)
      PROVE  \/ Elsewhere
             \/ /\ calls[c].pc = "refund" /\ calls'[c].pc = "refunded"
                /\ calls'[c].payment = calls[c].payment
                /\ calls'[c].refunded = calls[c].refunded
  BY <1>0, <1>7 DEF ReadReceipts
<1>8. ASSUME NEW d \in Calls, ReadItems(d) PROVE Elsewhere
  BY <1>0, <1>8 DEF ReadItems
<1>9. ASSUME NEW d \in Calls, NEW p \in Payments,
             \/ CommitStatus(d) \/ CommitItems(d) \/ CommitDetails(d) \/ CommitPayment(d, p)
             \/ OpenOnlinePayment(d, p) \/ MarkFailed(d) \/ CreditOrder(d)
             \/ CommitRefund(d) \/ Fail(d)
      PROVE  Elsewhere
  BY <1>1, <1>9 DEF CommitStatus, CommitItems, CommitDetails, CommitPayment,
       OpenOnlinePayment, MarkFailed, CreditOrder, CommitRefund, Fail
<1>10. ASSUME NEW d \in Calls,
             \/ CommitStatus(d) \/ CommitItems(d) \/ CommitDetails(d)
             \/ MarkFailed(d) \/ CreditOrder(d) \/ CommitRefund(d) \/ Fail(d)
      PROVE  Elsewhere
  BY <1>1, <1>10 DEF CommitStatus, CommitItems, CommitDetails,
       MarkFailed, CreditOrder, CommitRefund, Fail
<1>11. CASE UNCHANGED calls
  BY <1>11
<1>12. ASSUME NEW d \in Calls, Request(d)
       PROVE  \/ Elsewhere
              \/ \E p \in Payments :
                  /\ UNCHANGED <<payment, gateway>>
                  /\ calls'[c].payment = p
                  /\ \/ calls'[c].pc = "verify" /\ payment[p].online
                     \/ /\ calls'[c].pc = "refund"
                        /\ payment[p].status = "PAID" /\ ~payment[p].online
                        /\ \E amount \in 1..MaxAmount :
                             /\ amount <= payment[p].amount - payment[p].refunded
                             /\ calls'[c].refunded = payment[p].refunded + amount
  BY <1>3, <1>4, <1>5, <1>12 DEF Request
<1> QED
  BY <1>6, <1>7, <1>8, <1>9, <1>10, <1>11, <1>12 DEF Next, Serve, CreateOrder, PayAtGateway, vars

\* The strengthening: a payment row that exists is worth something, an online
\* one is never refunded and only ever PAID for money the gateway has, and a
\* request keeps a grip on the kind of payment it looked up.
PaymentInv ==
  \A p \in Payments :
    /\ payment[p].status = "NONE" => ~payment[p].online /\ payment[p].refunded = 0
    /\ payment[p].status # "NONE" => payment[p].amount > 0
    /\ payment[p].online => payment[p].refunded = 0 /\ payment[p].status # "REFUNDED"
    /\ payment[p].online /\ payment[p].status = "PAID" => gateway[p] = "paid"
    /\ payment[p].refunded <= payment[p].amount
    /\ payment[p].status = "REFUNDED" => payment[p].refunded = payment[p].amount
    /\ payment[p].refunded > 0 /\ payment[p].refunded = payment[p].amount =>
         payment[p].status = "REFUNDED"

GripInv ==
  \A c \in Calls :
    /\ calls[c].pc \in {"verify", "credit"} => payment[calls[c].payment].online
    /\ calls[c].pc = "credit" => gateway[calls[c].payment] = "paid"
    /\ calls[c].pc \in {"refund", "refunded"} =>
         /\ ~payment[calls[c].payment].online
         /\ payment[calls[c].payment].status # "NONE"
         /\ 0 < calls[c].refunded
         /\ calls[c].refunded <= payment[calls[c].payment].amount

MoneyInv == TypeOK /\ PaymentInv /\ GripInv

LEMMA InitMoneyInv == Init => MoneyInv
<1> SUFFICES ASSUME Init PROVE MoneyInv
  OBVIOUS
<1>1. TypeOK
  BY InitTypeOK
<1>2. PaymentInv
  BY DEF Init, PaymentInv, NoPayment
<1>3. GripInv
  BY DEF Init, GripInv, Idle
<1> QED
  BY <1>1, <1>2, <1>3 DEF MoneyInv

\* One payment: every move keeps its row in order, and a row that exists keeps
\* its amount and stays online or not.
LEMMA PaymentKept ==
  ASSUME MoneyInv, [Next]_vars, NEW p \in Payments
  PROVE  /\ payment'[p].status = "NONE" => ~payment'[p].online /\ payment'[p].refunded = 0
         /\ payment'[p].status # "NONE" => payment'[p].amount > 0
         /\ payment'[p].online => payment'[p].refunded = 0 /\ payment'[p].status # "REFUNDED"
         /\ payment'[p].online /\ payment'[p].status = "PAID" => gateway'[p] = "paid"
         /\ payment'[p].refunded <= payment'[p].amount
         /\ payment'[p].status = "REFUNDED" => payment'[p].refunded = payment'[p].amount
         /\ payment'[p].refunded > 0 /\ payment'[p].refunded = payment'[p].amount =>
              payment'[p].status = "REFUNDED"
         /\ payment[p].status # "NONE" =>
              /\ payment'[p].amount = payment[p].amount
              /\ payment'[p].online = payment[p].online
              /\ payment'[p].status # "NONE"
              /\ gateway[p] = "paid" => gateway'[p] = "paid"
<1>0. payment[p] \in PaymentRow
  BY DEF MoneyInv, TypeOK
<1>1. CASE payment'[p] = payment[p] /\ (gateway'[p] = gateway[p] \/ gateway'[p] = "paid")
  BY <1>1 DEF MoneyInv, PaymentInv
<1>2. CASE /\ payment[p].status = "NONE"
           /\ \E c \in Calls :
                calls[c].pc = "pay" /\ payment'[p].amount = calls[c].amount
           /\ payment'[p].refunded = 0
           /\ \/ payment'[p].status = "PAID" /\ payment'[p].online = FALSE
              \/ payment'[p].status = "PENDING" /\ payment'[p].online = TRUE
  <2>1. payment'[p].amount \in Nat \ {0}
    BY <1>2, RequestTypes DEF MoneyInv
  <2> QED
    BY <1>2, <2>1
<1>3. ASSUME NEW c \in Calls, calls[c].pc = "verify", calls[c].payment = p,
             \/ payment'[p] = [payment[p] EXCEPT !.status = "FAILED"]
             \/ /\ payment'[p] = [payment[p] EXCEPT !.status = "PAID"]
                /\ gateway[p] = "paid",
             gateway'[p] = gateway[p]
      PROVE  /\ payment'[p].status \in {"FAILED", "PAID"}
             /\ payment'[p].online /\ payment[p].online
             /\ payment'[p].amount = payment[p].amount /\ payment'[p].refunded = payment[p].refunded
             /\ payment'[p].status = "PAID" => gateway[p] = "paid"
             /\ gateway'[p] = gateway[p]
  BY <1>0, <1>3 DEF MoneyInv, GripInv, PaymentRow
<1>4. ASSUME NEW c \in Calls, calls[c].pc = "refunded", calls[c].payment = p,
             payment'[p] = Refunded(p, calls[c].refunded), gateway'[p] = gateway[p]
      PROVE  /\ payment'[p].status = IF calls[c].refunded >= payment[p].amount
                                     THEN "REFUNDED" ELSE "PAID"
             /\ payment'[p].refunded = calls[c].refunded
             /\ calls[c].refunded \in Nat /\ 0 < calls[c].refunded
             /\ calls[c].refunded <= payment[p].amount
             /\ payment'[p].amount = payment[p].amount
             /\ payment'[p].online = payment[p].online /\ ~payment[p].online
             /\ gateway'[p] = gateway[p]
  <2>1. /\ ~payment[p].online
        /\ 0 < calls[c].refunded /\ calls[c].refunded <= payment[p].amount
    BY <1>4 DEF MoneyInv, GripInv
  <2>2. calls[c].refunded \in Nat
    BY <1>4, RequestTypes DEF MoneyInv
  <2> QED
    BY <1>0, <1>4, <2>1, <2>2 DEF Refunded, PaymentRow
<1>5. CASE \E c \in Calls :
             /\ calls[c].pc = "verify" /\ calls[c].payment = p
             /\ \/ payment'[p] = [payment[p] EXCEPT !.status = "FAILED"]
                \/ /\ payment'[p] = [payment[p] EXCEPT !.status = "PAID"]
                   /\ gateway[p] = "paid"
             /\ gateway'[p] = gateway[p]
  <2>1. /\ payment'[p].status \in {"FAILED", "PAID"}
        /\ payment'[p].online /\ payment[p].online
        /\ payment'[p].amount = payment[p].amount /\ payment'[p].refunded = payment[p].refunded
        /\ payment'[p].status = "PAID" => gateway[p] = "paid"
        /\ gateway'[p] = gateway[p]
    BY <1>3, <1>5
  <2>2. payment[p].status # "NONE" /\ payment[p].refunded = 0 /\ payment[p].amount > 0
    BY <2>1 DEF MoneyInv, PaymentInv
  <2> QED
    BY <1>0, <2>1, <2>2 DEF PaymentRow
<1>6. CASE \E c \in Calls :
             /\ calls[c].pc = "refunded" /\ calls[c].payment = p
             /\ payment'[p] = Refunded(p, calls[c].refunded)
             /\ gateway'[p] = gateway[p]
  <2>1. PICK c \in Calls :
             /\ calls[c].pc = "refunded" /\ calls[c].payment = p
             /\ payment'[p] = Refunded(p, calls[c].refunded)
             /\ gateway'[p] = gateway[p]
    BY <1>6
  <2> QED
    BY <1>0, <1>4, <2>1 DEF PaymentRow
<1> QED
  BY <1>1, <1>2, <1>5, <1>6, PaymentMoves DEF MoneyInv

LEMMA NextMoneyInv == MoneyInv /\ [Next]_vars => MoneyInv'
<1> SUFFICES ASSUME MoneyInv, [Next]_vars PROVE MoneyInv'
  OBVIOUS
<1>1. TypeOK'
  BY NextTypeOK DEF MoneyInv
<1>2. PaymentInv'
  BY PaymentKept DEF PaymentInv
<1>3. ASSUME NEW c \in Calls
      PROVE  /\ calls'[c].pc \in {"verify", "credit"} => payment'[calls'[c].payment].online
             /\ calls'[c].pc = "credit" => gateway'[calls'[c].payment] = "paid"
             /\ calls'[c].pc \in {"refund", "refunded"} =>
                  /\ ~payment'[calls'[c].payment].online
                  /\ payment'[calls'[c].payment].status # "NONE"
                  /\ 0 < calls'[c].refunded
                  /\ calls'[c].refunded <= payment'[calls'[c].payment].amount
  <2> DEFINE p == calls[c].payment
  <2>1. calls[c].pc \in {"verify", "credit"} =>
          p \in Payments /\ payment[p].online /\ payment[p].status # "NONE"
    BY RequestTypes DEF MoneyInv, GripInv, PaymentInv
  <2>2. calls[c].pc \in {"refund", "refunded"} =>
          p \in Payments /\ ~payment[p].online /\ payment[p].status # "NONE"
    BY RequestTypes DEF MoneyInv, GripInv
  <2>3. CASE calls'[c] = calls[c]
    BY <2>1, <2>2, <2>3, PaymentKept DEF MoneyInv, GripInv
  <2>4. CASE calls'[c].pc \notin {"verify", "credit", "refund", "refunded"}
    BY <2>4
  <2>5. CASE \E q \in Payments :
               /\ UNCHANGED <<payment, gateway>>
               /\ calls'[c].payment = q
               /\ \/ calls'[c].pc = "verify" /\ payment[q].online
                  \/ /\ calls'[c].pc = "refund"
                     /\ payment[q].status = "PAID" /\ ~payment[q].online
                     /\ \E amount \in 1..MaxAmount :
                          /\ amount <= payment[q].amount - payment[q].refunded
                          /\ calls'[c].refunded = payment[q].refunded + amount
    <3>1. PICK q \in Payments :
               /\ UNCHANGED <<payment, gateway>>
               /\ calls'[c].payment = q
               /\ \/ calls'[c].pc = "verify" /\ payment[q].online
                  \/ /\ calls'[c].pc = "refund"
                     /\ payment[q].status = "PAID" /\ ~payment[q].online
                     /\ \E amount \in 1..MaxAmount :
                          /\ amount <= payment[q].amount - payment[q].refunded
                          /\ calls'[c].refunded = payment[q].refunded + amount
      BY <2>5
    <3>2. payment[q].amount \in Nat /\ payment[q].refunded \in Nat
      BY DEF MoneyInv, TypeOK, PaymentRow
    <3> QED
      BY <3>1, <3>2, DeskAssumption
  <2>6. CASE /\ calls[c].pc = "verify" /\ calls'[c].pc = "credit"
             /\ calls'[c].payment = calls[c].payment
             /\ gateway[calls[c].payment] = "paid" /\ UNCHANGED gateway
    BY <2>1, <2>6, PaymentKept
  <2>7. CASE /\ calls[c].pc = "refund" /\ calls'[c].pc = "refunded"
             /\ calls'[c].payment = calls[c].payment
             /\ calls'[c].refunded = calls[c].refunded
    BY <2>2, <2>7, PaymentKept DEF MoneyInv, GripInv
  <2> QED
    BY <2>3, <2>4, <2>5, <2>6, <2>7, PaymentRequests DEF MoneyInv
<1> QED
  BY <1>1, <1>2, <1>3 DEF MoneyInv, GripInv

\* However refunds overlap, act on stale amounts or die half way, a payment is
\* never recorded as refunded beyond its amount, and it reads REFUNDED exactly
\* when all of it went back.
THEOREM RefundsAlwaysWithinAmount == Spec => []RefundsWithinAmount
<1>1. MoneyInv => RefundsWithinAmount
  BY DEF MoneyInv, PaymentInv, RefundsWithinAmount
<1> QED
  BY InitMoneyInv, NextMoneyInv, <1>1, PTL DEF Spec

\* No callback, repeated, reordered or abandoned, marks a payment PAID or gets
\* as far as crediting an order without the gateway holding the money.
THEOREM OnlyPaidMoneyIsEverCaptured == Spec => []OnlyPaidMoneyIsCaptured
<1>1. MoneyInv => OnlyPaidMoneyIsCaptured
  BY DEF MoneyInv, PaymentInv, GripInv, OnlyPaidMoneyIsCaptured
<1> QED
  BY InitMoneyInv, NextMoneyInv, <1>1, PTL DEF Spec
=============================================================================
