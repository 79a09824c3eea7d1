------------------------ MODULE OrderDeskSerialProofs ------------------------
(***************************************************************************)
(* Proofs about OrderDesk with its requests served one at a time, for any  *)
(* orders and payments: the bill, the money and the promises of OrderFlow. *)
(* The violations of OrderDesk all need a second request in between.       *)
(***************************************************************************)
EXTENDS OrderDeskProofs, FiniteSetTheorems

\* There is one request in flight at most.
OneRequest == \A c, d \in Calls : c = d

-----------------------------------------------------------------------------
(* Sums over a finite set. The induction theorems of the library take an   *)
(* operator as a parameter; these two take a set in its place.             *)

\* What holds of 0 and passes on to n + 1 holds of every natural number: the
\* numbers it holds up to are, with a largest one, as many as without their
\* least.
LEMMA NatSetInduction ==
  ASSUME NEW T, 0 \in T, \A n \in T \cap Nat : n + 1 \in T, NEW t \in Nat
  PROVE  t \in T
<1> SUFFICES ASSUME t \notin T PROVE FALSE
  OBVIOUS
<1> DEFINE S == {n \in Nat : \A m \in 0..n : m \in T}
           next == [n \in S |-> n + 1]
<1>1. S \in SUBSET Nat /\ \A s \in S : s <= t
  OBVIOUS
<1>2. IsFiniteSet(S)
  BY <1>1, FS_BoundedSetOfNaturals
<1>3. 0 \in S
  OBVIOUS
<1>4. ASSUME NEW n \in S PROVE n + 1 \in S
  <2>1. n + 1 \in Nat /\ n \in T
    OBVIOUS
  <2>2. \A m \in 0..(n + 1) : m \in 0..n \/ m = n + 1
    OBVIOUS
  <2> QED
    BY <2>1, <2>2
<1>5. next \in Injection(S, S)
  <2>1. next \in [S -> S]
    BY <1>4
  <2>2. \A a, b \in S : next[a] = next[b] => a = b
    OBVIOUS
  <2> QED
    BY <2>1, <2>2 DEF Injection, IsInjective
<1>6. next \in Surjection(S, S)
  <2> HIDE DEF next, S
  <2> QED
    BY <1>2, <1>5, FS_Injection
<1>7. PICK n \in S : next[n] = 0
  BY <1>3, <1>6 DEF Surjection
<1> QED
  BY <1>7

\* What holds of the empty set, and of a set once it holds of the set without
\* any one element, holds of every subset of a finite set.
LEMMA SubsetInduction ==
  ASSUME NEW S, IsFiniteSet(S), NEW F, {} \in F,
         \A A \in SUBSET S : A # {} /\ (\A x \in A : A \ {x} \in F) => A \in F
  PROVE  \A A \in SUBSET S : A \in F
<1> DEFINE T == {n \in Nat : \A A \in SUBSET S : Cardinality(A) = n => A \in F}
<1>1. \A A \in SUBSET S : IsFiniteSet(A) /\ Cardinality(A) \in Nat
  BY FS_Subset, FS_CardinalityType
<1>2. 0 \in T
  BY <1>1, FS_EmptySet
<1>3. ASSUME NEW n \in T PROVE n + 1 \in T
  <2> SUFFICES ASSUME NEW A \in SUBSET S, Cardinality(A) = n + 1 PROVE A \in F
    OBVIOUS
  <2>1. A # {}
    BY <1>1, FS_EmptySet
  <2>2. ASSUME NEW x \in A PROVE A \ {x} \in F
    <3>1. Cardinality(A \ {x}) = n
      BY <1>1, FS_RemoveElement
    <3> QED
      BY <3>1
  <2> QED
    BY <2>1, <2>2
<1> HIDE DEF T
<1>4. \A n \in Nat : n \in T
  BY <1>2, <1>3, NatSetInduction
<1> QED
  BY <1>1, <1>4 DEF T

Pick(s) == CHOOSE x \in s : TRUE

LEMMA PickIn == ASSUME NEW s, s # {} PROVE Pick(s) \in s
BY DEF Pick

\* g is the recursive function that a fold of w over S computes.
Adds(g, w, S) ==
  g = [s \in SUBSET S |-> IF s = {} THEN 0 ELSE w[Pick(s)] + g[s \ {Pick(s)}]]

\* Its equation, for the sets of at most n elements.
Solves(g, w, S, n) ==
  \A s \in SUBSET S : Cardinality(s) <= n =>
    g[s] = IF s = {} THEN 0 ELSE w[Pick(s)] + g[s \ {Pick(s)}]

LEMMA SumType ==
  ASSUME NEW S, IsFiniteSet(S), NEW w, \A x \in S : w[x] \in Int, NEW g, Adds(g, w, S)
  PROVE  \A s \in SUBSET S : g[s] \in Int
<1> DEFINE F == {s \in SUBSET S : g[s] \in Int}
<1>1. {} \in F
  BY DEF Adds
<1>2. ASSUME NEW A \in SUBSET S, A # {}, \A x \in A : A \ {x} \in F PROVE A \in F
  <2>1. Pick(A) \in A /\ w[Pick(A)] \in Int
    BY <1>2, PickIn
  <2>2. g[A] = w[Pick(A)] + g[A \ {Pick(A)}]
    BY <1>2 DEF Adds
  <2>3. g[A \ {Pick(A)}] \in Int
    BY <2>1, <1>2
  <2> QED
    BY <2>1, <2>2, <2>3
<1>3. \A A \in SUBSET S : A \in F
  <2> HIDE DEF F
  <2> QED
    BY <1>1, <1>2, SubsetInduction
<1> QED
  BY <1>3

\* Whatever element the fold picks first, any other may be taken out first.
LEMMA SumTake ==
  ASSUME NEW S, IsFiniteSet(S), NEW w, \A x \in S : w[x] \in Int, NEW g, Adds(g, w, S)
  PROVE  \A s \in SUBSET S : \A p \in s : g[s] = w[p] + g[s \ {p}]
<1> DEFINE F == {s \in SUBSET S : \A p \in s : g[s] = w[p] + g[s \ {p}]}
<1>1. {} \in F
  OBVIOUS
<1>2. ASSUME NEW A \in SUBSET S, A # {}, \A x \in A : A \ {x} \in F PROVE A \in F
  <2> DEFINE a == Pick(A)
  <2>1. a \in A
    BY <1>2, PickIn
  <2> HIDE DEF a
  <2>2. g[A] = w[a] + g[A \ {a}]
    BY <1>2 DEF Adds, a
  <2>3. ASSUME NEW p \in A, p # a PROVE g[A] = w[p] + g[A \ {p}]
    <3>1. g[A \ {a}] = w[p] + g[(A \ {a}) \ {p}]
      BY <1>2, <2>1, <2>3
    <3>2. g[A \ {p}] = w[a] + g[(A \ {p}) \ {a}]
      BY <1>2, <2>1, <2>3
    <3>3. g[(A \ {a}) \ {p}] = g[(A \ {p}) \ {a}]
      <4>1. (A \ {a}) \ {p} = (A \ {p}) \ {a}
        OBVIOUS
      <4> QED
        BY <4>1
    <3>4. g[(A \ {p}) \ {a}] \in Int /\ w[a] \in Int /\ w[p] \in Int
      <4>1. (A \ {p}) \ {a} \in SUBSET S
        OBVIOUS
      <4> HIDE DEF F
      <4> QED
        BY <4>1, <2>1, SumType
    <3> HIDE DEF F
    <3> QED
      BY <2>2, <3>1, <3>2, <3>3, <3>4
  <2> QED
    BY <2>2, <2>3
<1>3. \A A \in SUBSET S : A \in F
  <2> HIDE DEF F
  <2> QED
    BY <1>1, <1>2, SubsetInduction
<1> QED
  BY <1>3

\* The fold is well defined: such a function exists.
LEMMA SumExists ==
  ASSUME NEW S, IsFiniteSet(S), NEW w
  PROVE  \E g : Adds(g, w, S)
<1> DEFINE T == {n \in Nat : \E g : Solves(g, w, S, n)}
<1>0. \A A \in SUBSET S : IsFiniteSet(A) /\ Cardinality(A) \in Nat
  BY FS_Subset, FS_CardinalityType
<1>1. 0 \in T
  <2> DEFINE zero == [s \in SUBSET S |-> 0]
  <2>1. \A s \in SUBSET S : Cardinality(s) <= 0 => s = {}
    BY <1>0, FS_EmptySet
  <2>2. Solves(zero, w, S, 0)
    BY <2>1 DEF Solves
  <2> QED
    BY <2>2
<1>2. ASSUME NEW n \in T PROVE n + 1 \in T
  <2>1. PICK g : Solves(g, w, S, n)
    OBVIOUS
  <2> DEFINE h == [s \in SUBSET S |-> IF Cardinality(s) <= n THEN g[s]
                                      ELSE w[Pick(s)] + g[s \ {Pick(s)}]]
  <2>2. ASSUME NEW s \in SUBSET S, Cardinality(s) <= n + 1
        PROVE  h[s] = IF s = {} THEN 0 ELSE w[Pick(s)] + h[s \ {Pick(s)}]
    <3>1. CASE s = {}
      <4>1. Cardinality(s) <= n
        BY <3>1, FS_EmptySet
      <4> QED
        BY <2>1, <3>1, <4>1 DEF Solves
    <3>2. CASE s # {}
      <4> DEFINE r == s \ {Pick(s)}
      <4>1. r \in SUBSET S /\ Cardinality(r) <= n
        BY <1>0, <2>2, <3>2, PickIn, FS_RemoveElement
      <4>2. h[r] = g[r]
        BY <4>1
      <4>3. h[s] = w[Pick(s)] + g[r]
        <5>1. CASE Cardinality(s) <= n
          BY <2>1, <3>2, <5>1 DEF Solves
        <5>2. CASE ~(Cardinality(s) <= n)
          BY <5>2
        <5> QED
          BY <5>1, <5>2
      <4> QED
        BY <3>2, <4>2, <4>3
    <3> QED
      BY <3>1, <3>2
  <2> HIDE DEF h
  <2>3. Solves(h, w, S, n + 1)
    BY <2>2 DEF Solves
  <2> QED
    BY <2>3
<1>3. PICK g : Solves(g, w, S, Cardinality(S))
  <2>1. Cardinality(S) \in T
    <3> HIDE DEF T
    <3> QED
      BY <1>0, <1>1, <1>2, NatSetInduction
  <2> QED
    BY <2>1
<1>4. \A s \in SUBSET S : g[s] = IF s = {} THEN 0 ELSE w[Pick(s)] + g[s \ {Pick(s)}]
  BY <1>3, FS_Subset DEF Solves
<1> DEFINE h == [s \in SUBSET S |-> g[s]]
<1>5. h = [s \in SUBSET S |-> IF s = {} THEN 0 ELSE w[Pick(s)] + h[s \ {Pick(s)}]]
  BY <1>4
<1> QED
  BY <1>5 DEF Adds

\* The functions of two weights agree where the weights do.
LEMMA SumAgrees ==
  ASSUME NEW S, IsFiniteSet(S), NEW R, IsFiniteSet(R), NEW v, NEW w, NEW g, NEW h,
         Adds(g, v, S), Adds(h, w, R), NEW C, C \subseteq S, C \subseteq R,
         \A x \in C : v[x] = w[x]
  PROVE  g[C] = h[C]
<1> DEFINE F == {s \in SUBSET C : g[s] = h[s]}
<1>0. IsFiniteSet(C)
  BY FS_Subset
<1>1. {} \in F
  BY DEF Adds
<1>2. ASSUME NEW A \in SUBSET C, A # {}, \A x \in A : A \ {x} \in F PROVE A \in F
  <2>1. Pick(A) \in A /\ v[Pick(A)] = w[Pick(A)]
    BY <1>2, PickIn
  <2>2. g[A] = v[Pick(A)] + g[A \ {Pick(A)}] /\ h[A] = w[Pick(A)] + h[A \ {Pick(A)}]
    BY <1>2 DEF Adds
  <2>3. g[A \ {Pick(A)}] = h[A \ {Pick(A)}]
    BY <2>1, <1>2
  <2> QED
    BY <2>1, <2>2, <2>3
<1>3. \A A \in SUBSET C : A \in F
  <2> HIDE DEF F
  <2> QED
    BY <1>0, <1>1, <1>2, SubsetInduction
<1> QED
  BY <1>3

-----------------------------------------------------------------------------
(* What the payment rows of an order add up to                             *)

SettledOf(rows, o) == {p \in Payments : rows[p].of = o /\ Settled(rows[p])}
Net(rows) == [p \in Payments |-> rows[p].amount - rows[p].refunded]

\* What payment p adds to the receipts of order o.
Share(rows, p, o) == IF p \in SettledOf(rows, o) THEN Net(rows)[p] ELSE 0

Existing(rows) == {p \in Payments : rows[p].status # "NONE"}

LEMMA ReceiptsIsSum ==
  ASSUME NEW rows, NEW o, IsFiniteSet(SettledOf(rows, o))
  PROVE  \E g : /\ Adds(g, Net(rows), SettledOf(rows, o))
                /\ Receipts(rows, o) = g[SettledOf(rows, o)]
<1> DEFINE S == SettledOf(rows, o)
           Body(g) == [s \in SUBSET S |-> IF s = {} THEN 0
                         ELSE (rows[CHOOSE x \in s : TRUE].amount
                                 - rows[CHOOSE x \in s : TRUE].refunded)
                              + g[s \ {CHOOSE x \in s : TRUE}]]
           fold == CHOOSE g : g = Body(g)
<1>1. Receipts(rows, o) = fold[S]
  BY DEF Receipts, SettledOf, MapThenSumSet, MapThenFoldSet
<1>2. \A s \in SUBSET S : s # {} => Net(rows)[Pick(s)] = rows[Pick(s)].amount - rows[Pick(s)].refunded
  BY PickIn DEF Net, SettledOf
<1>3. PICK g : Adds(g, Net(rows), S)
  BY SumExists
<1>4. g = Body(g)
  <2>1. g = [s \in SUBSET S |-> IF s = {} THEN 0
               ELSE (rows[Pick(s)].amount - rows[Pick(s)].refunded) + g[s \ {Pick(s)}]]
    BY <1>2, <1>3 DEF Adds
  <2> QED
    BY <2>1 DEF Pick
<1>5. fold = Body(fold)
  BY <1>4
<1>6. Adds(fold, Net(rows), S)
  <2> HIDE DEF fold, S
  <2>1. fold = [s \in SUBSET S |-> IF s = {} THEN 0
                  ELSE (rows[Pick(s)].amount - rows[Pick(s)].refunded) + fold[s \ {Pick(s)}]]
    BY <1>5 DEF Pick
  <2> QED
    BY <1>2, <2>1 DEF Adds
<1> QED
  BY <1>1, <1>6

LEMMA NoReceipts ==
  ASSUME NEW rows, NEW o, SettledOf(rows, o) = {}
  PROVE  Receipts(rows, o) = 0
<1>1. PICK g : Adds(g, Net(rows), {}) /\ Receipts(rows, o) = g[{}]
  BY ReceiptsIsSum, FS_EmptySet
<1> QED
  BY <1>1 DEF Adds

\* The receipts are the share of one payment and the rest.
LEMMA ReceiptsOfRest ==
  ASSUME NEW rows \in [Payments -> PaymentRow], NEW o, IsFiniteSet(SettledOf(rows, o)),
         NEW p \in Payments, NEW g, Adds(g, Net(rows), SettledOf(rows, o))
  PROVE  /\ Share(rows, p, o) \in Int
         /\ g[SettledOf(rows, o) \ {p}] \in Int
         /\ g[SettledOf(rows, o)] = Share(rows, p, o) + g[SettledOf(rows, o) \ {p}]
<1> DEFINE S == SettledOf(rows, o)
<1>1. \A x \in Payments : Net(rows)[x] \in Int
  BY DEF Net, PaymentRow
<1>2. S \subseteq Payments
  BY DEF SettledOf
<1>3. Share(rows, p, o) \in Int
  BY <1>1 DEF Share
<1>4. S \ {p} \in SUBSET S /\ S \in SUBSET S
  OBVIOUS
<1>5. \A s \in SUBSET S : g[s] \in Int
  BY <1>1, <1>2, SumType
<1>6. CASE p \in S
  <2>1. g[S] = Net(rows)[p] + g[S \ {p}]
    BY <1>1, <1>2, <1>4, <1>6, SumTake
  <2> QED
    BY <2>1, <1>3, <1>4, <1>5, <1>6 DEF Share
<1>7. CASE p \notin S
  <2>1. S \ {p} = S
    BY <1>7
  <2>2. g[S] \in Int /\ Share(rows, p, o) = 0 /\ g[S] = g[S \ {p}]
    BY <2>1, <1>5, <1>7 DEF Share
  <2> QED
    BY <1>3, <1>5, <1>4, <2>2
<1> QED
  BY <1>6, <1>7

\* A change of one payment moves the receipts by what it moves its share.
LEMMA ReceiptsChange ==
  ASSUME NEW rows \in [Payments -> PaymentRow], NEW next \in [Payments -> PaymentRow],
         NEW o, IsFiniteSet(Existing(rows)), IsFiniteSet(Existing(next)),
         NEW p \in Payments, \A q \in Payments \ {p} : next[q] = rows[q]
  PROVE  /\ Receipts(rows, o) \in Int /\ Share(rows, p, o) \in Int
         /\ Receipts(next, o) \in Int /\ Share(next, p, o) \in Int
         /\ Receipts(next, o) - Share(next, p, o) = Receipts(rows, o) - Share(rows, p, o)
<1> DEFINE S == SettledOf(rows, o)
           R == SettledOf(next, o)
           C == S \ {p}
<1>1. IsFiniteSet(S) /\ IsFiniteSet(R)
  <2>1. S \in SUBSET Existing(rows) /\ R \in SUBSET Existing(next)
    BY DEF SettledOf, Existing, Settled
  <2> QED
    BY <2>1, FS_Subset
<1>2. C = R \ {p} /\ C \subseteq S /\ C \subseteq R
  BY DEF SettledOf
<1>3. \A x \in C : Net(rows)[x] = Net(next)[x]
  BY DEF Net, SettledOf
<1>4. PICK g : Adds(g, Net(rows), S) /\ Receipts(rows, o) = g[S]
  BY <1>1, ReceiptsIsSum
<1>5. PICK h : Adds(h, Net(next), R) /\ Receipts(next, o) = h[R]
  BY <1>1, ReceiptsIsSum
<1>6. g[C] = h[C]
  <2> HIDE DEF S, R, C
  <2> QED
    BY <1>1, <1>2, <1>3, <1>4, <1>5, SumAgrees
<1>7. /\ Share(rows, p, o) \in Int /\ g[C] \in Int
      /\ Receipts(rows, o) = Share(rows, p, o) + g[C]
  BY <1>1, <1>4, ReceiptsOfRest
<1>8. /\ Share(next, p, o) \in Int /\ h[R \ {p}] \in Int
      /\ Receipts(next, o) = Share(next, p, o) + h[R \ {p}]
  BY <1>1, <1>5, ReceiptsOfRest
<1>9. h[R \ {p}] = g[C]
  BY <1>2, <1>6
<1> HIDE DEF S, R, C
<1> QED
  BY <1>7, <1>8, <1>9

-----------------------------------------------------------------------------
(* One request at a time                                                   *)

\* A payment that exists is of an order that was placed.
PaymentsOfOrders ==
  \A p \in Payments : payment[p].status # "NONE" =>
    payment[p].of \in Orders /\ Placed(payment[p].of)

\* What a request has checked or read is still so.
InTime(r) ==
  /\ r.pc \in {"status", "add", "added", "details", "pay"} => Placed(r.order)
  /\ r.pc = "status" =>
       /\ r.from = order[r.order].status
       /\ CanTransition(order[r.order].type, r.from, r.to)
       /\ r.to = "COMPLETED" => order[r.order].payStatus = "PAID"
  /\ r.pc \in {"add", "added", "details"} => order[r.order].payStatus # "PAID"
  /\ r.pc = "added" =>
       /\ r.subtotal = items[r.order] + r.price
       /\ r.discount = order[r.order].discount
  /\ r.pc = "refunded" /\ r.payStatus = "PAID" =>
       r.paid >= order[payment[r.payment].of].total

\* The bill of a row is that of its items, and a row that reads PAID is covered.
Sound(row, sum) ==
  /\ row.subtotal = sum
  /\ row.total = Total(sum, row.discount, row.fee)
  /\ row.payStatus = "PAID" => row.paid >= row.total

SerialInv ==
  /\ MoneyInv
  /\ PaymentsOfOrders
  /\ \A o \in Orders : Sound(order[o], items[o])
  /\ \A c \in Calls : InTime(calls[c])

\* A discount that was capped once is the discount of the same bill.
LEMMA CappedOnce ==
  ASSUME NEW sum \in Nat, NEW d \in Int, NEW fee \in Nat
  PROVE  Total(sum, M!CappedDiscount(sum, d), fee) = Total(sum, d, fee)
<1>1. M!CappedDiscount(sum, M!CappedDiscount(sum, d)) = M!CappedDiscount(sum, d)
  BY DEF M!CappedDiscount, M!Smaller, M!Larger
<1> QED
  BY <1>1 DEF Total, M!OrderTotal

\* The one request moves on.
LEMMA OnlyCall ==
  ASSUME TypeOK, OneRequest, NEW c \in Calls, NEW next,
         calls' = [calls EXCEPT ![c] = next]
  PROVE  \A d \in Calls : calls'[d] = next
BY DEF TypeOK, OneRequest

LEMMA FinishedInTime ==
  ASSUME TypeOK, OneRequest, NEW c \in Calls, Finish(c)
  PROVE  \A d \in Calls : calls'[d] = Idle /\ InTime(calls[d])'
<1>1. \A d \in Calls : calls'[d] = Idle
  BY OnlyCall DEF Finish
<1> QED
  BY <1>1 DEF InTime, Idle

\* A row that is written soundly leaves all rows sound.
LEMMA RowsKept ==
  ASSUME SerialInv, NEW o \in Orders, NEW row, order' = [order EXCEPT ![o] = row],
         \A x \in Orders \ {o} : items'[x] = items[x],
         Sound(row, items'[o]), row.status # NoStatus
  PROVE  /\ \A x \in Orders : Sound(order[x], items[x])'
         /\ \A x \in Orders : Placed(x) => Placed(x)'
<1>1. order'[o] = row /\ \A x \in Orders \ {o} : order'[x] = order[x]
  BY DEF SerialInv, MoneyInv, TypeOK
<1>2. ASSUME NEW x \in Orders PROVE Sound(order[x], items[x])'
  BY <1>1 DEF SerialInv, Sound
<1> QED
  BY <1>1, <1>2 DEF Placed

\* Nothing happened to the orders and the items.
LEMMA RowsStay ==
  ASSUME SerialInv, UNCHANGED <<order, items>>
  PROVE  /\ \A x \in Orders : Sound(order[x], items[x])'
         /\ \A x \in Orders : Placed(x) => Placed(x)'
BY DEF SerialInv, Sound, Placed

\* Payments that exist keep their order, and placed orders stay.
LEMMA PaymentsStay ==
  ASSUME SerialInv, \A x \in Orders : Placed(x) => Placed(x)',
         \A p \in Payments : \/ payment'[p].status # "NONE" =>
                                  payment[p].status # "NONE" /\ payment'[p].of = payment[p].of
                             \/ payment'[p].of \in Orders /\ Placed(payment'[p].of)
  PROVE  PaymentsOfOrders'
<1> SUFFICES ASSUME NEW p \in Payments, payment'[p].status # "NONE"
             PROVE  payment'[p].of \in Orders /\ order'[payment'[p].of].status # NoStatus
  BY DEF PaymentsOfOrders, Placed
<1> QED
  BY DEF SerialInv, PaymentsOfOrders, Placed

\* The payment a request holds is of a placed order.
LEMMA HeldPayment ==
  ASSUME SerialInv, NEW c \in Calls,
         calls[c].pc \in {"verify", "credit", "refund", "refunded"}
  PROVE  /\ calls[c].payment \in Payments
         /\ payment[calls[c].payment].status # "NONE"
         /\ payment[calls[c].payment].of \in Orders
         /\ Placed(payment[calls[c].payment].of)
<1>1. calls[c].payment \in Payments
  BY RequestTypes DEF SerialInv, MoneyInv
<1>2. payment[calls[c].payment].status # "NONE"
  BY <1>1 DEF SerialInv, MoneyInv, GripInv, PaymentInv
<1> QED
  BY <1>1, <1>2 DEF SerialInv, PaymentsOfOrders

LEMMA InitSerialInv == Init => SerialInv
<1> SUFFICES ASSUME Init PROVE SerialInv
  OBVIOUS
<1>1. Total(0, 0, 0) = 0
  <2>1. M!CappedDiscount(0, 0) = 0 /\ M!Larger(0, 0) = 0
    BY DEF M!CappedDiscount, M!Smaller, M!Larger
  <2>2. M!BpsOf(0, ServiceBps) = 0 /\ M!BpsOf(0, TaxBps) = 0
    BY DeskAssumption DEF M!BpsOf
  <2> QED
    BY <2>1, <2>2 DEF Total, Rates, M!OrderTotal
<1>2. \A o \in Orders : Sound(order[o], items[o])
  BY <1>1 DEF Init, Blank, Sound
<1>3. PaymentsOfOrders
  BY DEF Init, PaymentsOfOrders, NoPayment
<1>4. \A c \in Calls : InTime(calls[c])
  BY DEF Init, InTime, Idle
<1> QED
  BY <1>2, <1>3, <1>4, InitMoneyInv DEF SerialInv

\* What a step has to keep of it, the types and the grips aside.
Kept ==
  /\ PaymentsOfOrders'
  /\ \A o \in Orders : Sound(order[o], items[o])'
  /\ \A c \in Calls : InTime(calls[c])'

LEMMA CreateOrderKeeps ==
  ASSUME SerialInv, OneRequest, NEW o \in Orders, NEW type \in Types, NEW price \in Prices,
         NEW discount \in Discounts, NEW fee \in Fees \cup {0}, NEW auto \in BOOLEAN,
         CreateOrder(o, type, price, discount, fee, auto)
  PROVE  Kept
<1> DEFINE row == [type |-> type,
                   status |-> IF auto THEN "SENT_TO_KITCHEN" ELSE "PENDING",
                   subtotal |-> price, fee |-> fee,
                   discount |-> M!CappedDiscount(price, discount),
                   total |-> Total(price, discount, fee),
                   paid |-> 0,
                   payStatus |-> "PENDING"]
<1>1. order' = [order EXCEPT ![o] = row]
  BY DEF CreateOrder
<1>2. items'[o] = price /\ \A x \in Orders \ {o} : items'[x] = items[x]
  BY DEF CreateOrder, SerialInv, MoneyInv, TypeOK
<1>3. Sound(row, items'[o]) /\ row.status # NoStatus
  <2>1. price \in Nat /\ discount \in Int /\ fee \in Nat
    BY DeskAssumption
  <2> QED
    BY <1>2, <2>1, CappedOnce DEF Sound, NoStatus
<1> HIDE DEF row
<1>4. /\ \A x \in Orders : Sound(order[x], items[x])'
      /\ \A x \in Orders : Placed(x) => Placed(x)'
  BY <1>1, <1>2, <1>3, RowsKept
<1>5. PaymentsOfOrders'
  BY <1>4, PaymentsStay DEF CreateOrder
<1>6. ASSUME NEW x \in Orders, Placed(x) PROVE order'[x] = order[x] /\ items'[x] = items[x]
  BY <1>1, <1>2, <1>6 DEF CreateOrder, SerialInv, MoneyInv, TypeOK
<1>7. ASSUME NEW c \in Calls PROVE InTime(calls[c])'
  <2>1. calls'[c] = calls[c] /\ payment' = payment
    BY DEF CreateOrder
  <2>2. calls[c].pc \in {"status", "add", "added", "details", "pay"} =>
          /\ order'[calls[c].order] = order[calls[c].order]
          /\ items'[calls[c].order] = items[calls[c].order]
    BY <1>6, RequestTypes DEF SerialInv, MoneyInv, InTime
  <2>3. calls[c].pc = "refunded" =>
          order'[payment[calls[c].payment].of] = order[payment[calls[c].payment].of]
    BY <1>6, HeldPayment
  <2>4. InTime(calls[c])
    BY DEF SerialInv
  <2> QED
    BY <2>1, <2>2, <2>3, <2>4 DEF InTime, Placed, Outstanding
<1> QED
  BY <1>4, <1>5, <1>7 DEF Kept

LEMMA RequestKeeps ==
  ASSUME SerialInv, OneRequest, NEW c \in Calls, Request(c)
  PROVE  Kept
<1>1. UNCHANGED <<order, items, trail, payment, gateway>>
  BY DEF Request, BeginStatus, BeginAddItems, BeginDetails, BeginPayment, BeginVerify, BeginRefund
<1>2. /\ \A x \in Orders : Sound(order[x], items[x])'
      /\ \A x \in Orders : Placed(x) => Placed(x)'
  BY <1>1, RowsStay
<1>3. PaymentsOfOrders'
  BY <1>1, <1>2, PaymentsStay
<1>begun. ASSUME NEW request, Begin(c, request)
          PROVE  \A d \in Calls : calls'[d] = request
  BY <1>begun, OnlyCall DEF Begin, SerialInv, MoneyInv
<1>4. ASSUME NEW d \in Calls PROVE InTime(calls[d])'
  <2>1. ASSUME NEW o \in Orders, NEW to \in OrderStatus, BeginStatus(c, o, to)
        PROVE  InTime(calls[d])'
    <3>1. calls'[d] = [pc |-> "status", order |-> o, from |-> order[o].status, to |-> to]
      BY <2>1, <1>begun DEF BeginStatus
    <3> QED
      BY <1>1, <2>1, <3>1 DEF BeginStatus, InTime, Placed
  <2>2. ASSUME NEW o \in Orders, NEW price \in Prices, BeginAddItems(c, o, price)
        PROVE  InTime(calls[d])'
    <3>1. calls'[d] = [pc |-> "add", order |-> o, price |-> price]
      BY <2>2, <1>begun DEF BeginAddItems
    <3>2. order[o].status # NoStatus
      BY <2>2 DEF BeginAddItems, ActiveStatus, NoStatus
    <3> QED
      BY <1>1, <2>2, <3>1, <3>2 DEF BeginAddItems, InTime, Placed
  <2>3. ASSUME NEW o \in Orders, NEW discount \in Discounts \cup {Keep},
               BeginDetails(c, o, discount)
        PROVE  InTime(calls[d])'
    <3>1. calls'[d] = [pc |-> "details", order |-> o, discount |-> discount]
      BY <2>3, <1>begun DEF BeginDetails
    <3> QED
      BY <1>1, <2>3, <3>1 DEF BeginDetails, InTime, Placed
  <2>4. ASSUME NEW o \in Orders, NEW amount \in 1..MaxAmount, NEW online \in BOOLEAN,
               BeginPayment(c, o, amount, online)
        PROVE  InTime(calls[d])'
    <3>1. calls'[d] = [pc |-> "pay", order |-> o, amount |-> amount, online |-> online]
      BY <2>4, <1>begun DEF BeginPayment
    <3> QED
      BY <1>1, <2>4, <3>1 DEF BeginPayment, InTime, Placed, Outstanding
  <2>5. ASSUME NEW p \in Payments, BeginVerify(c, p) PROVE InTime(calls[d])'
    <3>1. calls'[d] = [pc |-> "verify", payment |-> p]
      BY <2>5, <1>begun DEF BeginVerify
    <3> QED
      BY <3>1 DEF InTime
  <2>6. ASSUME NEW p \in Payments, NEW amount \in 1..MaxAmount, BeginRefund(c, p, amount)
        PROVE  InTime(calls[d])'
    <3>1. calls'[d] = [pc |-> "refund", payment |-> p, refunded |-> payment[p].refunded + amount]
      BY <2>6, <1>begun DEF BeginRefund
    <3> QED
      BY <3>1 DEF InTime
  <2> QED
    BY <2>1, <2>2, <2>3, <2>4, <2>5, <2>6 DEF Request
<1> QED
  BY <1>2, <1>3, <1>4 DEF Kept

LEMMA CommitStatusKeeps ==
  ASSUME SerialInv, OneRequest, NEW c \in Calls, CommitStatus(c)
  PROVE  Kept
<1> DEFINE o == calls[c].order
           row == [order[o] EXCEPT !.status = calls[c].to]
<1>1. o \in Orders /\ calls[c].to \in OrderStatus
  BY RequestTypes DEF CommitStatus, SerialInv, MoneyInv
<1>2. order' = [order EXCEPT ![o] = row] /\ items' = items
  BY DEF CommitStatus
<1>3. Sound(row, items'[o]) /\ row.status # NoStatus
  BY <1>1, <1>2 DEF SerialInv, MoneyInv, TypeOK, OrderRow, Sound, OrderStatus, ActiveStatus,
                    Terminal, NoStatus
<1> HIDE DEF row
<1>4. /\ \A x \in Orders : Sound(order[x], items[x])'
      /\ \A x \in Orders : Placed(x) => Placed(x)'
  BY <1>1, <1>2, <1>3, RowsKept
<1>5. PaymentsOfOrders'
  BY <1>4, PaymentsStay DEF CommitStatus
<1>6. \A d \in Calls : InTime(calls[d])'
  BY FinishedInTime DEF CommitStatus, SerialInv, MoneyInv
<1> QED
  BY <1>4, <1>5, <1>6 DEF Kept

LEMMA ReadItemsKeeps ==
  ASSUME SerialInv, OneRequest, NEW c \in Calls, ReadItems(c)
  PROVE  Kept
<1> DEFINE o == calls[c].order
           next == [pc |-> "added", order |-> o, price |-> calls[c].price,
                    subtotal |-> items[o] + calls[c].price, discount |-> order[o].discount]
<1>1. UNCHANGED <<order, items, payment>> /\ calls[c].pc = "add"
  BY DEF ReadItems
<1>2. /\ \A x \in Orders : Sound(order[x], items[x])'
      /\ \A x \in Orders : Placed(x) => Placed(x)'
  BY <1>1, RowsStay
<1>3. PaymentsOfOrders'
  BY <1>1, <1>2, PaymentsStay
<1>4. \A d \in Calls : calls'[d] = next
  BY OnlyCall DEF ReadItems, SerialInv, MoneyInv
<1>5. Placed(o) /\ order[o].payStatus # "PAID"
  BY <1>1 DEF SerialInv, InTime
<1>6. \A d \in Calls : InTime(calls[d])'
  BY <1>1, <1>4, <1>5 DEF InTime, Placed
<1> QED
  BY <1>2, <1>3, <1>6 DEF Kept

LEMMA CommitItemsKeeps ==
  ASSUME SerialInv, OneRequest, NEW c \in Calls, CommitItems(c)
  PROVE  Kept
<1> DEFINE o == calls[c].order
           row == [order[o] EXCEPT
                     !.subtotal = calls[c].subtotal,
                     !.discount = M!CappedDiscount(calls[c].subtotal, calls[c].discount),
                     !.total = Total(calls[c].subtotal, calls[c].discount, order[o].fee)]
<1>1. /\ o \in Orders /\ calls[c].subtotal \in Nat /\ calls[c].discount \in Int
      /\ calls[c].pc = "added"
  BY RequestTypes DEF CommitItems, SerialInv, MoneyInv
<1>2. order' = [order EXCEPT ![o] = row]
  BY DEF CommitItems
<1>3. items'[o] = calls[c].subtotal /\ \A x \in Orders \ {o} : items'[x] = items[x]
  BY <1>1 DEF CommitItems, SerialInv, MoneyInv, TypeOK, InTime
<1>4. Sound(row, items'[o]) /\ row.status # NoStatus
  <2>1. order[o].payStatus # "PAID" /\ order[o].status # NoStatus
    BY <1>1 DEF SerialInv, InTime, Placed
  <2>2. order[o] \in OrderRow(order[o].paid)
    BY <1>1 DEF SerialInv, MoneyInv, TypeOK
  <2> QED
    BY <1>1, <1>3, <2>1, <2>2, CappedOnce DEF Sound, OrderRow
<1> HIDE DEF row
<1>5. /\ \A x \in Orders : Sound(order[x], items[x])'
      /\ \A x \in Orders : Placed(x) => Placed(x)'
  BY <1>1, <1>2, <1>3, <1>4, RowsKept
<1>6. PaymentsOfOrders'
  BY <1>5, PaymentsStay DEF CommitItems
<1>7. \A d \in Calls : InTime(calls[d])'
  BY FinishedInTime DEF CommitItems, SerialInv, MoneyInv
<1> QED
  BY <1>5, <1>6, <1>7 DEF Kept

LEMMA CommitDetailsKeeps ==
  ASSUME SerialInv, OneRequest, NEW c \in Calls, CommitDetails(c)
  PROVE  Kept
<1> DEFINE o == calls[c].order
           discount == IF calls[c].discount = Keep THEN order[o].discount
                       ELSE calls[c].discount
           row == [order[o] EXCEPT
                     !.subtotal = items[o],
                     !.discount = M!CappedDiscount(items[o], discount),
                     !.total = Total(items[o], discount, order[o].fee)]
<1>1. o \in Orders /\ calls[c].discount \in Discounts \cup {Keep} /\ calls[c].pc = "details"
  BY RequestTypes DEF CommitDetails, SerialInv, MoneyInv
<1>2. items[o] \in Nat /\ discount \in Int /\ order[o] \in OrderRow(order[o].paid)
  BY <1>1, DeskAssumption DEF SerialInv, MoneyInv, TypeOK, OrderRow, Keep
<1>3. order' = [order EXCEPT ![o] = row] /\ items' = items
  BY DEF CommitDetails
<1> HIDE DEF discount
<1>4. Sound(row, items'[o]) /\ row.status # NoStatus
  <2>1. order[o].payStatus # "PAID" /\ order[o].status # NoStatus
    BY <1>1 DEF SerialInv, InTime, Placed
  <2> QED
    BY <1>2, <1>3, <2>1, CappedOnce DEF Sound, OrderRow
<1> HIDE DEF row
<1>5. /\ \A x \in Orders : Sound(order[x], items[x])'
      /\ \A x \in Orders : Placed(x) => Placed(x)'
  BY <1>1, <1>3, <1>4, RowsKept
<1>6. PaymentsOfOrders'
  BY <1>5, PaymentsStay DEF CommitDetails
<1>7. \A d \in Calls : InTime(calls[d])'
  BY FinishedInTime DEF CommitDetails, SerialInv, MoneyInv
<1> QED
  BY <1>5, <1>6, <1>7 DEF Kept

\* Crediting a row keeps it sound: it reads PAID when it is covered.
LEMMA CreditedIsSound ==
  ASSUME NEW row, row \in OrderRow(row.paid), NEW amount, NEW sum, Sound(row, sum)
  PROVE  /\ Sound(Credit(row, amount), sum)
         /\ Credit(row, amount).status = row.status
BY DEF Credit, OrderRow, Sound

LEMMA CommitPaymentKeeps ==
  ASSUME SerialInv, OneRequest, NEW c \in Calls, NEW p \in Payments, CommitPayment(c, p)
  PROVE  Kept
<1> DEFINE o == calls[c].order
           row == Credit(order[o], calls[c].amount)
<1>1. o \in Orders /\ Placed(o)
  BY RequestTypes DEF CommitPayment, SerialInv, MoneyInv, InTime
<1>2. order' = [order EXCEPT ![o] = row] /\ items' = items
  BY DEF CommitPayment
<1>3. Sound(row, items'[o]) /\ row.status # NoStatus
  BY <1>1, <1>2, CreditedIsSound DEF SerialInv, MoneyInv, TypeOK, Placed
<1> HIDE DEF row
<1>4. /\ \A x \in Orders : Sound(order[x], items[x])'
      /\ \A x \in Orders : Placed(x) => Placed(x)'
  BY <1>1, <1>2, <1>3, RowsKept
<1>5. PaymentsOfOrders'
  <2>1. payment'[p].of = o /\ \A q \in Payments \ {p} : payment'[q] = payment[q]
    BY DEF CommitPayment, SerialInv, MoneyInv, TypeOK
  <2> QED
    BY <1>1, <1>4, <2>1, PaymentsStay
<1>6. \A d \in Calls : InTime(calls[d])'
  BY FinishedInTime DEF CommitPayment, SerialInv, MoneyInv
<1> QED
  BY <1>4, <1>5, <1>6 DEF Kept

LEMMA OpenOnlinePaymentKeeps ==
  ASSUME SerialInv, OneRequest, NEW c \in Calls, NEW p \in Payments, OpenOnlinePayment(c, p)
  PROVE  Kept
<1>1. calls[c].order \in Orders /\ Placed(calls[c].order)
  BY RequestTypes DEF OpenOnlinePayment, SerialInv, MoneyInv, InTime
<1>2. /\ \A x \in Orders : Sound(order[x], items[x])'
      /\ \A x \in Orders : Placed(x) => Placed(x)'
  BY RowsStay DEF OpenOnlinePayment
<1>3. PaymentsOfOrders'
  <2>1. payment'[p].of = calls[c].order /\ \A q \in Payments \ {p} : payment'[q] = payment[q]
    BY DEF OpenOnlinePayment, SerialInv, MoneyInv, TypeOK
  <2> QED
    BY <1>1, <1>2, <2>1, PaymentsStay
<1>4. \A d \in Calls : InTime(calls[d])'
  BY FinishedInTime DEF OpenOnlinePayment, SerialInv, MoneyInv
<1> QED
  BY <1>2, <1>3, <1>4 DEF Kept

\* The gateway's answer changes the status of the payment alone.
LEMMA VerdictKeeps ==
  ASSUME SerialInv, OneRequest, NEW c \in Calls, MarkFailed(c) \/ MarkPaid(c)
  PROVE  Kept
<1>1. /\ \A x \in Orders : Sound(order[x], items[x])'
      /\ \A x \in Orders : Placed(x) => Placed(x)'
  BY RowsStay DEF MarkFailed, MarkPaid
<1>2. PaymentsOfOrders'
  <2> DEFINE p == calls[c].payment
  <2>1. /\ p \in Payments /\ payment[p].status # "NONE"
        /\ payment[p] \in PaymentRow
    BY HeldPayment DEF MarkFailed, MarkPaid, SerialInv, MoneyInv, TypeOK
  <2>2. payment'[p].of = payment[p].of /\ \A q \in Payments \ {p} : payment'[q] = payment[q]
    BY <2>1 DEF MarkFailed, MarkPaid, SerialInv, MoneyInv, TypeOK, PaymentRow
  <2> QED
    BY <1>1, <2>1, <2>2, PaymentsStay
<1>3. ASSUME NEW d \in Calls PROVE InTime(calls[d])'
  <2>1. CASE MarkFailed(c)
    BY <2>1, FinishedInTime DEF MarkFailed, SerialInv, MoneyInv
  <2>2. CASE MarkPaid(c)
    <3> DEFINE next == [pc |-> "credit", payment |-> calls[c].payment]
    <3>1. calls' = [calls EXCEPT ![c] = next]
      BY <2>2 DEF MarkPaid
    <3> HIDE DEF next
    <3>2. calls'[d] = next
      BY <3>1, OnlyCall DEF SerialInv, MoneyInv
    <3> QED
      BY <3>2 DEF InTime, next
  <2> QED
    BY <2>1, <2>2
<1> QED
  BY <1>1, <1>2, <1>3 DEF Kept

LEMMA CreditOrderKeeps ==
  ASSUME SerialInv, OneRequest, NEW c \in Calls, CreditOrder(c)
  PROVE  Kept
<1> DEFINE o == payment[calls[c].payment].of
           row == Credit(order[o], payment[calls[c].payment].amount)
<1>1. o \in Orders /\ Placed(o)
  BY HeldPayment DEF CreditOrder
<1>2. order' = [order EXCEPT ![o] = row] /\ items' = items
  BY DEF CreditOrder
<1>3. Sound(row, items'[o]) /\ row.status # NoStatus
  BY <1>1, <1>2, CreditedIsSound DEF SerialInv, MoneyInv, TypeOK, Placed
<1> HIDE DEF row
<1>4. /\ \A x \in Orders : Sound(order[x], items[x])'
      /\ \A x \in Orders : Placed(x) => Placed(x)'
  BY <1>1, <1>2, <1>3, RowsKept
<1>5. PaymentsOfOrders'
  BY <1>4, PaymentsStay DEF CreditOrder
<1>6. \A d \in Calls : InTime(calls[d])'
  BY FinishedInTime DEF CreditOrder, SerialInv, MoneyInv
<1> QED
  BY <1>4, <1>5, <1>6 DEF Kept

LEMMA ReadReceiptsKeeps ==
  ASSUME SerialInv, OneRequest, NEW c \in Calls, ReadReceipts(c)
  PROVE  Kept
<1> DEFINE p == calls[c].payment
           o == payment[p].of
           rows == [payment EXCEPT ![p] = Refunded(p, calls[c].refunded)]
           paid == Receipts(rows, o)
           status == RefundStatus(rows, o, paid, order[o].total)
           next == [pc |-> "refunded", payment |-> p, refunded |-> calls[c].refunded,
                    paid |-> paid, payStatus |-> status]
<1>1. UNCHANGED <<order, items, payment>>
  BY DEF ReadReceipts
<1>2. calls' = [calls EXCEPT ![c] = next]
  BY DEF ReadReceipts
<1>3. status = "PAID" => paid >= order[o].total
  BY DEF RefundStatus
<1> HIDE DEF paid, status
<1>4. /\ \A x \in Orders : Sound(order[x], items[x])'
      /\ \A x \in Orders : Placed(x) => Placed(x)'
  BY <1>1, RowsStay
<1>5. PaymentsOfOrders'
  BY <1>1, <1>4, PaymentsStay
<1>6. \A d \in Calls : calls'[d] = next
  BY <1>2, OnlyCall DEF SerialInv, MoneyInv
<1>7. \A d \in Calls : InTime(calls[d])'
  BY <1>1, <1>3, <1>6 DEF InTime
<1> QED
  BY <1>4, <1>5, <1>7 DEF Kept

LEMMA CommitRefundKeeps ==
  ASSUME SerialInv, OneRequest, NEW c \in Calls, CommitRefund(c)
  PROVE  Kept
<1> DEFINE p == calls[c].payment
           o == payment[p].of
           row == [order[o] EXCEPT !.paid = calls[c].paid, !.payStatus = calls[c].payStatus]
<1>1. /\ p \in Payments /\ payment[p].status # "NONE" /\ calls[c].pc = "refunded"
      /\ o \in Orders /\ Placed(o)
  BY HeldPayment DEF CommitRefund
<1>2. order' = [order EXCEPT ![o] = row] /\ items' = items
  BY DEF CommitRefund
<1>3. Sound(row, items'[o]) /\ row.status # NoStatus
  <2>1. calls[c].payStatus = "PAID" => calls[c].paid >= order[o].total
    BY <1>1 DEF SerialInv, InTime
  <2>2. order[o] \in OrderRow(order[o].paid) /\ Sound(order[o], items[o])
    BY <1>1 DEF SerialInv, MoneyInv, TypeOK
  <2> QED
    BY <1>1, <1>2, <2>1, <2>2 DEF OrderRow, Sound, Placed
<1> HIDE DEF row
<1>4. /\ \A x \in Orders : Sound(order[x], items[x])'
      /\ \A x \in Orders : Placed(x) => Placed(x)'
  BY <1>1, <1>2, <1>3, RowsKept
<1>5. PaymentsOfOrders'
  <2>1. payment[p] \in PaymentRow
    BY <1>1 DEF SerialInv, MoneyInv, TypeOK
  <2>2. payment' = [payment EXCEPT ![p] = Refunded(p, calls[c].refunded)]
    BY DEF CommitRefund
  <2>3. Refunded(p, calls[c].refunded).of = o
    BY <2>1 DEF Refunded, PaymentRow
  <2>4. payment'[p].of = o /\ \A q \in Payments \ {p} : payment'[q] = payment[q]
    BY <1>1, <2>2, <2>3 DEF SerialInv, MoneyInv, TypeOK
  <2> QED
    BY <1>1, <1>4, <2>4, PaymentsStay
<1>6. \A d \in Calls : InTime(calls[d])'
  BY FinishedInTime DEF CommitRefund, SerialInv, MoneyInv
<1> QED
  BY <1>4, <1>5, <1>6 DEF Kept

\* A request that dies, the customer at the gateway, and nothing at all.
LEMMA QuietKeeps ==
  ASSUME SerialInv, OneRequest,
         \/ \E c \in Calls : Fail(c)
         \/ \E p \in Payments : PayAtGateway(p)
         \/ UNCHANGED vars
  PROVE  Kept
<1>1. UNCHANGED <<order, items, payment>>
  BY DEF Fail, PayAtGateway, vars
<1>2. /\ \A x \in Orders : Sound(order[x], items[x])'
      /\ \A x \in Orders : Placed(x) => Placed(x)'
  BY <1>1, RowsStay
<1>3. PaymentsOfOrders'
  BY <1>1, <1>2, PaymentsStay
<1>4. ASSUME NEW d \in Calls PROVE InTime(calls[d])'
  <2>1. CASE \E c \in Calls : Fail(c)
    BY <2>1, FinishedInTime DEF Fail, SerialInv, MoneyInv
  <2>2. CASE calls' = calls
    BY <1>1, <2>2 DEF SerialInv, InTime, Placed, Outstanding
  <2> QED
    BY <2>1, <2>2 DEF PayAtGateway, vars
<1> QED
  BY <1>2, <1>3, <1>4 DEF Kept

LEMMA NextSerialInv == OneRequest /\ SerialInv /\ [Next]_vars => SerialInv'
<1> SUFFICES ASSUME OneRequest, SerialInv, [Next]_vars PROVE SerialInv'
  OBVIOUS
<1>1. MoneyInv'
  BY NextMoneyInv DEF SerialInv
<1>2. Kept
  BY CreateOrderKeeps, RequestKeeps, CommitStatusKeeps, ReadItemsKeeps, CommitItemsKeeps,
     CommitDetailsKeeps, CommitPaymentKeeps, OpenOnlinePaymentKeeps, VerdictKeeps,
     CreditOrderKeeps, ReadReceiptsKeeps, CommitRefundKeeps, QuietKeeps DEF Next, Serve
<1> QED
  BY <1>1, <1>2 DEF SerialInv, Kept

LEMMA SerialHolds == OneRequest => (Spec => []SerialInv)
<1> SUFFICES ASSUME OneRequest PROVE Spec => []SerialInv
  OBVIOUS
<1>1. SerialInv /\ [Next]_vars => SerialInv'
  BY NextSerialInv
<1> QED
  BY <1>1, InitSerialInv, PTL DEF Spec

\* The bill stays the bill of the items, though requests may die between any
\* two of their steps: a round that was not committed is not on the bill.
THEOREM BillStaysTrue == OneRequest => (Spec => []BillMatchesItems)
<1>1. SerialInv => BillMatchesItems
  BY DEF SerialInv, Sound, BillMatchesItems
<1> QED
  BY <1>1, SerialHolds, PTL

\* An order that reads PAID stays paid in full: no round and no discount is
\* added behind the payment that settled it.
THEOREM PaidStaysCovered == OneRequest => (Spec => []PaidMeansCovered)
<1>1. SerialInv => PaidMeansCovered
  BY DEF SerialInv, Sound, PaidMeansCovered
<1> QED
  BY <1>1, SerialHolds, PTL

-----------------------------------------------------------------------------
(* The desk implements OrderFlow                                           *)

\* The abstract specification speaks of the same statuses.
LEMMA SameFlow ==
  /\ Flow!OrderType = OrderType
  /\ Flow!PayStatus = PayStatus
  /\ Flow!NoStatus = NoStatus
  /\ \A type \in OrderType : \A from, to :
       CanTransition(type, from, to) => Flow!CanTransition(type, from, to)
<1>1. Flow!OrderType = OrderType /\ Flow!PayStatus = PayStatus /\ Flow!NoStatus = NoStatus
  BY DEF Flow!OrderType, OrderType, Flow!PayStatus, PayStatus, Flow!NoStatus, NoStatus
<1>2. ASSUME NEW type \in OrderType
      PROVE  TransitionTable(type) = Flow!TransitionTable(type)
  BY DEF OrderType, TransitionTable, Flow!TransitionTable, SharedHops, Flow!SharedHops,
         Cancellable, Flow!Cancellable, DineInHops, Flow!DineInHops, DeliveryHops,
         Flow!DeliveryHops, TakeawayHops, Flow!TakeawayHops
<1> QED
  BY <1>1, <1>2 DEF CanTransition, Flow!CanTransition

\* A write of one row touches no other order.
LEMMA OneRow ==
  ASSUME TypeOK, NEW o \in Orders, NEW row, order' = [order EXCEPT ![o] = row]
  PROVE  Flow!Only(o) /\ order'[o] = row
<1>1. order'[o] = row /\ \A x \in Orders \ {o} : order'[x] = order[x]
  BY DEF TypeOK
<1> QED
  BY <1>1 DEF Flow!Only

\* The kinds of steps that are the same for several requests: an order that moves
\* on, money that comes or goes, and a bill that changes.
LEMMA AdvanceStep ==
  ASSUME TypeOK, NEW o \in Orders, NEW row, order' = [order EXCEPT ![o] = row],
         CanTransition(order[o].type, order[o].status, row.status),
         row.status = "COMPLETED" => order[o].payStatus = "PAID",
         row.type = order[o].type, row.payStatus = order[o].payStatus,
         row.total = order[o].total
  PROVE  Flow!Next
<1>1. Flow!Only(o) /\ order'[o] = row
  BY OneRow
<1>2. order[o].type \in OrderType /\ order[o].status \in OrderStatus \cup {NoStatus}
  BY DEF TypeOK, OrderRow
<1>3. Flow!CanTransition(order[o].type, order[o].status, row.status)
  BY <1>2, SameFlow
<1>4. Flow!Advance(o)
  BY <1>1, <1>3 DEF Flow!Advance
<1> QED
  BY <1>4 DEF Flow!Next

LEMMA SettleStep ==
  ASSUME TypeOK, NEW o \in Orders, Placed(o), NEW row, order' = [order EXCEPT ![o] = row],
         row.payStatus \in PayStatus, row.type = order[o].type,
         row.status = order[o].status, row.total = order[o].total
  PROVE  Flow!Next
<1>1. Flow!Only(o) /\ order'[o] = row
  BY OneRow
<1>2. Flow!Settle(o)
  BY <1>1, SameFlow DEF Flow!Settle, Placed
<1> QED
  BY <1>2 DEF Flow!Next

LEMMA AmendStep ==
  ASSUME TypeOK, NEW o \in Orders, Placed(o), order[o].payStatus # "PAID",
         NEW row, order' = [order EXCEPT ![o] = row],
         row.total \in Nat, row.type = order[o].type,
         row.status = order[o].status, row.payStatus = order[o].payStatus
  PROVE  Flow!Next
<1>1. Flow!Only(o) /\ order'[o] = row
  BY OneRow
<1>2. Flow!Amend(o)
  BY <1>1, SameFlow DEF Flow!Amend, Placed
<1> QED
  BY <1>2 DEF Flow!Next

LEMMA FlowStep ==
  ASSUME SerialInv, OneRequest, [Next]_vars
  PROVE  [Flow!Next]_(Flow!vars)
<1>0. TypeOK /\ TypeOK'
  BY NextTypeOK DEF SerialInv, MoneyInv
<1>rows. \A o \in Orders : order[o] \in OrderRow(order[o].paid)
  BY <1>0 DEF TypeOK
<1>1. ASSUME NEW o \in Orders, NEW type \in Types, NEW price \in Prices,
             NEW discount \in Discounts, NEW fee \in Fees \cup {0}, NEW auto \in BOOLEAN,
             CreateOrder(o, type, price, discount, fee, auto)
      PROVE  Flow!Next
  <2> DEFINE row == [type |-> type,
                     status |-> IF auto THEN "SENT_TO_KITCHEN" ELSE "PENDING",
                     subtotal |-> price, fee |-> fee,
                     discount |-> M!CappedDiscount(price, discount),
                     total |-> Total(price, discount, fee),
                     paid |-> 0,
                     payStatus |-> "PENDING"]
  <2>1. order' = [order EXCEPT ![o] = row] /\ ~Placed(o)
    BY <1>1 DEF CreateOrder
  <2>2. Flow!Only(o) /\ order'[o] = row
    <3> HIDE DEF row
    <3> QED
      BY <1>0, <2>1, OneRow
  <2>3. type \in OrderType /\ Total(price, discount, fee) \in Nat
    <3>1. price \in Nat /\ discount \in Int /\ fee \in Nat
      BY DeskAssumption
    <3> QED
      BY <3>1, BillIsNat, DeskAssumption
  <2>4. Flow!Place(o)
    BY <2>1, <2>2, <2>3, SameFlow DEF Flow!Place, Placed
  <2> QED
    BY <2>4 DEF Flow!Next
<1>2. ASSUME NEW c \in Calls, CommitStatus(c) PROVE Flow!Next
  <2> DEFINE o == calls[c].order
             row == [order[o] EXCEPT !.status = calls[c].to]
  <2>1. o \in Orders /\ calls[c].pc = "status"
    BY <1>0, <1>2, RequestTypes DEF CommitStatus
  <2>2. order' = [order EXCEPT ![o] = row]
    BY <1>2 DEF CommitStatus
  <2>3. /\ row.status = calls[c].to /\ row.type = order[o].type
        /\ row.payStatus = order[o].payStatus /\ row.total = order[o].total
    BY <2>1, <1>rows DEF OrderRow
  <2>4. /\ CanTransition(order[o].type, order[o].status, row.status)
        /\ row.status = "COMPLETED" => order[o].payStatus = "PAID"
    BY <2>1, <2>3 DEF SerialInv, InTime
  <2> HIDE DEF row, o
  <2> QED
    BY <1>0, <2>1, <2>2, <2>3, <2>4, AdvanceStep
<1>3. ASSUME NEW c \in Calls, CommitItems(c) PROVE Flow!Next
  <2> DEFINE o == calls[c].order
             row == [order[o] EXCEPT
                       !.subtotal = calls[c].subtotal,
                       !.discount = M!CappedDiscount(calls[c].subtotal, calls[c].discount),
                       !.total = Total(calls[c].subtotal, calls[c].discount, order[o].fee)]
  <2>0. /\ o \in Orders /\ calls[c].pc = "added"
        /\ calls[c].subtotal \in Nat /\ calls[c].discount \in Int
    BY <1>0, <1>3, RequestTypes DEF CommitItems
  <2>fee. order[o].fee \in Nat
    BY <2>0, <1>rows DEF OrderRow
  <2>1. o \in Orders /\ calls[c].pc = "added" /\ Total(calls[c].subtotal, calls[c].discount, order[o].fee) \in Nat
    BY <2>0, <2>fee, BillIsNat
  <2>2. order' = [order EXCEPT ![o] = row]
    BY <1>3 DEF CommitItems
  <2>3. /\ row.status = order[o].status /\ row.type = order[o].type
        /\ row.payStatus = order[o].payStatus /\ row.total \in Nat
    BY <2>1, <1>rows DEF OrderRow
  <2>4. Placed(o) /\ order[o].payStatus # "PAID"
    BY <2>1 DEF SerialInv, InTime
  <2> HIDE DEF row, o
  <2> QED
    BY <1>0, <2>1, <2>2, <2>3, <2>4, AmendStep
<1>4. ASSUME NEW c \in Calls, CommitDetails(c) PROVE Flow!Next
  <2> DEFINE o == calls[c].order
             discount == IF calls[c].discount = Keep THEN order[o].discount
                         ELSE calls[c].discount
             row == [order[o] EXCEPT
                       !.subtotal = items[o],
                       !.discount = M!CappedDiscount(items[o], discount),
                       !.total = Total(items[o], discount, order[o].fee)]
  <2>1. o \in Orders /\ calls[c].discount \in Discounts \cup {Keep} /\ calls[c].pc = "details"
    BY <1>0, <1>4, RequestTypes DEF CommitDetails
  <2>2. items[o] \in Nat /\ discount \in Int
    BY <1>0, <1>rows, <2>1, DeskAssumption DEF TypeOK, OrderRow, Keep
  <2>3. order' = [order EXCEPT ![o] = row]
    BY <1>4 DEF CommitDetails
  <2> HIDE DEF discount
  <2>fee. order[o].fee \in Nat
    BY <2>1, <1>rows DEF OrderRow
  <2>4. Total(items[o], discount, order[o].fee) \in Nat
    BY <2>2, <2>fee, BillIsNat
  <2>5. /\ row.status = order[o].status /\ row.type = order[o].type
        /\ row.payStatus = order[o].payStatus /\ row.total \in Nat
    BY <2>1, <2>4, <1>rows DEF OrderRow
  <2>6. Placed(o) /\ order[o].payStatus # "PAID"
    BY <2>1 DEF SerialInv, InTime
  <2> HIDE DEF row, o
  <2> QED
    BY <1>0, <2>1, <2>3, <2>5, <2>6, AmendStep
<1>credit. ASSUME NEW o \in Orders, Placed(o), NEW amount,
                  order' = [order EXCEPT ![o] = Credit(order[o], amount)]
           PROVE  Flow!Next
  <2> DEFINE row == Credit(order[o], amount)
  <2>1. /\ row.status = order[o].status /\ row.type = order[o].type
        /\ row.payStatus \in PayStatus /\ row.total = order[o].total
    BY <1>rows DEF OrderRow, Credit, PayStatus
  <2> HIDE DEF row
  <2> QED
    BY <1>0, <1>credit, <2>1, SettleStep DEF row
<1>5. ASSUME NEW c \in Calls, NEW p \in Payments, CommitPayment(c, p) PROVE Flow!Next
  <2>1. calls[c].order \in Orders /\ Placed(calls[c].order)
    BY <1>0, <1>5, RequestTypes DEF CommitPayment, SerialInv, InTime
  <2> QED
    BY <1>5, <1>credit, <2>1 DEF CommitPayment
<1>6. ASSUME NEW c \in Calls, CreditOrder(c) PROVE Flow!Next
  <2>1. payment[calls[c].payment].of \in Orders /\ Placed(payment[calls[c].payment].of)
    BY <1>6, HeldPayment DEF CreditOrder
  <2> QED
    BY <1>6, <1>credit, <2>1 DEF CreditOrder
<1>7. ASSUME NEW c \in Calls, CommitRefund(c) PROVE Flow!Next
  <2> DEFINE o == payment[calls[c].payment].of
             row == [order[o] EXCEPT !.paid = calls[c].paid, !.payStatus = calls[c].payStatus]
  <2>1. o \in Orders /\ Placed(o)
    BY <1>7, HeldPayment DEF CommitRefund
  <2>2. order' = [order EXCEPT ![o] = row]
    BY <1>7 DEF CommitRefund
  <2>3. calls[c].payStatus \in PayStatus
    BY <1>0, <1>7, RequestTypes DEF CommitRefund
  <2>4. /\ row.status = order[o].status /\ row.type = order[o].type
        /\ row.payStatus \in PayStatus /\ row.total = order[o].total
    BY <2>1, <2>3, <1>rows DEF OrderRow
  <2> HIDE DEF row, o
  <2> QED
    BY <1>0, <2>1, <2>2, <2>4, SettleStep
<1>8. ASSUME UNCHANGED order PROVE UNCHANGED Flow!vars
  BY <1>8 DEF Flow!vars
<1>9. ASSUME NEW c \in Calls, Request(c) PROVE UNCHANGED order
  BY <1>9 DEF Request, BeginStatus, BeginAddItems, BeginDetails, BeginPayment,
              BeginVerify, BeginRefund
<1>10. ASSUME NEW c \in Calls, NEW p \in Payments,
              \/ ReadItems(c) \/ OpenOnlinePayment(c, p) \/ MarkFailed(c) \/ MarkPaid(c)
              \/ ReadReceipts(c) \/ Fail(c) \/ PayAtGateway(p)
       PROVE  UNCHANGED order
  BY <1>10 DEF ReadItems, OpenOnlinePayment, MarkFailed, MarkPaid, ReadReceipts, Fail,
               PayAtGateway
<1>11. ASSUME NEW c \in Calls,
              ReadItems(c) \/ MarkFailed(c) \/ MarkPaid(c) \/ ReadReceipts(c) \/ Fail(c)
       PROVE  UNCHANGED order
  BY <1>11 DEF ReadItems, MarkFailed, MarkPaid, ReadReceipts, Fail
<1>12. ASSUME NEW p \in Payments, PayAtGateway(p) PROVE UNCHANGED order
  BY <1>12 DEF PayAtGateway
<1>13. CASE UNCHANGED vars
  BY <1>13, <1>8 DEF vars
<1> QED
  BY <1>1, <1>2, <1>3, <1>4, <1>5, <1>6, <1>7, <1>8, <1>9, <1>10, <1>11, <1>12, <1>13
     DEF Next, Serve

\* One request at a time, the desk implements OrderFlow: every change of status
\* is a legal hop of the order's own type from the status before it, COMPLETED
\* waits for the money, terminal is final and the bill of a settled order is
\* closed.
THEOREM DeskImplementsFlow == OneRequest => (Spec => FlowSpec)
<1> SUFFICES ASSUME OneRequest PROVE Spec => FlowSpec
  OBVIOUS
<1>1. Init => Flow!Init
  <2> SUFFICES ASSUME Init PROVE Flow!Init
    OBVIOUS
  <2>1. \A o \in Orders : order[o] = Blank
    BY DEF Init
  <2>2. "DINE_IN" \in Flow!OrderType
    BY DEF Flow!OrderType
  <2> QED
    BY <2>1, <2>2, SameFlow DEF Flow!Init, Blank
<1>2. SerialInv /\ [Next]_vars => [Flow!Next]_(Flow!vars)
  BY FlowStep
<1>3. Spec => Flow!Init /\ [][Flow!Next]_(Flow!vars)
  BY <1>1, <1>2, SerialHolds, PTL DEF Spec
<1> QED
  BY <1>3 DEF FlowSpec, Flow!Spec

-----------------------------------------------------------------------------
(* The books: what an order says was paid, and its payment rows            *)

\* The credit of an order is on its way: its payment reads PAID already.
Awaited(c, o) == calls[c].pc = "credit" /\ payment[calls[c].payment].of = o

\* An order's paidTotal is short of its receipts by the credit on its way.
Booked ==
  \A o \in Orders :
    /\ (\A c \in Calls : ~Awaited(c, o)) => order[o].paid = Receipts(payment, o)
    /\ \A c \in Calls : Awaited(c, o) =>
         order[o].paid = Receipts(payment, o) - payment[calls[c].payment].amount

\* What a request knows of the receipts: a verdict is awaited for a payment
\* that is not settled, and a refund has read the receipts it leaves behind.
Tallied(r) ==
  /\ r.pc = "verify" => payment[r.payment].status # "PAID"
  /\ r.pc = "refunded" =>
       r.paid = Receipts([payment EXCEPT ![r.payment] = Refunded(r.payment, r.refunded)],
                         payment[r.payment].of)

LedgerInv ==
  /\ SerialInv
  /\ IsFiniteSet(Existing(payment))
  /\ Booked
  /\ \A c \in Calls : Tallied(calls[c])

\* The part of it that is not SerialInv, after a step.
Balanced ==
  /\ IsFiniteSet(Existing(payment))'
  /\ Booked'
  /\ \A c \in Calls : Tallied(calls[c])'

LEMMA ReceiptsType ==
  ASSUME NEW rows \in [Payments -> PaymentRow], IsFiniteSet(Existing(rows)), NEW o
  PROVE  Receipts(rows, o) \in Int
<1> DEFINE S == SettledOf(rows, o)
<1>1. S \in SUBSET Existing(rows) /\ S \subseteq Payments
  BY DEF SettledOf, Existing, Settled
<1>2. IsFiniteSet(S)
  BY <1>1, FS_Subset
<1>3. \A x \in S : Net(rows)[x] \in Int
  BY <1>1 DEF Net, PaymentRow
<1>4. PICK g : Adds(g, Net(rows), S) /\ Receipts(rows, o) = g[S]
  BY <1>2, ReceiptsIsSum
<1>5. \A s \in SUBSET S : g[s] \in Int
  <2> HIDE DEF S
  <2> QED
    BY <1>2, <1>3, <1>4, SumType
<1> QED
  BY <1>4, <1>5

\* What a payment row is worth to an order.
Worth(row, o) ==
  IF row.of = o /\ Settled(row) THEN row.amount - row.refunded ELSE 0

\* What the write of one payment row does to the receipts of every order.
LEMMA ReceiptsStep ==
  ASSUME LedgerInv, NEW p \in Payments, NEW row \in PaymentRow,
         payment' = [payment EXCEPT ![p] = row]
  PROVE  /\ IsFiniteSet(Existing(payment))'
         /\ \A o \in Orders :
              /\ Receipts(payment, o) \in Int /\ order[o].paid \in Int
              /\ Receipts(payment', o) =
                   Receipts(payment, o) - Worth(payment[p], o) + Worth(row, o)
<1>1. payment \in [Payments -> PaymentRow] /\ payment' \in [Payments -> PaymentRow]
  BY DEF LedgerInv, SerialInv, MoneyInv, TypeOK
<1>2. payment'[p] = row /\ \A q \in Payments \ {p} : payment'[q] = payment[q]
  BY <1>1
<1>3. IsFiniteSet(Existing(payment'))
  <2>1. Existing(payment') \in SUBSET (Existing(payment) \cup {p})
    BY <1>2 DEF Existing
  <2>2. IsFiniteSet(Existing(payment) \cup {p})
    BY FS_AddElement DEF LedgerInv
  <2> QED
    BY <2>1, <2>2, FS_Subset
<1>4. ASSUME NEW o \in Orders
      PROVE  /\ Receipts(payment, o) \in Int /\ order[o].paid \in Int
             /\ Receipts(payment', o) =
                  Receipts(payment, o) - Worth(payment[p], o) + Worth(row, o)
  <2>1. Receipts(payment, o) \in Int
    BY <1>1, ReceiptsType DEF LedgerInv
  <2>2. order[o].paid \in Int
    <3>1. \A c \in Calls : Awaited(c, o) => payment[calls[c].payment].amount \in Int
      BY <1>1, RequestTypes DEF Awaited, PaymentRow, LedgerInv, SerialInv, MoneyInv
    <3> QED
      BY <2>1, <3>1 DEF LedgerInv, Booked
  <2>3. /\ Receipts(payment', o) \in Int
        /\ Share(payment, p, o) \in Int /\ Share(payment', p, o) \in Int
        /\ Receipts(payment', o) - Share(payment', p, o)
             = Receipts(payment, o) - Share(payment, p, o)
    <3>1. IsFiniteSet(Existing(payment))
      BY DEF LedgerInv
    <3> DEFINE next == payment'
    <3>2. /\ next \in [Payments -> PaymentRow] /\ IsFiniteSet(Existing(next))
          /\ \A q \in Payments \ {p} : next[q] = payment[q]
      BY <1>1, <1>2, <1>3
    <3> HIDE DEF next
    <3>3. /\ Receipts(next, o) \in Int
          /\ Share(payment, p, o) \in Int /\ Share(next, p, o) \in Int
          /\ Receipts(next, o) - Share(next, p, o) = Receipts(payment, o) - Share(payment, p, o)
      BY <1>1, <3>1, <3>2, ReceiptsChange
    <3> QED
      BY <3>3 DEF next
  <2>4. Share(payment, p, o) = Worth(payment[p], o) /\ Share(payment', p, o) = Worth(row, o)
    BY <1>2 DEF Share, SettledOf, Net, Worth
  <2> QED
    BY <2>1, <2>2, <2>3, <2>4
<1> QED
  BY <1>3, <1>4

\* No credit is on its way or goes on its way, and no payment and no paidTotal
\* is written.
LEMMA BooksStay ==
  ASSUME LedgerInv, payment' = payment, \A o \in Orders : order'[o].paid = order[o].paid,
         \A c \in Calls : \/ calls'[c] = calls[c]
                          \/ calls[c].pc # "credit" /\ calls'[c].pc # "credit"
  PROVE  IsFiniteSet(Existing(payment))' /\ Booked'
<1>1. \A c \in Calls, o \in Orders : Awaited(c, o)' <=> Awaited(c, o)
  BY DEF Awaited
<1>2. \A c \in Calls, o \in Orders : Awaited(c, o) => calls'[c] = calls[c]
  BY DEF Awaited
<1> QED
  BY <1>1, <1>2 DEF LedgerInv, Booked

\* An order that was not placed has neither receipts nor a paidTotal.
LEMMA NothingPaidYet ==
  ASSUME LedgerInv, NEW o \in Orders, ~Placed(o)
  PROVE  order[o].paid = 0
<1>1. SettledOf(payment, o) = {}
  BY DEF LedgerInv, SerialInv, PaymentsOfOrders, SettledOf, Settled
<1>2. Receipts(payment, o) = 0
  BY <1>1, NoReceipts
<1>3. \A c \in Calls : ~Awaited(c, o)
  BY HeldPayment DEF Awaited, LedgerInv
<1> QED
  BY <1>2, <1>3 DEF LedgerInv, Booked

\* A request that has finished knows and awaits nothing.
LEMMA FinishedTallied ==
  ASSUME LedgerInv, OneRequest, NEW c \in Calls, Finish(c)
  PROVE  \A d \in Calls : /\ calls'[d] = Idle /\ Tallied(calls[d])'
                          /\ \A o \in Orders : ~Awaited(d, o)'
<1>1. \A d \in Calls : calls'[d] = Idle
  BY OnlyCall DEF Finish, LedgerInv, SerialInv, MoneyInv
<1> QED
  BY <1>1 DEF Tallied, Awaited, Idle

LEMMA InitLedgerInv == Init => LedgerInv
<1> SUFFICES ASSUME Init PROVE LedgerInv
  OBVIOUS
<1>1. Existing(payment) = {}
  BY DEF Init, Existing, NoPayment
<1>2. \A o \in Orders : SettledOf(payment, o) = {}
  BY <1>1 DEF Existing, SettledOf, Settled
<1>3. \A o \in Orders : Receipts(payment, o) = 0
  BY <1>2, NoReceipts
<1>4. \A o \in Orders : order[o].paid = 0
  BY DEF Init, Blank
<1>5. \A c \in Calls : calls[c].pc = "idle"
  BY DEF Init, Idle
<1>6. IsFiniteSet(Existing(payment))
  BY <1>1, FS_EmptySet
<1> QED
  BY <1>3, <1>4, <1>5, <1>6, InitSerialInv DEF LedgerInv, Booked, Awaited, Tallied

\* Requests that arrive, and the steps that write no payment and no paidTotal.
LEMMA DeskBalanced ==
  ASSUME LedgerInv, OneRequest,
         \/ \E o \in Orders, type \in Types, price \in Prices,
               discount \in Discounts, fee \in Fees \cup {0}, autoAdvance \in BOOLEAN :
              CreateOrder(o, type, price, discount, fee, autoAdvance)
         \/ \E p \in Payments : PayAtGateway(p)
         \/ UNCHANGED vars
  PROVE  Balanced
<1>1. payment' = payment /\ calls' = calls
  BY DEF CreateOrder, PayAtGateway, vars
<1>2. \A o \in Orders : order'[o].paid = order[o].paid
  <2>1. ASSUME NEW o \in Orders, NEW type \in Types, NEW price \in Prices,
               NEW discount \in Discounts, NEW fee \in Fees \cup {0}, NEW auto \in BOOLEAN,
               CreateOrder(o, type, price, discount, fee, auto), NEW x \in Orders
        PROVE  order'[x].paid = order[x].paid
    <3>1. ~Placed(o) /\ order'[o].paid = 0 /\ \A y \in Orders \ {o} : order'[y] = order[y]
      BY <2>1 DEF CreateOrder, LedgerInv, SerialInv, MoneyInv, TypeOK
    <3> QED
      BY <3>1, NothingPaidYet
  <2> QED
    BY <2>1 DEF PayAtGateway, vars
<1>3. \A c \in Calls : Tallied(calls[c])'
  BY <1>1 DEF LedgerInv, Tallied, Refunded
<1> QED
  BY <1>1, <1>2, <1>3, BooksStay DEF Balanced

LEMMA RequestBalanced ==
  ASSUME LedgerInv, OneRequest, NEW c \in Calls, Request(c)
  PROVE  Balanced
<1>1. UNCHANGED <<order, payment>>
  BY DEF Request, BeginStatus, BeginAddItems, BeginDetails, BeginPayment, BeginVerify, BeginRefund
<1>2. PICK request :
        /\ Begin(c, request)
        /\ request.pc \notin {"credit", "refunded"}
        /\ request.pc = "verify" => payment[request.payment].status # "PAID"
  <2> DEFINE Fits(r) == /\ r.pc \notin {"credit", "refunded"}
                        /\ r.pc = "verify" => payment[r.payment].status # "PAID"
  <2>1. ASSUME NEW o \in Orders, NEW to \in OrderStatus, BeginStatus(c, o, to)
        PROVE  \E r : Begin(c, r) /\ Fits(r)
    BY <2>1 DEF BeginStatus
  <2>2. ASSUME NEW o \in Orders, NEW price \in Prices, BeginAddItems(c, o, price)
        PROVE  \E r : Begin(c, r) /\ Fits(r)
    BY <2>2 DEF BeginAddItems
  <2>3. ASSUME NEW o \in Orders, NEW discount \in Discounts \cup {Keep},
               BeginDetails(c, o, discount)
        PROVE  \E r : Begin(c, r) /\ Fits(r)
    BY <2>3 DEF BeginDetails
  <2>4. ASSUME NEW o \in Orders, NEW amount \in 1..MaxAmount, NEW online \in BOOLEAN,
               BeginPayment(c, o, amount, online)
        PROVE  \E r : Begin(c, r) /\ Fits(r)
    BY <2>4 DEF BeginPayment
  <2>5. ASSUME NEW p \in Payments, BeginVerify(c, p) PROVE \E r : Begin(c, r) /\ Fits(r)
    BY <2>5 DEF BeginVerify
  <2>6. ASSUME NEW p \in Payments, NEW amount \in 1..MaxAmount, BeginRefund(c, p, amount)
        PROVE  \E r : Begin(c, r) /\ Fits(r)
    BY <2>6 DEF BeginRefund
  <2> HIDE DEF Fits
  <2>7. \E r : Begin(c, r) /\ Fits(r)
    BY <2>1, <2>2, <2>3, <2>4, <2>5, <2>6 DEF Request
  <2> QED
    BY <2>7 DEF Fits
<1>3. \A d \in Calls : calls'[d] = request
  BY <1>2, OnlyCall DEF Begin, LedgerInv, SerialInv, MoneyInv
<1>4. \A d \in Calls : calls[d].pc # "credit"
  BY <1>2 DEF Begin, IsIdle, OneRequest
<1>5. \A d \in Calls : Tallied(calls[d])'
  BY <1>1, <1>2, <1>3 DEF Tallied
<1> QED
  BY <1>1, <1>2, <1>3, <1>4, <1>5, BooksStay DEF Balanced

LEMMA BillBalanced ==
  ASSUME LedgerInv, OneRequest, NEW c \in Calls,
         CommitStatus(c) \/ ReadItems(c) \/ CommitItems(c) \/ CommitDetails(c)
  PROVE  Balanced
<1>0. \A o \in Orders : order[o] \in OrderRow(order[o].paid)
  BY DEF LedgerInv, SerialInv, MoneyInv, TypeOK
<1>1. payment' = payment /\ \A d \in Calls : calls[d].pc # "credit"
  BY DEF CommitStatus, ReadItems, CommitItems, CommitDetails, OneRequest
<1>2. \A o \in Orders : order'[o].paid = order[o].paid
  <2>0. order = [o \in Orders |-> order[o]]
    BY DEF LedgerInv, SerialInv, MoneyInv, TypeOK
  <2>1. CASE CommitStatus(c)
    BY <1>0, <2>0, <2>1 DEF CommitStatus, OrderRow
  <2>2. CASE CommitItems(c)
    BY <1>0, <2>0, <2>2 DEF CommitItems, OrderRow
  <2>3. CASE CommitDetails(c)
    BY <1>0, <2>0, <2>3 DEF CommitDetails, OrderRow
  <2> QED
    BY <2>1, <2>2, <2>3 DEF ReadItems
<1>3. \A d \in Calls : calls'[d].pc \in {"idle", "added"}
  <2>1. CASE Finish(c)
    BY <2>1, FinishedTallied DEF Idle
  <2>2. CASE ReadItems(c)
    <3>1. \A d \in Calls :
            calls'[d] = [pc |-> "added", order |-> calls[c].order, price |-> calls[c].price,
                         subtotal |-> items[calls[c].order] + calls[c].price,
                         discount |-> order[calls[c].order].discount]
      BY <2>2, OnlyCall DEF ReadItems, LedgerInv, SerialInv, MoneyInv
    <3> QED
      BY <3>1
  <2> QED
    BY <2>1, <2>2 DEF CommitStatus, CommitItems, CommitDetails
<1>4. \A d \in Calls : Tallied(calls[d])'
  BY <1>3 DEF Tallied
<1> QED
  BY <1>1, <1>2, <1>3, <1>4, BooksStay DEF Balanced

\* Cash and card: the row that is born settled, and the order it credits.
LEMMA CommitPaymentBalanced ==
  ASSUME LedgerInv, OneRequest, NEW c \in Calls, NEW p \in Payments, CommitPayment(c, p)
  PROVE  Balanced
<1> DEFINE o == calls[c].order
           row == [status |-> "PAID", of |-> o, amount |-> calls[c].amount,
                   refunded |-> 0, online |-> FALSE]
<1>1. o \in Orders /\ calls[c].amount \in Nat /\ calls[c].pc = "pay"
  BY RequestTypes DEF CommitPayment, LedgerInv, SerialInv, MoneyInv
<1>2. payment' = [payment EXCEPT ![p] = row] /\ ~Settled(payment[p])
  BY DEF CommitPayment, Settled
<1>3. /\ row \in PaymentRow
      /\ \A x : /\ Worth(payment[p], x) = 0
               /\ Worth(row, x) = IF x = o THEN calls[c].amount ELSE 0
  BY <1>1, <1>2 DEF PaymentRow, Settled, Worth
<1>4. /\ order'[o].paid = order[o].paid + calls[c].amount
      /\ \A x \in Orders \ {o} : order'[x] = order[x]
  <2>1. order[o] \in OrderRow(order[o].paid) /\ order = [x \in Orders |-> order[x]]
    BY <1>1 DEF LedgerInv, SerialInv, MoneyInv, TypeOK
  <2> QED
    BY <1>1, <2>1 DEF CommitPayment, Credit, OrderRow
<1> HIDE DEF row, o
<1>5. \A x \in Orders :
        /\ Receipts(payment, x) \in Int /\ order[x].paid \in Int
        /\ Receipts(payment', x) = Receipts(payment, x) + IF x = o THEN calls[c].amount ELSE 0
  <2>1. \A x \in Orders :
          /\ Receipts(payment, x) \in Int /\ order[x].paid \in Int
          /\ Receipts(payment', x) =
               Receipts(payment, x) - Worth(payment[p], x) + Worth(row, x)
    BY <1>2, <1>3, ReceiptsStep
  <2> QED
    BY <1>1, <1>3, <2>1
<1>6. \A x \in Orders : order[x].paid = Receipts(payment, x)
  BY <1>1 DEF LedgerInv, Booked, Awaited, OneRequest
<1>7. \A x \in Orders : order'[x].paid = Receipts(payment', x)
  BY <1>1, <1>4, <1>5, <1>6
<1>8. Finish(c)
  BY DEF CommitPayment
<1>9. IsFiniteSet(Existing(payment))'
  BY <1>2, <1>3, ReceiptsStep
<1> QED
  BY <1>7, <1>8, <1>9, FinishedTallied DEF Balanced, Booked

\* A payment that is opened, or that the gateway refused, is not settled.
LEMMA UnsettledBalanced ==
  ASSUME LedgerInv, OneRequest, NEW c \in Calls,
         (\E p \in Payments : OpenOnlinePayment(c, p)) \/ MarkFailed(c)
  PROVE  Balanced
<1>0. payment \in [Payments -> PaymentRow]
  BY DEF LedgerInv, SerialInv, MoneyInv, TypeOK
<1>1. PICK p \in Payments, row \in PaymentRow :
        /\ payment' = [payment EXCEPT ![p] = row]
        /\ ~Settled(payment[p]) /\ ~Settled(row)
  <2>1. ASSUME NEW p \in Payments, OpenOnlinePayment(c, p)
        PROVE  \E row \in PaymentRow :
                 /\ payment' = [payment EXCEPT ![p] = row]
                 /\ ~Settled(payment[p]) /\ ~Settled(row)
    <3> DEFINE row == [status |-> "PENDING", of |-> calls[c].order,
                       amount |-> calls[c].amount, refunded |-> 0, online |-> TRUE]
    <3>1. calls[c].order \in Orders /\ calls[c].amount \in Nat
      BY <2>1, RequestTypes DEF OpenOnlinePayment, LedgerInv, SerialInv, MoneyInv
    <3>2. row \in PaymentRow /\ ~Settled(row)
      BY <3>1 DEF PaymentRow, Settled
    <3>3. payment' = [payment EXCEPT ![p] = row] /\ ~Settled(payment[p])
      BY <2>1 DEF OpenOnlinePayment, Settled
    <3> HIDE DEF row
    <3> QED
      BY <3>2, <3>3
  <2>2. ASSUME MarkFailed(c)
        PROVE  \E row \in PaymentRow :
                 /\ payment' = [payment EXCEPT ![calls[c].payment] = row]
                 /\ calls[c].payment \in Payments
                 /\ ~Settled(payment[calls[c].payment]) /\ ~Settled(row)
    <3> DEFINE p == calls[c].payment
               row == [payment[p] EXCEPT !.status = "FAILED"]
    <3>1. calls[c].pc = "verify" /\ payment' = [payment EXCEPT ![p] = row]
      BY <2>2 DEF MarkFailed
    <3>2. p \in Payments
      BY <3>1, HeldPayment DEF LedgerInv
    <3>3. payment[p].status # "PAID" /\ payment[p].status # "REFUNDED"
      BY <3>1, <3>2 DEF LedgerInv, SerialInv, MoneyInv, Tallied, PaymentInv, GripInv
    <3>4. row \in PaymentRow /\ ~Settled(row)
      BY <1>0, <3>2 DEF PaymentRow, Settled
    <3> HIDE DEF row
    <3> QED
      BY <3>1, <3>2, <3>3, <3>4 DEF Settled
  <2> QED
    BY <2>1, <2>2
<1>2. \A x \in Orders : Receipts(payment', x) = Receipts(payment, x)
  <2>1. \A x : Worth(payment[p], x) = 0 /\ Worth(row, x) = 0
    BY <1>1 DEF Worth
  <2>2. \A x \in Orders :
          /\ Receipts(payment, x) \in Int
          /\ Receipts(payment', x) =
               Receipts(payment, x) - Worth(payment[p], x) + Worth(row, x)
    BY <1>1, ReceiptsStep
  <2> QED
    BY <2>1, <2>2
<1>3. /\ order' = order /\ Finish(c)
      /\ \A d \in Calls, x \in Orders : ~Awaited(d, x)
  BY DEF OpenOnlinePayment, MarkFailed, Awaited, OneRequest
<1>4. \A x \in Orders : order'[x].paid = Receipts(payment', x)
  BY <1>2, <1>3 DEF LedgerInv, Booked
<1>5. IsFiniteSet(Existing(payment))'
  BY <1>1, ReceiptsStep
<1> QED
  BY <1>3, <1>4, <1>5, FinishedTallied DEF Balanced, Booked

\* The gateway says yes: the receipts have the money, the order awaits it.
LEMMA MarkPaidBalanced ==
  ASSUME LedgerInv, OneRequest, NEW c \in Calls, MarkPaid(c)
  PROVE  Balanced
<1> DEFINE p == calls[c].payment
           row == [payment[p] EXCEPT !.status = "PAID"]
<1>1. /\ calls[c].pc = "verify" /\ order' = order
      /\ payment' = [payment EXCEPT ![p] = row]
      /\ calls' = [calls EXCEPT ![c] = [pc |-> "credit", payment |-> p]]
  BY DEF MarkPaid
<1>2. p \in Payments /\ payment[p].of \in Orders /\ payment[p] \in PaymentRow
  BY <1>1, HeldPayment DEF LedgerInv, SerialInv, MoneyInv, TypeOK
<1>3. ~Settled(payment[p]) /\ payment[p].refunded = 0
  BY <1>1, <1>2 DEF LedgerInv, SerialInv, MoneyInv, Tallied, PaymentInv, GripInv, Settled
<1>4. /\ row \in PaymentRow /\ row.of = payment[p].of /\ row.amount = payment[p].amount
      /\ \A x : /\ Worth(payment[p], x) = 0
               /\ Worth(row, x) = IF x = payment[p].of THEN payment[p].amount ELSE 0
  BY <1>2, <1>3 DEF PaymentRow, Settled, Worth
<1>5. \A d \in Calls : calls'[d] = [pc |-> "credit", payment |-> p]
  <2> DEFINE next == [pc |-> "credit", payment |-> p]
  <2>1. calls' = [calls EXCEPT ![c] = next]
    BY <1>1
  <2> HIDE DEF next
  <2>2. \A d \in Calls : calls'[d] = next
    BY <2>1, OnlyCall DEF LedgerInv, SerialInv, MoneyInv
  <2> QED
    BY <2>2 DEF next
<1>6. payment'[p] = row
  BY <1>1, <1>2 DEF LedgerInv, SerialInv, MoneyInv, TypeOK
<1>7. \A d \in Calls, x \in Orders : /\ ~Awaited(d, x)
                                     /\ Awaited(d, x)' <=> x = payment[p].of
                                     /\ payment'[calls'[d].payment].amount = payment[p].amount
  BY <1>1, <1>4, <1>5, <1>6 DEF Awaited, OneRequest
<1>8. payment[p].amount \in Int
  BY <1>2 DEF PaymentRow
<1> HIDE DEF row
<1>9. \A x \in Orders :
        /\ Receipts(payment, x) \in Int
        /\ Receipts(payment', x) =
             Receipts(payment, x) + IF x = payment[p].of THEN payment[p].amount ELSE 0
  <2> HIDE DEF p
  <2>1. \A x \in Orders :
          /\ Receipts(payment, x) \in Int
          /\ Receipts(payment', x) =
               Receipts(payment, x) - Worth(payment[p], x) + Worth(row, x)
    BY <1>1, <1>2, <1>4, ReceiptsStep
  <2> QED
    BY <1>4, <1>8, <2>1
<1>10. \A x \in Orders : order'[x].paid = Receipts(payment, x)
  BY <1>1, <1>7 DEF LedgerInv, Booked
<1>11. Booked'
  <2> HIDE DEF p
  <2>1. ASSUME NEW x \in Orders, \A d \in Calls : ~Awaited(d, x)'
        PROVE  order'[x].paid = Receipts(payment', x)
    BY <1>2, <1>7, <1>9, <1>10, <2>1
  <2>2. ASSUME NEW x \in Orders, NEW d \in Calls, Awaited(d, x)'
        PROVE  order'[x].paid = Receipts(payment', x) - payment'[calls'[d].payment].amount
    BY <1>7, <1>8, <1>9, <1>10, <2>2
  <2> QED
    BY <2>1, <2>2 DEF Booked
<1>12. \A d \in Calls : Tallied(calls[d])'
  BY <1>5 DEF Tallied
<1>13. IsFiniteSet(Existing(payment))'
  <2> HIDE DEF p
  <2> QED
    BY <1>1, <1>2, <1>4, ReceiptsStep
<1> QED
  BY <1>11, <1>12, <1>13 DEF Balanced

\* The credit arrives.
LEMMA CreditOrderBalanced ==
  ASSUME LedgerInv, OneRequest, NEW c \in Calls, CreditOrder(c)
  PROVE  Balanced
<1> DEFINE row == payment[calls[c].payment]
<1>1. calls[c].pc = "credit" /\ payment' = payment /\ Finish(c)
  BY DEF CreditOrder
<1>2. row.of \in Orders /\ row \in PaymentRow
  BY <1>1, HeldPayment DEF LedgerInv, SerialInv, MoneyInv, TypeOK
<1>3. /\ order'[row.of].paid = order[row.of].paid + row.amount
      /\ \A x \in Orders \ {row.of} : order'[x] = order[x]
  <2>1. order[row.of] \in OrderRow(order[row.of].paid) /\ order = [x \in Orders |-> order[x]]
    BY <1>2 DEF LedgerInv, SerialInv, MoneyInv, TypeOK
  <2> QED
    BY <1>2, <2>1 DEF CreditOrder, Credit, OrderRow
<1>4. \A x \in Orders : Receipts(payment, x) \in Int
  BY ReceiptsType DEF LedgerInv, SerialInv, MoneyInv, TypeOK
<1>5. order[row.of].paid = Receipts(payment, row.of) - row.amount
  BY <1>1, <1>2 DEF LedgerInv, Booked, Awaited
<1>6. \A x \in Orders \ {row.of} : order[x].paid = Receipts(payment, x)
  BY <1>1 DEF LedgerInv, Booked, Awaited, OneRequest
<1>7. \A x \in Orders : order'[x].paid = Receipts(payment', x)
  <2>1. row.amount \in Int
    BY <1>2 DEF PaymentRow
  <2> HIDE DEF row
  <2> QED
    BY <1>1, <1>2, <1>3, <1>4, <1>5, <1>6, <2>1
<1>8. IsFiniteSet(Existing(payment))'
  BY <1>1 DEF LedgerInv
<1> QED
  BY <1>1, <1>7, <1>8, FinishedTallied DEF Balanced, Booked

LEMMA ReadReceiptsBalanced ==
  ASSUME LedgerInv, OneRequest, NEW c \in Calls, ReadReceipts(c)
  PROVE  Balanced
<1> DEFINE p == calls[c].payment
           o == payment[p].of
           rows == [payment EXCEPT ![p] = Refunded(p, calls[c].refunded)]
           next == [pc |-> "refunded", payment |-> p, refunded |-> calls[c].refunded,
                    paid |-> Receipts(rows, o),
                    payStatus |-> RefundStatus(rows, o, Receipts(rows, o), order[o].total)]
<1>1. UNCHANGED <<order, payment>> /\ calls[c].pc = "refund"
  BY DEF ReadReceipts
<1>2. calls' = [calls EXCEPT ![c] = next]
  BY DEF ReadReceipts
<1>3. \A d \in Calls : calls'[d] = next
  <2> HIDE DEF next
  <2> QED
    BY <1>2, OnlyCall DEF LedgerInv, SerialInv, MoneyInv
<1>4. \A d \in Calls : Tallied(calls[d])'
  <2>1. ASSUME NEW d \in Calls PROVE Tallied(calls[d])'
    <3>1. /\ calls'[d].pc = "refunded" /\ calls'[d].payment = p
          /\ calls'[d].refunded = calls[c].refunded /\ calls'[d].paid = Receipts(rows, o)
      <4> HIDE DEF p, o, rows
      <4> QED
        BY <1>3
    <3> QED
      BY <1>1, <3>1 DEF Tallied, Refunded
  <2> QED
    BY <2>1
<1>5. \A d \in Calls : calls[d].pc # "credit" /\ calls'[d].pc # "credit"
  BY <1>1, <1>3 DEF OneRequest
<1> QED
  BY <1>1, <1>4, <1>5, BooksStay DEF Balanced

\* The refund writes the receipts it has read, and nothing came between.
LEMMA CommitRefundBalanced ==
  ASSUME LedgerInv, OneRequest, NEW c \in Calls, CommitRefund(c)
  PROVE  Balanced
<1> DEFINE p == calls[c].payment
           o == payment[p].of
           row == Refunded(p, calls[c].refunded)
<1>1. /\ calls[c].pc = "refunded" /\ Finish(c)
      /\ payment' = [payment EXCEPT ![p] = row]
  BY DEF CommitRefund
<1>2. /\ p \in Payments /\ o \in Orders /\ payment[p] \in PaymentRow
      /\ calls[c].refunded \in Nat
  BY <1>1, HeldPayment, RequestTypes DEF LedgerInv, SerialInv, MoneyInv, TypeOK
<1>3. /\ row \in PaymentRow
      /\ \A x : x # o => Worth(payment[p], x) = 0 /\ Worth(row, x) = 0
  BY <1>2 DEF Refunded, PaymentRow, Worth
<1>4. /\ order'[o].paid = calls[c].paid
      /\ \A x \in Orders \ {o} : order'[x] = order[x]
  <2>1. order[o] \in OrderRow(order[o].paid) /\ order = [x \in Orders |-> order[x]]
    BY <1>2 DEF LedgerInv, SerialInv, MoneyInv, TypeOK
  <2> QED
    BY <1>2, <2>1 DEF CommitRefund, OrderRow
<1>5. order'[o].paid = Receipts(payment', o)
  BY <1>1, <1>4 DEF LedgerInv, Tallied
<1>6. \A x \in Orders \ {o} : Receipts(payment', x) = Receipts(payment, x)
  <2> HIDE DEF row, p, o
  <2>1. \A x \in Orders :
          /\ Receipts(payment, x) \in Int
          /\ Receipts(payment', x) =
               Receipts(payment, x) - Worth(payment[p], x) + Worth(row, x)
    BY <1>1, <1>2, <1>3, ReceiptsStep
  <2> QED
    BY <1>3, <2>1
<1>7. \A x \in Orders : order'[x].paid = Receipts(payment', x)
  <2>1. \A x \in Orders : order[x].paid = Receipts(payment, x)
    BY <1>1 DEF LedgerInv, Booked, Awaited, OneRequest
  <2> HIDE DEF o, p
  <2> QED
    BY <1>4, <1>5, <1>6, <2>1
<1>8. IsFiniteSet(Existing(payment))'
  <2> HIDE DEF row, p
  <2> QED
    BY <1>1, <1>2, <1>3, ReceiptsStep
<1> QED
  BY <1>1, <1>7, <1>8, FinishedTallied DEF Balanced, Booked

LEMMA NextLedgerInv == OneRequest /\ ~CanFail /\ LedgerInv /\ [Next]_vars => LedgerInv'
<1> SUFFICES ASSUME OneRequest, ~CanFail, LedgerInv, [Next]_vars PROVE LedgerInv'
  OBVIOUS
<1>1. SerialInv'
  BY NextSerialInv DEF LedgerInv
<1>2. Balanced
  BY DeskBalanced, RequestBalanced, BillBalanced, CommitPaymentBalanced, UnsettledBalanced,
     MarkPaidBalanced, CreditOrderBalanced, ReadReceiptsBalanced, CommitRefundBalanced
     DEF Next, Serve, Fail
<1> QED
  BY <1>1, <1>2 DEF LedgerInv, Balanced

\* The books balance: whenever no callback is between its two writes, what every
\* order says was paid is what its payment rows add up to, net of refunds. With
\* a request that dies between the two writes, or a second one in between, they
\* do not.
THEOREM BooksBalance == OneRequest /\ ~CanFail => (Spec => []ReceiptsMatch)
<1> SUFFICES ASSUME OneRequest, ~CanFail PROVE Spec => []ReceiptsMatch
  OBVIOUS
<1>1. LedgerInv /\ [Next]_vars => LedgerInv'
  BY NextLedgerInv
<1>2. LedgerInv => ReceiptsMatch
  BY DEF LedgerInv, Booked, Awaited, ReceiptsMatch
<1> QED
  BY <1>1, <1>2, InitLedgerInv, PTL DEF Spec
=============================================================================
