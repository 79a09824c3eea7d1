--------------------------- MODULE RewardsProofs ---------------------------
(***************************************************************************)
(* Proofs about Rewards, for any orders, customers, coupons, limits and    *)
(* requests in flight.                                                     *)
(***************************************************************************)
EXTENDS Rewards, FiniteSetTheorems, TLAPS

-----------------------------------------------------------------------------
(* Types                                                                   *)

CallsOK ==
  /\ calls \in [Calls -> {Idle} \cup GuestRequest \cup StaffRequest]
  /\ \A c \in Guests : calls[c] \in {Idle} \cup GuestRequest
  /\ \A c \in Staff : calls[c] \in {Idle} \cup StaffRequest

CouponsOK ==
  coupon \in [Coupons -> [state : {"NONE", "LIVE", "GONE"}, active : BOOLEAN,
                          used : Nat, limit : Limits \cup {Unlimited},
                          perPhone : Limits \cup {Unlimited}]]

OrdersOK ==
  /\ redemption \in [Orders -> Coupons \cup {"NONE"}]
  /\ order \in [Orders -> {NoOrder} \cup PlacedOrder]
  /\ \A o \in Orders : redemption[o] # "NONE" => order[o] # NoOrder

CustomersOK ==
  /\ customer \in [Customers -> [points : Int, known : BOOLEAN, welcomed : Nat]]
  /\ enabled \in BOOLEAN

HoldersOK == holder \in [Rows -> Guests \cup {"NONE"}]

\* The order a guest's request is placing has not been placed, and no other
\* request is placing it; an order that staff move on has been placed.
Owned ==
  /\ \A c \in Guests : calls[c] # Idle =>
       /\ order[calls[c].order] = NoOrder
       /\ \A d \in Guests \ {c} : calls[d] # Idle => calls[d].order # calls[c].order
  /\ \A c \in Staff : calls[c].pc \in {"status", "move"} => order[calls[c].order] # NoOrder

LEMMA TypeParts == TypeOK <=> CallsOK /\ CouponsOK /\ OrdersOK /\ CustomersOK /\ HoldersOK
BY DEF TypeOK, CallsOK, CouponsOK, OrdersOK, CustomersOK, HoldersOK

\* A request that moves on leaves the others where they are.
LEMMA GuestMoves ==
  ASSUME CallsOK, NEW c \in Guests, NEW r \in {Idle} \cup GuestRequest,
         calls' = [calls EXCEPT ![c] = r]
  PROVE  /\ CallsOK'
         /\ calls'[c] = r
         /\ \A d \in Calls \ {c} : calls'[d] = calls[d]
BY RewardsAssumption DEF CallsOK, Calls

LEMMA StaffMoves ==
  ASSUME CallsOK, NEW c \in Staff, NEW r \in {Idle} \cup StaffRequest,
         calls' = [calls EXCEPT ![c] = r]
  PROVE  /\ CallsOK'
         /\ calls'[c] = r
         /\ \A d \in Calls \ {c} : calls'[d] = calls[d]
BY RewardsAssumption DEF CallsOK, Calls

\* The fields of a request that is under way.
LEMMA GuestFields ==
  ASSUME CallsOK, NEW c \in Guests, calls[c] # Idle
  PROVE  /\ calls[c] \in GuestRequest
         /\ calls[c].order \in Orders
         /\ calls[c].customer \in Customers
         /\ calls[c].coupon \in Coupons \cup {"NONE"}
         /\ calls[c].points \in Nat
         /\ calls[c].first \in BOOLEAN
         /\ calls[c].locked \in BOOLEAN
         /\ calls[c].pc \in {"priced", "claimed", "checked"}
BY DEF CallsOK, GuestRequest

LEMMA NotIdle ==
  ASSUME NEW c, calls[c].pc # "idle"
  PROVE  calls[c] # Idle
BY DEF Idle

LEMMA RollbackTypes ==
  ASSUME TypeOK, NEW c \in Guests, Rollback(c)
  PROVE  TypeOK'
<1>1. CallsOK'
  BY TypeParts, GuestMoves DEF Rollback, Goto
<1>2. HoldersOK'
  BY TypeParts DEF Rollback, Released, HoldersOK
<1>3. CouponsOK' /\ OrdersOK' /\ CustomersOK'
  BY TypeParts DEF Rollback, CouponsOK, OrdersOK, CustomersOK
<1> QED
  BY <1>1, <1>2, <1>3, TypeParts DEF TypeOK, CallsOK, CouponsOK, OrdersOK, CustomersOK, HoldersOK

LEMMA GuestTypes ==
  ASSUME TypeOK, Owned, NEW c \in Guests, Serve(c)
  PROVE  TypeOK'
<1> USE TypeParts
<1>0. SUFFICES CallsOK' /\ CouponsOK' /\ OrdersOK' /\ CustomersOK' /\ HoldersOK'
  BY DEF TypeOK, CallsOK, CouponsOK, OrdersOK, CustomersOK, HoldersOK
<1>1. ASSUME NEW o \in Orders, NEW p \in Customers, NEW k \in Coupons \cup {"NONE"},
             NEW asks \in Asks \cup {0}, NEW locks \in BOOLEAN,
             PriceOrder(c, o, p, k, asks, locks)
      PROVE  CallsOK' /\ CouponsOK' /\ OrdersOK' /\ CustomersOK' /\ HoldersOK'
  <2>1. Quoted(asks) \in Nat
    BY RewardsAssumption DEF Quoted
  <2>2. customer[p].known \in BOOLEAN
    BY DEF CustomersOK
  <2>3. [pc |-> "priced", order |-> o, customer |-> p, coupon |-> k,
         points |-> Quoted(asks), first |-> ~customer[p].known, locked |-> locks] \in GuestRequest
    BY <2>1, <2>2 DEF GuestRequest
  <2>4. CallsOK'
    BY <1>1, <2>3, GuestMoves DEF PriceOrder, Goto
  <2>5. HoldersOK'
    BY <1>1 DEF PriceOrder, HoldersOK
  <2>6. CouponsOK' /\ OrdersOK' /\ CustomersOK'
    BY <1>1 DEF PriceOrder, CouponsOK, OrdersOK, CustomersOK
  <2> QED
    BY <2>4, <2>5, <2>6
<1>2. ASSUME Claim(c) \/ Recheck(c), ~Rollback(c)
      PROVE  CallsOK' /\ CouponsOK' /\ OrdersOK' /\ CustomersOK' /\ HoldersOK'
  <2>1. calls[c] \in GuestRequest
    BY <1>2, GuestFields, NotIdle DEF Claim, Recheck
  <2>2. \A s \in {"claimed", "checked"} : [calls[c] EXCEPT !.pc = s] \in GuestRequest
    BY <2>1 DEF GuestRequest
  <2>3. \E s \in {"claimed", "checked"} : Goto(c, [calls[c] EXCEPT !.pc = s])
    BY <1>2 DEF Claim, Recheck
  <2>4. CallsOK'
    BY <2>2, <2>3, GuestMoves DEF Goto
  <2>5. HoldersOK'
    BY <1>2 DEF Claim, Recheck, HoldersOK
  <2>6. CouponsOK' /\ OrdersOK' /\ CustomersOK'
    BY <1>2 DEF Claim, Recheck, CouponsOK, OrdersOK, CustomersOK
  <2> QED
    BY <2>4, <2>5, <2>6
<1>3. ASSUME PlaceOrder(c)
      PROVE  CallsOK' /\ CouponsOK' /\ OrdersOK' /\ CustomersOK' /\ HoldersOK'
  <2>1. calls[c] # Idle
    BY <1>3, NotIdle DEF PlaceOrder
  <2>2. CallsOK'
    BY <1>3, GuestMoves DEF PlaceOrder, Goto
  <2>3. CouponsOK'
    BY <1>3, <2>1, GuestFields DEF PlaceOrder, CouponsOK
  <2>4. [status |-> "OPEN", customer |-> calls[c].customer, earned |-> 0,
         redeemed |-> -calls[c].points, returned |-> 0] \in PlacedOrder
    <3>1. calls[c].customer \in Customers /\ -calls[c].points \in Int
      BY <2>1, GuestFields
    <3> QED
      BY <3>1 DEF NoOrder, PlacedOrder
  <2>5. NoOrder \notin PlacedOrder
    BY DEF NoOrder, PlacedOrder
  <2>6. OrdersOK'
    BY <1>3, <2>1, <2>4, <2>5, GuestFields DEF PlaceOrder, Placed, OrdersOK
  <2>7. CustomersOK'
    <3>1. /\ calls[c].customer \in Customers
          /\ calls[c].points \in Nat
          /\ Welcome \in Nat
      BY <2>1, GuestFields, RewardsAssumption
    <3> QED
      BY <1>3, <3>1 DEF PlaceOrder, Placed, CustomersOK
  <2>8. HoldersOK'
    BY <1>3 DEF PlaceOrder, Released, HoldersOK
  <2> QED
    BY <2>2, <2>3, <2>6, <2>7, <2>8
<1>4. ASSUME Rollback(c)
      PROVE  CallsOK' /\ CouponsOK' /\ OrdersOK' /\ CustomersOK' /\ HoldersOK'
  BY <1>4, RollbackTypes DEF TypeOK, CallsOK, CouponsOK, OrdersOK, CustomersOK, HoldersOK
<1> QED
  BY <1>1, <1>2, <1>3, <1>4 DEF Serve, Abort

LEMMA StaffTypes ==
  ASSUME TypeOK, Owned, NEW c \in Staff, Attend(c)
  PROVE  TypeOK'
<1> USE TypeParts
<1>0. SUFFICES CallsOK' /\ CouponsOK' /\ OrdersOK' /\ CustomersOK' /\ HoldersOK'
  BY DEF TypeOK, CallsOK, CouponsOK, OrdersOK, CustomersOK, HoldersOK
<1>1. ASSUME NEW r \in {Idle} \cup StaffRequest, Goto(c, r),
             UNCHANGED <<coupon, redemption, order, customer, enabled, holder>>
      PROVE  CallsOK' /\ CouponsOK' /\ OrdersOK' /\ CustomersOK' /\ HoldersOK'
  BY <1>1, StaffMoves DEF Goto, CouponsOK, OrdersOK, CustomersOK, HoldersOK
<1>2. ASSUME NEW o \in Orders, NEW to \in {"COMPLETED", "CANCELLED"}, BeginStatus(c, o, to)
      PROVE  CallsOK' /\ CouponsOK' /\ OrdersOK' /\ CustomersOK' /\ HoldersOK'
  BY <1>1, <1>2 DEF BeginStatus, StaffRequest
<1>3. CASE ReadLedger(c)
  <2>1. /\ calls[c].order \in Orders
        /\ calls[c].to \in {"COMPLETED", "CANCELLED"}
    BY <1>3, NotIdle DEF ReadLedger, CallsOK, StaffRequest
  <2>2. order[calls[c].order].earned \in Int /\ order[calls[c].order].redeemed \in Int
    BY <2>1 DEF OrdersOK, PlacedOrder, NoOrder
  <2>3. Movement(calls[c].order, calls[c].to) \in Int
    BY <2>2, RewardsAssumption DEF Movement, Net
  <2> QED
    BY <1>1, <1>3, <2>1, <2>3 DEF ReadLedger, StaffRequest
<1>4. CASE CommitStatus(c)
  <2>1. /\ calls[c].order \in Orders
        /\ calls[c].to \in {"COMPLETED", "CANCELLED"}
        /\ calls[c].points \in Int
    BY <1>4, NotIdle DEF CommitStatus, CallsOK, StaffRequest
  <2>2. order[calls[c].order] \in PlacedOrder
    BY <1>4, <2>1 DEF CommitStatus, Owned, OrdersOK
  <2>3. CallsOK' /\ CouponsOK' /\ HoldersOK'
    BY <1>4, StaffMoves DEF CommitStatus, Goto, CouponsOK, HoldersOK
  <2>4. order'[calls[c].order] \in PlacedOrder
    <3> DEFINE row == order[calls[c].order]
               earned == row.earned + (IF calls[c].to = "COMPLETED" THEN calls[c].points ELSE 0)
               returned == row.returned + (IF calls[c].to = "CANCELLED" THEN calls[c].points ELSE 0)
    <3>1. row.earned \in Int /\ row.returned \in Int /\ row.redeemed \in Int
          /\ row.customer \in Customers
      BY <2>2 DEF PlacedOrder
    <3>2. earned \in Int /\ returned \in Int
      BY <2>1, <3>1
    <3>3. order'[calls[c].order] =
            [status |-> calls[c].to, customer |-> row.customer, redeemed |-> row.redeemed,
             earned |-> earned, returned |-> returned]
      BY <1>4, <2>1 DEF CommitStatus, OrdersOK
    <3> HIDE DEF row, earned, returned
    <3> QED
      BY <2>1, <3>1, <3>2, <3>3 DEF PlacedOrder
  <2>5. NoOrder \notin PlacedOrder
    BY DEF NoOrder, PlacedOrder
  <2>6. OrdersOK'
    BY <1>4, <2>1, <2>4, <2>5 DEF CommitStatus, OrdersOK
  <2>7. CustomersOK'
    <3>1. order[calls[c].order].customer \in Customers
      BY <2>2 DEF PlacedOrder
    <3> QED
      BY <1>4, <2>1, <3>1 DEF CommitStatus, CustomersOK
  <2> QED
    BY <2>3, <2>6, <2>7
<1>5. ASSUME NEW p \in Customers, NEW n \in Corrections,
             BeginAdjust(c, p, n) \/ BeginAdjust(c, p, -n)
      PROVE  CallsOK' /\ CouponsOK' /\ OrdersOK' /\ CustomersOK' /\ HoldersOK'
  <2>1. n \in Int /\ -n \in Int
    BY RewardsAssumption
  <2> QED
    BY <1>1, <1>5, <2>1 DEF BeginAdjust, StaffRequest
<1>6. CASE CommitAdjust(c)
  <2>1. calls[c].customer \in Customers /\ calls[c].points \in Int
    BY <1>6, NotIdle DEF CommitAdjust, CallsOK, StaffRequest
  <2>2. CallsOK' /\ CouponsOK' /\ OrdersOK' /\ HoldersOK'
    BY <1>6, StaffMoves DEF CommitAdjust, Goto, CouponsOK, OrdersOK, HoldersOK
  <2>3. CustomersOK'
    BY <1>6, <2>1 DEF CommitAdjust, CustomersOK
  <2> QED
    BY <2>2, <2>3
<1>7. ASSUME NEW k \in Coupons, BeginRemove(c, k)
      PROVE  CallsOK' /\ CouponsOK' /\ OrdersOK' /\ CustomersOK' /\ HoldersOK'
  BY <1>1, <1>7 DEF BeginRemove, StaffRequest
<1>8. CASE Retire(c) \/ Delete(c)
  <2>1. CallsOK' /\ HoldersOK' /\ CustomersOK'
    BY <1>8, StaffMoves DEF Retire, Delete, Goto, HoldersOK, CustomersOK
  <2>2. calls[c].coupon \in Coupons
    BY <1>8, NotIdle DEF Retire, Delete, CallsOK, StaffRequest
  <2>3. CouponsOK'
    <3>1. CASE Retire(c)
      BY <3>1, <2>2 DEF Retire, CouponsOK
    <3>2. CASE Delete(c)
      BY <3>2, <2>2 DEF Delete, CouponsOK
    <3> QED
      BY <1>8, <3>1, <3>2
  <2>4. OrdersOK'
    BY <1>8 DEF Retire, Delete, OrdersOK
  <2> QED
    BY <2>1, <2>3, <2>4
<1> QED
  BY <1>2, <1>3, <1>4, <1>5, <1>6, <1>7, <1>8 DEF Attend

LEMMA TypeStep ==
  ASSUME TypeOK, Owned, [Next]_vars
  PROVE  TypeOK'
<1> USE TypeParts
<1>1. ASSUME NEW c \in Guests, Serve(c) PROVE TypeOK'
  BY <1>1, GuestTypes
<1>2. ASSUME NEW c \in Staff, Attend(c) PROVE TypeOK'
  BY <1>2, StaffTypes
<1>3. ASSUME NEW on \in BOOLEAN, SaveProgram(on) PROVE TypeOK'
  BY <1>3 DEF SaveProgram, TypeOK
<1>4. ASSUME NEW k \in Coupons, NEW limit \in Limits \cup {Unlimited},
             NEW perPhone \in Limits \cup {Unlimited}, CreateCoupon(k, limit, perPhone)
      PROVE  TypeOK'
  <2>1. CouponsOK'
    BY <1>4 DEF CreateCoupon, CouponsOK
  <2> QED
    BY <1>4, <2>1 DEF CreateCoupon, CouponsOK, TypeOK
<1>5. ASSUME NEW k \in Coupons, NEW active \in BOOLEAN, NEW limit \in Limits \cup {Unlimited},
             NEW perPhone \in Limits \cup {Unlimited}, UpdateCoupon(k, active, limit, perPhone)
      PROVE  TypeOK'
  <2>1. CouponsOK'
    BY <1>5 DEF UpdateCoupon, CouponsOK
  <2> QED
    BY <1>5, <2>1 DEF UpdateCoupon, CouponsOK, TypeOK
<1>6. CASE UNCHANGED vars
  BY <1>6 DEF vars, TypeOK
<1> QED
  BY <1>1, <1>2, <1>3, <1>4, <1>5, <1>6 DEF Next

-----------------------------------------------------------------------------
(* Who changes what                                                        *)

\* A step of the back office is of one of these kinds.
Office ==
  \/ \E on \in BOOLEAN : SaveProgram(on)
  \/ \E k \in Coupons, limit, perPhone \in Limits \cup {Unlimited} :
       CreateCoupon(k, limit, perPhone)
  \/ \E k \in Coupons, active \in BOOLEAN, limit, perPhone \in Limits \cup {Unlimited} :
       UpdateCoupon(k, active, limit, perPhone)

LEMMA NextKinds ==
  ASSUME [Next]_vars
  PROVE  \/ \E c \in Guests : Serve(c)
         \/ \E c \in Staff : Attend(c)
         \/ Office
         \/ UNCHANGED vars
BY DEF Next, Office

\* A guest's request moves nobody else's.
LEMMA OtherCalls ==
  ASSUME TypeOK, NEW c \in Guests, Serve(c), NEW d \in Calls \ {c}
  PROVE  calls'[d] = calls[d]
<1>1. ASSUME NEW r, Goto(c, r) PROVE calls'[d] = calls[d]
  BY <1>1 DEF Goto, TypeOK
<1>2. CASE PlaceOrder(c) \/ Abort(c)
  BY <1>1, <1>2 DEF PlaceOrder, Abort, Rollback
<1>3. CASE Claim(c) \/ Recheck(c)
  BY <1>1, <1>3 DEF Claim, Recheck, Rollback
<1>4. ASSUME NEW o \in Orders, NEW p \in Customers, NEW k \in Coupons \cup {"NONE"},
             NEW asks \in Asks \cup {0}, NEW locks \in BOOLEAN,
             PriceOrder(c, o, p, k, asks, locks)
      PROVE  calls'[d] = calls[d]
  BY <1>1, <1>4 DEF PriceOrder
<1> QED
  BY <1>2, <1>3, <1>4 DEF Serve

\* No step but its own touches a guest's request.
LEMMA OwnRequest ==
  ASSUME TypeOK, NEW d \in Guests,
         \/ \E c \in Guests \ {d} : Serve(c)
         \/ \E c \in Staff : Attend(c)
         \/ Office
         \/ UNCHANGED vars
  PROVE  calls'[d] = calls[d]
<1>1. ASSUME NEW c \in Calls \ {d}, NEW r, Goto(c, r) PROVE calls'[d] = calls[d]
  BY <1>1 DEF Goto, TypeOK, Calls
<1>2. ASSUME NEW c \in Guests \ {d}, Serve(c) PROVE calls'[d] = calls[d]
  BY <1>1, <1>2 DEF Serve, PriceOrder, Claim, Recheck, PlaceOrder, Abort, Rollback, Calls
<1>3. ASSUME NEW c \in Staff, Attend(c) PROVE calls'[d] = calls[d]
  <2>1. c \in Calls \ {d}
    BY RewardsAssumption DEF Calls
  <2> QED
    BY <1>1, <1>3, <2>1 DEF Attend, BeginStatus, ReadLedger, CommitStatus, BeginAdjust,
       CommitAdjust, BeginRemove, Retire, Delete
<1>4. Office \/ UNCHANGED vars => calls' = calls
  BY DEF Office, SaveProgram, CreateCoupon, UpdateCoupon, vars
<1> QED
  BY <1>2, <1>3, <1>4

\* A row that a request holds stays held by it until it moves itself.
LEMMA OwnRow ==
  ASSUME TypeOK, NEW d \in Guests, NEW r \in Rows, holder[r] = d,
         \/ \E c \in Guests \ {d} : Serve(c)
         \/ \E c \in Staff : Attend(c)
         \/ Office
         \/ UNCHANGED vars
  PROVE  holder'[r] = d
<1>0. holder \in [Rows -> Guests \cup {"NONE"}] /\ "NONE" \notin Guests
  BY RewardsAssumption DEF TypeOK
<1>1. ASSUME NEW c \in Guests \ {d}, Serve(c) PROVE holder'[r] = d
  <2>1. ASSUME NEW o \in Orders, NEW p \in Customers, NEW k \in Coupons \cup {"NONE"},
               NEW asks \in Asks \cup {0}, NEW locks \in BOOLEAN,
               PriceOrder(c, o, p, k, asks, locks)
        PROVE  holder'[r] = d
    BY <1>0, <2>1 DEF PriceOrder, Free
  <2>2. ASSUME Rollback(c) \/ holder' = Released(c) PROVE holder'[r] = d
    BY <2>2 DEF Rollback, Released
  <2>3. CASE Claim(c)
    BY <1>0, <2>2, <2>3 DEF Claim, Free
  <2>4. CASE Recheck(c)
    BY <2>2, <2>4 DEF Recheck
  <2>5. CASE PlaceOrder(c) \/ Abort(c)
    BY <2>2, <2>5 DEF PlaceOrder, Abort
  <2> QED
    BY <1>1, <2>1, <2>3, <2>4, <2>5 DEF Serve
<1>2. ASSUME NEW c \in Staff, Attend(c) PROVE holder' = holder
  BY <1>2 DEF Attend, BeginStatus, ReadLedger, CommitStatus, BeginAdjust,
     CommitAdjust, BeginRemove, Retire, Delete
<1>3. Office \/ UNCHANGED vars => holder' = holder
  BY DEF Office, SaveProgram, CreateCoupon, UpdateCoupon, vars
<1> QED
  BY <1>1, <1>2, <1>3

-----------------------------------------------------------------------------
(* Requests own their orders                                               *)

LEMMA OwnedStep ==
  ASSUME TypeOK, Owned, [Next]_vars
  PROVE  Owned'
<1> USE TypeParts
<1>0. NoOrder \notin PlacedOrder
  BY DEF NoOrder, PlacedOrder
<1>1. ASSUME NEW c \in Guests, Serve(c) PROVE Owned'
  <2>1. \A d \in Calls \ {c} : calls'[d] = calls[d]
    BY <1>1, OtherCalls
  <2>2. \A d \in Staff : d \in Calls \ {c}
    BY RewardsAssumption DEF Calls
  <2>3. ASSUME NEW o \in Orders, NEW p \in Customers, NEW k \in Coupons \cup {"NONE"},
               NEW asks \in Asks \cup {0}, NEW locks \in BOOLEAN,
               PriceOrder(c, o, p, k, asks, locks)
        PROVE  Owned'
    <3>1. order[o] = NoOrder
      BY <2>3 DEF PriceOrder, OrdersOK, PlacedOrder
    <3>2. calls'[c].order = o /\ calls[c] = Idle /\ order' = order
      BY <2>3 DEF PriceOrder, Goto, TypeOK, Calls
    <3>3. \A d \in Guests : calls[d] # Idle => calls[d].order # o
      BY <2>3 DEF PriceOrder
    <3> QED
      BY <2>1, <2>2, <3>1, <3>2, <3>3 DEF Owned, Calls
  <2>4. ASSUME (Claim(c) \/ Recheck(c)) /\ ~Rollback(c) PROVE Owned'
    <3>1. calls[c] # Idle /\ order' = order
      BY <2>4, NotIdle DEF Claim, Recheck
    <3>2. \E pc \in {"claimed", "checked"} : calls'[c] = [calls[c] EXCEPT !.pc = pc]
      BY <2>4 DEF Claim, Recheck, Goto, TypeOK, Calls
    <3>3. calls'[c].order = calls[c].order
      BY <3>1, <3>2, GuestFields DEF GuestRequest
    <3> QED
      BY <2>1, <2>2, <3>1, <3>3 DEF Owned, Calls
  <2>5. ASSUME PlaceOrder(c) PROVE Owned'
    <3>1. calls[c] # Idle /\ calls'[c] = Idle
      BY <2>5, NotIdle DEF PlaceOrder, Goto, TypeOK, Calls
    <3>2. \A o \in Orders \ {calls[c].order} : order'[o] = order[o]
      BY <2>5 DEF PlaceOrder, Placed, OrdersOK
    <3>3. order'[calls[c].order] # NoOrder
      BY <2>5, <3>1, GuestFields DEF PlaceOrder, Placed, OrdersOK, NoOrder
    <3>4. \A d \in Guests \ {c} : calls'[d] # Idle =>
            order'[calls'[d].order] = NoOrder
      BY <2>1, <3>1, <3>2, GuestFields DEF Owned, Calls
    <3>5. \A d \in Staff : calls'[d].pc \in {"status", "move"} =>
            order'[calls'[d].order] # NoOrder
      <4>1. ASSUME NEW d \in Staff, calls[d].pc \in {"status", "move"}
            PROVE  calls[d].order \in Orders
        BY <4>1, NotIdle DEF CallsOK, StaffRequest
      <4> QED
        BY <2>1, <2>2, <3>2, <3>3, <4>1 DEF Owned
    <3> QED
      BY <2>1, <3>1, <3>4, <3>5 DEF Owned, Calls
  <2>6. ASSUME Rollback(c) PROVE Owned'
    BY <2>1, <2>2, <2>6 DEF Rollback, Goto, Owned, TypeOK, Calls
  <2> QED
    BY <1>1, <2>3, <2>4, <2>5, <2>6 DEF Serve, Abort
<1>2. ASSUME NEW c \in Staff, Attend(c) PROVE Owned'
  <2>1. \A d \in Calls \ {c} : calls'[d] = calls[d]
    BY <1>2 DEF Attend, BeginStatus, ReadLedger, CommitStatus, BeginAdjust, CommitAdjust,
       BeginRemove, Retire, Delete, Goto, TypeOK, Calls
  <2>2. \A d \in Guests : d \in Calls \ {c}
    BY RewardsAssumption DEF Calls
  <2>3. c \in Calls
    BY DEF Calls
  <2>4. order' = order \/ CommitStatus(c)
    BY <1>2 DEF Attend, BeginStatus, ReadLedger, BeginAdjust, CommitAdjust,
       BeginRemove, Retire, Delete
  <2>5. CASE order' = order
    <3>1. calls'[c].pc \in {"status", "move"} => order[calls'[c].order] # NoOrder
      <4>1. ASSUME NEW o \in Orders, NEW to \in {"COMPLETED", "CANCELLED"}, BeginStatus(c, o, to)
            PROVE  calls'[c].order = o /\ order[o] # NoOrder
        BY <2>3, <4>1 DEF BeginStatus, Goto, NoOrder, TypeOK
      <4>2. CASE ReadLedger(c)
        BY <2>3, <4>2 DEF ReadLedger, Goto, Owned, TypeOK
      <4>3. CASE CommitStatus(c) \/ CommitAdjust(c) \/ Retire(c) \/ Delete(c)
        BY <2>3, <4>3 DEF CommitStatus, CommitAdjust, Retire, Delete, Goto, Idle, TypeOK
      <4>4. ASSUME NEW p, NEW n, BeginAdjust(c, p, n)
            PROVE  calls'[c].pc = "adjust"
        BY <2>3, <4>4 DEF BeginAdjust, Goto, TypeOK
      <4>5. ASSUME NEW k \in Coupons, BeginRemove(c, k)
            PROVE  calls'[c].pc \in {"delete", "retire"}
        BY <2>3, <4>5 DEF BeginRemove, Goto, TypeOK
      <4> QED
        BY <1>2, <4>1, <4>2, <4>3, <4>4, <4>5 DEF Attend
    <3> QED
      BY <2>1, <2>2, <2>5, <3>1 DEF Owned, Calls
  <2>6. CASE CommitStatus(c)
    <3>1. order[calls[c].order] # NoOrder /\ calls'[c] = Idle
      BY <2>3, <2>6 DEF CommitStatus, Goto, Owned, TypeOK
    <3>2. calls[c].order \in Orders /\ calls[c].to \in {"COMPLETED", "CANCELLED"}
      BY <2>6, NotIdle DEF CommitStatus, CallsOK, StaffRequest
    <3>3. /\ order'[calls[c].order] # NoOrder
          /\ \A o \in Orders \ {calls[c].order} : order'[o] = order[o]
      BY <2>6, <3>2 DEF CommitStatus, OrdersOK, NoOrder
    <3>4. \A d \in Guests : calls'[d] # Idle => order'[calls'[d].order] = NoOrder
      BY <2>1, <2>2, <3>1, <3>3, GuestFields DEF Owned
    <3>5. \A d \in Staff : calls'[d].pc \in {"status", "move"} =>
            order'[calls'[d].order] # NoOrder
      <4>1. ASSUME NEW d \in Staff, calls[d].pc \in {"status", "move"}
            PROVE  calls[d].order \in Orders
        BY <4>1, NotIdle DEF CallsOK, StaffRequest
      <4> QED
        BY <2>1, <3>1, <3>3, <4>1 DEF Owned, Calls, Idle
    <3> QED
      BY <2>1, <2>2, <3>4, <3>5 DEF Owned
  <2> QED
    BY <2>4, <2>5, <2>6
<1>3. ASSUME Office \/ UNCHANGED vars PROVE Owned'
  BY <1>3 DEF Office, SaveProgram, CreateCoupon, UpdateCoupon, vars, Owned
<1> QED
  BY <1>1, <1>2, <1>3, NextKinds

-----------------------------------------------------------------------------
(* Requests hold the rows they have written                                *)

CouponRow(k) == <<"coupon", k>>
CustomerRow(p) == <<"customer", p>>

Held ==
  \A c \in Guests :
    /\ calls[c] # Idle /\ calls[c].locked => holder[CustomerRow(calls[c].customer)] = c
    /\ calls[c].pc \in {"claimed", "checked"} =>
         calls[c].coupon \in Coupons /\ holder[CouponRow(calls[c].coupon)] = c

LEMMA HeldStep ==
  ASSUME TypeOK, Held, [Next]_vars
  PROVE  Held'
<1> USE TypeParts
<1>0. /\ \A k \in Coupons : CouponRow(k) \in Rows
      /\ \A p \in Customers : CustomerRow(p) \in Rows
      /\ \A k, p : CouponRow(k) # CustomerRow(p)
  BY DEF Rows, CouponRow, CustomerRow
<1>1. ASSUME NEW d \in Guests,
             \/ \E c \in Guests \ {d} : Serve(c)
             \/ \E c \in Staff : Attend(c)
             \/ Office
             \/ UNCHANGED vars
      PROVE  /\ calls'[d] # Idle /\ calls'[d].locked =>
                  holder'[CustomerRow(calls'[d].customer)] = d
             /\ calls'[d].pc \in {"claimed", "checked"} =>
                  calls'[d].coupon \in Coupons /\ holder'[CouponRow(calls'[d].coupon)] = d
  <2>1. calls'[d] = calls[d]
    BY <1>1, OwnRequest
  <2>2. \A r \in Rows : holder[r] = d => holder'[r] = d
    BY <1>1, OwnRow
  <2> QED
    BY <1>0, <2>1, <2>2, GuestFields DEF Held
<1>2. ASSUME NEW d \in Guests, Serve(d)
      PROVE  /\ calls'[d] # Idle /\ calls'[d].locked =>
                  holder'[CustomerRow(calls'[d].customer)] = d
             /\ calls'[d].pc \in {"claimed", "checked"} =>
                  calls'[d].coupon \in Coupons /\ holder'[CouponRow(calls'[d].coupon)] = d
  <2>1. ASSUME NEW o \in Orders, NEW p \in Customers, NEW k \in Coupons \cup {"NONE"},
               NEW asks \in Asks \cup {0}, NEW locks \in BOOLEAN,
               PriceOrder(d, o, p, k, asks, locks)
        PROVE  /\ calls'[d].pc = "priced"
               /\ calls'[d].customer = p
               /\ calls'[d].locked => holder'[CustomerRow(p)] = d
    BY <1>0, <2>1 DEF PriceOrder, Goto, CustomerRow, HoldersOK, CallsOK, Calls
  <2>2. CASE Claim(d) /\ ~Rollback(d)
    <3>1. /\ calls'[d] = [calls[d] EXCEPT !.pc = "claimed"]
          /\ holder' = [holder EXCEPT ![CouponRow(calls[d].coupon)] = d]
          /\ calls[d] # Idle /\ calls[d].coupon # "NONE"
      BY <2>2, NotIdle DEF Claim, Goto, CouponRow, CallsOK, Calls
    <3>2. /\ calls[d].coupon \in Coupons
          /\ calls'[d].coupon = calls[d].coupon
          /\ calls'[d].customer = calls[d].customer
          /\ calls'[d].locked = calls[d].locked
          /\ calls[d].customer \in Customers
      BY <3>1, GuestFields DEF GuestRequest
    <3>3. holder'[CouponRow(calls[d].coupon)] = d
      BY <1>0, <3>1, <3>2 DEF HoldersOK
    <3>4. holder'[CustomerRow(calls[d].customer)] = holder[CustomerRow(calls[d].customer)]
      BY <1>0, <3>1, <3>2 DEF HoldersOK
    <3> QED
      BY <3>1, <3>2, <3>3, <3>4 DEF Held
  <2>3. CASE Recheck(d) /\ ~Rollback(d)
    <3>1. /\ calls'[d] = [calls[d] EXCEPT !.pc = "checked"]
          /\ holder' = holder
          /\ calls[d].pc = "claimed" /\ calls[d] # Idle
      BY <2>3, NotIdle DEF Recheck, Goto, CallsOK, Calls
    <3>2. /\ calls'[d].coupon = calls[d].coupon
          /\ calls'[d].customer = calls[d].customer
          /\ calls'[d].locked = calls[d].locked
      BY <3>1, GuestFields DEF GuestRequest
    <3> QED
      BY <3>1, <3>2 DEF Held
  <2>4. CASE PlaceOrder(d) \/ Rollback(d)
    <3>1. calls'[d] = Idle
      BY <2>4 DEF PlaceOrder, Rollback, Goto, CallsOK, Calls
    <3> QED
      BY <3>1 DEF Idle
  <2> QED
    BY <1>2, <2>1, <2>2, <2>3, <2>4 DEF Serve, Abort
<1> QED
  BY <1>1, <1>2, NextKinds DEF Held

-----------------------------------------------------------------------------
(* What a held row protects                                                *)

\* The row of a customer changes only in a step of the request that holds it.
LEMMA CustomerRowKept ==
  ASSUME TypeOK, NEW d \in Guests, NEW p \in Customers, holder[CustomerRow(p)] = d,
         \/ \E c \in Guests \ {d} : Serve(c)
         \/ \E c \in Staff : Attend(c)
         \/ Office
         \/ UNCHANGED vars
  PROVE  customer'[p] = customer[p]
<1> USE TypeParts
<1>0. /\ CustomerRow(p) \in Rows
      /\ d # "NONE"
      /\ \A q \in Customers, c \in Calls \ {d} : Free(<<"customer", q>>, c) => q # p
  BY RewardsAssumption DEF Rows, CustomerRow, Free
<1>1. ASSUME NEW c \in Guests \ {d}, Serve(c) PROVE customer'[p] = customer[p]
  <2>1. CASE PlaceOrder(c)
    <3>1. c \in Calls \ {d} /\ calls[c].customer \in Customers
      BY <2>1, NotIdle, GuestFields DEF PlaceOrder, Calls
    <3>2. calls[c].customer # p
      BY <1>0, <2>1, <3>1 DEF PlaceOrder
    <3> QED
      BY <2>1, <3>1, <3>2 DEF PlaceOrder, Placed, CustomersOK
  <2>2. CASE ~PlaceOrder(c)
    BY <1>1, <2>2 DEF Serve, PriceOrder, Claim, Recheck, Abort, Rollback
  <2> QED
    BY <2>1, <2>2
<1>2. ASSUME NEW c \in Staff, Attend(c) PROVE customer'[p] = customer[p]
  <2>0. c \in Calls \ {d}
    BY RewardsAssumption DEF Calls
  <2>1. CASE CommitAdjust(c)
    <3>1. calls[c].customer \in Customers
      BY <2>1, NotIdle DEF CommitAdjust, CallsOK, StaffRequest
    <3> QED
      BY <1>0, <2>0, <2>1, <3>1 DEF CommitAdjust, CustomersOK
  <2>2. CASE CommitStatus(c)
    <3> DEFINE q == order[calls[c].order].customer
    <3>1. customer' = [customer EXCEPT ![q].points = @ + calls[c].points]
          /\ Free(<<"customer", q>>, c)
      BY <2>2 DEF CommitStatus
    <3>2. q # p
      BY <1>0, <2>0, <3>1 DEF Free, CustomerRow
    <3> HIDE DEF q
    <3> QED
      BY <3>1, <3>2 DEF CustomersOK
  <2>3. CASE ~CommitAdjust(c) /\ ~CommitStatus(c)
    BY <1>2, <2>3 DEF Attend, BeginStatus, ReadLedger, BeginAdjust, BeginRemove, Retire, Delete
  <2> QED
    BY <2>1, <2>2, <2>3
<1>3. Office \/ UNCHANGED vars => customer' = customer
  BY DEF Office, SaveProgram, CreateCoupon, UpdateCoupon, vars
<1> QED
  BY <1>1, <1>2, <1>3

\* So do the row and the redemptions of a coupon in use.
LEMMA CouponRowKept ==
  ASSUME TypeOK, Owned, Held, NEW d \in Guests, NEW k \in Coupons,
         holder[CouponRow(k)] = d, coupon[k].state = "LIVE",
         \/ \E c \in Guests \ {d} : Serve(c)
         \/ \E c \in Staff : Attend(c)
         \/ Office
         \/ UNCHANGED vars
  PROVE  /\ coupon'[k] = coupon[k]
         /\ \A o \in Orders : redemption'[o] = k <=> redemption[o] = k
         /\ \A o \in Orders : redemption[o] = k => order'[o].customer = order[o].customer
<1> USE TypeParts
<1>0. d # "NONE" /\ k # "NONE"
  BY RewardsAssumption
<1>1. ASSUME NEW c \in Guests \ {d}, Serve(c)
      PROVE  /\ coupon'[k] = coupon[k]
             /\ \A o \in Orders : redemption'[o] = k <=> redemption[o] = k
             /\ \A o \in Orders : redemption[o] = k => order'[o].customer = order[o].customer
  <2>1. CASE PlaceOrder(c)
    <3>1. calls[c] # Idle /\ calls[c].coupon # k
      BY <1>0, <2>1, NotIdle, GuestFields DEF PlaceOrder, Held
    <3>2. calls[c].order \in Orders /\ redemption[calls[c].order] # k
      BY <1>0, <3>1, GuestFields DEF Owned, OrdersOK
    <3>3. coupon'[k] = coupon[k]
      BY <2>1, <3>1 DEF PlaceOrder, CouponsOK
    <3>4. \A o \in Orders : redemption'[o] = k <=> redemption[o] = k
      BY <2>1, <3>1, <3>2 DEF PlaceOrder, OrdersOK
    <3>5. \A o \in Orders : redemption[o] = k => order'[o] = order[o]
      BY <2>1, <3>2 DEF PlaceOrder, Placed, OrdersOK
    <3> QED
      BY <3>3, <3>4, <3>5
  <2>2. CASE ~PlaceOrder(c)
    BY <1>1, <2>2 DEF Serve, PriceOrder, Claim, Recheck, Abort, Rollback
  <2> QED
    BY <2>1, <2>2
<1>2. ASSUME NEW c \in Staff, Attend(c)
      PROVE  /\ coupon'[k] = coupon[k]
             /\ \A o \in Orders : redemption'[o] = k <=> redemption[o] = k
             /\ \A o \in Orders : redemption[o] = k => order'[o].customer = order[o].customer
  <2>1. CASE Retire(c)
    <3>1. calls[c].coupon # k
      BY <1>0, <2>1 DEF Retire, CouponRow
    <3> QED
      BY <2>1, <3>1 DEF Retire, CouponsOK
  <2>2. CASE Delete(c)
    <3>1. calls[c].coupon # k
      BY <1>0, <2>2 DEF Delete, CouponRow
    <3> QED
      BY <1>0, <2>2, <3>1 DEF Delete, CouponsOK, OrdersOK
  <2>3. CASE CommitStatus(c)
    <3>1. calls[c].order \in Orders
      BY <2>3, NotIdle DEF CommitStatus, CallsOK, StaffRequest
    <3>2. \A o \in Orders : order'[o].customer = order[o].customer
      BY <2>3, <3>1 DEF CommitStatus, OrdersOK
    <3> QED
      BY <2>3, <3>2 DEF CommitStatus
  <2>4. CASE ~Retire(c) /\ ~Delete(c) /\ ~CommitStatus(c)
    BY <1>2, <2>4 DEF Attend, BeginStatus, ReadLedger, BeginAdjust, CommitAdjust, BeginRemove
  <2> QED
    BY <2>1, <2>2, <2>3, <2>4
<1>3. ASSUME Office \/ UNCHANGED vars
      PROVE  coupon'[k] = coupon[k] /\ redemption' = redemption /\ order' = order
  <2>1. ASSUME NEW j \in Coupons, NEW limit, NEW perPhone, CreateCoupon(j, limit, perPhone)
        PROVE  coupon'[k] = coupon[k]
    BY <2>1 DEF CreateCoupon, CouponsOK
  <2>2. ASSUME NEW j \in Coupons, NEW active, NEW limit, NEW perPhone,
               UpdateCoupon(j, active, limit, perPhone)
        PROVE  coupon'[k] = coupon[k]
    BY <1>0, <2>2 DEF UpdateCoupon, CouponsOK, CouponRow
  <2>3. redemption' = redemption /\ order' = order
    BY <1>3 DEF Office, SaveProgram, CreateCoupon, UpdateCoupon, vars
  <2> QED
    BY <1>3, <2>1, <2>2, <2>3 DEF Office, SaveProgram, vars
<1> QED
  BY <1>1, <1>2, <1>3

-----------------------------------------------------------------------------
(* The limits of a coupon                                                  *)

\* What a claim established still holds: the claimed row cannot change.
Claimed ==
  \A c \in Guests :
    /\ calls[c].pc \in {"claimed", "checked"} =>
         LET k == calls[c].coupon
         IN  coupon[k].state = "LIVE" /\ Room(coupon[k].used, coupon[k].limit)
    /\ calls[c].pc = "checked" =>
         LET k == calls[c].coupon
         IN  Room(Cardinality(RedemptionsOf(k, calls[c].customer)), coupon[k].perPhone)

LEMMA ClaimedStep ==
  ASSUME TypeOK, Owned, Held, Claimed, [Next]_vars
  PROVE  Claimed'
<1> USE TypeParts
<1> DEFINE OpenTo(c) == LET k == calls[c].coupon
                        IN  coupon[k].state = "LIVE" /\ Room(coupon[k].used, coupon[k].limit)
           PhoneOpenTo(c) ==
             LET k == calls[c].coupon
             IN  Room(Cardinality(RedemptionsOf(k, calls[c].customer)), coupon[k].perPhone)
<1>1. ASSUME NEW d \in Guests,
             \/ \E c \in Guests \ {d} : Serve(c)
             \/ \E c \in Staff : Attend(c)
             \/ Office
             \/ UNCHANGED vars
      PROVE  /\ calls'[d].pc \in {"claimed", "checked"} => OpenTo(d)'
             /\ calls'[d].pc = "checked" => PhoneOpenTo(d)'
  <2> SUFFICES ASSUME calls'[d].pc \in {"claimed", "checked"}
               PROVE  OpenTo(d)' /\ (calls'[d].pc = "checked" => PhoneOpenTo(d)')
    OBVIOUS
  <2>1. calls'[d] = calls[d]
    BY <1>1, OwnRequest
  <2> DEFINE k == calls[d].coupon
             p == calls[d].customer
  <2>2. k \in Coupons /\ holder[CouponRow(k)] = d /\ coupon[k].state = "LIVE"
    BY <2>1 DEF Held, Claimed
  <2>3. /\ coupon'[k] = coupon[k]
        /\ \A o \in Orders : redemption'[o] = k <=> redemption[o] = k
        /\ \A o \in Orders : redemption[o] = k => order'[o].customer = order[o].customer
    BY <1>1, <2>2, CouponRowKept
  <2>4. RedemptionsOf(k, p)' = RedemptionsOf(k, p)
    BY <2>1, <2>3 DEF RedemptionsOf, Redemptions
  <2>5. OpenTo(d)'
    BY <2>1, <2>3 DEF Claimed, Room
  <2>6. ASSUME calls'[d].pc = "checked" PROVE PhoneOpenTo(d)'
    <3>1. PhoneOpenTo(d)
      BY <2>1, <2>6 DEF Claimed
    <3> QED
      BY <2>1, <2>3, <2>4, <3>1 DEF Room
  <2> QED
    BY <2>5, <2>6
<1>2. ASSUME NEW d \in Guests, Serve(d)
      PROVE  /\ calls'[d].pc \in {"claimed", "checked"} => OpenTo(d)'
             /\ calls'[d].pc = "checked" => PhoneOpenTo(d)'
  <2>1. ASSUME NEW o \in Orders, NEW p \in Customers, NEW k \in Coupons \cup {"NONE"},
               NEW asks \in Asks \cup {0}, NEW locks \in BOOLEAN,
               PriceOrder(d, o, p, k, asks, locks)
        PROVE  calls'[d].pc = "priced"
    BY <2>1 DEF PriceOrder, Goto, CallsOK, Calls
  <2>2. CASE Claim(d) /\ ~Rollback(d)
    <3>1. /\ calls[d] # Idle
          /\ calls'[d] = [calls[d] EXCEPT !.pc = "claimed"]
          /\ coupon' = coupon
          /\ OpenTo(d)
      BY <2>2, NotIdle DEF Claim, Goto, CallsOK, Calls
    <3>2. calls'[d].pc = "claimed" /\ calls'[d].coupon = calls[d].coupon
      BY <3>1, GuestFields DEF GuestRequest
    <3> QED
      BY <3>1, <3>2 DEF Room
  <2>3. CASE Recheck(d) /\ ~Rollback(d)
    <3>1. /\ calls[d] # Idle
          /\ calls'[d] = [calls[d] EXCEPT !.pc = "checked"]
          /\ coupon' = coupon /\ redemption' = redemption /\ order' = order
          /\ OpenTo(d)
          /\ PhoneOpenTo(d)
      BY <2>3, NotIdle DEF Recheck, Goto, CallsOK, Calls, Claimed
    <3>2. calls'[d].coupon = calls[d].coupon /\ calls'[d].customer = calls[d].customer
      BY <3>1, GuestFields DEF GuestRequest
    <3> QED
      BY <3>1, <3>2 DEF Room, RedemptionsOf, Redemptions
  <2>4. CASE PlaceOrder(d) \/ Rollback(d)
    <3>1. calls'[d] = Idle
      BY <2>4 DEF PlaceOrder, Rollback, Goto, CallsOK, Calls
    <3> QED
      BY <3>1 DEF Idle
  <2> QED
    BY <1>2, <2>1, <2>2, <2>3, <2>4 DEF Serve, Abort
<1> QED
  BY <1>1, <1>2, NextKinds DEF Claimed

-----------------------------------------------------------------------------
(* A coupon's count is its redemptions                                     *)

Counted ==
  \A k \in Coupons :
    /\ IsFiniteSet(Redemptions(k))
    /\ coupon[k].state = "LIVE" => coupon[k].used = Cardinality(Redemptions(k))
    /\ coupon[k].state = "NONE" => Redemptions(k) = {}

LEMMA CountedStep ==
  ASSUME TypeOK, Owned, Held, Claimed, Counted, [Next]_vars
  PROVE  Counted'
<1> USE TypeParts
<1>0. "NONE" \notin Coupons
  BY RewardsAssumption
<1>1. ASSUME coupon' = coupon, redemption' = redemption PROVE Counted'
  BY <1>1 DEF Counted, Redemptions
<1>2. ASSUME NEW c \in Guests, PlaceOrder(c), calls[c].coupon # "NONE" PROVE Counted'
  <2>1. calls[c] # Idle /\ calls[c].pc = "checked"
    BY <1>2, NotIdle DEF PlaceOrder
  <2>2. PICK k \in Coupons, o \in Orders :
          k = calls[c].coupon /\ o = calls[c].order /\ redemption[o] = "NONE"
    BY <1>2, <2>1, GuestFields DEF Owned, OrdersOK
  <2>3. coupon[k].state = "LIVE"
    BY <2>1, <2>2 DEF Claimed
  <2>4. Redemptions(k)' = Redemptions(k) \cup {o} /\ o \notin Redemptions(k)
    BY <1>0, <1>2, <2>2 DEF PlaceOrder, Redemptions, OrdersOK
  <2>5. IsFiniteSet(Redemptions(k)') /\ Cardinality(Redemptions(k)') = Cardinality(Redemptions(k)) + 1
    <3>1. IsFiniteSet(Redemptions(k))
      BY DEF Counted
    <3>2. /\ IsFiniteSet(Redemptions(k) \cup {o})
          /\ Cardinality(Redemptions(k) \cup {o}) = Cardinality(Redemptions(k)) + 1
      BY <2>4, <3>1, FS_AddElement
    <3> QED
      BY <2>4, <3>2
  <2>6. /\ coupon'[k].state = coupon[k].state
        /\ coupon'[k].used = coupon[k].used + 1
        /\ \A j \in Coupons \ {k} : coupon'[j] = coupon[j]
    BY <1>2, <2>2 DEF PlaceOrder, CouponsOK
  <2>7. \A j \in Coupons \ {k} : Redemptions(j)' = Redemptions(j)
    BY <1>0, <1>2, <2>2 DEF PlaceOrder, Redemptions, OrdersOK
  <2>8. /\ IsFiniteSet(Redemptions(k)')
        /\ coupon'[k].state = "LIVE" => coupon'[k].used = Cardinality(Redemptions(k)')
        /\ coupon'[k].state # "NONE"
    BY <2>2, <2>3, <2>5, <2>6 DEF Counted
  <2> QED
    BY <2>6, <2>7, <2>8 DEF Counted
<1>3. ASSUME NEW c \in Guests, Serve(c) PROVE Counted'
  <2>1. CASE PlaceOrder(c) /\ calls[c].coupon = "NONE"
    <3>1. calls[c] # Idle
      BY <2>1, NotIdle DEF PlaceOrder
    <3>2. redemption[calls[c].order] = "NONE"
      BY <3>1, GuestFields DEF Owned, OrdersOK
    <3>3. coupon' = coupon /\ redemption' = redemption
      BY <2>1, <3>2 DEF PlaceOrder, OrdersOK
    <3> QED
      BY <1>1, <3>3
  <2>2. CASE ~PlaceOrder(c)
    <3>1. coupon' = coupon /\ redemption' = redemption
      BY <1>3, <2>2 DEF Serve, PriceOrder, Claim, Recheck, Abort, Rollback
    <3> QED
      BY <1>1, <3>1
  <2> QED
    BY <1>2, <2>1, <2>2
<1>4. ASSUME NEW c \in Staff, Delete(c) PROVE Counted'
  <2>1. PICK k \in Coupons : k = calls[c].coupon
    BY <1>4, NotIdle DEF Delete, CallsOK, StaffRequest
  <2>2. /\ coupon'[k].state = "GONE"
        /\ \A j \in Coupons \ {k} : coupon'[j] = coupon[j]
    BY <1>4, <2>1 DEF Delete, CouponsOK
  <2>3. /\ Redemptions(k)' = {}
        /\ \A j \in Coupons \ {k} : Redemptions(j)' = Redemptions(j)
    BY <1>0, <1>4, <2>1 DEF Delete, Redemptions, OrdersOK
  <2> QED
    BY <2>1, <2>2, <2>3, FS_EmptySet DEF Counted
<1>5. ASSUME NEW c \in Staff, Retire(c) PROVE Counted'
  <2>1. calls[c].coupon \in Coupons
    BY <1>5, NotIdle DEF Retire, CallsOK, StaffRequest
  <2>2. \A j \in Coupons : coupon'[j].state = coupon[j].state /\ coupon'[j].used = coupon[j].used
    BY <1>5, <2>1 DEF Retire, CouponsOK
  <2>3. \A j \in Coupons : Redemptions(j)' = Redemptions(j)
    BY <1>5 DEF Retire, Redemptions
  <2> QED
    BY <2>2, <2>3 DEF Counted
<1>6. ASSUME NEW c \in Staff, Attend(c) PROVE Counted'
  BY <1>1, <1>4, <1>5, <1>6 DEF Attend, BeginStatus, ReadLedger, CommitStatus, BeginAdjust,
     CommitAdjust, BeginRemove
<1>7. ASSUME NEW k \in Coupons, NEW limit, NEW perPhone, CreateCoupon(k, limit, perPhone)
      PROVE  Counted'
  <2>1. /\ coupon'[k].state = "LIVE" /\ coupon'[k].used = 0
        /\ \A j \in Coupons \ {k} : coupon'[j] = coupon[j]
    BY <1>7 DEF CreateCoupon, CouponsOK
  <2>2. \A j \in Coupons : Redemptions(j)' = Redemptions(j)
    BY <1>7 DEF CreateCoupon, Redemptions
  <2>3. Redemptions(k) = {}
    BY <1>7 DEF CreateCoupon, Counted
  <2> QED
    BY <2>1, <2>2, <2>3, FS_EmptySet DEF Counted
<1>8. ASSUME NEW k \in Coupons, NEW active, NEW limit, NEW perPhone,
             UpdateCoupon(k, active, limit, perPhone)
      PROVE  Counted'
  <2>1. \A j \in Coupons : coupon'[j].state = coupon[j].state /\ coupon'[j].used = coupon[j].used
    BY <1>8 DEF UpdateCoupon, CouponsOK
  <2>2. \A j \in Coupons : Redemptions(j)' = Redemptions(j)
    BY <1>8 DEF UpdateCoupon, Redemptions
  <2> QED
    BY <2>1, <2>2 DEF Counted
<1>9. ASSUME (\E on \in BOOLEAN : SaveProgram(on)) \/ UNCHANGED vars PROVE Counted'
  BY <1>1, <1>9 DEF SaveProgram, vars
<1> QED
  BY <1>3, <1>6, <1>7, <1>8, <1>9, NextKinds DEF Office

-----------------------------------------------------------------------------
(* Welcome points and points spent                                         *)

\* A customer that a request found to be new is new until it commits.
Firsts ==
  /\ \A p \in Customers :
       /\ customer[p].welcomed <= 1
       /\ ~customer[p].known => customer[p].welcomed = 0
  /\ \A c \in Guests : calls[c] # Idle /\ calls[c].first =>
       calls[c].locked /\ ~customer[calls[c].customer].known

\* The balance that a request quoted from is there until it commits.
Covered ==
  \A c \in Guests : calls[c] # Idle /\ calls[c].locked /\ calls[c].points > 0 =>
    customer[calls[c].customer].points >= calls[c].points

LEMMA CustomersStep ==
  ASSUME TypeOK, Held, Firsts, Covered, [Next]_vars
  PROVE  Firsts' /\ Covered'
<1> USE TypeParts
<1> DEFINE New(c) == calls[c] # Idle /\ calls[c].first =>
                       calls[c].locked /\ ~customer[calls[c].customer].known
           Funded(c) == calls[c] # Idle /\ calls[c].locked /\ calls[c].points > 0 =>
                          customer[calls[c].customer].points >= calls[c].points
           Welcomed(p) == /\ customer[p].welcomed <= 1
                          /\ ~customer[p].known => customer[p].welcomed = 0
<1>1. ASSUME NEW d \in Guests,
             \/ \E c \in Guests \ {d} : Serve(c)
             \/ \E c \in Staff : Attend(c)
             \/ Office
             \/ UNCHANGED vars
      PROVE  New(d)' /\ Funded(d)'
  <2>1. calls'[d] = calls[d]
    BY <1>1, OwnRequest
  <2>2. New(d) /\ Funded(d)
    BY DEF Firsts, Covered
  <2>3. CASE calls[d] # Idle /\ calls[d].locked
    <3>1. calls[d].customer \in Customers /\ holder[CustomerRow(calls[d].customer)] = d
      BY <2>3, GuestFields DEF Held
    <3>2. customer'[calls[d].customer] = customer[calls[d].customer]
      BY <1>1, <3>1, CustomerRowKept
    <3> QED
      BY <2>1, <2>2, <3>2
  <2>4. CASE ~(calls[d] # Idle /\ calls[d].locked)
    BY <2>1, <2>2, <2>4
  <2> QED
    BY <2>3, <2>4
<1>2. ASSUME NEW d \in Guests, Serve(d)
      PROVE  New(d)' /\ Funded(d)'
  <2>1. ASSUME NEW o \in Orders, NEW p \in Customers, NEW k \in Coupons \cup {"NONE"},
               NEW asks \in Asks \cup {0}, NEW locks \in BOOLEAN,
               PriceOrder(d, o, p, k, asks, locks)
        PROVE  New(d)' /\ Funded(d)'
    <3>1. /\ calls'[d].customer = p
          /\ calls'[d].points = Quoted(asks)
          /\ calls'[d].first = ~customer[p].known
          /\ calls'[d].locked = locks
          /\ customer' = customer
      BY <2>1 DEF PriceOrder, Goto, CallsOK, Calls
    <3>2. New(d)'
      BY <2>1, <3>1 DEF PriceOrder
    <3>3. Quoted(asks) > 0 => customer[p].points >= Quoted(asks)
      <4>1. /\ customer[p].points \in Int
            /\ asks \in Nat /\ Affordable \in Nat
            /\ asks # 0 => asks <= customer[p].points
        BY <2>1, RewardsAssumption DEF PriceOrder, QuoteAccepts, CustomersOK
      <4> QED
        BY <4>1 DEF Quoted
    <3> QED
      BY <3>1, <3>2, <3>3
  <2>2. CASE (Claim(d) \/ Recheck(d)) /\ ~Rollback(d)
    <3>1. /\ calls[d] # Idle
          /\ customer' = customer
          /\ \E pc \in {"claimed", "checked"} : calls'[d] = [calls[d] EXCEPT !.pc = pc]
      BY <2>2, NotIdle DEF Claim, Recheck, Goto, CallsOK, Calls
    <3>2. /\ calls'[d].customer = calls[d].customer
          /\ calls'[d].points = calls[d].points
          /\ calls'[d].first = calls[d].first
          /\ calls'[d].locked = calls[d].locked
      BY <3>1, GuestFields DEF GuestRequest
    <3> QED
      BY <3>1, <3>2 DEF Firsts, Covered
  <2>3. CASE PlaceOrder(d) \/ Rollback(d)
    BY <2>3 DEF PlaceOrder, Rollback, Goto, CallsOK, Calls
  <2> QED
    BY <1>2, <2>1, <2>2, <2>3 DEF Serve, Abort
<1>3. ASSUME NEW p \in Customers PROVE Welcomed(p)'
  <2>1. Welcomed(p) /\ customer[p].welcomed \in Nat
    BY DEF Firsts, CustomersOK
  <2>2. ASSUME NEW c \in Guests, PlaceOrder(c) PROVE Welcomed(p)'
    <3>1. calls[c] # Idle /\ calls[c].customer \in Customers
      BY <2>2, NotIdle, GuestFields DEF PlaceOrder
    <3>2. CASE calls[c].customer = p
      <4>1. /\ customer'[p].known
            /\ customer'[p].welcomed \in {customer[p].welcomed, customer[p].welcomed + 1}
            /\ ~calls[c].first => customer'[p].welcomed = customer[p].welcomed
        BY <2>2, <3>2 DEF PlaceOrder, Placed, CustomersOK
      <4>2. calls[c].first => customer[p].welcomed = 0
        BY <2>1, <3>1, <3>2 DEF Firsts
      <4> QED
        BY <2>1, <4>1, <4>2
    <3>3. CASE calls[c].customer # p
      BY <2>1, <2>2, <3>3 DEF PlaceOrder, Placed, CustomersOK
    <3> QED
      BY <3>2, <3>3
  <2>3. ASSUME NEW c \in Guests, Serve(c), ~PlaceOrder(c) PROVE Welcomed(p)'
    <3>1. customer' = customer
      BY <2>3 DEF Serve, PriceOrder, Claim, Recheck, Abort, Rollback
    <3> QED
      BY <2>1, <3>1
  <2>4. ASSUME NEW c \in Staff, Attend(c) PROVE Welcomed(p)'
    <3>1. \/ customer' = customer
          \/ \E q, n : customer' = [customer EXCEPT ![q].points = n]
      BY <2>4 DEF Attend, BeginStatus, ReadLedger, CommitStatus, BeginAdjust, CommitAdjust,
         BeginRemove, Retire, Delete
    <3>2. customer'[p].known = customer[p].known /\ customer'[p].welcomed = customer[p].welcomed
      BY <3>1 DEF CustomersOK
    <3> QED
      BY <2>1, <3>2
  <2>5. ASSUME Office \/ UNCHANGED vars PROVE Welcomed(p)'
    <3>1. customer' = customer
      BY <2>5 DEF Office, SaveProgram, CreateCoupon, UpdateCoupon, vars
    <3> QED
      BY <2>1, <3>1
  <2> QED
    BY <2>2, <2>3, <2>4, <2>5, NextKinds
<1>4. \A d \in Guests : New(d)' /\ Funded(d)'
  BY <1>1, <1>2, NextKinds
<1> QED
  BY <1>3, <1>4 DEF Firsts, Covered

-----------------------------------------------------------------------------
(* Theorems                                                                *)

IInv == TypeOK /\ Owned /\ Held /\ Claimed /\ Counted /\ Firsts /\ Covered

LEMMA InitIInv == Init => IInv
<1> SUFFICES ASSUME Init PROVE IInv
  OBVIOUS
<1>1. TypeOK
  <2>1. CallsOK /\ HoldersOK
    BY DEF Init, CallsOK, HoldersOK, Calls
  <2>3. CouponsOK
    BY DEF Init, CouponsOK
  <2>4. OrdersOK
    BY DEF Init, OrdersOK
  <2>2. CustomersOK
    <3>1. MaxPoints \in Nat
      BY RewardsAssumption
    <3>2. Strangers \cup Regulars \subseteq [points : Int, known : BOOLEAN, welcomed : Nat]
      <4>1. Strangers \subseteq [points : Int, known : BOOLEAN, welcomed : Nat]
        BY DEF Strangers
      <4>2. ASSUME NEW r \in Regulars
            PROVE  r \in [points : Int, known : BOOLEAN, welcomed : Nat]
        <5>1. PICK n \in 0..MaxPoints : r = [points |-> n, known |-> TRUE, welcomed |-> 1]
          BY DEF Regulars
        <5>2. n \in Int
          BY <3>1, <5>1
        <5> QED
          BY <5>1, <5>2
      <4> QED
        BY <4>1, <4>2
    <3>3. customer \in [Customers -> Strangers \cup Regulars] /\ enabled = TRUE
      BY DEF Init
    <3>4. customer \in [Customers -> [points : Int, known : BOOLEAN, welcomed : Nat]]
      <4> DEFINE S == Strangers \cup Regulars
                 T == [points : Int, known : BOOLEAN, welcomed : Nat]
      <4>1. S \subseteq T /\ customer \in [Customers -> S]
        BY <3>2, <3>3
      <4> HIDE DEF S, T
      <4>2. customer \in [Customers -> T]
        BY <4>1
      <4> QED
        BY <4>2 DEF T
    <3> QED
      BY <3>3, <3>4 DEF CustomersOK
  <2> QED
    BY <2>1, <2>2, <2>3, <2>4, TypeParts
<1>2. Owned /\ Held /\ Claimed /\ Covered
  BY DEF Init, Owned, Held, Claimed, Covered, Idle, Calls
<1>3. Counted
  <2>1. \A k \in Coupons : Redemptions(k) = {}
    BY RewardsAssumption DEF Init, Redemptions
  <2>2. \A k \in Coupons : coupon[k].state = "NONE"
    BY DEF Init
  <2> QED
    BY <2>1, <2>2, FS_EmptySet DEF Counted
<1>4. Firsts
  BY DEF Init, Firsts, Idle, Calls, Strangers, Regulars
<1> QED
  BY <1>1, <1>2, <1>3, <1>4 DEF IInv

LEMMA StepIInv == IInv /\ [Next]_vars => IInv'
BY TypeStep, OwnedStep, HeldStep, ClaimedStep, CountedStep, CustomersStep DEF IInv

LEMMA Invariant == Spec => []IInv
BY InitIInv, StepIInv, PTL DEF Spec

\* Rows and requests keep their types, however requests commit, roll back or
\* are overtaken by the deletion of their coupon.
THEOREM Typed == Spec => []TypeOK
BY Invariant, PTL DEF IInv

\* The usage count of a coupon is the number of its redemptions, however many
\* orders claim it and roll back.
THEOREM UsageAlwaysMatches == Spec => []UsageMatchesRedemptions
<1>1. IInv => UsageMatchesRedemptions
  BY DEF IInv, Counted, UsageMatchesRedemptions
<1> QED
  BY <1>1, Invariant, PTL

\* However many first orders of one number race, one of them is welcomed.
THEOREM WelcomedOnce == Spec => []WelcomeOnce
<1>1. IInv => WelcomeOnce
  BY DEF IInv, Firsts, WelcomeOnce
<1> QED
  BY <1>1, Invariant, PTL

\* An order raises the count of a coupon only while there is room under the
\* limit of that moment, and nothing else raises it.
THEOREM UsageStaysWithinLimit == Spec => UsageWithinLimit
<1> DEFINE WithinLimit ==
      \A k \in Coupons : coupon'[k].used > coupon[k].used =>
        coupon'[k].limit = Unlimited \/ coupon'[k].used <= coupon'[k].limit
<1>1. IInv /\ [Next]_vars => [WithinLimit]_vars
  <2> SUFFICES ASSUME IInv, Next, NEW k \in Coupons, coupon'[k].used > coupon[k].used
               PROVE  coupon'[k].limit = Unlimited \/ coupon'[k].used <= coupon'[k].limit
    OBVIOUS
  <2>0. /\ CouponsOK /\ Claimed
        /\ coupon[k].used \in Nat /\ coupon[k].limit \in Int
    BY RewardsAssumption, TypeParts DEF IInv, CouponsOK, Unlimited
  <2>1. ASSUME NEW c \in Guests, PlaceOrder(c)
        PROVE  coupon'[k].limit = Unlimited \/ coupon'[k].used <= coupon'[k].limit
    <3>1. calls[c].coupon = k /\ k # "NONE"
      BY <2>1, <2>0 DEF PlaceOrder, CouponsOK
    <3>2. calls[c].pc = "checked"
      BY <2>1, <3>1 DEF PlaceOrder
    <3>3. Room(coupon[k].used, coupon[k].limit)
      BY <2>0, <3>1, <3>2 DEF Claimed
    <3>4. coupon'[k].used = coupon[k].used + 1 /\ coupon'[k].limit = coupon[k].limit
      BY <2>0, <2>1, <3>1 DEF PlaceOrder, CouponsOK
    <3> QED
      BY <2>0, <3>3, <3>4 DEF Room
  <2>2. ASSUME NEW c \in Guests, Serve(c), ~PlaceOrder(c) PROVE coupon' = coupon
    BY <2>2 DEF Serve, PriceOrder, Claim, Recheck, Abort, Rollback
  <2>3. ASSUME NEW c \in Staff, Attend(c) PROVE coupon'[k].used = coupon[k].used
    <3>1. Retire(c) \/ Delete(c) => coupon'[k].used = coupon[k].used
      BY <2>0 DEF Retire, Delete, CouponsOK
    <3>2. ~Retire(c) /\ ~Delete(c) => coupon' = coupon
      BY <2>3 DEF Attend, BeginStatus, ReadLedger, CommitStatus, BeginAdjust, CommitAdjust,
         BeginRemove
    <3> QED
      BY <3>1, <3>2
  <2>4. ASSUME Office PROVE coupon'[k].used \in {coupon[k].used, 0}
    <3>1. ASSUME NEW j \in Coupons, NEW limit, NEW perPhone, CreateCoupon(j, limit, perPhone)
          PROVE  coupon'[k].used \in {coupon[k].used, 0}
      BY <2>0, <3>1 DEF CreateCoupon, CouponsOK
    <3>2. ASSUME NEW j \in Coupons, NEW active, NEW limit, NEW perPhone,
                 UpdateCoupon(j, active, limit, perPhone)
          PROVE  coupon'[k].used = coupon[k].used
      BY <2>0, <3>2 DEF UpdateCoupon, CouponsOK
    <3> QED
      BY <2>4, <3>1, <3>2 DEF Office, SaveProgram
  <2> QED
    BY <2>0, <2>1, <2>2, <2>3, <2>4 DEF Next, Office
<1> QED
  BY <1>1, Invariant, PTL DEF Spec, UsageWithinLimit

\* A phone number redeems a coupon only while it has room under the limit the
\* coupon sets one number, with orders of it in flight on any branch.
THEOREM PhoneStaysWithinLimit == Spec => PhoneWithinLimit
<1> DEFINE WithinLimit ==
      \A o \in Orders : redemption[o] = "NONE" /\ redemption'[o] # "NONE" =>
        LET k == redemption'[o]
        IN  Room(Cardinality(RedemptionsOf(k, order'[o].customer)), coupon[k].perPhone)
<1>1. IInv /\ [Next]_vars => [WithinLimit]_vars
  <2> SUFFICES ASSUME IInv, Next, NEW o \in Orders,
                      redemption[o] = "NONE", redemption'[o] # "NONE"
               PROVE  Room(Cardinality(RedemptionsOf(redemption'[o], order'[o].customer)),
                           coupon[redemption'[o]].perPhone)
    OBVIOUS
  <2> USE TypeParts DEF IInv
  <2>1. \E c \in Guests : PlaceOrder(c)
    <3>1. ASSUME NEW c \in Guests, Serve(c), ~PlaceOrder(c) PROVE FALSE
      BY <3>1 DEF Serve, PriceOrder, Claim, Recheck, Abort, Rollback
    <3>2. ASSUME NEW c \in Staff, Attend(c) PROVE FALSE
      BY <3>2 DEF Attend, BeginStatus, ReadLedger, CommitStatus, BeginAdjust, CommitAdjust,
         BeginRemove, Retire, Delete
    <3>3. ~Office
      BY DEF Office, SaveProgram, CreateCoupon, UpdateCoupon
    <3> QED
      BY <3>1, <3>2, <3>3 DEF Next, Office
  <2>2. PICK c \in Guests : PlaceOrder(c)
    BY <2>1
  <2>3. calls[c] # Idle /\ calls[c].order = o /\ redemption'[o] = calls[c].coupon
    BY <2>2, NotIdle DEF PlaceOrder, OrdersOK
  <2>4. calls[c].pc = "checked"
    BY <2>2, <2>3 DEF PlaceOrder
  <2>5. order'[o].customer = calls[c].customer
    BY <2>2, <2>3 DEF PlaceOrder, Placed, OrdersOK
  <2> QED
    BY <2>3, <2>4, <2>5 DEF Claimed
<1> QED
  BY <1>1, Invariant, PTL DEF Spec, PhoneWithinLimit

\* Both limits of a coupon hold, whatever races for its last use.
THEOREM LimitsHold == Spec => CouponLimitsHold
BY UsageStaysWithinLimit, PhoneStaysWithinLimit DEF CouponLimitsHold

\* Points that were quoted under the lock of the customer's row are there when
\* the order takes them, whatever staff and other orders do meanwhile.
THEOREM SpendStaysCovered == Spec => SpendIsCovered
<1> DEFINE SpendCovered ==
      \A c \in Guests :
        /\ calls[c] # Idle /\ calls[c].locked /\ calls[c].points > 0
        /\ customer' # customer /\ calls'[c] = Idle
        => customer'[calls[c].customer].points >= 0
<1>1. IInv /\ [Next]_vars => [SpendCovered]_vars
  <2> SUFFICES ASSUME IInv, Next, NEW c \in Guests,
                      calls[c] # Idle, calls[c].locked, calls[c].points > 0,
                      customer' # customer, calls'[c] = Idle
               PROVE  customer'[calls[c].customer].points >= 0
    OBVIOUS
  <2> USE TypeParts DEF IInv
  <2>1. Serve(c)
    BY OwnRequest, NextKinds
  <2>2. PlaceOrder(c)
    BY <2>1 DEF Serve, PriceOrder, Claim, Recheck, Abort, Rollback
  <2>3. PICK p \in Customers, n \in Nat : p = calls[c].customer /\ n = calls[c].points
    BY GuestFields
  <2>4. customer[p].points >= n /\ customer[p].points \in Int
    BY <2>3 DEF Covered, CustomersOK
  <2>5. \/ customer'[p].points = customer[p].points - n
        \/ customer'[p].points = customer[p].points - n + Welcome
    BY <2>2, <2>3, <2>4, RewardsAssumption DEF PlaceOrder, Placed, CustomersOK
  <2> QED
    BY <2>3, <2>4, <2>5, RewardsAssumption
<1> QED
  BY <1>1, Invariant, PTL DEF Spec, SpendIsCovered


-----------------------------------------------------------------------------
(* Orders end once: staff one at a time                                     *)

\* One request of the staff is answered before the next is taken; guests
\* order meanwhile as they like.
OneAttendant == \A c, d \in Staff : c = d

\* What the ledger says of an order: nothing until it ends, then its award or
\* its reversal, once.
Settled ==
  \A o \in Orders :
    /\ order[o].status \notin {"COMPLETED", "CANCELLED"} =>
         order[o].earned = 0 /\ order[o].returned = 0
    /\ order[o].status = "COMPLETED" => order[o].earned \in {0, Award} /\ order[o].returned = 0
    /\ order[o].status = "CANCELLED" => Net(o) + order[o].returned = 0

\* The order that staff are moving on is still open, and the movement read for
\* it is still the one to make.
Reading ==
  \A c \in Staff :
    /\ calls[c].pc \in {"status", "move"} => order[calls[c].order].status = "OPEN"
    /\ calls[c].pc = "move" /\ calls[c].to = "COMPLETED" => calls[c].points \in {0, Award}
    /\ calls[c].pc = "move" /\ calls[c].to = "CANCELLED" =>
         calls[c].points = -Net(calls[c].order)

SettledInv == IInv /\ Settled /\ Reading

\* Steps that write no order leave the ledger as it is.
LEMMA LedgerKept ==
  ASSUME UNCHANGED order
  PROVE  /\ Settled => Settled'
         /\ \A o \in Orders : Net(o)' = Net(o)
BY DEF Settled, Net

LEMMA GuestSettles ==
  ASSUME SettledInv, NEW c \in Guests, Serve(c)
  PROVE  Settled' /\ Reading'
<1>t. TypeOK /\ CallsOK /\ OrdersOK /\ Owned
  BY TypeParts DEF SettledInv, IInv
<1>1. \A d \in Staff : calls'[d] = calls[d]
  BY <1>t, OtherCalls, RewardsAssumption DEF Calls
<1>2. CASE UNCHANGED order
  <2>1. Settled'
    BY <1>2, LedgerKept DEF SettledInv
  <2>2. Reading'
    BY <1>1, <1>2 DEF SettledInv, Reading, Net
  <2> QED
    BY <2>1, <2>2
<1>3. CASE PlaceOrder(c)
  <2> DEFINE o == calls[c].order
  <2>1. calls[c] # Idle
    BY <1>3 DEF PlaceOrder, Idle
  <2>2. o \in Orders /\ order[o] = NoOrder /\ calls[c].points \in Nat
    BY <2>1, <1>t, GuestFields DEF Owned
  <2>3. /\ order'[o].status = "OPEN" /\ order'[o].earned = 0 /\ order'[o].returned = 0
        /\ \A x \in Orders \ {o} : order'[x] = order[x]
    BY <1>3, <1>t, <2>2 DEF PlaceOrder, Placed, OrdersOK
  <2>4. Settled'
    BY <2>3 DEF SettledInv, Settled, Net
  <2>5. \A d \in Staff : calls[d].pc \in {"status", "move"} =>
          calls[d].order # o /\ calls[d].order \in Orders
    BY <2>2, <1>t DEF Owned, CallsOK, StaffRequest, Idle
  <2>6. Reading'
    BY <2>3, <2>5, <1>1 DEF SettledInv, Reading, Net
  <2> QED
    BY <2>4, <2>6
<1> QED
  BY <1>2, <1>3 DEF Serve, PriceOrder, Claim, Recheck, Abort, Rollback

LEMMA StaffSettles ==
  ASSUME OneAttendant, SettledInv, NEW c \in Staff, Attend(c)
  PROVE  Settled' /\ Reading'
<1>t. TypeOK /\ CallsOK /\ OrdersOK /\ Owned
  BY TypeParts DEF SettledInv, IInv
<1>s. Settled /\ Reading
  BY DEF SettledInv
<1>c. c \in Calls
  BY DEF Calls
<1>g. ASSUME NEW r, Goto(c, r) PROVE \A d \in Staff : calls'[d] = r
  BY <1>g, <1>c, <1>t DEF Goto, OneAttendant, CallsOK
<1>1. ASSUME NEW o \in Orders, NEW to \in {"COMPLETED", "CANCELLED"}, BeginStatus(c, o, to)
      PROVE  Settled' /\ Reading'
  <2>1. \A d \in Staff : calls'[d] = [pc |-> "status", order |-> o, to |-> to]
    BY <1>1, <1>g DEF BeginStatus
  <2>2. UNCHANGED order /\ order[o].status = "OPEN"
    BY <1>1 DEF BeginStatus
  <2> QED
    BY <2>1, <2>2, <1>s, LedgerKept DEF Reading
<1>2. CASE ReadLedger(c)
  <2> DEFINE o == calls[c].order
             to == calls[c].to
  <2>1. \A d \in Staff : calls'[d] = [pc |-> "move", order |-> o, to |-> to,
                                      points |-> Movement(o, to)]
    BY <1>2, <1>g DEF ReadLedger
  <2>2. UNCHANGED order /\ order[o].status = "OPEN"
    BY <1>2, <1>s DEF ReadLedger, Reading
  <2>3. o \in Orders
    BY <1>2, <1>t DEF ReadLedger, CallsOK, StaffRequest, Idle
  <2>4. /\ to = "COMPLETED" => Movement(o, to) \in {0, Award}
        /\ to = "CANCELLED" => Movement(o, to) = -Net(o)
    BY DEF Movement
  <2>5. Reading'
    BY <2>1, <2>2, <2>3, <2>4, LedgerKept DEF Reading
  <2> QED
    BY <2>2, <2>5, <1>s, LedgerKept
<1>3. CASE CommitStatus(c)
  <2> DEFINE o == calls[c].order
             to == calls[c].to
             points == calls[c].points
  <2>1. /\ o \in Orders /\ to \in {"COMPLETED", "CANCELLED"} /\ points \in Int
        /\ order[o].status = "OPEN"
    BY <1>3, <1>t, <1>s DEF CommitStatus, CallsOK, StaffRequest, Idle, Reading
  <2>2. order[o].earned = 0 /\ order[o].returned = 0 /\ order[o].redeemed \in Int
    BY <2>1, <1>s, <1>t DEF Settled, OrdersOK, PlacedOrder, NoOrder
  <2>3. /\ to = "COMPLETED" => points \in {0, Award}
        /\ to = "CANCELLED" => points = -(order[o].earned + order[o].redeemed)
    BY <1>3, <1>s DEF CommitStatus, Reading, Net
  <2>a. Award \in Nat
    BY RewardsAssumption
  <2>4. /\ order'[o].status = to
        /\ order'[o].redeemed = order[o].redeemed
        /\ order'[o].earned = order[o].earned + (IF to = "COMPLETED" THEN points ELSE 0)
        /\ order'[o].returned = order[o].returned + (IF to = "CANCELLED" THEN points ELSE 0)
        /\ \A x \in Orders \ {o} : order'[x] = order[x]
    BY <1>3, <1>t, <2>1 DEF CommitStatus, OrdersOK
  <2> DEFINE Row(r) ==
        /\ r.status \notin {"COMPLETED", "CANCELLED"} => r.earned = 0 /\ r.returned = 0
        /\ r.status = "COMPLETED" => r.earned \in {0, Award} /\ r.returned = 0
        /\ r.status = "CANCELLED" => r.earned + r.redeemed + r.returned = 0
  <2>rows. /\ \A x \in Orders : Row(order[x])
           /\ (\A x \in Orders : Row(order'[x])) => Settled'
    BY <1>s DEF Settled, Net
  <2>next. Reading'
    <3>1. \A d \in Staff : calls'[d] = Idle
      BY <1>3, <1>g DEF CommitStatus
    <3> QED
      BY <3>1 DEF Reading, Idle
  <2>5. CASE to = "COMPLETED"
    <3>1. /\ order'[o].status = "COMPLETED"
          /\ order'[o].earned \in {0, Award} /\ order'[o].returned = 0
      BY <2>2, <2>3, <2>4, <2>5, <2>a
    <3>2. Row(order'[o])
      BY <3>1
    <3>3. \A x \in Orders \ {o} : Row(order'[x])
      BY <2>rows, <2>4
    <3> HIDE DEF Row
    <3> QED
      BY <3>2, <3>3, <2>rows, <2>next
  <2>6. CASE to = "CANCELLED"
    <3>1. /\ order'[o].status = "CANCELLED"
          /\ order'[o].earned + order'[o].redeemed + order'[o].returned = 0
      BY <2>1, <2>2, <2>3, <2>4, <2>6
    <3>2. Row(order'[o])
      BY <3>1
    <3>3. \A x \in Orders \ {o} : Row(order'[x])
      BY <2>rows, <2>4
    <3> HIDE DEF Row
    <3> QED
      BY <3>2, <3>3, <2>rows, <2>next
  <2> QED
    BY <2>1, <2>5, <2>6
<1>4. CASE CommitAdjust(c) \/ Retire(c) \/ Delete(c)
  <2>1. UNCHANGED order /\ \A d \in Staff : calls'[d] = Idle
    BY <1>4, <1>g DEF CommitAdjust, Retire, Delete
  <2>2. Reading'
    BY <2>1 DEF Reading, Idle
  <2> QED
    BY <2>1, <2>2, <1>s, LedgerKept
<1>5. ASSUME NEW p \in Customers, NEW n, BeginAdjust(c, p, n) PROVE Settled' /\ Reading'
  <2>1. UNCHANGED order
        /\ \A d \in Staff : calls'[d] = [pc |-> "adjust", customer |-> p, points |-> n]
    BY <1>5, <1>g DEF BeginAdjust
  <2>2. Reading'
    BY <2>1 DEF Reading
  <2> QED
    BY <2>1, <2>2, <1>s, LedgerKept
<1>6. ASSUME NEW k \in Coupons, BeginRemove(c, k) PROVE Settled' /\ Reading'
  <2>1. UNCHANGED order /\ \A d \in Staff : calls'[d].pc \in {"delete", "retire"}
    BY <1>6, <1>g DEF BeginRemove
  <2>2. Reading'
    BY <2>1 DEF Reading
  <2> QED
    BY <2>1, <2>2, <1>s, LedgerKept
<1> QED
  BY <1>1, <1>2, <1>3, <1>4, <1>5, <1>6 DEF Attend

LEMMA SettledStep == OneAttendant /\ SettledInv /\ [Next]_vars => SettledInv'
<1> SUFFICES ASSUME OneAttendant, SettledInv, [Next]_vars PROVE Settled' /\ Reading'
  BY StepIInv DEF SettledInv
<1>1. CASE Office \/ UNCHANGED vars
  <2>1. UNCHANGED <<order, calls>>
    BY <1>1 DEF Office, SaveProgram, CreateCoupon, UpdateCoupon, vars
  <2> QED
    BY <2>1 DEF SettledInv, Settled, Reading, Net
<1> QED
  BY <1>1, NextKinds, GuestSettles, StaffSettles

\* Whatever guests do meanwhile, an order that staff end one at a time is
\* settled with its customer: one award, or the reversal of what it took.
THEOREM EndedOrdersAreSettled == OneAttendant => (Spec => []EndedMeansSettled)
<1> SUFFICES ASSUME OneAttendant PROVE Spec => []EndedMeansSettled
  OBVIOUS
<1>1. Init => SettledInv
  <2> SUFFICES ASSUME Init PROVE SettledInv
    OBVIOUS
  <2>1. Settled /\ Reading
    BY DEF Init, Settled, Reading, NoOrder, Idle, Calls
  <2> QED
    BY <2>1, InitIInv DEF SettledInv
<1>2. SettledInv /\ [Next]_vars => SettledInv'
  BY SettledStep
<1>3. SettledInv => EndedMeansSettled
  BY DEF SettledInv, Settled, EndedMeansSettled
<1> QED
  BY <1>1, <1>2, <1>3, PTL DEF Spec
=============================================================================
