------------------------------ MODULE Rewards ------------------------------
(***************************************************************************)
(* Coupons and loyalty points: what an order takes when it is placed and   *)
(* what it gives when it ends.  Placing an order is one transaction under  *)
(* READ COMMITTED: the coupon and the points are priced from what has been *)
(* committed, the coupon is claimed by a conditional UPDATE that holds its *)
(* row, and everything commits or rolls back together.  Orders may be of   *)
(* different branches, so nothing else serialises them.                    *)
(***************************************************************************)
EXTENDS Integers, FiniteSets

CONSTANTS
  Orders,        \* order ids
  Customers,     \* phone numbers
  Coupons,       \* coupon ids
  Guests,        \* slots for orders being placed
  Staff,         \* slots for requests of the staff
  Limits,        \* limits an owner gives a coupon
  Asks,          \* points a guest may ask to spend
  Affordable,    \* points the bill of an order can bear
  MinRedeem,     \* fewest points an order may spend
  Welcome,       \* points of a first order
  Award,         \* points of a completed order
  Corrections,   \* numbers of points staff add or take by hand
  MaxPoints      \* bound: the balance at first, and the one staff add up to

Unlimited == -1   \* a limit that is null

ASSUME RewardsAssumption ==
  /\ Limits \subseteq Nat
  /\ Asks \cup Corrections \subseteq Nat \ {0}
  /\ {Affordable, MinRedeem, Welcome, Award, MaxPoints} \subseteq Nat
  /\ Guests \cap Staff = {}
  /\ "NONE" \notin Orders \cup Coupons \cup Guests \cup Staff

VARIABLES
  coupon,       \* coupon[k]: its state, switch, limits and usage count
  redemption,   \* redemption[o]: the coupon order o redeemed, or NONE
  order,        \* order[o]: status, customer, and its lines in the ledger
  customer,     \* customer[p]: balance, whether known, welcome lines
  enabled,      \* whether the points scheme is switched on
  holder,       \* holder[r]: the call that holds the row of coupon or customer r
  calls         \* calls[c]: where request c is, and what it has read

vars == <<coupon, redemption, order, customer, enabled, holder, calls>>

Calls == Guests \cup Staff
Rows == {<<"coupon", k>> : k \in Coupons} \cup {<<"customer", p>> : p \in Customers}
Idle == [pc |-> "idle"]
NoOrder == [status |-> "NONE", customer |-> "NONE",
            earned |-> 0, redeemed |-> 0, returned |-> 0]

\* Phone numbers nobody has ordered with, and those of earlier guests.
Strangers == {[points |-> 0, known |-> FALSE, welcomed |-> 0]}
Regulars == {[points |-> n, known |-> TRUE, welcomed |-> 1] : n \in 0..MaxPoints}

Init ==
  /\ coupon = [k \in Coupons |-> [state |-> "NONE", active |-> FALSE, used |-> 0,
                                  limit |-> Unlimited, perPhone |-> Unlimited]]
  /\ redemption = [o \in Orders |-> "NONE"]
  /\ order = [o \in Orders |-> NoOrder]
  /\ customer \in [Customers -> Strangers \cup Regulars]
  /\ enabled = TRUE
  /\ holder = [r \in Rows |-> "NONE"]
  /\ calls = [c \in Calls |-> Idle]

Room(n, limit) == limit = Unlimited \/ n < limit
Redemptions(k) == {o \in Orders : redemption[o] = k}
RedemptionsOf(k, p) == {o \in Redemptions(k) : order[o].customer = p}

\* A row that c may write: nobody else's transaction has written it.
Free(r, c) == holder[r] \in {"NONE", c}

\* What c holds when its transaction is over.
Released(c) == [r \in Rows |-> IF holder[r] = c THEN "NONE" ELSE holder[r]]

Goto(c, request) == calls' = [calls EXCEPT ![c] = request]

\* The transaction of c rolls back.
Rollback(c) ==
  /\ holder' = Released(c)
  /\ Goto(c, Idle)
  /\ UNCHANGED <<coupon, redemption, order, customer, enabled>>

-----------------------------------------------------------------------------
(* Placing an order: createOrder                                           *)

\* CouponsService.evaluate, from what is committed.  The dates, the minimum
\* total and the amount are left to the guest's choice of code.
Redeemable(k, p) ==
  /\ coupon[k].state = "LIVE"
  /\ coupon[k].active
  /\ Room(coupon[k].used, coupon[k].limit)
  /\ Room(Cardinality(RedemptionsOf(k, p)), coupon[k].perPhone)

\* quoteRedemption: all the limits hold, and the smallest wins.
QuoteAccepts(p, asks) ==
  /\ enabled
  /\ asks <= customer[p].points
  /\ asks >= MinRedeem
  /\ Affordable >= MinRedeem

Quoted(asks) == IF asks <= Affordable THEN asks ELSE Affordable

\* Mutant: the upsert does not hold the customer's row.
PriceOrderUnlocked(c, o, p, k, asks, locks) ==
  /\ calls[c] = Idle
  /\ order[o].status = "NONE"
  /\ \A d \in Guests : calls[d] # Idle => calls[d].order # o
  /\ ~customer[p].known => locks
  /\ k # "NONE" => Redeemable(k, p)
  /\ asks # 0 => QuoteAccepts(p, asks)
  /\ Goto(c, [pc |-> "priced", order |-> o, customer |-> p, coupon |-> k,
              points |-> Quoted(asks), first |-> ~customer[p].known, locked |-> locks])
  /\ UNCHANGED <<coupon, redemption, order, customer, enabled, holder>>

\* The upsert writes the customer's row if the customer is new or gives a name;
\* of a returning guest who gives none it may only read it.
PriceOrder(c, o, p, k, asks, locks) ==
  /\ calls[c] = Idle
  /\ order[o].status = "NONE"
  /\ \A d \in Guests : calls[d] # Idle => calls[d].order # o
  /\ ~customer[p].known => locks
  /\ k # "NONE" => Redeemable(k, p)
  /\ locks => Free(<<"customer", p>>, c)
  /\ asks # 0 => QuoteAccepts(p, asks)
  /\ Goto(c, [pc |-> "priced", order |-> o, customer |-> p, coupon |-> k,
              points |-> Quoted(asks), first |-> ~customer[p].known, locked |-> locks])
  /\ holder' = IF locks THEN [holder EXCEPT ![<<"customer", p>>] = c] ELSE holder
  /\ UNCHANGED <<coupon, redemption, order, customer, enabled>>

\* Mutant: evaluate() is trusted, the claim counts without looking.
ClaimUnchecked(c) ==
  /\ calls[c].pc = "priced"
  /\ calls[c].coupon # "NONE"
  /\ LET k == calls[c].coupon
     IN  /\ Free(<<"coupon", k>>, c)
         /\ IF coupon[k].state = "LIVE"
            THEN /\ holder' = [holder EXCEPT ![<<"coupon", k>>] = c]
                 /\ Goto(c, [calls[c] EXCEPT !.pc = "claimed"])
                 /\ UNCHANGED <<coupon, redemption, order, customer, enabled>>
            ELSE Rollback(c)

\* Mutant: the redemption is written before the order it belongs to commits.
ClaimAndRecord(c) ==
  /\ calls[c].pc = "priced"
  /\ calls[c].coupon # "NONE"
  /\ Free(<<"coupon", calls[c].coupon>>, c)
  /\ holder' = [holder EXCEPT ![<<"coupon", calls[c].coupon>>] = c]
  /\ redemption' = [redemption EXCEPT ![calls[c].order] = calls[c].coupon]
  /\ Goto(c, [calls[c] EXCEPT !.pc = "claimed"])
  /\ UNCHANGED <<coupon, order, customer, enabled>>

\* redeem(), the conditional UPDATE: waits for the row, looks again, and holds
\* the row until the order commits.  No row affected, no order.
Claim(c) ==
  /\ calls[c].pc = "priced"
  /\ calls[c].coupon # "NONE"
  /\ LET k == calls[c].coupon
     IN  /\ Free(<<"coupon", k>>, c)
         /\ IF coupon[k].state = "LIVE" /\ coupon[k].active
               /\ Room(coupon[k].used, coupon[k].limit)
            THEN /\ holder' = [holder EXCEPT ![<<"coupon", k>>] = c]
                 /\ Goto(c, [calls[c] EXCEPT !.pc = "claimed"])
                 /\ UNCHANGED <<coupon, redemption, order, customer, enabled>>
            ELSE Rollback(c)

\* What a committed order does to the balance and the ledger.
Placed(o, c) ==
  LET p == calls[c].customer
      welcomes == calls[c].first /\ enabled /\ Welcome > 0
  IN  /\ order' = [order EXCEPT ![o] =
           [status |-> "OPEN", customer |-> p,
            earned |-> 0, redeemed |-> -calls[c].points, returned |-> 0]]
      /\ customer' = [customer EXCEPT ![p] =
           [points |-> @.points - calls[c].points + (IF welcomes THEN Welcome ELSE 0),
            known |-> TRUE,
            welcomed |-> @.welcomed + (IF welcomes THEN 1 ELSE 0)]]

\* The limit of one phone, looked at again under the lock.
Recheck(c) ==
  /\ calls[c].pc = "claimed"
  /\ LET k == calls[c].coupon
         used == Cardinality(RedemptionsOf(k, calls[c].customer))
     IN  IF Room(used, coupon[k].perPhone)
         THEN /\ Goto(c, [calls[c] EXCEPT !.pc = "checked"])
              /\ UNCHANGED <<coupon, redemption, order, customer, enabled, holder>>
         ELSE Rollback(c)

\* The redemption, the customer's row, the ledger, and the commit.
PlaceOrder(c) ==
  /\ \/ calls[c].pc = "checked"
     \/ calls[c].pc = "priced" /\ calls[c].coupon = "NONE"
  /\ LET k == calls[c].coupon
         o == calls[c].order
     IN  /\ Free(<<"customer", calls[c].customer>>, c)
         /\ Placed(o, c)
         /\ redemption' = [redemption EXCEPT ![o] = k]
         /\ coupon' = IF k = "NONE" THEN coupon ELSE [coupon EXCEPT ![k].used = @ + 1]
  /\ holder' = Released(c)
  /\ Goto(c, Idle)
  /\ UNCHANGED enabled

\* The transaction of an order dies: a later statement throws, the client is
\* gone, or PostgreSQL breaks a deadlock of two orders that wait for a row of
\* each other's.
Abort(c) == calls[c] # Idle /\ Rollback(c)

-----------------------------------------------------------------------------
(* Orders end: updateStatus                                                *)

BeginStatus(c, o, to) ==
  /\ calls[c] = Idle
  /\ order[o].status = "OPEN"
  /\ Goto(c, [pc |-> "status", order |-> o, to |-> to])
  /\ UNCHANGED <<coupon, redemption, order, customer, enabled, holder>>

\* What the ledger says about an order: its net, for earnForOrder and
\* reverseForOrder alike.
Net(o) == order[o].earned + order[o].redeemed

\* Mutant: a cancellation takes back what was earned and keeps what was spent.
MovementOfEarned(o, to) ==
  IF to = "CANCELLED" THEN -order[o].earned
  ELSE IF order[o].earned = 0 /\ enabled THEN Award ELSE 0

\* The movement a transition causes, from the ledger as it is read: an award,
\* unless the order has one, or the reversal of the order's net.
Movement(o, to) ==
  IF to = "CANCELLED" THEN -Net(o)
  ELSE IF order[o].earned = 0 /\ enabled THEN Award ELSE 0

ReadLedger(c) ==
  /\ calls[c].pc = "status"
  /\ Goto(c, [pc |-> "move", order |-> calls[c].order, to |-> calls[c].to,
              points |-> Movement(calls[c].order, calls[c].to)])
  /\ UNCHANGED <<coupon, redemption, order, customer, enabled, holder>>

CommitStatus(c) ==
  /\ calls[c].pc = "move"
  /\ LET o == calls[c].order
         p == order[o].customer
         to == calls[c].to
         points == calls[c].points
     IN  /\ Free(<<"customer", p>>, c)
         /\ order' = [order EXCEPT ![o] =
              [status |-> to, customer |-> p, redeemed |-> @.redeemed,
               earned |-> @.earned + (IF to = "COMPLETED" THEN points ELSE 0),
               returned |-> @.returned + (IF to = "CANCELLED" THEN points ELSE 0)]]
         /\ customer' = [customer EXCEPT ![p].points = @ + points]
  /\ Goto(c, Idle)
  /\ UNCHANGED <<coupon, redemption, enabled, holder>>

-----------------------------------------------------------------------------
(* The back office: the scheme, corrections, coupons                       *)

SaveProgram(on) ==
  /\ enabled # on
  /\ enabled' = on
  /\ UNCHANGED <<coupon, redemption, order, customer, holder, calls>>

\* adjust() refuses what would go below zero, then opens its transaction.
BeginAdjust(c, p, points) ==
  /\ calls[c] = Idle
  /\ customer[p].known
  /\ customer[p].points + points >= 0
  /\ points > 0 => customer[p].points + points <= MaxPoints
  /\ Goto(c, [pc |-> "adjust", customer |-> p, points |-> points])
  /\ UNCHANGED <<coupon, redemption, order, customer, enabled, holder>>

CommitAdjust(c) ==
  /\ calls[c].pc = "adjust"
  /\ Free(<<"customer", calls[c].customer>>, c)
  /\ customer' = [customer EXCEPT ![calls[c].customer].points = @ + calls[c].points]
  /\ Goto(c, Idle)
  /\ UNCHANGED <<coupon, redemption, order, enabled, holder>>

CreateCoupon(k, limit, perPhone) ==
  /\ coupon[k].state = "NONE"
  /\ coupon' = [coupon EXCEPT ![k] = [state |-> "LIVE", active |-> TRUE, used |-> 0,
                                      limit |-> limit, perPhone |-> perPhone]]
  /\ UNCHANGED <<redemption, order, customer, enabled, holder, calls>>

\* Mutant: saving a coupon starts its count again.
UpdateCouponReset(k, active, limit, perPhone) ==
  /\ coupon[k].state = "LIVE"
  /\ holder[<<"coupon", k>>] = "NONE"
  /\ coupon' = [coupon EXCEPT ![k] = [@ EXCEPT !.active = active, !.limit = limit,
                                               !.perPhone = perPhone, !.used = 0]]
  /\ UNCHANGED <<redemption, order, customer, enabled, holder, calls>>

\* An owner may change the limits of a coupon in use, below what is used too.
UpdateCoupon(k, active, limit, perPhone) ==
  /\ coupon[k].state = "LIVE"
  /\ holder[<<"coupon", k>>] = "NONE"
  /\ coupon' = [coupon EXCEPT ![k] = [@ EXCEPT !.active = active, !.limit = limit,
                                               !.perPhone = perPhone]]
  /\ UNCHANGED <<redemption, order, customer, enabled, holder, calls>>

\* A coupon without redemptions goes, one with redemptions is switched off.
BeginRemove(c, k) ==
  /\ calls[c] = Idle
  /\ coupon[k].state = "LIVE"
  /\ Goto(c, [pc |-> IF Redemptions(k) = {} THEN "delete" ELSE "retire", coupon |-> k])
  /\ UNCHANGED <<coupon, redemption, order, customer, enabled, holder>>

Retire(c) ==
  /\ calls[c].pc = "retire"
  /\ LET k == calls[c].coupon
     IN  /\ holder[<<"coupon", k>>] = "NONE"
         /\ coupon' = IF coupon[k].state = "LIVE"
                      THEN [coupon EXCEPT ![k].active = FALSE] ELSE coupon
  /\ Goto(c, Idle)
  /\ UNCHANGED <<redemption, order, customer, enabled, holder>>

\* The redemptions go with the coupon (onDelete: Cascade).
Delete(c) ==
  /\ calls[c].pc = "delete"
  /\ LET k == calls[c].coupon
     IN  /\ holder[<<"coupon", k>>] = "NONE"
         /\ coupon' = [coupon EXCEPT ![k].state = "GONE"]
         /\ redemption' = [o \in Orders |->
              IF redemption[o] = k THEN "NONE" ELSE redemption[o]]
  /\ Goto(c, Idle)
  /\ UNCHANGED <<order, customer, enabled, holder>>

Serve(c) ==
  \/ \E o \in Orders, p \in Customers, k \in Coupons \cup {"NONE"}, asks \in Asks \cup {0},
        locks \in BOOLEAN : PriceOrder(c, o, p, k, asks, locks)
  \/ Claim(c)
  \/ Recheck(c)
  \/ PlaceOrder(c)
  \/ Abort(c)

Attend(c) ==
  \/ \E o \in Orders, to \in {"COMPLETED", "CANCELLED"} : BeginStatus(c, o, to)
  \/ ReadLedger(c)
  \/ CommitStatus(c)
  \/ \E p \in Customers, n \in Corrections :
        BeginAdjust(c, p, n) \/ BeginAdjust(c, p, -n)
  \/ CommitAdjust(c)
  \/ \E k \in Coupons : BeginRemove(c, k)
  \/ Retire(c)
  \/ Delete(c)

Next ==
  \/ \E c \in Guests : Serve(c)
  \/ \E c \in Staff : Attend(c)
  \/ \E on \in BOOLEAN : SaveProgram(on)
  \/ \E k \in Coupons, limit, perPhone \in Limits \cup {Unlimited} :
        CreateCoupon(k, limit, perPhone)
  \/ \E k \in Coupons, active \in BOOLEAN,
        limit, perPhone \in Limits \cup {Unlimited} :
        UpdateCoupon(k, active, limit, perPhone)

Spec == Init /\ [][Next]_vars

-----------------------------------------------------------------------------
(* Properties                                                              *)

GuestRequest ==
  [pc : {"priced", "claimed", "checked"}, order : Orders, customer : Customers,
   coupon : Coupons \cup {"NONE"}, points : Nat, first : BOOLEAN, locked : BOOLEAN]

StaffRequest ==
  [pc : {"status"}, order : Orders, to : {"COMPLETED", "CANCELLED"}]
  \cup [pc : {"move"}, order : Orders, to : {"COMPLETED", "CANCELLED"}, points : Int]
  \cup [pc : {"adjust"}, customer : Customers, points : Int]
  \cup [pc : {"delete", "retire"}, coupon : Coupons]

PlacedOrder ==
  [status : {"OPEN", "COMPLETED", "CANCELLED"}, customer : Customers,
   earned : Int, redeemed : Int, returned : Int]

\* Rows and requests keep their types: a placed order has a customer, a
\* redemption is of a placed order, and a coupon is never used a negative
\* number of times, in whatever order requests commit, roll back or are
\* overtaken by the deletion of their coupon.
TypeOK ==
  /\ coupon \in [Coupons -> [state : {"NONE", "LIVE", "GONE"}, active : BOOLEAN,
                             used : Nat, limit : Limits \cup {Unlimited},
                             perPhone : Limits \cup {Unlimited}]]
  /\ redemption \in [Orders -> Coupons \cup {"NONE"}]
  /\ order \in [Orders -> {NoOrder} \cup PlacedOrder]
  /\ customer \in [Customers -> [points : Int, known : BOOLEAN, welcomed : Nat]]
  /\ enabled \in BOOLEAN
  /\ holder \in [Rows -> Guests \cup {"NONE"}]
  /\ calls \in [Calls -> {Idle} \cup GuestRequest \cup StaffRequest]
  /\ \A c \in Guests : calls[c] \in {Idle} \cup GuestRequest
  /\ \A c \in Staff : calls[c] \in {Idle} \cup StaffRequest
  /\ \A o \in Orders : redemption[o] # "NONE" => order[o] # NoOrder

\* "The limit is enforced by the database": no redemption takes a coupon past
\* the usage limit it has at that moment, whatever evaluate() saw before.
UsageWithinLimit ==
  [][\A k \in Coupons :
       coupon'[k].used > coupon[k].used =>
         coupon'[k].limit = Unlimited \/ coupon'[k].used <= coupon'[k].limit]_vars

\* Nor does a phone number redeem a coupon more often than the coupon allows
\* it, with orders of that number in flight on two branches.
PhoneWithinLimit ==
  [][\A o \in Orders :
       redemption[o] = "NONE" /\ redemption'[o] # "NONE" =>
         LET k == redemption'[o]
         IN  Room(Cardinality(RedemptionsOf(k, order'[o].customer)), coupon[k].perPhone)]_vars

\* Both limits of a coupon hold, with its last use claimed by two orders, of
\* one number or of two.
CouponLimitsHold == UsageWithinLimit /\ PhoneWithinLimit

\* The usage count of a coupon is the number of its redemptions, whichever
\* orders rolled back after claiming it.
UsageMatchesRedemptions ==
  \A k \in Coupons :
    coupon[k].state = "LIVE" => coupon[k].used = Cardinality(Redemptions(k))

\* The points an order takes are there to be taken: an order that locked its
\* customer's row when it was priced never leaves the balance below zero.
SpendIsCovered ==
  [][\A c \in Guests :
       /\ calls[c] # Idle /\ calls[c].locked /\ calls[c].points > 0
       /\ customer' # customer /\ calls'[c] = Idle
       => customer'[calls[c].customer].points >= 0]_vars

\* Two first orders of a new number do not both get the welcome points.
WelcomeOnce == \A p \in Customers : customer[p].welcomed <= 1

\* An order that has ended is settled with its customer: one award for a
\* completed order, nothing gained or lost by a cancelled one, the points it
\* spent returned.
EndedMeansSettled ==
  \A o \in Orders :
    /\ order[o].status = "COMPLETED" => order[o].earned \in {0, Award} /\ order[o].returned = 0
    /\ order[o].status = "CANCELLED" => Net(o) + order[o].returned = 0
=============================================================================
