--------------------------- MODULE OrderLifecycle ---------------------------
(***************************************************************************)
(* The shared order state machine of packages/types/src/                   *)
(* order-state-machine.ts: the transition table every status change is     *)
(* checked against, the status groups the services filter by, and the      *)
(* rank and timeline the customer's tracking page is drawn from.           *)
(***************************************************************************)
EXTENDS Naturals, Integers

OrderType == {"DINE_IN", "TAKEAWAY", "DELIVERY"}

\* The straight road of each order type, cancellation aside.
Road(type) ==
  CASE type = "DINE_IN"  -> {"READY", "SERVED"}
    [] type = "DELIVERY" -> {"READY", "OUT_FOR_DELIVERY", "DELIVERED"}
    [] type = "TAKEAWAY" -> {"READY_FOR_PICKUP", "PICKED_UP"}

Terminal == {"COMPLETED", "CANCELLED"}

ActiveStatus ==
  {"PENDING", "CONFIRMED", "SENT_TO_KITCHEN", "PREPARING", "READY",
   "READY_FOR_PICKUP", "SERVED", "PICKED_UP", "OUT_FOR_DELIVERY", "DELIVERED"}

OrderStatus == ActiveStatus \cup Terminal

\* Every state a kitchen can still stop the order in.
Cancellable ==
  {"PENDING", "CONFIRMED", "SENT_TO_KITCHEN", "PREPARING", "READY",
   "READY_FOR_PICKUP"}

SharedHops == {<<"PENDING", "CONFIRMED">>, <<"CONFIRMED", "SENT_TO_KITCHEN">>,
               <<"SENT_TO_KITCHEN", "PREPARING">>}

DineInHops == {<<"PREPARING", "READY">>, <<"READY", "SERVED">>,
               <<"SERVED", "COMPLETED">>}

DeliveryHops == {<<"PREPARING", "READY">>, <<"READY", "OUT_FOR_DELIVERY">>,
                 <<"OUT_FOR_DELIVERY", "DELIVERED">>,
                 <<"DELIVERED", "COMPLETED">>}

TakeawayHops == {<<"PREPARING", "READY_FOR_PICKUP">>,
                 <<"READY_FOR_PICKUP", "PICKED_UP">>,
                 <<"PICKED_UP", "COMPLETED">>}

\* getTransitionTable as a relation: the hops an order of this type may make.
TransitionTable(type) ==
  SharedHops \cup (Cancellable \X {"CANCELLED"}) \cup
    (CASE type = "DINE_IN"  -> DineInHops
       [] type = "DELIVERY" -> DeliveryHops
       [] type = "TAKEAWAY" -> TakeawayHops)

CanTransition(type, from, to) == <<from, to>> \in TransitionTable(type)

\* The statuses an order of this type can hold at all.
StatusesOf(type) ==
  {"PENDING", "CONFIRMED", "SENT_TO_KITCHEN", "PREPARING"} \cup Road(type)
    \cup Terminal

TrackingSteps(type) ==
  {"PENDING", "SENT_TO_KITCHEN", "PREPARING"} \cup
    (CASE type = "DINE_IN"  -> {"READY", "SERVED"}
       [] type = "DELIVERY" -> {"OUT_FOR_DELIVERY", "DELIVERED"}
       [] type = "TAKEAWAY" -> {"READY_FOR_PICKUP", "PICKED_UP"})

\* STATUS_PROGRESS: how far along the timeline a status is.
StatusProgress ==
  [s \in OrderStatus |->
     CASE s = "PENDING"          -> 0
       [] s = "CONFIRMED"        -> 1
       [] s = "SENT_TO_KITCHEN"  -> 2
       [] s = "PREPARING"        -> 3
       [] s = "READY"            -> 4
       [] s = "READY_FOR_PICKUP" -> 4
       [] s = "SERVED"           -> 5
       [] s = "PICKED_UP"        -> 5
       [] s = "OUT_FOR_DELIVERY" -> 5
       [] s = "DELIVERED"        -> 6
       [] s = "COMPLETED"        -> 6
       [] s = "CANCELLED"        -> -1]

\* toTrackingDto: a timeline step shows as done once the order ranks above it.
StepComplete(step, status) ==
  /\ status # "CANCELLED"
  /\ StatusProgress[step] < StatusProgress[status]
=============================================================================
