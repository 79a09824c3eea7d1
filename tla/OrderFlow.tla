------------------------------ MODULE OrderFlow ------------------------------
(***************************************************************************)
(* What an order promises to the people who use it, with every request     *)
(* taking effect at once: the status moves only along the transition table *)
(* of its type, COMPLETED is refused while the order is unpaid, terminal   *)
(* statuses are final, and the bill of a settled order is closed.          *)
(* OrderDesk is the same order as the API really serves it.                *)
(***************************************************************************)
EXTENDS OrderLifecycle

CONSTANT Orders   \* the orders of a restaurant

VARIABLES
  type,       \* type[o]: dine-in, takeaway or delivery
  status,     \* status[o]: NONE before the order is placed
  payStatus,  \* payStatus[o]: the paymentStatus of the order
  total       \* total[o]: what the guest is asked to pay

vars == <<type, status, payStatus, total>>

NoStatus == "NONE"

PayStatus == {"PENDING", "PAID", "REFUNDED"}

\* Only order o may be touched by a step.
Only(o) ==
  \A x \in Orders \ {o} : /\ type'[x] = type[x]
                          /\ status'[x] = status[x]
                          /\ payStatus'[x] = payStatus[x]
                          /\ total'[x] = total[x]

Init ==
  /\ type \in [Orders -> OrderType]
  /\ status = [o \in Orders |-> NoStatus]
  /\ payStatus = [o \in Orders |-> "PENDING"]
  /\ total = [o \in Orders |-> 0]

\* The order is submitted, and waits for the counter or goes to the kitchen.
Place(o) ==
  /\ status[o] = NoStatus
  /\ status'[o] \in {"PENDING", "SENT_TO_KITCHEN"}
  /\ type'[o] \in OrderType
  /\ payStatus'[o] = "PENDING"
  /\ total'[o] \in Nat
  /\ Only(o)

\* Staff move the order one hop; completing it needs the money first.
Advance(o) ==
  /\ CanTransition(type[o], status[o], status'[o])
  /\ status'[o] = "COMPLETED" => payStatus[o] = "PAID"
  /\ <<type'[o], payStatus'[o], total'[o]>> = <<type[o], payStatus[o], total[o]>>
  /\ Only(o)

\* Money comes in or goes back.
Settle(o) ==
  /\ status[o] # NoStatus
  /\ payStatus'[o] \in PayStatus
  /\ <<type'[o], status'[o], total'[o]>> = <<type[o], status[o], total[o]>>
  /\ Only(o)

\* The bill changes: another round, or another discount.
Amend(o) ==
  /\ status[o] # NoStatus
  /\ payStatus[o] # "PAID"
  /\ total'[o] \in Nat
  /\ <<type'[o], status'[o], payStatus'[o]>> = <<type[o], status[o], payStatus[o]>>
  /\ Only(o)

Next == \E o \in Orders : Place(o) \/ Advance(o) \/ Settle(o) \/ Amend(o)

Spec == Init /\ [][Next]_vars
=============================================================================
