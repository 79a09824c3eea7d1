---------------------------- MODULE DiningTables ----------------------------
(***************************************************************************)
(* The tables of a branch and the dine-in orders seated at them.           *)
(* OrdersService seats a table in the transaction that writes the order;   *)
(* everything that frees it again runs after a commit, as statements of    *)
(* its own: the waiting mark, the count of orders still open, the release. *)
(* Staff may also set a table's status by hand, or delete the table.       *)
(***************************************************************************)
EXTENDS OrderLifecycle

CONSTANTS
  Tables,   \* table ids
  Orders,   \* ids of dine-in orders
  Calls,    \* slots for API requests in flight
  ByHand    \* the statuses staff set by hand, a subset of TableStatus

TableStatus == {"AVAILABLE", "OCCUPIED", "WAITING_PAYMENT", "RESERVED", "DISABLED"}

ASSUME TablesAssumption ==
  /\ ByHand \subseteq TableStatus
  /\ "NONE" \notin Orders \cup Tables

VARIABLES
  table,   \* table[t]: status (NONE before it is made, GONE after) and activeOrderId
  order,   \* order[o]: status (NONE before it is placed), table, whether it is paid
  calls    \* calls[c]: where request c is, and what it has read

vars == <<table, order, calls>>

Idle == [pc |-> "idle"]

Init ==
  /\ table = [t \in Tables |-> [status |-> "NONE", active |-> "NONE"]]
  /\ order = [o \in Orders |-> [status |-> "NONE", table |-> "NONE", paid |-> FALSE]]
  /\ calls = [c \in Calls |-> Idle]

Exists(t) == table[t].status \in TableStatus
Begin(c, request) == calls[c] = Idle /\ calls' = [calls EXCEPT ![c] = request]
Goto(c, request) == calls' = [calls EXCEPT ![c] = request]
Finish(c) == Goto(c, Idle)

\* The orders open at a table, the rows releaseIfFree counts.
StillOpen(t) == {o \in Orders : order[o].table = t /\ order[o].status \in ActiveStatus}

-----------------------------------------------------------------------------
(* Seating: createOrder                                                    *)

BeginOrder(c, o, t) ==
  /\ order[o].status = "NONE"
  /\ \A d \in Calls : calls[d].pc = "seat" => calls[d].order # o
  /\ Exists(t)
  /\ table[t].status # "DISABLED"
  /\ Begin(c, [pc |-> "seat", order |-> o, table |-> t])
  /\ UNCHANGED <<table, order>>

\* Mutant: the order is written, the table is left as it was.
CommitOrderUnseated(c, status) ==
  /\ calls[c].pc = "seat"
  /\ LET o == calls[c].order
         t == calls[c].table
     IN  /\ order' = [order EXCEPT ![o] = [status |-> status, table |-> t, paid |-> FALSE]]
         /\ table' = [table EXCEPT ![t].active = o]
  /\ Finish(c)

\* The order and its table commit together, or roll back if the table was
\* deleted meanwhile.
CommitOrder(c, status) ==
  /\ calls[c].pc = "seat"
  /\ LET o == calls[c].order
         t == calls[c].table
     IN  IF Exists(t)
         THEN /\ order' = [order EXCEPT ![o] =
                   [status |-> status, table |-> t, paid |-> FALSE]]
              /\ table' = [table EXCEPT ![t] = [status |-> "OCCUPIED", active |-> o]]
         ELSE UNCHANGED <<table, order>>
  /\ Finish(c)

-----------------------------------------------------------------------------
(* The order moves on: updateStatus, then applyTableSideEffects            *)

BeginStatus(c, o, to) ==
  /\ CanTransition("DINE_IN", order[o].status, to)
  /\ to = "COMPLETED" => order[o].paid
  /\ Begin(c, [pc |-> "status", order |-> o, to |-> to])
  /\ UNCHANGED <<table, order>>

\* Mutant: a cancelled order frees nothing.
SideEffectOfCompletion(o, to) ==
  IF order[o].table = "NONE" THEN "idle"
  ELSE IF to = "COMPLETED" THEN "count"
  ELSE IF to = "SERVED" /\ ~order[o].paid THEN "wait"
  ELSE "idle"

\* What applyTableSideEffects will do for the row as it was just written.
SideEffect(o, to) ==
  IF order[o].table = "NONE" THEN "idle"
  ELSE IF to \in Terminal THEN "count"
  ELSE IF to = "SERVED" /\ ~order[o].paid THEN "wait"
  ELSE "idle"

CommitStatus(c) ==
  /\ calls[c].pc = "status"
  /\ LET o == calls[c].order
         next == SideEffect(o, calls[c].to)
     IN  /\ order' = [order EXCEPT ![o].status = calls[c].to]
         /\ Goto(c, IF next = "idle" THEN Idle
                    ELSE [pc |-> next, table |-> order[o].table])
  /\ UNCHANGED table

\* markWaitingPayment; an update of a table that is gone fails and changes
\* nothing.
MarkWaiting(c) ==
  /\ calls[c].pc = "wait"
  /\ LET t == calls[c].table
     IN  table' = IF Exists(t) THEN [table EXCEPT ![t].status = "WAITING_PAYMENT"]
                  ELSE table
  /\ Finish(c)
  /\ UNCHANGED order

\* releaseIfFree, first statement.
CountOpen(c) ==
  /\ calls[c].pc = "count"
  /\ IF StillOpen(calls[c].table) = {}
     THEN Goto(c, [pc |-> "release", table |-> calls[c].table])
     ELSE Finish(c)
  /\ UNCHANGED <<table, order>>

\* releaseIfFree, second statement.
Release(c) ==
  /\ calls[c].pc = "release"
  /\ LET t == calls[c].table
     IN  table' = IF Exists(t)
                  THEN [table EXCEPT ![t] = [status |-> "AVAILABLE", active |-> "NONE"]]
                  ELSE table
  /\ Finish(c)
  /\ UNCHANGED order

-----------------------------------------------------------------------------
(* The order is paid: recordPayment                                        *)

\* The payment that settles the order commits.
SettleOrder(c, o) ==
  /\ order[o].status # "NONE"
  /\ ~order[o].paid
  /\ order' = [order EXCEPT ![o].paid = TRUE]
  /\ IF order[o].table = "NONE" THEN calls[c] = Idle /\ UNCHANGED calls
     ELSE Begin(c, [pc |-> "settled", table |-> order[o].table])
  /\ UNCHANGED table

\* A fully paid table is no longer waiting on the counter.
EndWaiting(c) ==
  /\ calls[c].pc = "settled"
  /\ LET t == calls[c].table
     IN  table' = IF table[t].status = "WAITING_PAYMENT"
                  THEN [table EXCEPT ![t].status = "OCCUPIED"]
                  ELSE table
  /\ Finish(c)
  /\ UNCHANGED order

-----------------------------------------------------------------------------
(* The floor plan: TablesService                                           *)

CreateTable(t) ==
  /\ table[t].status = "NONE"
  /\ table' = [table EXCEPT ![t].status = "AVAILABLE"]
  /\ UNCHANGED <<order, calls>>

\* Mutant: the pointer to the old order survives.
UpdateTableOnly(t, status) ==
  /\ Exists(t)
  /\ table' = [table EXCEPT ![t].status = status]
  /\ UNCHANGED <<order, calls>>

\* Freeing a table by hand also drops the pointer to its old order.
UpdateTable(t, status) ==
  /\ Exists(t)
  /\ table' = [table EXCEPT ![t] =
       [status |-> status,
        active |-> IF status \in {"AVAILABLE", "DISABLED"} THEN "NONE" ELSE @.active]]
  /\ UNCHANGED <<order, calls>>

\* An occupied table is refused.
BeginRemove(c, t) ==
  /\ Exists(t)
  /\ table[t].status # "OCCUPIED"
  /\ Begin(c, [pc |-> "remove", table |-> t])
  /\ UNCHANGED <<table, order>>

\* The row is deleted and its orders lose their table (onDelete: SetNull).
Remove(c) ==
  /\ calls[c].pc = "remove"
  /\ LET t == calls[c].table
     IN  /\ table' = [table EXCEPT ![t] = [status |-> "GONE", active |-> "NONE"]]
         /\ order' = [o \in Orders |->
              IF order[o].table = t THEN [order[o] EXCEPT !.table = "NONE"] ELSE order[o]]
  /\ Finish(c)

Request(c) ==
  \/ \E o \in Orders, t \in Tables : BeginOrder(c, o, t)
  \/ \E o \in Orders, to \in OrderStatus : BeginStatus(c, o, to)
  \/ \E o \in Orders : SettleOrder(c, o)
  \/ \E t \in Tables : BeginRemove(c, t)

Serve(c) ==
  \/ \E status \in {"PENDING", "SENT_TO_KITCHEN"} : CommitOrder(c, status)
  \/ CommitStatus(c)
  \/ MarkWaiting(c)
  \/ CountOpen(c)
  \/ Release(c)
  \/ EndWaiting(c)
  \/ Remove(c)

Next ==
  \/ \E c \in Calls : Request(c) \/ Serve(c)
  \/ \E t \in Tables : CreateTable(t) \/ \E status \in ByHand : UpdateTable(t, status)

Spec == Init /\ [][Next]_vars

\* A handler that has begun goes on: nothing it waits for depends on a guest.
\* Without this, a slot that never moves again is a request that has died.
FairSpec == Spec /\ \A c \in Calls : WF_vars(Serve(c))

-----------------------------------------------------------------------------
(* Properties                                                              *)

Seated == {"OCCUPIED", "WAITING_PAYMENT"}

\* A table that may be given to the next guest, or to nobody, carries no
\* pointer to an order, and a pointer is always to an order of that table,
\* whichever requests race for it.
TypeOK ==
  /\ \A t \in Tables :
       /\ table[t].status \in TableStatus \cup {"NONE", "GONE"}
       /\ table[t].status \in {"NONE", "AVAILABLE", "DISABLED", "GONE"} =>
            table[t].active = "NONE"
       /\ table[t].active # "NONE" => order[table[t].active].table = t
  /\ \A o \in Orders : order[o].status \in OrderStatus \cup {"NONE"}

\* A table is released only once no order is still open on it: a second round
\* on the same table keeps it.
ReleasedOnlyWhenFree ==
  [][\A c \in Calls : Release(c) => StillOpen(calls[c].table) = {}]_vars

\* A table can never be left stuck occupied after its orders are done: it is
\* freed in the end, unless somebody is seated there again.
NeverStuckOccupied ==
  \A t \in Tables :
    (table[t].status \in Seated /\ StillOpen(t) = {})
      ~> (table[t].status \notin Seated \/ StillOpen(t) # {})

\* A table with an open order never reads as free while no request is at work,
\* unless staff said so by hand.
OpenOrdersHoldTables ==
  (\A c \in Calls : calls[c] = Idle) =>
    \A t \in Tables : StillOpen(t) # {} =>
      table[t].status \in Seated \cup (ByHand \ {"AVAILABLE"})
=============================================================================
