------------------------- MODULE DiningTablesProofs -------------------------
(***************************************************************************)
(* Proofs about DiningTables, for any tables and orders.  However requests *)
(* race for it, the pointer a table keeps is never left dangling.  Served  *)
(* one after the other they also keep a table for as long as an order is   *)
(* open on it.                                                             *)
(***************************************************************************)
EXTENDS DiningTables, TLAPS

\* The shape of the rows, which the steps need and the type invariant implies
\* for TLC.
Rows ==
  /\ table = [t \in Tables |-> table[t]]
  /\ \A t \in Tables : table[t] = [status |-> table[t].status, active |-> table[t].active]
  /\ order = [o \in Orders |-> order[o]]
  /\ \A o \in Orders :
       order[o] = [status |-> order[o].status, table |-> order[o].table, paid |-> order[o].paid]
  /\ calls = [c \in Calls |-> calls[c]]

\* An order about to be seated is seated nowhere, and is nobody else's to seat.
SeatInv ==
  /\ \A o \in Orders : order[o].status = "NONE" => order[o].table = "NONE"
  /\ \A c \in Calls :
       /\ calls[c].pc = "seat" =>
            /\ calls[c].order \in Orders
            /\ calls[c].table \in Tables
            /\ order[calls[c].order].status = "NONE"
            /\ \A d \in Calls \ {c} :
                 calls[d].pc = "seat" => calls[d].order # calls[c].order
       /\ calls[c].pc = "status" =>
            /\ calls[c].order \in Orders /\ calls[c].to \in OrderStatus
            /\ order[calls[c].order].status # "NONE"

PointerInv ==
  \A t \in Tables :
    /\ table[t].active \in Orders \cup {"NONE"}
    /\ table[t].active # "NONE" => order[table[t].active].table = t
    /\ table[t].status \in {"NONE", "AVAILABLE", "DISABLED", "GONE"} => table[t].active = "NONE"

Statuses ==
  /\ \A t \in Tables : table[t].status \in TableStatus \cup {"NONE", "GONE"}
  /\ \A o \in Orders : order[o].status \in OrderStatus \cup {"NONE"}

IInv == Rows /\ Statuses /\ PointerInv /\ SeatInv

LEMMA InitIInv == Init => IInv
<1> SUFFICES ASSUME Init PROVE IInv
  OBVIOUS
<1>1. Rows /\ Statuses
  BY DEF Init, Rows, Statuses
<1>2. PointerInv /\ SeatInv
  BY DEF Init, PointerInv, SeatInv, Idle
<1> QED
  BY <1>1, <1>2 DEF IInv

\* Steps that only move a request on, to where it seats nothing and moves no
\* order, keep the invariant.
LEMMA Elsewhere ==
  ASSUME IInv, NEW c \in Calls, NEW next, calls' = [calls EXCEPT ![c] = next],
         next.pc \notin {"seat", "status"}, UNCHANGED <<table, order>>
  PROVE  IInv'
<1>1. Rows' /\ Statuses' /\ PointerInv'
  BY DEF IInv, Rows, Statuses, PointerInv
<1>2. \A d \in Calls : calls'[d] = calls[d] \/ calls'[d].pc \notin {"seat", "status"}
  BY DEF IInv, Rows
<1>3. SeatInv'
  BY <1>2 DEF IInv, SeatInv
<1> QED
  BY <1>1, <1>3 DEF IInv

\* So do steps that change one table without breaking its pointer.
LEMMA TableKept ==
  ASSUME IInv, NEW t, NEW row, table' = [table EXCEPT ![t] = row], UNCHANGED order,
         row = [status |-> row.status, active |-> row.active],
         row.status \in TableStatus,
         row.active = "NONE" \/ row.active = table[t].active,
         row.status \in {"AVAILABLE", "DISABLED"} => row.active = "NONE",
         \A c \in Calls : calls'[c] = calls[c] \/ calls'[c] = Idle,
         calls' = [c \in Calls |-> calls'[c]]
  PROVE  IInv'
<1>1. table' = [x \in Tables |-> table'[x]]
  BY DEF IInv, Rows
<1>2. \A x \in Tables : table'[x] = table[x] \/ (x = t /\ table'[x] = row)
  BY DEF IInv, Rows
<1>3. Rows'
  BY <1>1, <1>2 DEF IInv, Rows
<1>4. Statuses'
  BY <1>2 DEF IInv, Statuses
<1>5. PointerInv'
  BY <1>2 DEF IInv, PointerInv, TableStatus
<1>6. SeatInv'
  BY DEF IInv, SeatInv, Idle
<1> QED
  BY <1>3, <1>4, <1>5, <1>6 DEF IInv

\* Rewriting one column of a row keeps the others.
LEMMA RowUpdates ==
  ASSUME Rows, NEW t \in Tables, NEW status
  PROVE  [table[t] EXCEPT !.status = status] =
           [status |-> status, active |-> table[t].active]
<1>1. table[t] = [status |-> table[t].status, active |-> table[t].active]
  BY DEF Rows
<1> QED
  BY <1>1

LEMMA OrderUpdates ==
  ASSUME Rows, NEW o \in Orders, NEW value
  PROVE  /\ [order[o] EXCEPT !.paid = value] =
              [status |-> order[o].status, table |-> order[o].table, paid |-> value]
         /\ [order[o] EXCEPT !.status = value] =
              [status |-> value, table |-> order[o].table, paid |-> order[o].paid]
<1>1. order[o] = [status |-> order[o].status, table |-> order[o].table, paid |-> order[o].paid]
  BY DEF Rows
<1> QED
  BY <1>1

\* A legal move of an order leads to a status of an order.
LEMMA MovesAreStatuses ==
  ASSUME NEW from, NEW to, CanTransition("DINE_IN", from, to)
  PROVE  from # "NONE" /\ to \in OrderStatus
BY DEF CanTransition, TransitionTable, SharedHops, Cancellable, DineInHops,
       OrderStatus, ActiveStatus, Terminal

LEMMA NextIInv == IInv /\ [Next]_vars => IInv'
<1> SUFFICES ASSUME IInv, [Next]_vars PROVE IInv'
  OBVIOUS
<1>pool. \A c \in Calls : Finish(c) =>
           /\ calls' = [d \in Calls |-> calls'[d]]
           /\ \A d \in Calls : calls'[d] = calls[d] \/ calls'[d] = Idle
  BY DEF Finish, Goto, IInv, Rows
<1>still. UNCHANGED calls => /\ calls' = [d \in Calls |-> calls'[d]]
                             /\ \A d \in Calls : calls'[d] = calls[d] \/ calls'[d] = Idle
  BY DEF IInv, Rows
<1>1. ASSUME NEW c \in Calls, NEW o \in Orders, NEW t \in Tables, BeginOrder(c, o, t)
      PROVE  IInv'
  <2>1. Rows' /\ Statuses' /\ PointerInv'
    BY <1>1 DEF BeginOrder, Begin, IInv, Rows, Statuses, PointerInv
  <2>2. /\ calls'[c] = [pc |-> "seat", order |-> o, table |-> t]
        /\ \A d \in Calls \ {c} : calls'[d] = calls[d]
        /\ order[o].status = "NONE"
        /\ \A d \in Calls : calls[d].pc = "seat" => calls[d].order # o
        /\ UNCHANGED order
    BY <1>1 DEF BeginOrder, Begin, IInv, Rows
  <2>3. SeatInv'
    BY <2>2 DEF IInv, SeatInv
  <2> QED
    BY <2>1, <2>3 DEF IInv
<1>2. ASSUME NEW c \in Calls, NEW o \in Orders, NEW to \in OrderStatus, BeginStatus(c, o, to)
      PROVE  IInv'
  <2>1. Rows' /\ Statuses' /\ PointerInv'
    BY <1>2 DEF BeginStatus, Begin, IInv, Rows, Statuses, PointerInv
  <2>2. /\ calls'[c] = [pc |-> "status", order |-> o, to |-> to]
        /\ \A d \in Calls \ {c} : calls'[d] = calls[d]
        /\ order[o].status # "NONE"
        /\ UNCHANGED order
    BY <1>2, MovesAreStatuses DEF BeginStatus, Begin, IInv, Rows
  <2>3. SeatInv'
    BY <2>2 DEF IInv, SeatInv
  <2> QED
    BY <2>1, <2>3 DEF IInv
<1>3. ASSUME NEW c \in Calls, NEW o \in Orders, SettleOrder(c, o) PROVE IInv'
  <2>1. /\ order' = [order EXCEPT ![o] = [order[o] EXCEPT !.paid = TRUE]] /\ UNCHANGED table
        /\ \A d \in Calls : calls'[d] = calls[d] \/ calls'[d].pc = "settled"
        /\ calls' = [d \in Calls |-> calls'[d]]
    BY <1>3 DEF SettleOrder, Begin, IInv, Rows
  <2> DEFINE row == [status |-> order[o].status, table |-> order[o].table, paid |-> TRUE]
  <2>row. order' = [order EXCEPT ![o] = row]
    BY <2>1, OrderUpdates DEF IInv
  <2>2. \A x \in Orders : /\ order'[x].status = order[x].status
                          /\ order'[x].table = order[x].table
                          /\ order'[x] = [status |-> order'[x].status,
                                          table |-> order'[x].table, paid |-> order'[x].paid]
    BY <2>row DEF IInv, Rows
  <2>3. Rows'
    BY <2>1, <2>2 DEF IInv, Rows
  <2>4. Statuses' /\ PointerInv'
    BY <2>1, <2>2 DEF IInv, Statuses, PointerInv
  <2>5. SeatInv'
    BY <2>1, <2>2 DEF IInv, SeatInv
  <2> QED
    BY <2>3, <2>4, <2>5 DEF IInv
<1>4. ASSUME NEW c \in Calls, NEW status \in {"PENDING", "SENT_TO_KITCHEN"},
             CommitOrder(c, status)
      PROVE  IInv'
  <2> DEFINE o == calls[c].order
             t == calls[c].table
  <2>1. CASE Exists(t)
    <3>1. /\ o \in Orders /\ t \in Tables /\ order[o].status = "NONE"
          /\ \A d \in Calls \ {c} : calls[d].pc = "seat" => calls[d].order # o
      BY <1>4 DEF CommitOrder, IInv, SeatInv
    <3>2. /\ order' = [order EXCEPT ![o] = [status |-> status, table |-> t, paid |-> FALSE]]
          /\ table' = [table EXCEPT ![t] = [status |-> "OCCUPIED", active |-> o]]
          /\ calls' = [calls EXCEPT ![c] = Idle]
      BY <1>4, <2>1 DEF CommitOrder, Finish, Goto
    <3>3. \A x \in Tables : table[x].active # o
      BY <3>1, TablesAssumption DEF IInv, SeatInv, PointerInv
    <3>4. /\ order'[o] = [status |-> status, table |-> t, paid |-> FALSE]
          /\ \A x \in Orders \ {o} : order'[x] = order[x]
          /\ order' = [x \in Orders |-> order'[x]]
      BY <3>1, <3>2 DEF IInv, Rows
    <3>5. /\ table'[t] = [status |-> "OCCUPIED", active |-> o]
          /\ \A x \in Tables \ {t} : table'[x] = table[x]
          /\ table' = [x \in Tables |-> table'[x]]
      BY <3>1, <3>2 DEF IInv, Rows
    <3>6. /\ calls'[c] = Idle
          /\ \A d \in Calls \ {c} : calls'[d] = calls[d]
          /\ calls' = [d \in Calls |-> calls'[d]]
      BY <3>2 DEF IInv, Rows
    <3>7. Rows'
      BY <3>4, <3>5, <3>6 DEF IInv, Rows
    <3>8. Statuses'
      BY <3>4, <3>5 DEF IInv, Statuses, TableStatus, OrderStatus, ActiveStatus
    <3>9. PointerInv'
      BY <3>1, <3>3, <3>4, <3>5 DEF IInv, PointerInv
    <3>10. SeatInv'
      BY <3>1, <3>4, <3>6, TablesAssumption DEF IInv, SeatInv, Idle
    <3> QED
      BY <3>7, <3>8, <3>9, <3>10 DEF IInv
  <2>2. CASE ~Exists(t)
    BY <1>4, <2>2, Elsewhere DEF CommitOrder, Finish, Goto, Idle
  <2> QED
    BY <2>1, <2>2
<1>5. ASSUME NEW c \in Calls, CommitStatus(c) PROVE IInv'
  <2> DEFINE o == calls[c].order
             to == calls[c].to
  <2>1. o \in Orders /\ to \in OrderStatus /\ order[o].status # "NONE"
    BY <1>5 DEF CommitStatus, IInv, SeatInv
  <2> DEFINE effect == SideEffect(o, to)
             next == IF effect = "idle" THEN Idle
                     ELSE [pc |-> effect, table |-> order[o].table]
  <2>2. calls' = [calls EXCEPT ![c] = next] /\ next.pc \notin {"seat", "status"}
    <3>1. calls' = [calls EXCEPT ![c] = next]
      BY <1>5 DEF CommitStatus, Goto
    <3>2. effect \in {"idle", "count", "wait"}
      BY DEF SideEffect
    <3> HIDE DEF effect
    <3>3. next.pc \notin {"seat", "status"}
      BY <3>2 DEF Idle
    <3> QED
      BY <3>1, <3>3
  <2> HIDE DEF next
  <2>3. order' = [order EXCEPT ![o].status = to] /\ UNCHANGED table
    BY <1>5 DEF CommitStatus
  <2>4. /\ \A x \in Orders : /\ order'[x].table = order[x].table
                             /\ order'[x] = [status |-> order'[x].status,
                                             table |-> order'[x].table,
                                             paid |-> order'[x].paid]
        /\ order'[o].status = to
        /\ \A x \in Orders \ {o} : order'[x] = order[x]
        /\ order' = [x \in Orders |-> order'[x]]
    BY <2>1, <2>3 DEF IInv, Rows
  <2>5. /\ calls' = [d \in Calls |-> calls'[d]]
        /\ \A d \in Calls : calls'[d] = calls[d] \/ calls'[d].pc \notin {"seat", "status"}
    BY <2>2 DEF IInv, Rows
  <2>6. to # "NONE"
    BY <2>1 DEF OrderStatus, ActiveStatus, Terminal
  <2>7. Rows'
    BY <2>3, <2>4, <2>5 DEF IInv, Rows
  <2>8. Statuses' /\ PointerInv'
    BY <2>1, <2>3, <2>4 DEF IInv, Statuses, PointerInv
  <2>9. SeatInv'
    BY <2>1, <2>4, <2>5, <2>6 DEF IInv, SeatInv
  <2> QED
    BY <2>7, <2>8, <2>9 DEF IInv
<1>6. ASSUME NEW c \in Calls, MarkWaiting(c) PROVE IInv'
  <2> DEFINE t == calls[c].table
             row == [status |-> "WAITING_PAYMENT", active |-> table[t].active]
  <2>1. CASE Exists(t) /\ t \in Tables
    <3>0. table' = [table EXCEPT ![t] = [table[t] EXCEPT !.status = row.status]]
      BY <1>6, <2>1 DEF MarkWaiting
    <3>1. table' = [table EXCEPT ![t] = row] /\ UNCHANGED order /\ Finish(c)
      BY <1>6, <2>1, <3>0, RowUpdates DEF MarkWaiting, IInv
    <3> QED
      BY <3>1, <1>pool, TableKept DEF TableStatus
  <2>2. CASE ~(Exists(t) /\ t \in Tables)
    <3>1. UNCHANGED <<table, order>> /\ Finish(c)
      BY <1>6, <2>2 DEF MarkWaiting, IInv, Rows
    <3> QED
      BY <3>1, Elsewhere DEF Finish, Goto, Idle
  <2> QED
    BY <2>1, <2>2
<1>7. ASSUME NEW c \in Calls, CountOpen(c) PROVE IInv'
  BY <1>7, Elsewhere DEF CountOpen, Finish, Goto, Idle
<1>8. ASSUME NEW c \in Calls, Release(c) PROVE IInv'
  <2> DEFINE t == calls[c].table
             row == [status |-> "AVAILABLE", active |-> "NONE"]
  <2>1. CASE Exists(t)
    <3>1. table' = [table EXCEPT ![t] = row] /\ UNCHANGED order /\ Finish(c)
      BY <1>8, <2>1 DEF Release
    <3> QED
      BY <3>1, <1>pool, TableKept DEF TableStatus
  <2>2. CASE ~Exists(t)
    BY <1>8, <2>2, Elsewhere DEF Release, Finish, Goto, Idle
  <2> QED
    BY <2>1, <2>2
<1>9. ASSUME NEW c \in Calls, EndWaiting(c) PROVE IInv'
  <2> DEFINE t == calls[c].table
             row == [status |-> "OCCUPIED", active |-> table[t].active]
  <2>1. CASE table[t].status = "WAITING_PAYMENT" /\ t \in Tables
    <3>0. table' = [table EXCEPT ![t] = [table[t] EXCEPT !.status = row.status]]
      BY <1>9, <2>1 DEF EndWaiting
    <3>1. table' = [table EXCEPT ![t] = row] /\ UNCHANGED order /\ Finish(c)
      BY <1>9, <2>1, <3>0, RowUpdates DEF EndWaiting, IInv
    <3> QED
      BY <3>1, <1>pool, TableKept DEF TableStatus
  <2>2. CASE ~(table[t].status = "WAITING_PAYMENT" /\ t \in Tables)
    <3>1. UNCHANGED <<table, order>> /\ Finish(c)
      BY <1>9, <2>2 DEF EndWaiting, IInv, Rows
    <3> QED
      BY <3>1, Elsewhere DEF Finish, Goto, Idle
  <2> QED
    BY <2>1, <2>2
<1>10. ASSUME NEW c \in Calls, Remove(c) PROVE IInv'
  <2> DEFINE t == calls[c].table
  <2>1. /\ table' = [table EXCEPT ![t] = [status |-> "GONE", active |-> "NONE"]]
        /\ order' = [o \in Orders |->
             IF order[o].table = t THEN [order[o] EXCEPT !.table = "NONE"] ELSE order[o]]
        /\ calls' = [calls EXCEPT ![c] = Idle]
    BY <1>10 DEF Remove, Finish, Goto
  <2>2. /\ table' = [x \in Tables |-> table'[x]]
        /\ t \in Tables => table'[t] = [status |-> "GONE", active |-> "NONE"]
        /\ \A x \in Tables \ {t} : table'[x] = table[x]
    BY <2>1 DEF IInv, Rows
  <2>3. /\ order' = [x \in Orders |-> order'[x]]
        /\ \A x \in Orders :
             /\ order'[x].status = order[x].status
             /\ order'[x].table = IF order[x].table = t THEN "NONE" ELSE order[x].table
             /\ order'[x] = [status |-> order'[x].status, table |-> order'[x].table,
                             paid |-> order'[x].paid]
    BY <2>1 DEF IInv, Rows
  <2>4. /\ calls' = [d \in Calls |-> calls'[d]]
        /\ \A d \in Calls : calls'[d] = calls[d] \/ calls'[d] = Idle
    BY <2>1 DEF IInv, Rows
  <2>5. Rows'
    BY <2>2, <2>3, <2>4 DEF IInv, Rows
  <2>6. Statuses' /\ PointerInv'
    BY <2>2, <2>3 DEF IInv, Statuses, PointerInv
  <2>7. SeatInv'
    BY <2>3, <2>4 DEF IInv, SeatInv, Idle
  <2> QED
    BY <2>5, <2>6, <2>7 DEF IInv
<1>11. ASSUME NEW c \in Calls, NEW t \in Tables, BeginRemove(c, t) PROVE IInv'
  BY <1>11, Elsewhere DEF BeginRemove, Begin
<1>12. ASSUME NEW t \in Tables, CreateTable(t) PROVE IInv'
  <2> DEFINE row == [status |-> "AVAILABLE", active |-> table[t].active]
  <2>1. table' = [table EXCEPT ![t] = [table[t] EXCEPT !.status = "AVAILABLE"]]
    BY <1>12 DEF CreateTable
  <2>2. table' = [table EXCEPT ![t] = row] /\ UNCHANGED <<order, calls>>
    BY <1>12, <2>1, RowUpdates DEF CreateTable, IInv
  <2>3. table[t].active = "NONE"
    BY <1>12 DEF CreateTable, IInv, PointerInv
  <2> QED
    BY <2>2, <2>3, <1>still, TableKept DEF TableStatus
<1>13. ASSUME NEW t \in Tables, NEW status \in ByHand, UpdateTable(t, status) PROVE IInv'
  <2> DEFINE row == [status |-> status,
                     active |-> IF status \in {"AVAILABLE", "DISABLED"} THEN "NONE"
                                ELSE table[t].active]
  <2>1. table' = [table EXCEPT ![t] = row] /\ UNCHANGED <<order, calls>>
    BY <1>13 DEF UpdateTable
  <2>2. status \in TableStatus
    BY TablesAssumption
  <2>3. /\ row = [status |-> row.status, active |-> row.active]
        /\ row.status \in TableStatus
        /\ row.active = "NONE" \/ row.active = table[t].active
        /\ row.status \in {"AVAILABLE", "DISABLED"} => row.active = "NONE"
    BY <2>2
  <2> HIDE DEF row
  <2> QED
    BY <2>1, <2>3, <1>still, TableKept
<1>14. CASE UNCHANGED vars
  BY <1>14 DEF vars, IInv, Rows, Statuses, PointerInv, SeatInv
<1> QED
  BY <1>1, <1>2, <1>3, <1>4, <1>5, <1>6, <1>7, <1>8, <1>9, <1>10, <1>11, <1>12,
     <1>13, <1>14 DEF Next, Request, Serve

\* Whichever requests race for it, a free or disabled table points at no order,
\* and a table never points at an order that sits elsewhere.
THEOREM PointersNeverDangle == Spec => []TypeOK
<1>1. IInv => TypeOK
  BY DEF IInv, PointerInv, Statuses, TypeOK
<1> QED
  BY InitIInv, NextIInv, <1>1, PTL DEF Spec

-----------------------------------------------------------------------------
(* One request at a time                                                    *)

\* The branch answers one request before it takes the next.
OneCall == \A c, d \in Calls : c = d

\* A table with an open order is held for it, if nobody frees it by hand.
Held ==
  "AVAILABLE" \notin ByHand =>
    \A t \in Tables : StillOpen(t) # {} => table[t].status \in Seated \cup ByHand

\* What the request in hand has read is still so.
InHand ==
  \A c \in Calls :
    /\ calls[c].pc = "release" => StillOpen(calls[c].table) = {}
    /\ calls[c].pc = "status" => order[calls[c].order].status \in ActiveStatus

SerialInv == IInv /\ Held /\ InHand

LEMMA InitSerial == OneCall /\ Init => SerialInv
<1> SUFFICES ASSUME Init PROVE SerialInv
  OBVIOUS
<1>1. Held
  BY DEF Init, Held, StillOpen, ActiveStatus
<1>2. InHand
  BY DEF Init, InHand, Idle
<1> QED
  BY <1>1, <1>2, InitIInv DEF SerialInv

\* A request that ends leaves nothing in hand.
LEMMA NothingInHand ==
  ASSUME OneCall, IInv, NEW c \in Calls, Finish(c)
  PROVE  InHand'
<1>1. \A d \in Calls : calls'[d] = Idle
  BY DEF OneCall, IInv, Rows, Finish, Goto
<1> QED
  BY <1>1 DEF InHand, Idle

\* The orders of a table stay what they are when no order row is written.
LEMMA SameOrders ==
  ASSUME UNCHANGED order
  PROVE  \A t : StillOpen(t)' = StillOpen(t)
BY DEF StillOpen

\* A move of the order leads from an open status.
LEMMA MovesAreOpen ==
  ASSUME NEW from, NEW to, CanTransition("DINE_IN", from, to)
  PROVE  from \in ActiveStatus
BY DEF CanTransition, TransitionTable, SharedHops, Cancellable, DineInHops,
       ActiveStatus

LEMMA NextSerial == OneCall /\ SerialInv /\ [Next]_vars => SerialInv'
<1> SUFFICES ASSUME OneCall, SerialInv, [Next]_vars PROVE SerialInv'
  OBVIOUS
<1>i. IInv /\ IInv'
  BY NextIInv DEF SerialInv
<1>h. Held /\ InHand
  BY DEF SerialInv
<1>r. Rows
  BY <1>i DEF IInv
<1> SUFFICES Held' /\ InHand'
  BY <1>i DEF SerialInv
<1>1. ASSUME NEW c \in Calls, NEW o \in Orders, NEW t \in Tables, BeginOrder(c, o, t)
      PROVE  Held' /\ InHand'
  <2>1. UNCHANGED <<table, order>> /\ \A d \in Calls : calls'[d].pc = "seat"
    BY <1>1, <1>r DEF BeginOrder, Begin, OneCall, Rows
  <2> QED
    BY <2>1, <1>h, SameOrders DEF Held, InHand
<1>2. ASSUME NEW c \in Calls, NEW o \in Orders, NEW to \in OrderStatus, BeginStatus(c, o, to)
      PROVE  Held' /\ InHand'
  <2>1. /\ UNCHANGED <<table, order>>
        /\ \A d \in Calls : calls'[d] = [pc |-> "status", order |-> o, to |-> to]
    BY <1>2, <1>r DEF BeginStatus, Begin, OneCall, Rows
  <2>2. order[o].status \in ActiveStatus
    BY <1>2, MovesAreOpen DEF BeginStatus
  <2>3. InHand'
    BY <2>1, <2>2 DEF InHand
  <2> QED
    BY <2>1, <2>3, <1>h, SameOrders DEF Held
<1>3. ASSUME NEW c \in Calls, NEW o \in Orders, SettleOrder(c, o) PROVE Held' /\ InHand'
  <2>1. order' = [order EXCEPT ![o] = [order[o] EXCEPT !.paid = TRUE]] /\ UNCHANGED table
    BY <1>3 DEF SettleOrder
  <2>2. \A x \in Orders : /\ order'[x].status = order[x].status
                          /\ order'[x].table = order[x].table
    BY <2>1, <1>r, OrderUpdates DEF Rows
  <2>3. \A t : StillOpen(t)' = StillOpen(t)
    BY <2>2 DEF StillOpen
  <2>4. \A d \in Calls : calls'[d].pc \in {"idle", "settled"}
    BY <1>3, <1>r DEF SettleOrder, Begin, OneCall, Rows, Idle
  <2>5. InHand'
    BY <2>4 DEF InHand
  <2> QED
    BY <2>1, <2>3, <2>5, <1>h DEF Held
<1>4. ASSUME NEW c \in Calls, NEW status \in {"PENDING", "SENT_TO_KITCHEN"},
             CommitOrder(c, status)
      PROVE  Held' /\ InHand'
  <2> DEFINE o == calls[c].order
             t == calls[c].table
  <2>1. InHand'
    BY <1>4, <1>i, NothingInHand DEF CommitOrder
  <2>2. CASE Exists(t)
    <3>1. o \in Orders /\ t \in Tables /\ order[o].status = "NONE"
      BY <1>4, <1>i DEF CommitOrder, IInv, SeatInv
    <3>2. /\ \A x \in Orders \ {o} : order'[x] = order[x]
          /\ order'[o] = [status |-> status, table |-> t, paid |-> FALSE]
          /\ \A x \in Tables \ {t} : table'[x] = table[x]
          /\ table'[t] = [status |-> "OCCUPIED", active |-> o]
      BY <1>4, <2>2, <3>1, <1>r DEF CommitOrder, Rows
    <3>3. \A x \in Tables \ {t} : StillOpen(x)' = StillOpen(x)
      BY <3>1, <3>2 DEF StillOpen, ActiveStatus
    <3>4. Held'
      BY <3>2, <3>3, <1>h DEF Held, Seated
    <3> QED
      BY <2>1, <3>4
  <2>3. CASE ~Exists(t)
    BY <1>4, <2>1, <2>3, <1>h, SameOrders DEF CommitOrder, Held
  <2> QED
    BY <2>2, <2>3
<1>5. ASSUME NEW c \in Calls, CommitStatus(c) PROVE Held' /\ InHand'
  <2> DEFINE o == calls[c].order
             to == calls[c].to
  <2>1. o \in Orders /\ order[o].status \in ActiveStatus
    BY <1>5, <1>i, <1>h DEF CommitStatus, IInv, SeatInv, InHand
  <2>2. order' = [order EXCEPT ![o] = [order[o] EXCEPT !.status = to]] /\ UNCHANGED table
    BY <1>5 DEF CommitStatus
  <2>3. \A x \in Orders : /\ order'[x].table = order[x].table
                          /\ x # o => order'[x].status = order[x].status
    BY <2>1, <2>2, <1>r, OrderUpdates DEF Rows
  <2>4. \A t : StillOpen(t)' \subseteq StillOpen(t)
    BY <2>1, <2>3 DEF StillOpen
  <2>5. \A d \in Calls : calls'[d].pc \in {"idle", "count", "wait"}
    BY <1>5, <1>r DEF CommitStatus, Goto, OneCall, Rows, Idle, SideEffect
  <2>6. InHand'
    BY <2>5 DEF InHand
  <2>7. Held'
    BY <2>2, <2>4, <1>h DEF Held
  <2> QED
    BY <2>6, <2>7
<1>6. ASSUME NEW c \in Calls, MarkWaiting(c) PROVE Held' /\ InHand'
  <2>1. InHand'
    BY <1>6, <1>i, NothingInHand DEF MarkWaiting
  <2>2. \A x \in Tables : table'[x].status \in {table[x].status, "WAITING_PAYMENT"}
    BY <1>6, <1>r, RowUpdates DEF MarkWaiting, Rows
  <2>3. \A x : StillOpen(x)' = StillOpen(x)
    BY <1>6, SameOrders DEF MarkWaiting
  <2> QED
    BY <2>1, <2>2, <2>3, <1>h DEF Held, Seated
<1>7. ASSUME NEW c \in Calls, CountOpen(c) PROVE Held' /\ InHand'
  <2>1. UNCHANGED <<table, order>>
    BY <1>7 DEF CountOpen
  <2>2. CASE StillOpen(calls[c].table) = {}
    <3>1. \A d \in Calls : calls'[d] = [pc |-> "release", table |-> calls[c].table]
      BY <1>7, <2>2, <1>r DEF CountOpen, Goto, OneCall, Rows
    <3>2. InHand'
      BY <2>1, <2>2, <3>1, SameOrders DEF InHand
    <3> QED
      BY <2>1, <3>2, <1>h, SameOrders DEF Held
  <2>3. CASE StillOpen(calls[c].table) # {}
    <3>1. InHand'
      BY <1>7, <2>3, <1>i, NothingInHand DEF CountOpen
    <3> QED
      BY <2>1, <3>1, <1>h, SameOrders DEF Held
  <2> QED
    BY <2>2, <2>3
<1>8. ASSUME NEW c \in Calls, Release(c) PROVE Held' /\ InHand'
  <2> DEFINE t == calls[c].table
  <2>1. InHand'
    BY <1>8, <1>i, NothingInHand DEF Release
  <2>2. StillOpen(t) = {}
    BY <1>8, <1>h DEF Release, InHand
  <2>3. \A x \in Tables \ {t} : table'[x] = table[x]
    BY <1>8, <1>r DEF Release, Rows
  <2>4. \A x : StillOpen(x)' = StillOpen(x)
    BY <1>8, SameOrders DEF Release
  <2> QED
    BY <2>1, <2>2, <2>3, <2>4, <1>h DEF Held
<1>9. ASSUME NEW c \in Calls, EndWaiting(c) PROVE Held' /\ InHand'
  <2>1. InHand'
    BY <1>9, <1>i, NothingInHand DEF EndWaiting
  <2>2. \A x \in Tables : table'[x].status \in {table[x].status, "OCCUPIED"}
    BY <1>9, <1>r, RowUpdates DEF EndWaiting, Rows
  <2>3. \A x : StillOpen(x)' = StillOpen(x)
    BY <1>9, SameOrders DEF EndWaiting
  <2> QED
    BY <2>1, <2>2, <2>3, <1>h DEF Held, Seated
<1>10. ASSUME NEW c \in Calls, Remove(c) PROVE Held' /\ InHand'
  <2> DEFINE t == calls[c].table
  <2>1. InHand'
    BY <1>10, <1>i, NothingInHand DEF Remove
  <2>2. /\ \A x \in Tables \ {t} : table'[x] = table[x]
        /\ \A x \in Orders :
             /\ order'[x].status = order[x].status
             /\ order'[x].table = IF order[x].table = t THEN "NONE" ELSE order[x].table
    BY <1>10, <1>r DEF Remove, Rows
  <2>3. \A x \in Tables : StillOpen(x)' \subseteq StillOpen(x) /\ (x = t => StillOpen(x)' = {})
    BY <2>2, TablesAssumption DEF StillOpen
  <2>4. Held'
    BY <2>2, <2>3, <1>h DEF Held
  <2> QED
    BY <2>1, <2>4
<1>11. ASSUME NEW c \in Calls, NEW t \in Tables, BeginRemove(c, t) PROVE Held' /\ InHand'
  <2>1. /\ UNCHANGED <<table, order>>
        /\ \A d \in Calls : calls'[d] = [pc |-> "remove", table |-> t]
    BY <1>11, <1>r DEF BeginRemove, Begin, OneCall, Rows
  <2>2. InHand'
    BY <2>1 DEF InHand
  <2> QED
    BY <2>1, <2>2, <1>h, SameOrders DEF Held
<1>12. ASSUME NEW t \in Tables, CreateTable(t) PROVE Held' /\ InHand'
  <2>1. /\ table[t].status = "NONE"
        /\ table'[t].status = "AVAILABLE"
        /\ \A x \in Tables \ {t} : table'[x] = table[x]
        /\ UNCHANGED <<order, calls>>
    BY <1>12, <1>r, RowUpdates DEF CreateTable, Rows
  <2>2. "AVAILABLE" \notin ByHand => StillOpen(t) = {}
    BY <2>1, <1>h, TablesAssumption DEF Held, Seated, TableStatus
  <2>3. \A x : StillOpen(x)' = StillOpen(x)
    BY <2>1, SameOrders
  <2>4. Held'
    BY <2>1, <2>2, <2>3, <1>h DEF Held
  <2>5. InHand'
    BY <2>1, <2>3, <1>h DEF InHand
  <2> QED
    BY <2>4, <2>5
<1>13. ASSUME NEW t \in Tables, NEW status \in ByHand, UpdateTable(t, status)
       PROVE  Held' /\ InHand'
  <2>1. /\ table'[t].status = status
        /\ \A x \in Tables \ {t} : table'[x] = table[x]
        /\ UNCHANGED <<order, calls>>
    BY <1>13, <1>r DEF UpdateTable, Rows
  <2>2. \A x : StillOpen(x)' = StillOpen(x)
    BY <2>1, SameOrders
  <2>3. Held'
    BY <2>1, <2>2, <1>h DEF Held
  <2>4. InHand'
    BY <2>1, <2>2, <1>h DEF InHand
  <2> QED
    BY <2>3, <2>4
<1>14. CASE UNCHANGED vars
  BY <1>14, <1>h, SameOrders DEF vars, Held, InHand
<1> QED
  BY <1>1, <1>2, <1>3, <1>4, <1>5, <1>6, <1>7, <1>8, <1>9, <1>10, <1>11, <1>12,
     <1>13, <1>14 DEF Next, Request, Serve

LEMMA AlwaysSerial == OneCall => (Spec => []SerialInv)
<1> SUFFICES ASSUME OneCall PROVE Spec => []SerialInv
  OBVIOUS
<1>1. SerialInv /\ [Next]_vars => SerialInv'
  BY NextSerial
<1>2. Init => SerialInv
  BY InitSerial
<1> QED
  BY <1>1, <1>2, PTL DEF Spec

\* With requests taken one after the other, and if nobody frees a table by hand,
\* a table with an open order never reads as free while no request is at work:
\* seating, waiting mark, count and release together keep it.
THEOREM TablesAreHeld ==
  OneCall /\ "AVAILABLE" \notin ByHand => (Spec => []OpenOrdersHoldTables)
<1> SUFFICES ASSUME OneCall, "AVAILABLE" \notin ByHand
             PROVE  Spec => []OpenOrdersHoldTables
  OBVIOUS
<1>1. SerialInv => OpenOrdersHoldTables
  BY DEF SerialInv, Held, OpenOrdersHoldTables
<1> QED
  BY AlwaysSerial, <1>1, PTL
=============================================================================
