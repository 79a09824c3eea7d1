--------------------------- MODULE OrderNumbering ---------------------------
(***************************************************************************)
(* How an order gets its number.  nextOrderNumber raises the sequence of   *)
(* the branch with UPDATE ... RETURNING inside the transaction that writes *)
(* the order, so the row of the branch stays locked until that transaction *)
(* commits or rolls back, and the orders table has one unique index over   *)
(* the tenant and the number.  All branches here belong to one tenant.     *)
(***************************************************************************)
EXTENDS Integers

CONSTANTS
  Branches,   \* the branches of the tenant
  Calls,      \* slots for submissions in flight
  Base,       \* orderSequence of a new branch, the column's default
  MaxNumber   \* bound: no number beyond this one is given out

ASSUME NumberingAssumption ==
  /\ Base \in Nat
  /\ MaxNumber \in Nat

VARIABLES
  sequence,   \* sequence[b]: the committed orderSequence of branch b
  orders,     \* the committed orders, as branch and number
  calls       \* calls[c]: the submission c and the number it holds

vars == <<sequence, orders, calls>>

Idle == [pc |-> "idle"]

Init ==
  /\ sequence = [b \in Branches |-> Base]
  /\ orders = {}
  /\ calls = [c \in Calls |-> Idle]

\* A transaction that has raised the sequence holds the row of the branch.
Locked(b) == \E c \in Calls : calls[c].pc = "numbered" /\ calls[c].branch = b

Taken(number) == \E b \in Branches : <<b, number>> \in orders

\* The transaction begins: table, prices, coupon and points are worked out.
Submit(c, b) ==
  /\ calls[c].pc = "idle"
  /\ calls' = [calls EXCEPT ![c] = [pc |-> "pricing", branch |-> b]]
  /\ UNCHANGED <<sequence, orders>>

\* Mutant: the sequence is read without the lock.
AllocateUnlocked(c) ==
  /\ calls[c].pc = "pricing"
  /\ LET b == calls[c].branch
     IN  /\ sequence[b] < MaxNumber
         /\ calls' = [calls EXCEPT ![c] =
              [pc |-> "numbered", branch |-> b, number |-> sequence[b] + 1]]
  /\ UNCHANGED <<sequence, orders>>

\* UPDATE "branches" SET "orderSequence" = "orderSequence" + 1 RETURNING it:
\* waits for the row, then holds it.
Allocate(c) ==
  /\ calls[c].pc = "pricing"
  /\ LET b == calls[c].branch
     IN  /\ ~Locked(b)
         /\ sequence[b] < MaxNumber
         /\ calls' = [calls EXCEPT ![c] =
              [pc |-> "numbered", branch |-> b, number |-> sequence[b] + 1]]
  /\ UNCHANGED <<sequence, orders>>

\* Mutant: the number is computed but the sequence is never written.
CommitWithoutSequence(c) ==
  /\ calls[c].pc = "numbered"
  /\ ~Taken(calls[c].number)
  /\ orders' = orders \cup {<<calls[c].branch, calls[c].number>>}
  /\ calls' = [calls EXCEPT ![c] = Idle]
  /\ UNCHANGED sequence

\* The order is inserted and everything commits, the sequence with it.
Commit(c) ==
  /\ calls[c].pc = "numbered"
  /\ ~Taken(calls[c].number)
  /\ orders' = orders \cup {<<calls[c].branch, calls[c].number>>}
  /\ sequence' = [sequence EXCEPT ![calls[c].branch] = calls[c].number]
  /\ calls' = [calls EXCEPT ![c] = Idle]

\* The unique index refuses the insert: the whole transaction rolls back.
Refuse(c) ==
  /\ calls[c].pc = "numbered"
  /\ Taken(calls[c].number)
  /\ calls' = [calls EXCEPT ![c] = Idle]
  /\ UNCHANGED <<sequence, orders>>

\* Mutant: the sequence is raised outside the transaction and stays raised.
RollbackKeepsNumber(c) ==
  /\ calls[c].pc \in {"pricing", "numbered"}
  /\ sequence' = IF calls[c].pc = "numbered"
                 THEN [sequence EXCEPT ![calls[c].branch] = calls[c].number]
                 ELSE sequence
  /\ calls' = [calls EXCEPT ![c] = Idle]
  /\ UNCHANGED orders

\* Mutant: the number is handed back on top of the database's own rollback.
RollbackTwice(c) ==
  /\ calls[c].pc \in {"pricing", "numbered"}
  /\ sequence' = IF calls[c].pc = "numbered"
                 THEN [sequence EXCEPT ![calls[c].branch] = @ - 1]
                 ELSE sequence
  /\ calls' = [calls EXCEPT ![c] = Idle]
  /\ UNCHANGED orders

\* A line fails validation, a coupon is used up, the process dies: nothing of
\* the transaction remains.
Rollback(c) ==
  /\ calls[c].pc \in {"pricing", "numbered"}
  /\ calls' = [calls EXCEPT ![c] = Idle]
  /\ UNCHANGED <<sequence, orders>>

Next ==
  \E c \in Calls : \/ \E b \in Branches : Submit(c, b)
                   \/ Allocate(c)
                   \/ Commit(c)
                   \/ Refuse(c)
                   \/ Rollback(c)

SubmitAt(b) == \E c \in Calls : Submit(c, b)
AllocateAt(b) == \E c \in Calls : Allocate(c) /\ calls[c].branch = b
CommitAt(b) == \E c \in Calls : Commit(c) /\ calls[c].branch = b

Spec == Init /\ [][Next]_vars

\* A transaction ends, by its timeout if nothing else; guests keep ordering at
\* every branch, the database grants a lock that is free again and again, and
\* not every transaction that could commit fails.
Fairness ==
  /\ \A c \in Calls : WF_vars(Commit(c) \/ Refuse(c) \/ Rollback(c))
  /\ \A b \in Branches : /\ SF_vars(SubmitAt(b))
                         /\ SF_vars(AllocateAt(b))
                         /\ SF_vars(CommitAt(b))

FairSpec == Spec /\ Fairness

-----------------------------------------------------------------------------
(* Properties                                                              *)

CallState ==
  {Idle} \cup [pc: {"pricing"}, branch: Branches]
         \cup [pc: {"numbered"}, branch: Branches, number: Nat]

\* The sequences are counters, the orders are numbered per branch.
TypeOK ==
  /\ sequence \in [Branches -> {n \in Nat : n >= Base}]
  /\ orders \subseteq Branches \X Nat
  /\ calls \in [Calls -> CallState]

\* The numbers of a branch are gapless: its orders carry exactly the numbers
\* after the base up to its sequence, whatever rolled back in between.
Gapless ==
  /\ \A o \in orders : Base < o[2] /\ o[2] <= sequence[o[1]]
  /\ \A b \in Branches : \A n \in (Base + 1)..sequence[b] : <<b, n>> \in orders

\* Two submissions of one branch never hold the same number, and no submission
\* holds a number its branch has used.
NumbersAreFresh ==
  \A c \in Calls : calls[c].pc = "numbered" =>
    /\ <<calls[c].branch, calls[c].number>> \notin orders
    /\ \A d \in Calls \ {c} :
         calls[d].pc = "numbered" /\ calls[d].branch = calls[c].branch =>
           calls[d].number # calls[c].number

\* A branch numbers its orders one after the other and gives no number twice.
NumbersAreSound == Gapless /\ NumbersAreFresh

\* Simultaneous submissions of a branch cannot collide: a transaction is only
\* ever refused for a number that another branch has used.
NoCollision ==
  [][\A c \in Calls : Refuse(c) =>
       \E b \in Branches \ {calls[c].branch} : <<b, calls[c].number>> \in orders]_vars

\* A branch that guests keep ordering at keeps taking orders: every number of
\* its sequence is followed by the next one.
BranchKeepsServing ==
  \A b \in Branches : \A n \in Base..(MaxNumber - 1) :
    sequence[b] = n ~> sequence[b] > n

\* The same, but for a branch whose next number another branch holds.
BranchServesOrCollides ==
  \A b \in Branches : \A n \in Base..(MaxNumber - 1) :
    sequence[b] = n ~> \/ sequence[b] > n
                       \/ \E d \in Branches \ {b} : <<d, n + 1>> \in orders
=============================================================================
