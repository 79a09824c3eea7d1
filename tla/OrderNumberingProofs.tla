------------------------ MODULE OrderNumberingProofs ------------------------
(***************************************************************************)
(* Proofs about OrderNumbering, for any set of branches and submissions.   *)
(* The row lock is the heart of the argument: the submission that holds a  *)
(* number is the only one at its branch, and its number is the next one.   *)
(***************************************************************************)
EXTENDS OrderNumbering, TLAPS

\* What the lock on the branch row gives: one number in flight per branch.
LockInv ==
  \A c \in Calls : calls[c].pc = "numbered" =>
    /\ calls[c].number = sequence[calls[c].branch] + 1
    /\ \A d \in Calls \ {c} :
         calls[d].pc = "numbered" => calls[d].branch # calls[c].branch

IInv == TypeOK /\ Gapless /\ LockInv

\* A request at work has a branch, and a number once it is numbered.
LEMMA CallTypes ==
  ASSUME TypeOK, NEW c \in Calls
  PROVE  /\ calls[c].pc = "pricing" => calls[c] = [pc |-> "pricing", branch |-> calls[c].branch]
         /\ calls[c].pc = "pricing" => calls[c].branch \in Branches
         /\ calls[c].pc = "numbered" => calls[c].branch \in Branches /\ calls[c].number \in Nat
<1>1. calls[c] \in CallState
  BY DEF TypeOK
<1>2. CASE calls[c] = Idle
  BY <1>2 DEF Idle
<1>3. CASE calls[c] \in [pc: {"pricing"}, branch: Branches]
  BY <1>3
<1>4. CASE calls[c] \in [pc: {"numbered"}, branch: Branches, number: Nat]
  BY <1>4
<1> QED
  BY <1>1, <1>2, <1>3, <1>4 DEF CallState

\* The invariant holds initially.
LEMMA InitIInv == Init => IInv
<1> SUFFICES ASSUME Init PROVE IInv
  OBVIOUS
<1>1. TypeOK
  BY NumberingAssumption DEF Init, TypeOK, CallState
<1>2. Gapless
  BY NumberingAssumption DEF Init, Gapless
<1>3. LockInv
  BY DEF Init, LockInv, Idle
<1> QED
  BY <1>1, <1>2, <1>3 DEF IInv

\* A request that ends without committing gives its number up.
LEMMA FreeIInv ==
  ASSUME IInv, NEW c \in Calls, calls' = [calls EXCEPT ![c] = Idle],
         UNCHANGED <<sequence, orders>>
  PROVE  IInv'
<1>1. TypeOK'
  BY DEF IInv, TypeOK, CallState
<1>2. Gapless'
  BY DEF IInv, Gapless
<1>3. LockInv'
  BY DEF IInv, TypeOK, LockInv, Idle
<1> QED
  BY <1>1, <1>2, <1>3 DEF IInv

\* Every step keeps the invariant.
LEMMA NextIInv == IInv /\ [Next]_vars => IInv'
<1> SUFFICES ASSUME IInv, [Next]_vars PROVE IInv'
  OBVIOUS
<1> USE DEF IInv
<1>1. ASSUME NEW c \in Calls, NEW b \in Branches, Submit(c, b) PROVE IInv'
  <2>1. TypeOK'
    BY <1>1 DEF Submit, TypeOK, CallState
  <2>2. Gapless'
    BY <1>1 DEF Submit, Gapless
  <2>3. LockInv'
    BY <1>1 DEF Submit, TypeOK, LockInv
  <2> QED
    BY <2>1, <2>2, <2>3
<1>2. ASSUME NEW c \in Calls, Allocate(c) PROVE IInv'
  <2> DEFINE b == calls[c].branch
  <2>1. b \in Branches /\ sequence[b] \in Nat
    BY <1>2, CallTypes DEF Allocate, TypeOK
  <2>2. calls' = [calls EXCEPT ![c] =
                    [pc |-> "numbered", branch |-> b, number |-> sequence[b] + 1]]
    BY <1>2 DEF Allocate
  <2>3. UNCHANGED <<sequence, orders>> /\ ~Locked(b)
    BY <1>2 DEF Allocate
  <2>4. TypeOK'
    BY <2>1, <2>2, <2>3 DEF TypeOK, CallState
  <2>5. Gapless'
    BY <2>3 DEF Gapless
  <2>6. LockInv'
    BY <2>1, <2>2, <2>3 DEF LockInv, Locked, TypeOK
  <2> QED
    BY <2>4, <2>5, <2>6
<1>3. ASSUME NEW c \in Calls, Commit(c) PROVE IInv'
  <2> DEFINE b == calls[c].branch
             n == calls[c].number
  <2>1. b \in Branches /\ n \in Nat /\ sequence[b] \in Nat /\ sequence[b] >= Base
    BY <1>3, CallTypes DEF Commit, TypeOK
  <2>2. n = sequence[b] + 1
    BY <1>3 DEF Commit, LockInv
  <2>3. orders' = orders \cup {<<b, n>>} /\ sequence' = [sequence EXCEPT ![b] = n]
    BY <1>3 DEF Commit
  <2>4. calls' = [calls EXCEPT ![c] = Idle]
    BY <1>3 DEF Commit
  <2>5. TypeOK'
    BY <2>1, <2>2, <2>3, <2>4, NumberingAssumption DEF TypeOK, CallState
  <2>6. Gapless'
    <3>1. ASSUME NEW o \in orders' PROVE Base < o[2] /\ o[2] <= sequence'[o[1]]
      <4>1. CASE o = <<b, n>>
        BY <4>1, <2>1, <2>2, <2>3, NumberingAssumption DEF TypeOK
      <4>2. CASE o \in orders
        <5>1. o[1] \in Branches /\ o[2] \in Nat /\ sequence[o[1]] \in Nat
          BY <4>2 DEF TypeOK
        <5>2. Base < o[2] /\ o[2] <= sequence[o[1]]
          BY <4>2 DEF Gapless
        <5>3. sequence'[o[1]] >= sequence[o[1]] /\ sequence'[o[1]] \in Nat
          BY <5>1, <2>1, <2>2, <2>3 DEF TypeOK
        <5> QED
          BY <5>1, <5>2, <5>3
      <4> QED
        BY <4>1, <4>2, <2>3
    <3>2. ASSUME NEW a \in Branches, NEW k \in (Base + 1)..sequence'[a]
          PROVE  <<a, k>> \in orders'
      <4>1. CASE a = b /\ k = n
        BY <4>1, <2>3
      <4>2. CASE ~(a = b /\ k = n)
        <5>1. k \in (Base + 1)..sequence[a]
          BY <4>2, <2>1, <2>2, <2>3, NumberingAssumption DEF TypeOK
        <5> QED
          BY <5>1, <2>3 DEF Gapless
      <4> QED
        BY <4>1, <4>2
    <3> QED
      BY <3>1, <3>2 DEF Gapless
  <2>7. LockInv'
    BY <1>3, <2>1, <2>3, <2>4 DEF LockInv, TypeOK, Commit, Idle
  <2> QED
    BY <2>5, <2>6, <2>7
<1>4. ASSUME NEW c \in Calls, Refuse(c) PROVE IInv'
  BY <1>4, FreeIInv DEF Refuse
<1>5. ASSUME NEW c \in Calls, Rollback(c) PROVE IInv'
  BY <1>5, FreeIInv DEF Rollback
<1>6. CASE UNCHANGED vars
  BY <1>6 DEF vars, TypeOK, CallState, Gapless, LockInv
<1> QED
  BY <1>1, <1>2, <1>3, <1>4, <1>5, <1>6 DEF Next

\* The sequences and the orders keep their types in every behaviour.
THEOREM Typed == Spec => []TypeOK
<1>1. IInv => TypeOK
  BY DEF IInv
<1> QED
  BY InitIInv, NextIInv, <1>1, PTL DEF Spec

\* However many submissions race, fail and roll back, the numbers of a branch
\* are gapless: nextOrderNumber keeps what its comment says of one branch.
THEOREM NumbersAreGapless == Spec => []Gapless
<1>1. IInv => Gapless
  BY DEF IInv
<1> QED
  BY InitIInv, NextIInv, <1>1, PTL DEF Spec

\* No submission ever holds a number that its branch has used or that another
\* submission of the branch holds.
THEOREM Fresh == Spec => []NumbersAreFresh
<1>1. IInv => NumbersAreFresh
  <2> SUFFICES ASSUME IInv, NEW c \in Calls, calls[c].pc = "numbered"
               PROVE  /\ <<calls[c].branch, calls[c].number>> \notin orders
                      /\ \A d \in Calls \ {c} :
                           calls[d].pc = "numbered" /\ calls[d].branch = calls[c].branch =>
                             calls[d].number # calls[c].number
    BY DEF NumbersAreFresh
  <2>1. calls[c].branch \in Branches /\ sequence[calls[c].branch] \in Nat
    BY CallTypes DEF IInv, TypeOK
  <2>2. calls[c].number = sequence[calls[c].branch] + 1
    BY DEF IInv, LockInv
  <2>3. <<calls[c].branch, calls[c].number>> \notin orders
    BY <2>1, <2>2 DEF IInv, Gapless
  <2> QED
    BY <2>3 DEF IInv, LockInv
<1> QED
  BY InitIInv, NextIInv, <1>1, PTL DEF Spec

\* Both together: what orders have taken and what submissions hold.
THEOREM NumbersStaySound == Spec => []NumbersAreSound
<1>1. Gapless /\ NumbersAreFresh => NumbersAreSound
  BY DEF NumbersAreSound
<1> QED
  BY NumbersAreGapless, Fresh, <1>1, PTL

\* The row lock works: a submission is only ever refused for a number that
\* another branch of the tenant has used.
THEOREM CollisionsComeFromOtherBranches == Spec => NoCollision
<1> DEFINE Elsewhere(c) ==
      \E b \in Branches \ {calls[c].branch} : <<b, calls[c].number>> \in orders
<1>1. IInv /\ [Next]_vars => [\A c \in Calls : Refuse(c) => Elsewhere(c)]_vars
  <2> SUFFICES ASSUME IInv, NEW c \in Calls, Refuse(c) PROVE Elsewhere(c)
    OBVIOUS
  <2>1. /\ calls[c].branch \in Branches
        /\ sequence[calls[c].branch] \in Nat
        /\ calls[c].number = sequence[calls[c].branch] + 1
    BY CallTypes DEF Refuse, IInv, TypeOK, LockInv
  <2>2. PICK b \in Branches : <<b, calls[c].number>> \in orders
    BY DEF Refuse, Taken
  <2>3. b # calls[c].branch
    BY <2>1, <2>2 DEF IInv, Gapless
  <2> QED
    BY <2>2, <2>3
<1> QED
  BY InitIInv, NextIInv, <1>1, PTL DEF Spec, NoCollision

\* So a tenant with one branch never loses an order to the index; with a second
\* branch it does, since the index spans the tenant.
COROLLARY OneBranchNeverCollides ==
  ASSUME \A a, b \in Branches : a = b
  PROVE  Spec => [][\A c \in Calls : ~Refuse(c)]_vars
<1>1. TypeOK /\ [\A c \in Calls : Refuse(c) =>
         \E b \in Branches \ {calls[c].branch} : <<b, calls[c].number>> \in orders]_vars
       => [\A c \in Calls : ~Refuse(c)]_vars
  <2>1. ASSUME TypeOK, NEW c \in Calls, Refuse(c)
        PROVE  calls[c].branch \in Branches
    BY <2>1, CallTypes DEF Refuse
  <2> QED
    BY <2>1
<1> QED
  BY Typed, CollisionsComeFromOtherBranches, <1>1, PTL DEF NoCollision
=============================================================================
