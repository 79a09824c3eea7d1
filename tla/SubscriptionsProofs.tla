------------------------ MODULE SubscriptionsProofs ------------------------
(***************************************************************************)
(* Proofs about Subscriptions, for any plans, any number of invoices and   *)
(* edits and any horizon: one request at a time, which may end anywhere,   *)
(* pays an invoice out once, keeps the days that were bought and leaves    *)
(* the tenant's switch in step with its row.                               *)
(***************************************************************************)
EXTENDS Subscriptions, FiniteSetTheorems, SequenceTheorems, TLAPS

\* At most one request is under way.
OneRequest == \A q, r \in Requests : q = r

-----------------------------------------------------------------------------
(* The inductive invariant                                                 *)

RowOK ==
  /\ clock \in 0 .. Horizon
  /\ sub \in Subscription \cup {Null}
  /\ tenant = "absent" => sub = Null

BooksOK ==
  /\ invoices \in Seq(Invoice)
  /\ \A i, j \in Open : i = j
  /\ \A i \in DOMAIN invoices :
       /\ invoices[i].activations <= 1
       /\ invoices[i].activations = 1 => invoices[i].status = "APPROVED"

\* The invoice is approved and its plan not activated yet.
IsOwed(i) ==
  /\ i \in DOMAIN invoices
  /\ invoices[i].status = "APPROVED"
  /\ invoices[i].activations = 0

\* A payment that is about to be written keeps the days the row has now.
KeepsDays(patch) ==
  /\ patch.expires \in Int
  /\ IF KeepsPlan(patch) /\ Ahead(sub.expires)
       THEN patch.expires = sub.expires + Term
       ELSE patch.expires <= clock + Term

WritesOK(w) ==
  /\ sub # Null
  /\ w.kind \in {"payment", "edit"}
  /\ w.invoice # 0 => IsOwed(w.invoice)
  /\ w.patch \in Patches
  /\ w.kind = "payment" =>
       /\ {"status", "expires"} \subseteq DOMAIN w.patch
       /\ w.patch.status = "ACTIVE"
       /\ KeepsDays(w.patch)

\* The switch is about to follow the row.
FlagsOK(w) ==
  /\ sub # Null
  /\ w.kind \in {"payment", "status"}
  /\ w.active \in {"active", "inactive"}
  /\ w.active = "active" <=> sub.status # "SUSPENDED"
  /\ w.kind = "payment" => sub.status = "ACTIVE"

RequestOK(w) ==
  /\ w.stage = "submitting" => w.plan \in Plans /\ Open = {}
  /\ w.stage = "settling" => w.invoice \in Open /\ w.status \in InvoiceStatuses \ {"PENDING"}
  /\ w.stage = "activating" => IsOwed(w.invoice)
  /\ w.stage = "writing" => WritesOK(w)
  /\ w.stage = "flagging" => FlagsOK(w)

RequestsOK ==
  /\ request = [r \in Requests |-> request[r]]
  /\ \A r \in Requests : RequestOK(request[r])

\* What InStep says, with the status a payment leaves in place of what it means.
Linked ==
  (sub # Null /\ lastWord # "switch" /\ \A r \in Requests : request[r].stage # "flagging") =>
    /\ tenant = "active" <=> sub.status # "SUSPENDED"
    /\ lastWord = "payment" => sub.status = "ACTIVE"

SubInv == RowOK /\ BooksOK /\ RequestsOK /\ Linked

LEMMA SubInitHolds == SubInit => SubInv
<1> SUFFICES ASSUME SubInit PROVE SubInv
  OBVIOUS
<1>1. sub # Null => sub = MigratedRow /\ tenant = "active"
  BY DEF SubInit
<1>2. RowOK
  BY <1>1, PlansAndDates DEF SubInit, RowOK, MigratedRow, Subscription, SubStatuses, Dates
<1>3. BooksOK
  BY DEF SubInit, BooksOK, Open
<1>4. RequestsOK
  BY DEF SubInit, RequestsOK, RequestOK, Free
<1>5. Linked
  BY <1>1 DEF SubInit, Linked, MigratedRow
<1> QED
  BY <1>2, <1>3, <1>4, <1>5 DEF SubInv

-----------------------------------------------------------------------------
(* What steps leave alone                                                  *)

LEMMA BooksStay ==
  ASSUME BooksOK, invoices' = invoices
  PROVE  BooksOK' /\ Open' = Open /\ \A i : IsOwed(i)' <=> IsOwed(i)
BY DEF BooksOK, Open, IsOwed

LEMMA RowStays ==
  ASSUME RowOK, sub' = sub, clock' = clock, tenant' = tenant
  PROVE  RowOK'
BY DEF RowOK

\* A request that moves on is all there is.
LEMMA OnlyRequest ==
  ASSUME OneRequest, RequestsOK, NEW r \in Requests, NEW w, Goes(r, w)
  PROVE  /\ request' = [q \in Requests |-> request'[q]]
         /\ \A q \in Requests : request'[q] = w
BY DEF OneRequest, RequestsOK, Goes

\* A request that looks and writes nothing.
LEMMA LooksKeep ==
  ASSUME SubInv, OneRequest, NEW r \in Requests, NEW w, Goes(r, w),
         request[r].stage # "flagging", w.stage # "flagging", RequestOK(w),
         UNCHANGED <<clock, tenant, sub, invoices, lastWord>>
  PROVE  SubInv'
<1>1. request' = [q \in Requests |-> request'[q]] /\ \A q \in Requests : request'[q] = w
  BY OnlyRequest DEF SubInv
<1>2. RowOK' /\ BooksOK'
  BY RowStays, BooksStay DEF SubInv
<1>3. ASSUME NEW q \in Requests PROVE RequestOK(request[q])'
  BY <1>1, BooksStay DEF SubInv, RequestOK, WritesOK, FlagsOK, IsOwed, KeepsDays, KeepsPlan, Ahead
<1>4. RequestsOK'
  BY <1>1, <1>3 DEF RequestsOK
<1>5. Linked'
  BY <1>1 DEF SubInv, Linked, OneRequest
<1> QED
  BY <1>2, <1>4, <1>5 DEF SubInv

-----------------------------------------------------------------------------
(* What is written into a row                                              *)

LEMMA PatchIsTyped ==
  ASSUME NEW patch \in Patches
  PROVE  /\ "plan" \in DOMAIN patch => patch.plan \in Plans
         /\ "status" \in DOMAIN patch => patch.status \in SubStatuses
         /\ \A f \in {"expires", "trialEnds", "grace"} :
              f \in DOMAIN patch => patch[f] \in Dates \cup {Null}
<1>1. CASE patch \in [status: SubStatuses]
  BY <1>1
<1>2. CASE patch \in [expires: Dates \cup {Null}]
  BY <1>2
<1>3. CASE patch \in [grace: Dates \cup {Null}]
  BY <1>3
<1>4. CASE patch \in [trialEnds: Dates \cup {Null}, status: {"TRIAL"}]
  BY <1>4 DEF SubStatuses
<1>5. CASE patch \in [plan: Plans]
  BY <1>5
<1>6. CASE patch \in [status: {"ACTIVE"}, expires: Dates]
  BY <1>6 DEF SubStatuses
<1>7. CASE patch \in [plan: Plans, status: {"ACTIVE"}, expires: Dates, trialEnds: {Null}, grace: {Null}]
  BY <1>7 DEF SubStatuses
<1> QED
  BY <1>1, <1>2, <1>3, <1>4, <1>5, <1>6, <1>7 DEF Patches

LEMMA PatchedIsARow ==
  ASSUME NEW s \in Subscription, NEW patch \in Patches
  PROVE  /\ Patched(s, patch) \in Subscription
         /\ Patched(s, patch).status = IF "status" \in DOMAIN patch THEN patch.status ELSE s.status
         /\ Patched(s, patch).expires = IF "expires" \in DOMAIN patch THEN patch.expires ELSE s.expires
BY PatchIsTyped DEF Patched, Subscription

LEMMA EditIsAPatch ==
  ASSUME clock \in 0 .. Horizon, NEW patch \in Edits
  PROVE  patch \in Patches
<1>1. SoonOrNever \subseteq Dates \cup {Null}
  BY PlansAndDates DEF SoonOrNever, Dates, LastDate
<1> QED
  BY <1>1 DEF Edits, Patches

\* What a payment writes, with the days of the row as it is.
LEMMA PaymentKeepsDays ==
  ASSUME RowOK, sub # Null, NEW keeps \in BOOLEAN, NEW patch, "expires" \in DOMAIN patch,
         KeepsPlan(patch) <=> keeps, patch.expires = Base(keeps) + Term
  PROVE  KeepsDays(patch) /\ (Base(keeps) + Term <= LastDate => patch.expires \in Dates)
<1>1. sub.expires \in Dates \cup {Null} /\ clock \in Nat
  BY DEF RowOK, Subscription
<1> QED
  BY <1>1, PlansAndDates DEF KeepsDays, Base, Ahead, Term, Dates, LastDate

-----------------------------------------------------------------------------
(* Each action preserves the invariant                                     *)

LEMMA TickKeeps == ASSUME SubInv, Tick PROVE SubInv'
<1>1. /\ sub' = sub /\ tenant' = tenant /\ lastWord' = lastWord /\ invoices' = invoices
      /\ request' = request /\ clock' = clock + 1 /\ clock' \in 0 .. Horizon /\ clock \in Nat
  BY PlansAndDates DEF Tick, SubInv, RowOK
<1>2. RowOK' /\ BooksOK' /\ Linked'
  BY <1>1, BooksStay DEF SubInv, RowOK, Linked
<1>3. sub # Null => sub.expires \in Dates \cup {Null}
  BY DEF SubInv, RowOK, Subscription
<1>4. ASSUME NEW patch, sub # Null, KeepsDays(patch) PROVE KeepsDays(patch)'
  <2>1. patch.expires \in Int
    BY <1>4 DEF KeepsDays
  <2>2. CASE KeepsPlan(patch) /\ Ahead(sub.expires)
    BY <1>1, <1>3, <1>4, <2>1, <2>2, PlansAndDates DEF KeepsDays, KeepsPlan, Ahead, Term, Dates, LastDate
  <2>3. CASE ~ (KeepsPlan(patch) /\ Ahead(sub.expires))
    <3>1. ~ (KeepsPlan(patch) /\ Ahead(sub.expires))'
      BY <1>1, <1>3, <1>4, <2>3, PlansAndDates DEF KeepsPlan, Ahead, Dates, LastDate
    <3>2. patch.expires <= clock + Term
      BY <1>4, <2>3 DEF KeepsDays
    <3> QED
      BY <1>1, <2>1, <3>1, <3>2 DEF KeepsDays, Term
  <2> QED
    BY <2>2, <2>3
<1>5. ASSUME NEW q \in Requests PROVE RequestOK(request[q])'
  <2>1. RequestOK(request[q])
    BY DEF SubInv, RequestsOK
  <2> QED
    BY <1>1, <1>4, <2>1, BooksStay DEF SubInv, RequestOK, WritesOK, FlagsOK, IsOwed
<1> QED
  BY <1>1, <1>2, <1>5 DEF SubInv, RequestsOK

LEMMA SwitchPlanKeeps == ASSUME SubInv, NEW p \in Plans, SwitchPlan(p) PROVE SubInv'
<1>1. UNCHANGED <<clock, tenant, sub, invoices, request, lastWord>>
  BY DEF SwitchPlan
<1>2. RequestsOK'
  BY <1>1, BooksStay DEF SubInv, RequestsOK, RequestOK, WritesOK, FlagsOK, IsOwed, KeepsDays, KeepsPlan, Ahead
<1> QED
  BY <1>1, <1>2, RowStays, BooksStay DEF SubInv, Linked

\* A row that was not there, or is not there yet: nobody is writing one.
LEMMA SignUpKeeps == ASSUME SubInv, SignUp PROVE SubInv'
<1>1. /\ tenant = "absent" /\ tenant' = "active" /\ sub = Null
      /\ UNCHANGED <<clock, sub, invoices, request, lastWord>>
  BY DEF SignUp, SubInv, RowOK
<1>2. RequestsOK'
  BY <1>1, BooksStay DEF SubInv, RequestsOK, RequestOK, WritesOK, FlagsOK, IsOwed
<1> QED
  BY <1>1, <1>2, BooksStay DEF SubInv, Linked, RowOK

LEMMA SeedPlatformKeeps == ASSUME SubInv, SeedPlatform PROVE SubInv'
<1>1. /\ tenant # "absent" /\ sub = Null /\ sub' = MigratedRow /\ lastWord' = "switch"
      /\ UNCHANGED <<clock, tenant, invoices, request>>
  BY DEF SeedPlatform
<1>2. MigratedRow \in Subscription
  BY PlansAndDates DEF MigratedRow, Subscription, SubStatuses
<1>3. RequestsOK'
  BY <1>1, BooksStay DEF SubInv, RequestsOK, RequestOK, WritesOK, FlagsOK, IsOwed
<1> QED
  BY <1>1, <1>2, <1>3, BooksStay DEF SubInv, Linked, RowOK

LEMMA SubmitKeeps ==
  ASSUME SubInv, OneRequest, NEW r \in Requests, NEW p \in Plans, Submit(r, p)
  PROVE  SubInv'
<1>1. RequestOK(Submitting(p))
  BY DEF Submit, Submitting, RequestOK
<1> QED
  BY <1>1, LooksKeep DEF Submit, Submitting, Idling

LEMMA ReviewKeeps ==
  ASSUME SubInv, OneRequest, NEW r \in Requests, NEW i, NEW status \in InvoiceStatuses \ {"PENDING"},
         Review(r, i, status)
  PROVE  SubInv'
<1>1. RequestOK(Settling(i, status))
  BY DEF Review, Settling, RequestOK
<1> QED
  BY <1>1, LooksKeep DEF Review, Settling, Idling

LEMMA FreeIsOK == RequestOK(Free)
BY DEF RequestOK, Free

LEMMA LoadKeeps ==
  ASSUME SubInv, OneRequest, NEW r \in Requests, NEW i, NEW p \in Plans, Load(r, i, p),
         request[r].stage # "flagging", i # 0 => IsOwed(i)
  PROVE  SubInv'
<1>1. CASE ~ (p \in onSale /\ sub # Null)
  BY <1>1, FreeIsOK, LooksKeep DEF Load, Free
<1>2. CASE p \in onSale /\ sub # Null
  <2> DEFINE keeps == sub.plan = p
             until == Base(keeps) + Term
             w == Writing(i, "payment", Paid(p, until))
  <2>1. until <= LastDate /\ Goes(r, w)
    BY <1>2 DEF Load
  <2>2. /\ DOMAIN Paid(p, until) = {"plan", "status", "expires", "trialEnds", "grace"}
        /\ Paid(p, until).expires = until
        /\ Paid(p, until).status = "ACTIVE"
        /\ KeepsPlan(Paid(p, until)) <=> keeps
    BY DEF Paid, KeepsPlan
  <2>3. KeepsDays(Paid(p, until)) /\ until \in Dates
    <3> HIDE DEF keeps
    <3>1. keeps \in BOOLEAN
      BY DEF keeps
    <3> QED
      BY <1>2, <2>1, <2>2, <3>1, PaymentKeepsDays DEF SubInv
  <2>4. Paid(p, until) \in Patches
    BY <2>3 DEF Paid, Patches
  <2>5. w.stage = "writing" /\ w.kind = "payment" /\ w.invoice = i /\ w.patch = Paid(p, until)
    BY DEF Writing
  <2>6. RequestOK(w)
    <3> HIDE DEF w, until
    <3> QED
      BY <1>2, <2>2, <2>3, <2>4, <2>5 DEF RequestOK, WritesOK
  <2>7. UNCHANGED <<clock, tenant, sub, invoices, lastWord>>
    BY DEF Load
  <2> HIDE DEF w
  <2> QED
    BY <2>1, <2>5, <2>6, <2>7, LooksKeep
<1> QED
  BY <1>1, <1>2

LEMMA ActivateInvoiceKeeps ==
  ASSUME SubInv, OneRequest, NEW r \in Requests, ActivateInvoice(r)
  PROVE  SubInv'
<1> DEFINE i == request[r].invoice
<1>1. IsOwed(i) /\ request[r].stage = "activating"
  BY DEF ActivateInvoice, SubInv, RequestsOK, RequestOK
<1>2. invoices[i] \in Invoice
  BY <1>1 DEF SubInv, BooksOK, IsOwed
<1>3. invoices[i].plan \in Plans
  BY <1>2 DEF Invoice
<1>4. Load(r, i, invoices[i].plan)
  BY DEF ActivateInvoice
<1> HIDE DEF i
<1> QED
  BY <1>1, <1>3, <1>4, LoadKeeps

LEMMA ActivatePlanKeeps ==
  ASSUME SubInv, OneRequest, NEW r \in Requests, NEW p \in Plans, ActivatePlan(r, p)
  PROVE  SubInv'
<1>1. Load(r, 0, p) /\ request[r].stage = "idle"
  BY DEF ActivatePlan, Idling
<1> QED
  BY <1>1, LoadKeeps

LEMMA ExtendKeeps == ASSUME SubInv, OneRequest, NEW r \in Requests, Extend(r) PROVE SubInv'
<1> DEFINE until == Base(TRUE) + Term
           patch == [status |-> "ACTIVE", expires |-> until]
           w == Writing(0, "payment", patch)
<1>1. /\ sub # Null /\ until <= LastDate /\ Goes(r, w)
      /\ UNCHANGED <<clock, tenant, sub, invoices, lastWord>>
      /\ request[r].stage # "flagging"
  BY DEF Extend, Idling
<1>2. KeepsDays(patch) /\ until \in Dates
  <2>1. "expires" \in DOMAIN patch /\ patch.expires = until /\ KeepsPlan(patch)
    BY DEF KeepsPlan
  <2> HIDE DEF patch
  <2> QED
    BY <1>1, <2>1, PaymentKeepsDays DEF SubInv
<1>3. patch \in Patches
  BY <1>2 DEF Patches
<1>4. w.stage = "writing" /\ w.kind = "payment" /\ w.invoice = 0 /\ w.patch = patch
  BY DEF Writing
<1>5. RequestOK(w)
  <2>1. {"status", "expires"} \subseteq DOMAIN patch /\ patch.status = "ACTIVE"
    OBVIOUS
  <2> HIDE DEF w, patch
  <2> QED
    BY <1>1, <1>2, <1>3, <1>4, <2>1 DEF RequestOK, WritesOK
<1> HIDE DEF w
<1> QED
  BY <1>1, <1>4, <1>5, LooksKeep

LEMMA EditKeeps ==
  ASSUME SubInv, OneRequest, NEW r \in Requests, NEW patch \in Edits, Edit(r, patch)
  PROVE  SubInv'
<1> DEFINE w == Writing(0, "edit", patch)
<1>1. /\ sub # Null /\ Goes(r, w)
      /\ UNCHANGED <<clock, tenant, sub, invoices, lastWord>>
      /\ request[r].stage # "flagging"
  BY DEF Edit, Idling
<1>2. patch \in Patches
  BY EditIsAPatch DEF SubInv, RowOK
<1>3. w.stage = "writing" /\ w.kind = "edit" /\ w.invoice = 0 /\ w.patch = patch
  BY DEF Writing
<1> HIDE DEF w
<1>4. RequestOK(w)
  BY <1>1, <1>2, <1>3 DEF RequestOK, WritesOK
<1> QED
  BY <1>1, <1>3, <1>4, LooksKeep

\* The end of a request leaves the switch where it was, as its last word says.
LEMMA DieInKeeps == ASSUME SubInv, OneRequest, NEW r \in Requests, DieIn(r) PROVE SubInv'
<1>1. Goes(r, Free) /\ UNCHANGED <<clock, tenant, sub, invoices>>
  BY DEF DieIn
<1>2. CASE request[r].stage # "flagging"
  <2>1. lastWord' = lastWord
    BY <1>2 DEF DieIn
  <2> QED
    BY <1>1, <1>2, <2>1, FreeIsOK, LooksKeep DEF Free
<1>3. CASE request[r].stage = "flagging"
  <2>1. lastWord' = "switch"
    BY <1>3 DEF DieIn
  <2>2. request' = [q \in Requests |-> request'[q]] /\ \A q \in Requests : request'[q] = Free
    BY <1>1, OnlyRequest DEF SubInv
  <2>3. RequestsOK'
    BY <2>2 DEF RequestsOK, RequestOK, Free
  <2> QED
    BY <1>1, <2>1, <2>3, RowStays, BooksStay DEF SubInv, Linked
<1> QED
  BY <1>2, <1>3

\* A request that wrote and is gone, or goes on to the switch.
LEMMA CreateInvoiceKeeps ==
  ASSUME SubInv, OneRequest, NEW r \in Requests, CreateInvoice(r)
  PROVE  SubInv'
<1> DEFINE new == [plan |-> request[r].plan, status |-> "PENDING", activations |-> 0]
<1>1. /\ request[r].stage = "submitting" /\ invoices' = Append(invoices, new) /\ Goes(r, Free)
      /\ UNCHANGED <<clock, tenant, sub, lastWord>>
  BY DEF CreateInvoice
<1>2. Open = {} /\ request[r].plan \in Plans
  BY <1>1 DEF SubInv, RequestsOK, RequestOK
<1>3. new \in Invoice /\ new.status = "PENDING" /\ new.activations = 0
  BY <1>2 DEF Invoice, InvoiceStatuses
<1> HIDE DEF new
<1>4. invoices \in Seq(Invoice)
  BY DEF SubInv, BooksOK
<1>5. /\ invoices' \in Seq(Invoice) /\ DOMAIN invoices' = DOMAIN invoices \cup {Len(invoices) + 1}
      /\ \A i \in DOMAIN invoices : invoices'[i] = invoices[i]
      /\ invoices'[Len(invoices) + 1] = new
  BY <1>1, <1>3, <1>4
<1>6. Open' = {Len(invoices) + 1}
  BY <1>2, <1>3, <1>5 DEF Open
<1>7. BooksOK'
  BY <1>3, <1>5, <1>6 DEF SubInv, BooksOK
<1>8. request' = [q \in Requests |-> request'[q]] /\ \A q \in Requests : request'[q] = Free
  BY <1>1, OnlyRequest DEF SubInv
<1>9. RequestsOK'
  BY <1>8 DEF RequestsOK, RequestOK, Free
<1>10. Linked'
  BY <1>1, <1>8, OneRequest DEF SubInv, Linked, OneRequest
<1> QED
  BY <1>1, <1>7, <1>9, <1>10, RowStays DEF SubInv

LEMMA SettleKeeps == ASSUME SubInv, OneRequest, NEW r \in Requests, Settle(r) PROVE SubInv'
<1>1. PICK i : i = request[r].invoice
  OBVIOUS
<1>2. PICK status : status = request[r].status
  OBVIOUS
<1>3. /\ request[r].stage = "settling" /\ invoices' = [invoices EXCEPT ![i].status = status]
      /\ Goes(r, IF status = "APPROVED" THEN Activating(i) ELSE Free)
      /\ UNCHANGED <<clock, tenant, sub, lastWord>>
  BY <1>1, <1>2 DEF Settle
<1>4. i \in Open /\ status \in InvoiceStatuses \ {"PENDING"}
  BY <1>1, <1>2, <1>3 DEF SubInv, RequestsOK, RequestOK
<1>5. invoices \in Seq(Invoice) /\ i \in DOMAIN invoices /\ invoices[i].status = "PENDING"
  BY <1>4 DEF SubInv, BooksOK, Open
<1>6. invoices[i] \in Invoice
  BY <1>5
<1>7. invoices[i].activations = 0
  <2>1. invoices[i].activations \in Nat
    BY <1>6 DEF Invoice
  <2> QED
    BY <1>5, <2>1 DEF SubInv, BooksOK
<1>8. PICK new : new = [invoices[i] EXCEPT !.status = status]
  OBVIOUS
<1>9. new \in Invoice /\ new.status = status /\ new.activations = 0
  BY <1>4, <1>6, <1>7, <1>8 DEF Invoice
<1>10. invoices' = [invoices EXCEPT ![i] = new]
  BY <1>3, <1>8
<1>11. /\ invoices' \in Seq(Invoice) /\ DOMAIN invoices' = DOMAIN invoices
       /\ invoices'[i] = new /\ \A j \in DOMAIN invoices \ {i} : invoices'[j] = invoices[j]
  BY <1>5, <1>9, <1>10
<1>12. BooksOK'
  BY <1>4, <1>9, <1>11 DEF SubInv, BooksOK, Open
<1>13. PICK w : w = IF status = "APPROVED" THEN Activating(i) ELSE Free
  OBVIOUS
<1>14. RequestOK(w)' /\ w.stage # "flagging"
  BY <1>5, <1>9, <1>11, <1>13 DEF RequestOK, Activating, Free, IsOwed
<1>15. request' = [q \in Requests |-> request'[q]] /\ \A q \in Requests : request'[q] = w
  BY <1>3, <1>13, OnlyRequest DEF SubInv
<1>16. RequestsOK'
  BY <1>14, <1>15 DEF RequestsOK
<1>17. Linked'
  BY <1>3, <1>15, <1>14 DEF SubInv, Linked, OneRequest
<1> QED
  BY <1>3, <1>12, <1>16, <1>17, RowStays DEF SubInv

\* The invoice of a payment is counted, and only once.
LEMMA CountsOnce ==
  ASSUME BooksOK, NEW i, IsOwed(i), invoices' = [invoices EXCEPT ![i].activations = @ + 1]
  PROVE  BooksOK'
<1>1. invoices \in Seq(Invoice) /\ i \in DOMAIN invoices
  BY DEF BooksOK, IsOwed
<1>2. invoices[i] \in Invoice /\ invoices[i].status = "APPROVED" /\ invoices[i].activations = 0
  BY <1>1 DEF IsOwed
<1>3. PICK new : new = [invoices[i] EXCEPT !.activations = @ + 1]
  OBVIOUS
<1>4. new \in Invoice /\ new.status = "APPROVED" /\ new.activations = 1
  BY <1>2, <1>3 DEF Invoice
<1>5. invoices' = [invoices EXCEPT ![i] = new]
  BY <1>3
<1>6. /\ invoices' \in Seq(Invoice) /\ DOMAIN invoices' = DOMAIN invoices
      /\ invoices'[i] = new /\ \A j \in DOMAIN invoices \ {i} : invoices'[j] = invoices[j]
  BY <1>1, <1>4, <1>5
<1> QED
  BY <1>2, <1>4, <1>6 DEF BooksOK, Open

LEMMA WriteRowKeeps == ASSUME SubInv, OneRequest, NEW r \in Requests, WriteRow(r) PROVE SubInv'
<1>1. PICK w : w = request[r]
  OBVIOUS
<1> DEFINE next == CASE w.kind = "payment" -> Flagging("payment", "active")
                     [] w.kind = "edit" /\ "status" \in DOMAIN w.patch ->
                          Flagging("status", IF w.patch.status = "SUSPENDED" THEN "inactive" ELSE "active")
                     [] OTHER -> Free
<1>2. /\ w.stage = "writing" /\ sub' = Patched(sub, w.patch) /\ Goes(r, next)
      /\ invoices' = IF w.invoice = 0 THEN invoices
                     ELSE [invoices EXCEPT ![w.invoice].activations = @ + 1]
      /\ UNCHANGED <<clock, tenant, lastWord>>
  BY <1>1 DEF WriteRow
<1>3. WritesOK(w)
  BY <1>1, <1>2 DEF SubInv, RequestsOK, RequestOK
<1>4. sub \in Subscription /\ sub # Null
  BY <1>3 DEF SubInv, RowOK, WritesOK
<1>5. /\ sub' \in Subscription
      /\ sub'.status = IF "status" \in DOMAIN w.patch THEN w.patch.status ELSE sub.status
  BY <1>2, <1>3, <1>4, PatchedIsARow DEF WritesOK
<1>6. sub' # Null /\ RowOK'
  BY <1>2, <1>4, <1>5, NullIsNoRow DEF SubInv, RowOK
<1>7. BooksOK'
  BY <1>2, <1>3, CountsOnce, BooksStay DEF SubInv, WritesOK
<1>8. request' = [q \in Requests |-> request'[q]] /\ \A q \in Requests : request'[q] = next
  BY <1>2, OnlyRequest DEF SubInv
<1>9. CASE w.kind = "payment"
  <2>1. next = Flagging("payment", "active")
    BY <1>9
  <2>2. sub'.status = "ACTIVE"
    BY <1>3, <1>5, <1>9 DEF WritesOK
  <2> HIDE DEF next
  <2>3. RequestOK(next)'
    BY <1>6, <2>1, <2>2 DEF RequestOK, FlagsOK, Flagging
  <2> QED
    BY <1>6, <1>7, <1>8, <2>1, <2>3 DEF SubInv, RequestsOK, Linked, Flagging
<1>10. CASE w.kind = "edit" /\ "status" \in DOMAIN w.patch
  <2> DEFINE active == IF w.patch.status = "SUSPENDED" THEN "inactive" ELSE "active"
  <2>1. next = Flagging("status", active)
    BY <1>10
  <2>2. active = "active" <=> sub'.status # "SUSPENDED"
    BY <1>5, <1>10
  <2>3. active \in {"active", "inactive"}
    OBVIOUS
  <2> HIDE DEF next, active
  <2>4. RequestOK(next)'
    BY <1>6, <2>1, <2>2, <2>3 DEF RequestOK, FlagsOK, Flagging
  <2> QED
    BY <1>6, <1>7, <1>8, <2>1, <2>4 DEF SubInv, RequestsOK, Linked, Flagging
<1>11. CASE w.kind = "edit" /\ "status" \notin DOMAIN w.patch
  <2>1. next = Free
    BY <1>11
  <2>2. sub'.status = sub.status
    BY <1>5, <1>11
  <2> HIDE DEF next
  <2>3. RequestsOK'
    BY <1>8, <2>1 DEF RequestsOK, RequestOK, Free
  <2>4. Linked'
    BY <1>1, <1>2, <1>4, <1>8, <2>2 DEF SubInv, Linked, OneRequest
  <2> QED
    BY <1>6, <1>7, <2>3, <2>4 DEF SubInv
<1> QED
  BY <1>3, <1>9, <1>10, <1>11 DEF WritesOK

LEMMA WriteFlagKeeps == ASSUME SubInv, OneRequest, NEW r \in Requests, WriteFlag(r) PROVE SubInv'
<1>1. PICK w : w = request[r]
  OBVIOUS
<1>2. /\ w.stage = "flagging" /\ tenant' = w.active /\ lastWord' = w.kind /\ Goes(r, Free)
      /\ UNCHANGED <<clock, sub, invoices>>
  BY <1>1 DEF WriteFlag
<1>3. FlagsOK(w)
  BY <1>1, <1>2 DEF SubInv, RequestsOK, RequestOK
<1>4. RowOK' /\ BooksOK'
  BY <1>2, <1>3, BooksStay DEF SubInv, RowOK, FlagsOK
<1>5. request' = [q \in Requests |-> request'[q]] /\ \A q \in Requests : request'[q] = Free
  BY <1>2, OnlyRequest DEF SubInv
<1>6. RequestsOK'
  BY <1>5 DEF RequestsOK, RequestOK, Free
<1>7. Linked'
  BY <1>2, <1>3 DEF Linked, FlagsOK
<1> QED
  BY <1>4, <1>6, <1>7 DEF SubInv

\* An operator's write while no request is under way.
LEMMA HandKeeps ==
  ASSUME SubInv, OneRequest, NEW r \in Requests, Idling(r), UNCHANGED <<clock, invoices, request>>,
         sub' \in Subscription \cup {Null}, sub' = Null => sub = Null,
         tenant' \in {"active", "inactive"}, tenant # "absent" \/ sub # Null,
         lastWord' \in {"status", "switch"},
         lastWord' = "status" => (tenant' = "active" <=> sub'.status # "SUSPENDED")
  PROVE  SubInv'
<1>1. RowOK' /\ BooksOK'
  BY BooksStay DEF SubInv, RowOK
<1>2. RequestsOK'
  BY DEF SubInv, RequestsOK, RequestOK, Idling, OneRequest
<1>3. Linked'
  BY DEF Linked
<1> QED
  BY <1>1, <1>2, <1>3 DEF SubInv

LEMMA SuspendKeeps == ASSUME SubInv, OneRequest, NEW r \in Requests, Suspend(r) PROVE SubInv'
<1>1. PICK patch : patch = [status |-> "SUSPENDED"]
  OBVIOUS
<1>2. patch \in Patches /\ "status" \in DOMAIN patch /\ patch.status = "SUSPENDED"
  BY <1>1 DEF Patches, SubStatuses
<1>3. /\ Idling(r) /\ sub # Null /\ sub' = Patched(sub, patch) /\ tenant' = "inactive"
      /\ lastWord' = "status" /\ UNCHANGED <<clock, invoices, request>>
  BY <1>1 DEF Suspend
<1>4. sub' \in Subscription /\ sub'.status = "SUSPENDED"
  BY <1>2, <1>3, PatchedIsARow DEF SubInv, RowOK
<1> QED
  BY <1>3, <1>4, NullIsNoRow, HandKeeps

LEMMA LiftKeeps == ASSUME SubInv, OneRequest, NEW r \in Requests, Lift(r) PROVE SubInv'
<1>1. PICK patch : patch = [status |-> "ACTIVE"]
  OBVIOUS
<1>2. patch \in Patches /\ "status" \in DOMAIN patch /\ patch.status = "ACTIVE"
  BY <1>1 DEF Patches, SubStatuses
<1>3. /\ Idling(r) /\ sub # Null /\ sub' = Patched(sub, patch) /\ tenant' = "active"
      /\ lastWord' = "status" /\ UNCHANGED <<clock, invoices, request>>
  BY <1>1 DEF Lift
<1>4. sub' \in Subscription /\ sub'.status = "ACTIVE"
  BY <1>2, <1>3, PatchedIsARow DEF SubInv, RowOK
<1> QED
  BY <1>3, <1>4, NullIsNoRow, HandKeeps

LEMMA SetActiveKeeps ==
  ASSUME SubInv, OneRequest, NEW r \in Requests, NEW active \in {"active", "inactive"}, SetActive(r, active)
  PROVE  SubInv'
<1>1. /\ Idling(r) /\ tenant # "absent" /\ tenant' = active /\ lastWord' = "switch"
      /\ sub' = sub /\ UNCHANGED <<clock, invoices, request>>
  BY DEF SetActive
<1> QED
  BY <1>1, HandKeeps DEF SubInv, RowOK

LEMMA SubStutterKeeps == ASSUME SubInv, UNCHANGED subVars PROVE SubInv'
<1>1. UNCHANGED <<clock, tenant, sub, invoices, request, lastWord>>
  BY DEF subVars
<1>2. RequestsOK'
  BY <1>1, BooksStay DEF SubInv, RequestsOK, RequestOK, WritesOK, FlagsOK, IsOwed, KeepsDays, KeepsPlan, Ahead
<1> QED
  BY <1>1, <1>2, RowStays, BooksStay DEF SubInv, Linked

LEMMA SubNextKeeps == OneRequest /\ SubInv /\ [SubNext]_subVars => SubInv'
<1> SUFFICES ASSUME OneRequest, SubInv, [SubNext]_subVars PROVE SubInv'
  OBVIOUS
<1>1. CASE Tick \/ SignUp \/ SeedPlatform
  BY <1>1, TickKeeps, SignUpKeeps, SeedPlatformKeeps
<1>2. ASSUME NEW p \in Plans, SwitchPlan(p) PROVE SubInv'
  BY <1>2, SwitchPlanKeeps
<1>3. ASSUME NEW r \in Requests, CreateInvoice(r) \/ Settle(r) \/ WriteRow(r) \/ WriteFlag(r) \/ DieIn(r)
      PROVE  SubInv'
  BY <1>3, CreateInvoiceKeeps, SettleKeeps, WriteRowKeeps, WriteFlagKeeps, DieInKeeps
<1>4. ASSUME NEW r \in Requests, ActivateInvoice(r) \/ Extend(r) \/ Suspend(r) \/ Lift(r)
      PROVE  SubInv'
  BY <1>4, ActivateInvoiceKeeps, ExtendKeeps, SuspendKeeps, LiftKeeps
<1>5. ASSUME NEW r \in Requests, NEW active \in {"active", "inactive"}, SetActive(r, active) PROVE SubInv'
  BY <1>5, SetActiveKeeps
<1>6. ASSUME NEW r \in Requests, NEW p \in Plans, Submit(r, p) \/ ActivatePlan(r, p) PROVE SubInv'
  BY <1>6, SubmitKeeps, ActivatePlanKeeps
<1>7. ASSUME NEW r \in Requests, NEW i \in DOMAIN invoices, NEW status \in InvoiceStatuses \ {"PENDING"},
             Review(r, i, status)
      PROVE  SubInv'
  BY <1>7, ReviewKeeps
<1>8. ASSUME NEW r \in Requests, NEW patch \in Edits, Edit(r, patch) PROVE SubInv'
  BY <1>8, EditKeeps
<1>9. CASE UNCHANGED subVars
  BY <1>9, SubStutterKeeps
<1> QED
  BY <1>1, <1>2, <1>3, <1>4, <1>5, <1>6, <1>7, <1>8, <1>9 DEF SubNext

-----------------------------------------------------------------------------
LEMMA SubInvHolds == OneRequest => (SubSpec => []SubInv)
<1> SUFFICES ASSUME OneRequest PROVE SubSpec => []SubInv
  OBVIOUS
<1>1. SubInv /\ [SubNext]_subVars => SubInv'
  BY SubNextKeeps
<1> QED
  BY SubInitHolds, <1>1, PTL DEF SubSpec

\* With one billing request at a time a plan is activated at most once for an
\* invoice, only for an approved one, and no tenant has two open: who submits
\* has seen none, and who activates an invoice finds it approved and unpaid.
THEOREM InvoicesCountOnce == OneRequest => (SubSpec => []InvoiceCountsOnce)
<1>1. SubInv => InvoiceCountsOnce
  <2> SUFFICES ASSUME SubInv PROVE InvoiceCountsOnce
    OBVIOUS
  <2>1. Cardinality(Open) <= 1
    <3>1. CASE Open = {}
      BY <3>1, FS_EmptySet
    <3>2. CASE Open # {}
      <4>1. PICK i \in Open : TRUE
        BY <3>2
      <4>2. Open = {i}
        BY <4>1 DEF SubInv, BooksOK
      <4>3. Cardinality({i}) = 1
        BY FS_Singleton
      <4> QED
        BY <4>2, <4>3
    <3> QED
      BY <3>1, <3>2
  <2> QED
    BY <2>1 DEF SubInv, BooksOK, InvoiceCountsOnce
<1> QED
  BY <1>1, SubInvHolds, PTL

\* The switch and the row stay in step, wherever a request ends, and a
\* restaurant that has paid and whose period runs can sign in and write.
THEOREM SwitchFollowsRow == OneRequest => (SubSpec => []InStep)
<1>1. SubInv => InStep
  <2> SUFFICES ASSUME SubInv, sub # Null, lastWord # "switch",
                      \A r \in Requests : request[r].stage # "flagging"
               PROVE  /\ tenant = "active" <=> sub.status # "SUSPENDED"
                      /\ lastWord = "payment" /\ Ahead(sub.expires) => tenant = "active" /\ Writable
    BY DEF InStep
  <2>1. tenant = "active" <=> sub.status # "SUSPENDED"
    BY DEF SubInv, Linked
  <2>2. ASSUME lastWord = "payment", Ahead(sub.expires) PROVE tenant = "active" /\ Writable
    <3>1. sub.status = "ACTIVE"
      BY <2>2 DEF SubInv, Linked
    <3>2. effectiveStatus(sub) = "ACTIVE"
      BY <2>2, <3>1 DEF effectiveStatus
    <3> QED
      BY <2>1, <3>1, <3>2 DEF Writable, isWritable
  <2> QED
    BY <2>1, <2>2
<1> QED
  BY <1>1, SubInvHolds, PTL

LEMMA LandsByWriting ==
  ASSUME OneRequest, RequestsOK, SubNext, NEW r \in Requests, Lands(r)
  PROVE  WriteRow(r)
<1>1. request[r].stage = "writing" /\ request'[r].stage = "flagging" /\ \A q \in Requests : q = r
  BY DEF Lands, OneRequest
<1>2. ~ (Tick \/ SignUp \/ SeedPlatform) /\ \A p \in Plans : ~ SwitchPlan(p)
  BY <1>1 DEF Tick, SignUp, SeedPlatform, SwitchPlan
<1>3. ~ (CreateInvoice(r) \/ Settle(r) \/ ActivateInvoice(r) \/ WriteFlag(r))
  BY <1>1 DEF CreateInvoice, Settle, ActivateInvoice, WriteFlag
<1>4. ~ (Extend(r) \/ Suspend(r) \/ Lift(r)) /\ \A active : ~ SetActive(r, active)
  BY <1>1 DEF Extend, Suspend, Lift, SetActive, Idling
<1>5. ~ DieIn(r)
  <2>1. request = [q \in Requests |-> request[q]]
    BY DEF RequestsOK
  <2>2. request' = [request EXCEPT ![r] = Free] => request'[r].stage = "idle"
    BY <2>1 DEF Free
  <2> QED
    BY <1>1, <2>2 DEF DieIn, Goes
<1>6. \A p : ~ (Submit(r, p) \/ ActivatePlan(r, p))
  BY <1>1 DEF Submit, ActivatePlan, Idling
<1>7. (\A i, status : ~ Review(r, i, status)) /\ \A patch : ~ Edit(r, patch)
  BY <1>1 DEF Review, Edit, Idling
<1> QED
  BY <1>1, <1>2, <1>3, <1>4, <1>5, <1>6, <1>7 DEF SubNext

\* A payment that lands lengthens a running period of its plan by its whole
\* term, and never makes a fresh one longer: what was read still holds.
THEOREM DaysAreKept == OneRequest => (SubSpec => PaidTimeIsKept)
<1> SUFFICES ASSUME OneRequest PROVE SubSpec => PaidTimeIsKept
  OBVIOUS
<1> DEFINE Keeps(r) == Lands(r) =>
             IF KeepsPlan(request[r].patch) /\ Ahead(sub.expires)
               THEN sub'.expires = sub.expires + Term
               ELSE sub'.expires <= clock + Term
<1>1. ASSUME SubInv, [SubNext]_subVars PROVE [\A r \in Requests : Keeps(r)]_subVars
  <2> SUFFICES ASSUME SubNext, NEW r \in Requests, Lands(r) PROVE Keeps(r)
    BY <1>1
  <2>1. WriteRow(r)
    BY <1>1, LandsByWriting DEF SubInv
  <2>2. PICK w : w = request[r]
    OBVIOUS
  <2>3. WritesOK(w) /\ w.kind = "payment"
    BY <1>1, <2>2 DEF SubInv, RequestsOK, RequestOK, Lands
  <2>4. PICK patch : patch = w.patch
    OBVIOUS
  <2>5. patch \in Patches /\ "expires" \in DOMAIN patch /\ KeepsDays(patch) /\ sub # Null
    BY <2>3, <2>4 DEF WritesOK
  <2>6. sub' = Patched(sub, patch)
    BY <2>1, <2>2, <2>4 DEF WriteRow
  <2>7. sub'.expires = patch.expires
    BY <1>1, <2>5, <2>6, PatchedIsARow DEF SubInv, RowOK
  <2> QED
    BY <2>2, <2>4, <2>5, <2>7 DEF KeepsDays
<1> QED
  BY <1>1, SubInvHolds, PTL DEF SubSpec, PaidTimeIsKept

=============================================================================
