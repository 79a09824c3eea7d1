--------------------------- MODULE Subscriptions ---------------------------
(***************************************************************************)
(* What a restaurant has bought: billing.service.ts, the subscription part *)
(* of platform-tenants.service.ts, and the reading of both in              *)
(* plans.service.ts. One tenant, its subscription row, its switch          *)
(* (tenants.isActive), and its invoices.                                   *)
(*                                                                         *)
(* A handler reads, decides, and writes in statements of its own: another  *)
(* request, the clock or the end of the process may come between. Only     *)
(* suspend() and activate() write the row and the switch in a transaction. *)
(* A row is always written with the fields of an update, the others stay.  *)
(***************************************************************************)
EXTENDS Integers, Sequences, FiniteSets

CONSTANTS
    Requests,       \* requests that can be under way at once
    Plans,
    DefaultPlan,    \* the plan with isDefault
    Null,           \* a date that is not set, a row that is not there
    Horizon,        \* bound: the last date
    ProcessDies,    \* whether a request may end between two of its statements
    MaxInvoices,    \* bound: invoices ever submitted
    MaxHands        \* bound: edits, suspensions and switches by an operator

ASSUME PlansAndDates ==
    /\ DefaultPlan \in Plans
    /\ Null \notin Int
    /\ ProcessDies \in BOOLEAN
    /\ Horizon \in Nat
    /\ MaxInvoices \in Nat
    /\ MaxHands \in Nat

VARIABLES
    clock,
    tenant,         \* "absent" before it signed up, then its switch
    sub,            \* the row of subscriptions
    onSale,         \* plans with isActive
    invoices,       \* the rows of subscription_invoices in order of creation
    request,        \* what each request has read and is about to write
    lastWord,       \* what last moved the switch: "payment", "status" or "switch"
    hands           \* edits, suspensions and switches so far

subVars == <<clock, tenant, sub, onSale, invoices, request, lastWord, hands>>

SubStatuses == {"TRIAL", "ACTIVE", "GRACE_PERIOD", "EXPIRED", "SUSPENDED"}

\* "CLOSED" is REJECTED or CANCELLED: nothing in the program tells them apart.
InvoiceStatuses == {"PENDING", "APPROVED", "CLOSED"}

Term == 1               \* what an invoice and an extension are for
LastDate == Horizon + 1 \* bound: no expiry is later
Dates == 0 .. LastDate

Subscription == [plan: Plans, status: SubStatuses, expires: Dates \cup {Null},
                 trialEnds: Dates \cup {Null}, grace: Dates \cup {Null}]

ASSUME NullIsNoRow == Null \notin Subscription

\* The invoice's row; activations counts the times its plan was activated.
Invoice == [plan: Plans, status: InvoiceStatuses, activations: Nat]

-----------------------------------------------------------------------------
(* What the row means now.                                                  *)

Ahead(date) == date # Null /\ date > clock

effectiveStatus(s) ==
    CASE s.status = "SUSPENDED" -> "SUSPENDED"
      [] s.status = "TRIAL" /\ (s.trialEnds = Null \/ Ahead(s.trialEnds)) -> "TRIAL"
      [] s.status \notin {"SUSPENDED", "TRIAL"} /\ (s.expires = Null \/ Ahead(s.expires)) -> "ACTIVE"
      [] OTHER -> IF Ahead(s.grace) THEN "GRACE_PERIOD" ELSE "EXPIRED"

isWritable(status) == status \in {"ACTIVE", "TRIAL", "GRACE_PERIOD"}

\* A tenant without a row counts as expired.
Writable == sub # Null /\ isWritable(effectiveStatus(sub))

Patched(s, patch) == [f \in DOMAIN s |-> IF f \in DOMAIN patch THEN patch[f] ELSE s[f]]

-----------------------------------------------------------------------------
(* Requests. "submitting", "settling": an invoice is about to be created,  *)
(* or to get a status. "activating": approveInvoice() is about to activate *)
(* the plan. "writing": the row is about to be patched. "flagging": the    *)
(* row is written, the switch not yet. invoice is 0 for an operator's own. *)

Free == [stage |-> "idle"]
Submitting(p) == [stage |-> "submitting", plan |-> p]
Settling(i, status) == [stage |-> "settling", invoice |-> i, status |-> status]
Activating(i) == [stage |-> "activating", invoice |-> i]
Writing(i, kind, patch) == [stage |-> "writing", invoice |-> i, kind |-> kind, patch |-> patch]
Flagging(kind, active) == [stage |-> "flagging", kind |-> kind, active |-> active]

Idling(r) == request[r].stage = "idle"
Goes(r, next) == request' = [request EXCEPT ![r] = next]

MigratedRow == [plan |-> DefaultPlan, status |-> "ACTIVE", expires |-> Null,
                trialEnds |-> Null, grace |-> Null]

\* A tenant older than the platform module, which the seed gave an open-ended
\* row, or one that is yet to sign up.
SubInit ==
    /\ clock = 0
    /\ \/ tenant = "active" /\ sub = MigratedRow
       \/ tenant = "absent" /\ sub = Null
    /\ onSale = Plans
    /\ invoices = <<>>
    /\ request = [r \in Requests |-> Free]
    /\ lastWord = "status"
    /\ hands = 0

-----------------------------------------------------------------------------
(* Around the requests.                                                     *)

Tick ==
    /\ clock < Horizon
    /\ clock' = clock + 1
    /\ UNCHANGED <<tenant, sub, onSale, invoices, request, lastWord, hands>>

ByHand == hands < MaxHands /\ hands' = hands + 1

\* signup() creates everything a restaurant needs except a subscription.
SignUp ==
    /\ tenant = "absent"
    /\ tenant' = "active"
    /\ UNCHANGED <<clock, sub, onSale, invoices, request, lastWord, hands>>

\* seed-platform.ts, when an operator runs it again.
SeedPlatform ==
    /\ tenant # "absent"
    /\ sub = Null
    /\ DefaultPlan \in onSale
    /\ sub' = MigratedRow
    /\ lastWord' = "switch"
    /\ UNCHANGED <<clock, tenant, onSale, invoices, request, hands>>

\* The switch of a plan in platform-plans.service.ts.
SwitchPlan(p) ==
    /\ ByHand
    /\ onSale' = IF p \in onSale THEN onSale \ {p} ELSE onSale \cup {p}
    /\ UNCHANGED <<clock, tenant, sub, invoices, request, lastWord>>

\* The process dies under a request. Between the row and the switch that
\* leaves the two as they are.
DieIn(r) ==
    /\ ProcessDies
    /\ ~ Idling(r)
    /\ Goes(r, Free)
    /\ lastWord' = IF request[r].stage = "flagging" THEN "switch" ELSE lastWord
    /\ UNCHANGED <<clock, tenant, sub, onSale, invoices, hands>>

-----------------------------------------------------------------------------
(* Invoices.                                                                *)

Open == {i \in DOMAIN invoices : invoices[i].status = "PENDING"}

\* submitInvoice(): the plan is on sale and no invoice is open ...
Submit(r, p) ==
    /\ Idling(r)
    /\ tenant # "absent"
    /\ p \in onSale
    /\ Open = {}
    /\ Goes(r, Submitting(p))
    /\ UNCHANGED <<clock, tenant, sub, onSale, invoices, lastWord, hands>>

\* ... and the row is created.
CreateInvoice(r) ==
    /\ request[r].stage = "submitting"
    /\ Len(invoices) < MaxInvoices
    /\ invoices' = Append(invoices, [plan |-> request[r].plan, status |-> "PENDING", activations |-> 0])
    /\ Goes(r, Free)
    /\ UNCHANGED <<clock, tenant, sub, onSale, lastWord, hands>>

\* Mutant: the review does not look whether the invoice is still open.
ReviewAny(r, i, status) ==
    /\ Idling(r)
    /\ i \in DOMAIN invoices
    /\ Goes(r, Settling(i, status))
    /\ UNCHANGED <<clock, tenant, sub, onSale, invoices, lastWord, hands>>

\* cancelInvoice(), approveInvoice(), rejectInvoice(): requirePending() ...
Review(r, i, status) ==
    /\ Idling(r)
    /\ i \in Open
    /\ Goes(r, Settling(i, status))
    /\ UNCHANGED <<clock, tenant, sub, onSale, invoices, lastWord, hands>>

\* ... and the status, whatever it is by now.
Settle(r) ==
    LET i == request[r].invoice
    IN  /\ request[r].stage = "settling"
        /\ invoices' = [invoices EXCEPT ![i].status = request[r].status]
        /\ Goes(r, IF request[r].status = "APPROVED" THEN Activating(i) ELSE Free)
        /\ UNCHANGED <<clock, tenant, sub, onSale, lastWord, hands>>

-----------------------------------------------------------------------------
(* activatePlan() and extend().                                             *)

\* Mutant: the period starts today.
StartToday(keeps) == clock

\* Where a period starts: at the expiry if its days carry over, or today.
Base(keeps) == IF keeps /\ Ahead(sub.expires) THEN sub.expires ELSE clock

\* Mutant: activatePlan() leaves the status alone.
PaidNotLit(plan, until) ==
    [plan |-> plan, expires |-> until, trialEnds |-> Null, grace |-> Null]

\* The fields activatePlan() writes.
Paid(plan, until) ==
    [plan |-> plan, status |-> "ACTIVE", expires |-> until, trialEnds |-> Null, grace |-> Null]

\* It answers 404 to a plan or row that is not there, 400 to a plan that is
\* not on sale; nothing puts the invoice back.
Load(r, i, p) ==
    /\ IF p \in onSale /\ sub # Null
         THEN LET until == Base(sub.plan = p) + Term
              IN  /\ until <= LastDate
                  /\ Goes(r, Writing(i, "payment", Paid(p, until)))
         ELSE Goes(r, Free)
    /\ UNCHANGED <<clock, tenant, sub, onSale, invoices, lastWord, hands>>

ActivateInvoice(r) ==
    /\ request[r].stage = "activating"
    /\ Load(r, request[r].invoice, invoices[request[r].invoice].plan)

\* An operator's own activation.
ActivatePlan(r, p) == Idling(r) /\ Load(r, 0, p)

\* Extending keeps the plan, the end of a trial and the grace it finds.
Extend(r) ==
    /\ Idling(r)
    /\ sub # Null
    /\ LET until == Base(TRUE) + Term
       IN  /\ until <= LastDate
           /\ Goes(r, Writing(0, "payment", [status |-> "ACTIVE", expires |-> until]))
    /\ UNCHANGED <<clock, tenant, sub, onSale, invoices, lastWord, hands>>

-----------------------------------------------------------------------------
(* updateSubscription(), one field at a time, or a trial with its end.      *)

SoonOrNever == {Null, clock + 1}

Edits ==
    {[status |-> s] : s \in SubStatuses}
      \cup {[expires |-> d] : d \in SoonOrNever}
      \cup {[trialEnds |-> d, status |-> "TRIAL"] : d \in SoonOrNever}
      \cup {[grace |-> d] : d \in SoonOrNever}
      \cup {[plan |-> p] : p \in Plans}

Edit(r, patch) ==
    /\ ByHand
    /\ Idling(r)
    /\ sub # Null
    /\ Goes(r, Writing(0, "edit", patch))
    /\ UNCHANGED <<clock, tenant, sub, onSale, invoices, lastWord>>

\* The update of the row, and what is left to do: the switch, unless an edit
\* leaves the status alone.
WriteRow(r) ==
    LET w == request[r]
    IN  /\ w.stage = "writing"
        /\ sub' = Patched(sub, w.patch)
        /\ invoices' = IF w.invoice = 0 THEN invoices
                       ELSE [invoices EXCEPT ![w.invoice].activations = @ + 1]
        /\ Goes(r, CASE w.kind = "payment" -> Flagging("payment", "active")
                     [] w.kind = "edit" /\ "status" \in DOMAIN w.patch ->
                          Flagging("status", IF w.patch.status = "SUSPENDED" THEN "inactive" ELSE "active")
                     [] OTHER -> Free)
        /\ UNCHANGED <<clock, tenant, onSale, lastWord, hands>>

WriteFlag(r) ==
    /\ request[r].stage = "flagging"
    /\ tenant' = request[r].active
    /\ lastWord' = request[r].kind
    /\ Goes(r, Free)
    /\ UNCHANGED <<clock, sub, onSale, invoices, hands>>

-----------------------------------------------------------------------------
(* suspend(), activate() and setActive(), one write each: they take the    *)
(* place of a request, and never stand between its steps.                   *)

Suspend(r) ==
    /\ ByHand
    /\ Idling(r)
    /\ sub # Null
    /\ sub' = Patched(sub, [status |-> "SUSPENDED"])
    /\ tenant' = "inactive"
    /\ lastWord' = "status"
    /\ UNCHANGED <<clock, onSale, invoices, request>>

Lift(r) ==
    /\ ByHand
    /\ Idling(r)
    /\ sub # Null
    /\ sub' = Patched(sub, [status |-> "ACTIVE"])
    /\ tenant' = "active"
    /\ lastWord' = "status"
    /\ UNCHANGED <<clock, onSale, invoices, request>>

\* The switch alone, for a business that has closed.
SetActive(r, active) ==
    /\ ByHand
    /\ Idling(r)
    /\ tenant # "absent"
    /\ tenant' = active
    /\ lastWord' = "switch"
    /\ UNCHANGED <<clock, sub, onSale, invoices, request>>

SubNext ==
    \/ Tick \/ SignUp \/ SeedPlatform
    \/ \E p \in Plans : SwitchPlan(p)
    \/ \E r \in Requests :
         \/ CreateInvoice(r) \/ Settle(r) \/ ActivateInvoice(r) \/ Extend(r)
         \/ WriteRow(r) \/ WriteFlag(r) \/ DieIn(r) \/ Suspend(r) \/ Lift(r)
         \/ \E active \in {"active", "inactive"} : SetActive(r, active)
         \/ \E p \in Plans : Submit(r, p) \/ ActivatePlan(r, p)
         \/ \E i \in DOMAIN invoices, status \in InvoiceStatuses \ {"PENDING"} : Review(r, i, status)
         \/ \E patch \in Edits : Edit(r, patch)

SubSpec == SubInit /\ [][SubNext]_subVars

-----------------------------------------------------------------------------
Patches ==
    [status: SubStatuses] \cup [expires: Dates \cup {Null}] \cup [grace: Dates \cup {Null}]
      \cup [trialEnds: Dates \cup {Null}, status: {"TRIAL"}] \cup [plan: Plans]
      \cup [status: {"ACTIVE"}, expires: Dates]
      \cup [plan: Plans, status: {"ACTIVE"}, expires: Dates, trialEnds: {Null}, grace: {Null}]

RequestStates ==
    {Free} \cup [stage: {"submitting"}, plan: Plans]
      \cup [stage: {"settling"}, invoice: DOMAIN invoices, status: InvoiceStatuses \ {"PENDING"}]
      \cup [stage: {"activating"}, invoice: DOMAIN invoices]
      \cup [stage: {"writing"}, invoice: {0} \cup DOMAIN invoices, kind: {"payment", "edit"}, patch: Patches]
      \cup [stage: {"flagging"}, kind: {"payment", "status"}, active: {"active", "inactive"}]

\* Type invariant. A row is only ever written where there is one.
SubTypeOK ==
    /\ clock \in 0 .. Horizon
    /\ tenant \in {"absent", "active", "inactive"}
    /\ sub \in Subscription \cup {Null}
    /\ onSale \subseteq Plans
    /\ invoices \in Seq(Invoice)
    /\ request \in [Requests -> RequestStates]
    /\ lastWord \in {"payment", "status", "switch"}
    /\ hands \in 0 .. MaxHands
    /\ sub = Null => \A r \in Requests : request[r].stage \notin {"writing", "flagging"}

\* "a subscription edit that lands on those statuses keeps the two in step"
\* (platform-tenants.service.ts:373) and "paying up has to undo both or the
\* restaurant stays dark with an ACTIVE subscription" (billing.service.ts:124):
\* when no request stands between its two writes, and the switch was not last
\* moved on its own, it is off exactly under a suspension; and after a payment
\* that still runs the restaurant can sign in and write, whatever suspension,
\* trial or edit came before.
InStep ==
    (sub # Null /\ lastWord # "switch" /\ \A r \in Requests : request[r].stage # "flagging") =>
        /\ tenant = "active" <=> sub.status # "SUSPENDED"
        /\ lastWord = "payment" /\ Ahead(sub.expires) => tenant = "active" /\ Writable

\* "paying early never costs the days already bought" (billing.service.ts:74):
\* a payment or an extension that lands on a running period of its plan
\* lengthens it by its whole term, however long the request took; a fresh
\* period is never longer than its term.
Lands(r) == request[r].stage = "writing" /\ request[r].kind = "payment" /\ request'[r].stage = "flagging"
KeepsPlan(patch) == "plan" \in DOMAIN patch => patch.plan = sub.plan
PaidTimeIsKept ==
    [][\A r \in Requests : Lands(r) =>
         IF KeepsPlan(request[r].patch) /\ Ahead(sub.expires)
           THEN sub'.expires = sub.expires + Term
           ELSE sub'.expires <= clock + Term]_subVars

\* One transfer is paid out once: a plan is activated at most once for an
\* invoice, only for one that was approved and stays so, and the operators
\* never have two invoices of a tenant before them.
InvoiceCountsOnce ==
    /\ Cardinality(Open) <= 1
    /\ \A i \in DOMAIN invoices :
         /\ invoices[i].activations <= 1
         /\ invoices[i].activations = 1 => invoices[i].status = "APPROVED"

\* "Approving a receipt is what activates the plan." (billing.service.ts:370):
\* when no request is under way, an approved invoice whose plan is on sale has
\* been activated. The tenants signup() creates have no row to activate.
ApprovedIsActivated ==
    (\A r \in Requests : Idling(r)) =>
        \A i \in DOMAIN invoices :
            invoices[i].status = "APPROVED" /\ invoices[i].plan \in onSale => invoices[i].activations > 0

=============================================================================
