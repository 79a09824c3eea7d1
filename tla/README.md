# Verification of FoodOS

FoodOS runs restaurants: guests order from a QR menu, staff take the orders
through the kitchen, the counter takes the money; around that the restaurant keeps
a book of customers, sends campaigns, employs accounts and pays for a plan. The API
(`src/apps/api`, NestJS over Prisma and PostgreSQL) keeps all state that matters; the
web application (`src/apps/web`) shows it and keeps a session and a cart of its own, and
`src/packages` holds the rules both share, the order state machine among them. This
directory models them in TLA+, checks the models with TLC and proves the properties
that matter most with TLAPS.

## How the program works, as far as the models care

Nearly every handler has one shape:

1. it reads rows outside any transaction and decides on that copy;
2. it writes in one `$transaction` (READ COMMITTED), by row id, sometimes with
   atomic increments, rarely with a condition on what was read;
3. after the commit it runs statements of their own (table side effects) and
   emits in-process events (realtime, notifications, SMS).

So the hard behaviours are: two requests that decide on the same copy; a read
inside a transaction that a commit of another overtakes; a request that dies
between two commits; callbacks that are delivered twice; and sequences of legal
requests that end where nobody meant them to. A request in flight is a slot of
`Calls` (or `Guests`, `Staff`) whose record `calls[c]` holds what it has read and
not yet used; each step up to the next commit, or the next read that another
commit may make stale, is one action. A request that dies is a slot that never
moves again, or, where its row locks or a bound on its kind matter, an action (`Fail`,
`Rollback`, `Abort`, `BreakOff`, `DieIn`).

The screens have a shape too: they show the answer of the last fetch, and fetch again
when a timer is due, when an event comes over a socket, or when a request of their own was
answered. A newer fetch throws an older one away; an event goes to the sockets connected at
that moment and is gone.

## Inventory

| component | state | operations | interacts through | hard part | correct when |
|---|---|---|---|---|---|
| order lifecycle (`packages/types/src/order-state-machine.ts`) | none | transition table, groups, timeline rank | called by orders, tables, tracking | three order types share one status column | a status always fits its type; the timeline has a time for each finished step |
| orders (`modules/orders`) | orders, items, history | place, add a round, change the bill, change status | branch row (number), tables, coupons, points, events | checks on stale copies; totals recomputed from rows | status moves along the table; the bill is the bill of the items |
| payments (`modules/payments`) | payments, `paidTotal`, `paymentStatus` | record, online session, callback, refund | gateway, order row, table | callback in two commits, delivered twice; refunds recompute from rows | receipts match; paid means covered; nothing refunded beyond its amount |
| order numbering (`orders.service.ts`, `nextOrderNumber`) | `branches.orderSequence` | allocate inside the order's transaction | unique index per tenant | concurrent submissions, rollback, second branch | gapless, unique, every branch keeps serving |
| tables (`modules/tables`) | status, `activeOrderId` | seat, wait for payment, release, set by hand, delete | order and payment handlers, after their commits | count and release are two statements | an open order holds its table; a table is given back in the end |
| coupons (`modules/coupons`) | coupon, redemptions | create, change, remove, evaluate, claim | order transaction | last use claimed by two orders | limits hold; the count is the redemptions |
| loyalty (`modules/loyalty`) | balance, ledger, scheme | quote, spend, welcome, award, reverse, adjust | order placing and status | balance read early, moved later | ended orders are settled; spending is covered; one welcome |
| SMS outbox (`modules/sms`) | messages | enqueue and try at once, sweep, receipts | provider, cron | sweep against first try, crash after send | every message is sent or given up |
| campaigns (`modules/crm`) | campaign status, counts | create, send | outbox, plan allowance | sent twice, stopped half way, a month that turns | nobody gets it twice; the allowance holds; the report is true |
| billing (`modules/billing`) | invoices, subscription | submit, cancel, approve, reject, activate | plans, tenant switch | two reviewers, cancel against approve, an approval that stops half way | one activation per approved invoice; days bought are kept |
| plans, tenants (`modules/plans`, `modules/platform`) | subscription, tenant switch | suspend, activate, extend, guard requests | billing, subscription guard | status derived from dates; row and switch written apart | row and switch agree; who paid may write |
| sessions (`modules/auth`, `web/lib/api-client.ts`, `web/features/auth`) | refresh tokens, cookies, the page's flight | log in, rotate, revoke, refresh, boot | staff | one token presented twice, answers that are lost | a tab never presents a token that was used |
| staff (`modules/staff`) | users | create, change, disable | sessions | two owners disable each other | an owner remains |
| guest requests (`modules/guest`, `web/features/admin/waiter-call-bar.tsx`) | waiter calls, feedback; the bar of each screen | call, answer, close, give feedback, poll, show | tables, events, sockets | events nobody hears, fetches that race | every bar comes to show the open calls |
| menu, pricing, carts (`modules/menu`, `modules/orders/order-pricing.service.ts`; `web/features/customer`, `web/app/(fullscreen)/pos`) | products with their modifier groups; the cart of a page | edit, retire, delete, read; choose, submit; price | order placing | a cart on an old menu, a price read in two statements | what the sheet allows is taken, up to the sizes of a request, at its price |
| customers (`modules/crm`) | counters, consent | count up, count down, edit, filter, badge | orders, campaigns | an order counted on an old look | segments are what the orders say |
| screens of orders (`web/app/(fullscreen)/kds`, `web/features/customer/tracking-view.tsx`, `modules/realtime`, `modules/notifications`) | what each shows | poll, hear, show, tap | orders, payments, sockets | lost events, overtaken fetches, polling that stops | every screen comes to show what is |
| delivery, restaurants, signup, QR, themes, reports, audit, tenant filter | rows edited one at a time | edits and reads | | little | |

`PROJECT.json` lists the components with their files and what is not modelled.

## Modules

| module | models | rests on |
|---|---|---|
| `OrderLifecycle` | the state machine as relations and sets | |
| `Money` | `computeOrderTotals` | |
| `OrderFlow` | abstract: what an order promises when each request takes effect at once | `OrderLifecycle` |
| `OrderDesk` | `OrdersService` and `PaymentsService`, one action per read or commit | `OrderLifecycle`, `Money`, implements `OrderFlow` |
| `OrderNumbering` | the branch sequence, its row lock and the tenant's unique index | |
| `DiningTables` | seating, waiting for payment, release, the floor plan | `OrderLifecycle` |
| `Rewards` | coupons and points inside the order transaction, with row locks | |
| `SmsOutbox` | the outbox of messages: the attempt fired by `enqueue`, the sweep, receipts, restarts | |
| `Subscriptions` | the subscription row, the tenant's switch, invoices, operators | |
| `Campaigns` | creation, `send()` statement by statement, the monthly allowance | |
| `WebSession` | rotation on the server, cookies, boot, shared refresh and queries in a tab | |
| `StaffAccounts` | staff requests by actors on tokens that may be old | |
| `GuestCalls` | a waiter call from the tap to the bars of the floor | |
| `Carts` | the menu, a page's copy of it, the sheets and carts of guest and counter, `resolveLines` | |
| `CustomerBook` | the counters of a customer, segments, badges, consent | |
| `OrderScreens` | kitchen display and tracking page, the events and queries behind them | `OrderLifecycle` |
| `BackOffice` | the nine modules from `SmsOutbox` to `OrderScreens`, one at work in each behaviour | them |
| `MCOrderDesk`, `MCRewards` | symmetry for TLC | |
| `OrderDeskProofs`, `OrderNumberingProofs`, `DiningTablesProofs`, `RewardsProofs`, `SubscriptionsProofs` | theorems about the module of that name | it and TLAPS |
| `OrderDeskSerialProofs` | `OrderDesk` with one request at a time, its sums and its refinement of `OrderFlow` | `OrderDeskProofs` |
| `MessagesProofs` | theorems about `SmsOutbox` and `Campaigns` | them |
| `BackOfficeProofs` | theorems about the other parts of `BackOffice`, and about all of them together | `BackOffice`, `SubscriptionsProofs`, `MessagesProofs` |

**State.** `order`, `payment`, `table`, `coupon`, `customer` are the rows, cut to
the columns the guards read. `items[o]` in `OrderDesk` is the sum of the committed
item rows, `trail[o]` the hops in `order_status_history`, `gateway[p]` what the
customer did at ZarinPal, `accepted` in `SmsOutbox` the messages the SMS provider
took, whatever the API heard of it. Amounts are small numbers. The rates of service charge
and tax (`ServiceBps`, `TaxBps`) and the fees a courier may ask (`Fees`) are constants of
`OrderDesk`: the code reads the rates anew for every total, and they do not change while the
orders of an instance are open. `order[o]` in `Rewards` carries the ledger lines
of the order (`earned`, `redeemed`, `returned`). In `Subscriptions` a date is a count of
terms from now, `activations` counts what an invoice paid for, `lastWord` says which statement
moved the switch last. `postings` in `Campaigns` are the rows it left in the outbox. In
`WebSession` a token is `live`, `rotated` or `ended`, and `lost` holds those whose rotation the
tab could not hear of. An id in `Carts` is a name with the edit that wrote it, as a save of the
product form replaces the groups; `copy` in `OrderScreens` and `shown` in `GuestCalls` are what
a screen shows, `asked` and `fetch` its query.

**Actions.** `BeginX(c, ...)` is the read and the checks of handler X, `CommitX(c)`
its transaction. A handler with a read inside its transaction that others can
overtake has a third action (`ReadItems`, `ReadReceipts`, `ReadLedger`). In
`CommitDetails` the order row is updated first and held, so that transaction is
one action. Row locks appear where the code relies on them: the branch row
(`Locked`) in `OrderNumbering`, the coupon's and the customer's row (`holder`) in
`Rewards`, the payment row in `ReadReceipts`. The nine parts of `BackOffice` hold a request's
place in `request`, `sender`, `rotation`, `handler`, `tap`, `ordering`, `clerk` and `mover` in the
same way, and each statement outside a transaction is an action.

**Composition.** The components meet in rows. `OrderDesk` leaves out the table,
the customer and the coupon of an order, `DiningTables` and `Rewards` leave out
its bill; each repeats the part of `updateStatus` it hangs on. A product of them
would multiply states and add no step that one of them does not have.

The nine parts around the orders share no variable, so that every interleaving of them is, seen
from one, a behaviour of its own with steps it cannot tell from nothing. `BackOffice` says so by
running any one of them and leaving the others as they start; it is one specification, one type
invariant and one run. Where two parts meet in the code they do so through something each of them
has for itself: a campaign's rows are `postings` there and messages here; the order a cart becomes
is a ticket of the book and a slip of the screens.

## Runs

| run | question | bounds |
|---|---|---|
| `desk_serial` | with requests one at a time: do bill, receipts and payment status agree, and does the desk implement `OrderFlow`? | 1 order, 2 payments, 1 request, 2 order types, rounds of 2, discounts 0 and 3 (more than a round), a service charge and a tax of 25 %, a courier fee of 1, payments up to 3 |
| `desk_concurrent` | what still holds with two requests in flight, either of which may die? | 1 order, 1 payment, 2 requests, cash and online |
| `desk_callback` (violated) | is a repeated gateway callback harmless? | 2 requests |
| `desk_terminal` (violated) | is a terminal status final? | 2 requests |
| `desk_covered` (violated) | does an order with nothing left to pay read PAID? | 1 request |
| `numbering` | are numbers gapless, fresh, and refused only for another branch's number? | 2 branches, 3 submissions, 3 numbers each |
| `numbering_second_branch` (violated) | does every branch keep taking orders? | 2 branches |
| `tables_serial` | with requests one at a time: does an open order hold its table, and is every table given back? | 2 tables, 2 orders, 1 request, RESERVED and DISABLED by hand |
| `tables_race` (violated) | is a table with an open order ever released? | 1 table, 2 orders, 2 requests |
| `rewards` | do the limits of a coupon and the ledger survive races, rollbacks, deletions and the switch of the scheme? | 2 orders of one number in flight, new or known with 0 to 2 points, 1 coupon with limits 1 or none, 1 member of staff at work |
| `backoffice` | do the nine parts around the orders keep what they promise, through lost answers, restarts, requests that end between two statements, races of fetches, and screens without a socket? | per part, below |
| `approval` (violated) | does the approval of a receipt activate the plan? | 1 invoice, nobody else at work |

`backoffice` part by part. A hypothesis in italics is one the property needs: without it TLC
shows the race, and the comment of the property names it.

| part | properties | bounds |
|---|---|---|
| `SmsOutbox` | `OutboxIsSound`, `EveryMessageSettles` | 2 messages, 2 attempts, sweeps of 1 row, 2 restarts or database errors |
| `Subscriptions` | `InStep`, `InvoiceCountsOnce`, `PaidTimeIsKept` | *1 billing request at a time*, which may end anywhere; 2 plans, 2 invoices, dates 0 to 2, 1 edit, suspension or switch by an operator |
| `Campaigns` | `NobodyTwice`, `AllowanceKept`, `ReportIsTrue` | *1 `send()` at a time*; 2 campaigns, 2 customers, an allowance of 3, 2 months |
| `WebSession` | `SpentTokenIsNotPresented` | *1 tab*; 2 refused queries at once, 3 tokens |
| `StaffAccounts` | `OwnerRemains` | *1 staff request at a time*, by actors of any age; 2 accounts |
| `GuestCalls` | `CallsAreSeen` | 2 guests tapping, 1 table and reason, 1 screen, 2 calls, 2 taps of the staff, 2 fetches or requests that fail |
| `Carts` | `CartIsHonoured`, `OneMenuPrices` | 1 dish, 2 options, 2 prices, lines of 1 portion (for 99) and 1 option (for 20), orders of 2 lines (for 60), 1 save or other edit |
| `CustomerBook` | `SegmentsAreTrue` | *1 staff request at a time*; 1 customer, 3 orders, regular at 3 (for 5) |
| `OrderScreens` | `ScreensSettle` | *1 request of the staff at a time*; 1 order for a table or delivered, 1 screen, 1 round, 1 tap on a ticket, 1 failure |

Why these bounds are enough to be interesting: every race in the hazard list is
between two requests, and each run that asks about races has two (numbering has
three, so that a lock is contended while another branch commits). `desk_serial`
has two payments so that partial payments, refunds of one of two and an added
round after a payment all occur; a discount of 3 on a round of 2 exercises the
cap. `Rewards` starts with customers who may have a balance, so that two orders
can spend at once without an earlier order in the model; asking for 3 points with
room for 2 exercises the quote's cap. In `SmsOutbox` a batch of one row makes one message
wait behind the other, two attempts make a retry and an exhaustion, and two troubles
let a restart hit a message twice. In `Subscriptions`
two invoices are needed for a second payment on a running period, two plans for a change of plan,
and dates beyond the horizon for what was bought ahead. An allowance of 3 is two campaigns
of two customers less one, so that the second campaign meets the limit; two months let one turn
under a `send()`. Three tokens are a rotation, one whose answer is lost, and the login after
it. In `Carts` one group stands for up to ten whose rules are applied one by one; one option stands
for the 20 a line may have and two for the 21 it may not; two lines let a cart hold an old choice
beside a new one, and a third is the line too many; the edit may fall before, between or after the
two statements that read an order's menu. A screen of orders neither sees the others nor is
sent anything that depends on them, so one is open at a time; a takeaway goes the road of a table's
order under names of its own (`READY_FOR_PICKUP` for `READY`, `PICKED_UP` for `SERVED`).
`MaxMessages`, `MaxTroubles`, `MaxInvoices`, `MaxHands`, `Horizon`, `MaxMonths`, `MaxQueries`,
`MaxTokens`, `MaxCalls`, `MaxUpdates`, `MaxMisses`, `MaxEdits`, `MaxRounds`, `MaxTaps`, `MaxFaults`,
`MaxSubtotal`, `MaxAmount`, `MaxPaid`, `MaxNumber` and `MaxPoints` bound counters in the guards of
the actions that raise them, and nothing else. `Batch`, `MaxAttempts`, `Allowance`, `MaxRecipients`,
`MaxStaff`, `MaxQuantity`, `MaxOptions`, `MaxLines` and `VipFloor` are limits of the program. The
pages know only the first of the three of a request: a cart in the model may hold one line more than
the server takes, which stands for all longer ones.

Every `desk_*`, `tables_*`, `rewards`, `backoffice` and `approval` run sets `CHECK_DEADLOCK FALSE`:
orders end, payment slots are used up, tables go and guests pause, so a bounded instance really stops.
`numbering` does check deadlock.

Each property of a passing run has a mutant in `PROJECT.json`: an operator
beside the original with a plausible mistake (a dropped check, a missing lock, a
count without looking), under which TLC finds the property violated.

## What the runs show

Holds with two requests in flight: a status always fits its order type, the
tracking timeline is truthful, refunds stay within their payment, only money the
gateway has taken is captured; numbers are gapless and fresh; the limits of a
coupon hold and its count is the number of redemptions; two first orders are
welcomed once; points quoted under the customer's row lock are there when taken.

Holds for the outbox whatever overlaps, fails or dies: a PENDING row is one the sweep
will find, no status says more than what happened, and every message is settled for
good in the end. `SmsOutbox!TypeOK` gives the price of the unguarded overlap: a row may be tried
once more than `SMS_MAX_ATTEMPTS`, because `deliver` does not look for FAILED, and
(what no document denies) a message may be sent twice, by the two attempts or after
an answer that was lost.

Holds only with requests one at a time, and fails with two: `ReceiptsMatch` (a
refund overwrites `paidTotal` from rows read before another commit; a late FAILED
overwrites PAID), `BillMatchesItems` (two rounds added at once), `PaidMeansCovered`
(a round checked before a payment committed), `OpenOrdersHoldTables`, and the refinement
`FlowSpec`. What would only repeat a check when nothing comes between it and the write that relies
on it (`ReleasedOnlyWhenFree`) is asked with two requests.
`desk_serial` and `tables_serial` say what the handlers promise when
they do not overlap, which is what their tests exercise.
`EndedMeansSettled` is checked with one member of staff at work, beside two orders
being placed. With two it fails: two completions of one order both look for an
award before either has written one.

Holds around the orders whatever is lost, late or cut off, with one request of a kind at a
time: a payment is counted once, keeps the days already bought and leaves the row and the switch in
step; no customer gets a campaign twice and the allowance of a month holds; an active
owner remains; every bar of calls, kitchen rail and tracking page comes to show what is, by
polling alone. Holds with saves of the product form in between: an order is charged the prices
of one menu, and what a sheet let through is taken at its price unless that dish was changed
meanwhile or the order is larger than a request may be (99 portions and 20 options a line, 60
lines), which neither page knows but for the 99 in the guest's cart. Holds in one tab: a refresh token is
never presented again after a rotation the tab could hear of.

What a page of the tracker may go on showing: once it shows an ended order it no longer asks, "once
the order can no longer change" (`tracking-view.tsx:42`), though `refund()` changes its payment
and emits no event. `ScreensSettle` therefore asks of an ended order that its end is shown.

Disagreements between the code and its own documents (the runs marked violated,
with the quotations under `findings`):

* two callbacks for one payment, both looked up while it was PENDING, credit the
  order twice, where the handler says verifying twice must be harmless;
* a status change checked before a cancellation brings the order back, where
  terminal states never transition again;
* an order whose discount brings its total down to what was paid, or that is free,
  stays PENDING, can be neither paid nor completed;
* `orders` has a unique index on tenant and number, but every branch counts from the
  same base: the second branch of a tenant is refused until its rival is ahead no more,
  and as a rollback gives the number back, it never gets past it;
* a table is released under an order that commits between the count and the release;
* `approveInvoice` commits APPROVED and activates the plan afterwards; a tenant from the signup page
  has no row to activate, so the receipt reads approved and no plan was activated.

Met while modelling, in the code and not in a run. Each is a place where a reader of the
code would be surprised; no property asserts that the code does otherwise, and those that
contradict a property under two requests are the hypotheses above.

* Platform: a suspended restaurant's "staff can still sign in" (`platform-tenants.service.ts:175`),
  but `login()` and `refresh()` refuse an inactive tenant. Lifting the suspension of a trial or of a
  row without an end makes it ACTIVE, unpaid; extending a row without an end gives it one.
* Sessions: two tabs share the cookie and not the flight; a boot that fails late signs out a user
  who has logged in since; a refresh that races a logout issues a token that lives on.
* Staff: enabling a disabled account does not look at `maxStaff`.
* Calls: `updateCall` can reopen a resolved call; two taps at once create two calls.
* Orders and customers: a cancellation takes the order's present total from `totalSpent`, which rounds
  and discounts never changed, so that "the cached aggregates and the orders they summarise can never
  disagree" (`orders.service.ts:677`) is true of the counts only. A round added to an order that the
  kitchen has served never shows on its rail. `updateDetails` and `refund` emit no event.
* Menu: a form that was opened earlier overwrites a newer price, availability or consent; the
  counter's plus button passes the 99 the server takes; an answer lost on the way leaves the
  cart full, and a second tap places a second order.
* Payments: a payment is checked against the balance read before its transaction, so that two counters
  which settle one order at once both charge all of it ("refuses to charge an already-settled order
  twice", `orders.e2e-spec.ts:418`). Without any overlap, a session that was open at the gateway when
  the order was settled in cash is credited when its callback comes.
* Tables: `remove` deletes by id after a look at the status, so that a table seated in between goes
  ("Delete a table that is not occupied", `tables.controller.ts:65`). It looks for OCCUPIED only: the
  table of guests who wait for their bill (WAITING_PAYMENT) may be deleted without any overlap.
* Sheets: they apply the rules of each group. A line of more than 20 options, which several groups or
  one of 30 options allow, is refused as a malformed body (`order.ts:23`), though the button "is only
  enabled for a selection the server will accept" (`product-sheet.tsx:20`).
* Segments: DINE_IN is described as "has dine-in orders and no more takeaway than dine-in"
  (`customer-segments.ts:68`) and filtered as no takeaway at all. The filter INACTIVE_30 takes in who
  has been away for 60 days, whose badge is INACTIVE_60 alone. `SegmentsAreTrue` says what the filters
  do guarantee (nobody in DINE_IN is not mostly that) and names this badge as the exception.
* Delivery: `deleteZone` counts and deletes in two statements, and an order may come in between.
* Days: `time.util.ts` makes a day 24 hours long, which is right for a fixed offset only.

## Fairness

`OrderNumbering!FairSpec`: a transaction ends (`WF` on commit, refusal or rollback:
Prisma's interactive transactions time out); guests keep ordering at each branch,
the database grants a lock that is free again and again, and not every transaction
that could commit fails (`SF` per branch on submit, allocate and commit). Without
strong fairness a branch could wait for ever behind transactions that all roll back,
which says nothing about the numbers. `DiningTables!FairSpec`: a handler that has
begun goes on (`WF` on each request's own steps); nothing it waits for depends on a
guest. Guests and staff are never assumed to act. `SmsOutbox!Fairness`: an attempt that
was fired goes on (`WF` per job: an await returns, a send ends after 15 seconds), the cron
starts the sweep and the sweep goes through its list (`WF`), a backoff runs out (`WF` per
message). Weak fairness is enough, because the sweep takes rows in the order of their
`nextAttemptAt` (`turn`) and a retried row goes to the end. Nothing is assumed of the
provider's answers, of new messages or of the receipts: `reconcile` may starve, and no property
asks for DELIVERED.
In `BackOffice`, `GuestCalls` and `OrderScreens` are fair to their screens alone (`WF` on poll, read and
show, per screen): the interval of a query in view comes round, and a fetch that neither fails nor
is overtaken is answered and shown. Sockets, events, guests, staff and requests under way are not
fair: a request may stop before it emits, an event may never be emitted. `MaxCalls`, `MaxUpdates`,
`MaxRounds`, `MaxTaps`, `MaxMisses` and `MaxFaults` are what makes guests, staff and failures
pause in the end; somebody who taps for ever can keep a screen fetching for ever. The other
specifications have no liveness and no fairness. `WebSession` has one assumption on time: the access
token that a page has just been given does not expire while it boots.

## Proofs

All theorems hold for every value of the constants, any number of orders,
requests, payments, tables, messages or screens, from the named assumptions of the modules
(`DeskAssumption`, `NumberingAssumption`, `TablesAssumption`, `RewardsAssumption`,
`LimitsAreCounts`, `PlansAndDates`, `NullIsNoRow`, `AllowanceIsACount`, `FounderIsAnAccount`,
`TokensAreCounted`, `CallsAreCounted`, `CartAssumption`, `BookAssumption`, `ScreensAssumption`):
types of the bounds, sets that are finite or not empty, and names that are nobody's id. TLC
evaluates them in the runs. Every invariant and every action property that a passing run checks
is stated by a theorem; liveness is not.

Some theorems have a hypothesis on who is at work. It is a statement about a constant, always
"at most one", which the run of the property satisfies too: `OneRequest` (of the order desk, or of
billing), `OneCall` (tables), `OneAttendant` (staff beside any number of guests, `Rewards`),
`OneSender` (campaigns), `OneHandler` (accounts), `OneClerk` (staff beside any number of orders,
`CustomerBook`). It is needed: with two at work TLC violates the property, as "What the runs show"
tells of each.

* `OrderDeskProofs`. `Typed`: types, no negative bill (`Total` needs the clamp).
  `StatusAlwaysFitsType` and `TimelineAlwaysTruthful`, together
  `HistoryStaysTrue`, need more than themselves:
  `TrailInv` says every hop in the history is legal for the type and starts where an
  earlier hop ended, so the history is closed backwards down to PENDING; `MoveInv` says a status
  change in flight is a legal hop from a status that was once reached, which stays true
  however often the order moves meanwhile. That is why the stale check cannot produce a
  status of another type, although it can revive a cancelled order.
  `RefundsAlwaysWithinAmount` and `OnlyPaidMoneyIsEverCaptured` follow from `PaymentInv`
  (rows) and `GripInv` (what a callback or a refund in flight knows of its payment that
  no other request can change).
* `OrderDeskSerialProofs`, for `OneRequest`. `SerialInv` adds to the types what a row owes
  its items (`Sound`: the subtotal is theirs, the total is computed from it, PAID means covered) and
  what the request at hand has read that is still so (`InTime`); this is where one at a time is used.
  `BillStaysTrue` (the total is the items less the discount, with service charge and tax at
  any rates, and the courier fee the order came with) and `PaidStaysCovered` follow, and
  `DeskImplementsFlow`: under the refinement mapping of `OrderDesk` every step is a step
  of `OrderFlow` or none. `BooksBalance` (`ReceiptsMatch`, for a desk no request of which dies halfway)
  is about a sum over payments, so it needs induction: `Receipts` is a fold of the library, whose
  recursive function is shown to exist on every subset of a finite set, and to add one payment at a
  time, by an induction over subsets. The library's induction theorems take an operator as a
  parameter, which the provers cannot instantiate; `NatSetInduction` and `SubsetInduction` state them of
  a set instead, the first from the fact that an injection of a finite set into itself is onto.
  With the sums in hand, `LedgerInv` says that what each order holds as paid is its receipts, and
  what a refund is about to write is what they will be (`Tallied`).
* `OrderNumberingProofs`. `LockInv`: a submission that holds a number holds the one after
  its branch's sequence, and no other of that branch holds any. `NumbersAreGapless` and `Fresh`
  (together `NumbersStaySound`),
  `CollisionsComeFromOtherBranches` (an action property) and `OneBranchNeverCollides` follow.
* `DiningTablesProofs`. `PointersNeverDangle`: with releases, removals and seatings racing, a
  free table points at no order and a pointer is to an order of that table. The strengthening
  says which order and table a request in flight speaks of. For `OneCall`, `Held` (the table of an
  open order is seated) and `InHand` (what was counted or looked at is still so) give
  `TablesAreHeld`, which asks besides that nobody sets a table AVAILABLE by hand, as `updateStatus`
  lets staff do whatever sits there.
* `RewardsProofs`. The argument follows the locks: `Owned` (a request's order is its own and
  not yet placed), `Held` (what it wrote, it holds), two lemmas that a held row changes only in
  its holder's steps (`CustomerRowKept`, `CouponRowKept`), and from them `Claimed` (the claim's check
  is still true when the order commits), `Counted`, `Firsts` and `Covered`. These need no hypothesis on
  who is at work. `EndedOrdersAreSettled` does (`OneAttendant`): `Settled` says what the ledger holds of
  an order before and after it ends, `Reading` that the order and the lines that staff have read are
  still as read, which guests cannot change.
* `MessagesProofs`, the outbox. `OutboxStaysSound` (`PendingIsScheduled` and `StatusIsTrue`): an
  attempt that comes back with a success names a message the provider took (`Honest`), and a
  receipt is asked only of such a message (`AskedIsTaken`). Neither the order of the due rows nor
  the list of the sweep is used, so it holds for a sweep that picks badly. `OutboxIsTyped` does use
  them, as the attempts of a row are bounded only because a sweep lists it once: `QueueInv` says that
  neither the due rows nor the list hold a row twice, that the row the sweep is at is not on its
  list any more, and (`SpareAt`) that the count of a row has two to spare while both its own attempt
  and the sweep are at it, and one while one of them is. `PickedIsALine` is the lemma on the query: what
  it picks are rows of the line, none twice. (`Picked` is written with ranks, because `SelectSeq` has no
  definition that the provers can use.)
* `MessagesProofs`, campaigns, for `OneSender`. `Fits` says what is left to queue still
  fits into the allowance although it was counted before the first message, `Marks` that a
  campaign somebody was reached by is marked, `Counts` that what a `send()` carries in its
  hands is what the outbox holds. `NobodyIsReachedTwice`, `AllowanceIsKept`, `ReportStaysTrue`.
* `SubscriptionsProofs`, for `OneRequest` (any set `Requests` of one member).
  `RowOK` says what a row of each status may hold, `RequestsOK` what the request at hand has read that
  is still so (this is where one at a time is used: an invoice looked at is the invoice that is
  written), `BooksOK` counts activations against approvals, `Linked` ties the switch to the row unless
  the request at hand stands between its two writes. `InvoicesCountOnce`, `SwitchFollowsRow`
  and the action property `DaysAreKept` follow, for any plans, dates, invoices and operators.
* `BackOfficeProofs` holds the other parts around the orders.
  `AnOwnerRemains` (`OneHandler`): every statement a staff request has
  still to make that could take an owner away leaves another active owner.
  `SegmentsStayTrue` (`OneClerk`): the counters of a customer count the orders that stand
  (`CountersOK`), from which each segment is what the orders say and each badge a segment,
  and an order being moved is still as it was read (`InHand`).
  `NoSpentToken`, without a hypothesis: page and flight take turns (`OneTurn`), a page that
  boots has no query out (`BootsFirst`), a token on its way has been presented by nobody
  (`FreshIsNew`), and a cookie that has been rotated away is either lost to the tab or belongs to the
  call that will replace it (`JarIsHeard`, `OrphanIsLost`).
  `CartsAreHonoured` (an action property) and `OneMenuEach`: the rows a page, a sheet, a cart or an order
  hold of a dish are earlier editions of it, and two with one edition have one set of options
  (`Before`, `Outdated`), so that options which are found belong to the edition that was shown.
  `CartsAreHonoured` excepts the three sizes of a request, and needs that a line's options are
  finitely many (`LinesFinite`) to speak of their number.
* `BackOfficeProofs`, all the parts. `PartsAreThemselves`: a behaviour of `BackOffice` is, seen from a part,
  one of the part's own specification. `BackOfficeIsTyped` and `BackOfficeIsSound`, for one actor of each
  kind (`OneOfEach`): the type invariant, and the properties of all parts at once. The types of
  `GuestCalls` and `OrderScreens` contain the safety of the screens: no bar shows a call that
  is not there, no rail a ticket that is not the kitchen's, no guest another guest's order, though
  queries are overtaken and answers late (`RailInv`: rows on their way are rows that may be shown).

Only model-checked: all liveness (`EveryMessageSettles`, `CallsAreSeen`, `ScreensSettle`,
`BranchServesOrCollides`, `NeverStuckOccupied`), which is out of the prover's reach, as is ENABLED. The types
of `Subscriptions`, `Campaigns`, `StaffAccounts` and `CustomerBook` are proved under the hypotheses of their
properties, because the invariants that hold them were built for those. What the runs marked violated
show is TLC's, being about an instance. `TypeOK` of `OrderDesk` leaves the type of `paid` to
`ReceiptsMatch`, which a request that dies between two commits breaks.

## Not modelled

The map covers about an eighth of the implementation. Most of the rest has no behaviour
a model could add to: pages that are forms and lists over one endpoint, markup and styling, DTOs
and validation schemas of single fields, seed data, the typed client of the API (one line per
endpoint), and labels. What has some behaviour and is left out:

* wording, formatting, listing, search, permissions, rate limits and uploads;
* dates (a coupon's validity, opening hours): choices of the environment;
* orders without a phone number: they skip the points, the per-phone limit and the book;
* networks between browser and API, where no part says otherwise: a lost request is one that
  never began, a repeated one is another request. (`WebSession`, `GuestCalls`, `Carts` and
  `OrderScreens` do say otherwise: answers are lost and fetches fail.);
* several tenants: queries are filtered by tenant in `prisma/tenant-scope.ts`, the models speak of one;
* delivery zones and couriers: one-row edits, and a field no guard of the order desk reads;
* plans with an unlimited allowance, and the plan limits on branches, products, tables and
  orders, which are one count before an insert like that of accounts in `StaffAccounts`;
* in `WebSession` a disabled account, the choice of a branch, and the platform's own session;
* in `Carts` hidden categories, the creation of products, and a page that is reloaded while its order
  is under way; group and options of a dish are read as one, as the
  code reads them in one query;
* in `CustomerBook` `totalSpent` and the segment HIGH_VALUE built on it, which drift whatever the
  interleaving, and names, tags and notes;
* in `OrderScreens` partial payments, and an `addItems` whose checks are older than the end of its order
  (`OrderDesk` has both); the counter's list of orders, which polls like the rail, and the page of
  one order, which fetches on events and answers only.

## Plan

1. `OrderLifecycle`, `Money`, `OrderFlow`, `OrderDesk` and their proofs. Done.
2. `OrderNumbering`, `DiningTables`, `Rewards` and their proofs. Done.
3. `SmsOutbox` and its proofs. Done.
4. `Subscriptions`, `Campaigns`, `StaffAccounts`, `WebSession`, `GuestCalls`, `Carts`,
   `CustomerBook`, `OrderScreens` and `BackOffice`, with their proofs. Done.
5. The serial promises as theorems: the sums of `OrderDesk`, its refinement of `OrderFlow`, the tables,
   the ledger of `Rewards`; the parts of `BackOffice` together. Done.
6. Left: the types of `Subscriptions`, `Campaigns`, `StaffAccounts` and `CustomerBook` without a
   hypothesis; a product of `OrderDesk` and `DiningTables` small enough to check; the delivery board,
   when couriers come to restrict what an order may do.
