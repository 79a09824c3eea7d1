--------------------------- MODULE BackOfficeProofs ---------------------------
(***************************************************************************)
(* Proofs about the parts that BackOffice runs side by side, each for any  *)
(* values of its constants, and about BackOffice itself: what is proved of *)
(* a part holds while the others are at work.                              *)
(***************************************************************************)
EXTENDS BackOffice, SubscriptionsProofs, MessagesProofs

-----------------------------------------------------------------------------
(* StaffAccounts: whatever tokens the actors hold and wherever a request   *)
(* breaks off, the restaurant keeps an active owner as long as its staff   *)
(* requests come one after the other.                                      *)

\* At most one staff request is under way.
OneHandler == \A g, h \in Handlers : g = h

-----------------------------------------------------------------------------
(* Types                                                                   *)

LEMMA WorkIsHandler ==
  ASSUME NEW s \in {"free", "creating", "writing", "revoking"}, NEW u \in Accounts,
         NEW role \in Roles \cup {"same"}, NEW switch \in {"on", "off", "same"}
  PROVE  Work(s, u, role, switch) \in Handler
BY DEF Work, Handler

LEMMA FreeIsHandler == FreeHandler \in Handler
BY FounderIsAnAccount, WorkIsHandler DEF FreeHandler

\* A new account has a role.
RoleGiven(j) == j.stage = "creating" => j.role \in Roles

LEMMA TypesStart == StaffInit => StaffTypeOK
<1> SUFFICES ASSUME StaffInit PROVE StaffTypeOK
  OBVIOUS
<1>1. account \in [Accounts -> Account]
  BY FounderIsAnAccount DEF StaffInit, Account, Unborn, Roles
<1>2. handler \in [Handlers -> Handler]
  BY FreeIsHandler DEF StaffInit
<1>3. \A h \in Handlers : handler[h].stage = "free"
  BY DEF StaffInit, FreeHandler, Work
<1> QED
  BY <1>1, <1>2, <1>3 DEF StaffInit, StaffTypeOK

\* The row an update leaves is a row.
Updated(row, j) ==
  [exists |-> TRUE,
   role   |-> IF j.role = "same" THEN row.role ELSE j.role,
   active |-> IF j.switch = "same" THEN row.active ELSE j.switch = "on"]

LEMMA UpdatedIsAccount ==
  ASSUME NEW row \in Account, NEW j \in Handler
  PROVE  Updated(row, j) \in Account
<1>1. (IF j.role = "same" THEN row.role ELSE j.role) \in Roles
  BY DEF Handler, Account
<1>2. (IF j.switch = "same" THEN row.active ELSE j.switch = "on") \in BOOLEAN
  <2>1. row.active \in BOOLEAN
    BY DEF Account
  <2> QED
    BY <2>1
<1> QED
  BY <1>1, <1>2 DEF Updated, Account

\* A handler that moves stays a handler.
LEMMA HandlerMoves ==
  ASSUME StaffTypeOK, NEW h \in Handlers, NEW j \in Handler, RoleGiven(j),
         handler' = [handler EXCEPT ![h] = j]
  PROVE  /\ handler' \in [Handlers -> Handler]
         /\ \A g \in Handlers : RoleGiven(handler'[g])
         /\ handler'[h] = j
BY DEF StaffTypeOK, RoleGiven

LEMMA PreparesKeepsTypes ==
  ASSUME StaffTypeOK, NEW h \in Handlers, NEW j \in Handler, RoleGiven(j), Prepares(h, j)
  PROVE  StaffTypeOK'
BY HandlerMoves DEF Prepares, StaffTypeOK, RoleGiven

\* A write of a row that leaves a handler free or about to revoke.
LEMMA AccountWritten ==
  ASSUME StaffTypeOK, NEW h \in Handlers, NEW j \in Handler, RoleGiven(j),
         handler' = [handler EXCEPT ![h] = j],
         NEW u \in Accounts, NEW row \in Account, account' = [account EXCEPT ![u] = row],
         UNCHANGED <<badge, session>>
  PROVE  StaffTypeOK'
BY HandlerMoves DEF StaffTypeOK, RoleGiven

-----------------------------------------------------------------------------
(* The invariant: what is about to be written leaves an owner.             *)

IsOwner(o) == account[o].exists /\ account[o].role = "OWNER" /\ account[o].active

\* A write that may take an owner away, and the owner it leaves.
Harms(j) == j.stage = "writing" /\ (j.role = "MANAGER" \/ j.switch = "off")
LeavesOwner(j) == Harms(j) => \E o \in Accounts : o # j.who /\ IsOwner(o)

StaffInv == StaffTypeOK /\ OwnerRemains /\ \A h \in Handlers : LeavesOwner(handler[h])

LEMMA StaffInitHolds == StaffInit => StaffInv
<1> SUFFICES ASSUME StaffInit PROVE StaffInv
  OBVIOUS
<1>1. IsOwner(Founder)
  BY FounderIsAnAccount DEF StaffInit, IsOwner
<1>2. \A h \in Handlers : handler[h].stage = "free"
  BY DEF StaffInit, FreeHandler, Work
<1> QED
  BY <1>1, <1>2, TypesStart, FounderIsAnAccount DEF StaffInv, OwnerRemains, LeavesOwner, Harms, IsOwner

\* A step that leaves the accounts alone and lets one handler move on.
LEMMA OnlyHandlerMoves ==
  ASSUME StaffInv, StaffTypeOK', account' = account,
         \A h \in Handlers : handler'[h] = handler[h] \/ LeavesOwner(handler'[h])
  PROVE  StaffInv'
BY DEF StaffInv, OwnerRemains, LeavesOwner, IsOwner

LEMMA Preparing ==
  ASSUME StaffInv, NEW h \in Handlers, NEW j \in Handler, RoleGiven(j), LeavesOwner(j), Prepares(h, j)
  PROVE  StaffInv'
<1>1. StaffTypeOK'
  BY PreparesKeepsTypes DEF StaffInv
<1>2. \A g \in Handlers : handler'[g] = handler[g] \/ handler'[g] = j
  BY DEF Prepares, StaffInv, StaffTypeOK
<1>3. account' = account
  BY DEF Prepares
<1> QED
  BY <1>1, <1>2, <1>3, OnlyHandlerMoves

\* Whoever is not an owner, or is not the last one, leaves one.
LEMMA OtherOwner ==
  ASSUME StaffInv, NEW u \in Accounts, account[u].exists,
         account[u].role = "OWNER" => assertNotLastOwner(u)
  PROVE  \E o \in Accounts : o # u /\ IsOwner(o)
BY DEF StaffInv, OwnerRemains, assertNotLastOwner, IsOwner

LEMMA SignInKeeps == ASSUME StaffInv, NEW u \in Accounts, SignIn(u) PROVE StaffInv'
<1>1. StaffTypeOK'
  <2>1. account[u].role \in Roles
    BY DEF StaffInv, StaffTypeOK, Account
  <2> QED
    BY <2>1 DEF StaffInv, SignIn, StaffTypeOK
<1> QED
  BY <1>1, OnlyHandlerMoves DEF SignIn

LEMMA BadgeExpiresKeeps == ASSUME StaffInv, NEW u \in Accounts, BadgeExpires(u) PROVE StaffInv'
<1>1. StaffTypeOK'
  BY DEF StaffInv, BadgeExpires, StaffTypeOK
<1> QED
  BY <1>1, OnlyHandlerMoves DEF BadgeExpires

LEMMA CreateAccountKeeps ==
  ASSUME StaffInv, NEW h \in Handlers, NEW a, NEW u \in Accounts, NEW role \in Roles,
         CreateAccount(h, a, u, role)
  PROVE  StaffInv'
<1> DEFINE j == Work("creating", u, role, "on")
<1>1. j \in Handler
  BY WorkIsHandler
<1>2. RoleGiven(j) /\ LeavesOwner(j)
  BY DEF RoleGiven, LeavesOwner, Harms, Work
<1> QED
  BY <1>1, <1>2, Preparing DEF CreateAccount

LEMMA ChangeRoleKeeps ==
  ASSUME StaffInv, NEW h \in Handlers, NEW a, NEW u \in Accounts, NEW role \in Roles,
         ChangeRole(h, a, u, role)
  PROVE  StaffInv'
<1> DEFINE j == Work("writing", u, role, "same")
<1>1. j \in Handler
  BY WorkIsHandler
<1>2. RoleGiven(j) /\ j.who = u
  BY DEF RoleGiven, Work
<1>3. LeavesOwner(j)
  BY <1>2, OtherOwner DEF ChangeRole, LeavesOwner
<1> QED
  BY <1>1, <1>2, <1>3, Preparing DEF ChangeRole

LEMMA DisableKeeps ==
  ASSUME StaffInv, NEW h \in Handlers, NEW a, NEW u \in Accounts, Disable(h, a, u)
  PROVE  StaffInv'
<1> DEFINE j == Work("writing", u, "same", "off")
<1>1. j \in Handler
  BY WorkIsHandler
<1>2. RoleGiven(j) /\ j.who = u
  BY DEF RoleGiven, Work
<1>3. LeavesOwner(j)
  BY <1>2, OtherOwner DEF Disable, LeavesOwner
<1> QED
  BY <1>1, <1>2, <1>3, Preparing DEF Disable

LEMMA EnableKeeps ==
  ASSUME StaffInv, NEW h \in Handlers, NEW a, NEW u \in Accounts,
         Enable(h, a, u) \/ ResetPassword(h, a, u)
  PROVE  StaffInv'
<1>1. ASSUME NEW s \in {"writing", "revoking"}, NEW switch \in {"on", "same"},
             Prepares(h, Work(s, u, "same", switch))
      PROVE  StaffInv'
  <2> DEFINE j == Work(s, u, "same", switch)
  <2>1. j \in Handler
    BY WorkIsHandler
  <2>2. RoleGiven(j) /\ LeavesOwner(j)
    BY DEF RoleGiven, LeavesOwner, Harms, Work
  <2> QED
    BY <1>1, <2>1, <2>2, Preparing
<1> QED
  BY <1>1 DEF Enable, ResetPassword

\* A row that is written keeps the owners there are, or is not the last of them.
LEMMA WriteKeeps ==
  ASSUME StaffInv, OneHandler, NEW h \in Handlers, NEW j \in Handler, RoleGiven(j),
         ~ Harms(j), handler' = [handler EXCEPT ![h] = j],
         NEW u \in Accounts, NEW row \in Account, account' = [account EXCEPT ![u] = row],
         UNCHANGED <<badge, session>>,
         \/ IsOwner(u) => row.exists /\ row.role = "OWNER" /\ row.active
         \/ \E o \in Accounts : o # u /\ IsOwner(o)
  PROVE  StaffInv'
<1>1. StaffTypeOK'
  BY AccountWritten DEF StaffInv
<1>2. \A o \in Accounts : account'[o] = IF o = u THEN row ELSE account[o]
  BY DEF StaffInv, StaffTypeOK
<1>3. OwnerRemains'
  BY <1>2 DEF StaffInv, OwnerRemains, IsOwner
<1>4. \A g \in Handlers : handler'[g] = j
  BY HandlerMoves DEF StaffInv, OneHandler
<1> QED
  BY <1>1, <1>3, <1>4 DEF StaffInv, LeavesOwner, Harms

LEMMA FreeIsHarmless == RoleGiven(FreeHandler) /\ ~ Harms(FreeHandler)
BY DEF RoleGiven, Harms, FreeHandler, Work

LEMMA FreeKeeps ==
  ASSUME StaffInv, NEW h \in Handlers, handler' = [handler EXCEPT ![h] = FreeHandler],
         account' = account, badge' = badge, session' \subseteq session
  PROVE  StaffInv'
<1>1. StaffTypeOK'
  BY HandlerMoves, FreeIsHandler, FreeIsHarmless DEF StaffInv, StaffTypeOK, RoleGiven
<1>2. \A g \in Handlers : handler'[g] = handler[g] \/ handler'[g] = FreeHandler
  BY DEF StaffInv, StaffTypeOK
<1> QED
  BY <1>1, <1>2, FreeIsHarmless, OnlyHandlerMoves DEF LeavesOwner

LEMMA InsertKeeps == ASSUME StaffInv, OneHandler, NEW h \in Handlers, Insert(h) PROVE StaffInv'
<1> DEFINE j == handler[h]
           row == [exists |-> TRUE, role |-> j.role, active |-> TRUE]
<1>1. j \in Handler /\ j.stage = "creating" /\ j.role \in Roles /\ j.who \in Accounts
  BY DEF StaffInv, StaffTypeOK, Insert, Handler
<1>2. handler' = [handler EXCEPT ![h] = FreeHandler] /\ UNCHANGED <<badge, session>>
  BY DEF Insert
<1>3. CASE account[j.who].exists
  <2>1. account' = account
    BY <1>3 DEF Insert
  <2> QED
    BY <1>2, <2>1, FreeKeeps
<1>4. CASE ~ account[j.who].exists
  <2>1. account' = [account EXCEPT ![j.who] = row]
    BY <1>4 DEF Insert
  <2>2. row \in Account
    BY <1>1 DEF Account
  <2>3. ~ IsOwner(j.who)
    BY <1>4 DEF IsOwner
  <2> QED
    BY <1>1, <1>2, <2>1, <2>2, <2>3, WriteKeeps, FreeIsHandler, FreeIsHarmless
<1> QED
  BY <1>3, <1>4

LEMMA WriteAccountKeeps == ASSUME StaffInv, OneHandler, NEW h \in Handlers, WriteAccount(h) PROVE StaffInv'
<1> DEFINE j == handler[h]
           next == IF j.switch = "on" THEN FreeHandler ELSE Work("revoking", j.who, "same", "same")
           row == Updated(account[j.who], j)
<1>1. j \in Handler /\ j.stage = "writing" /\ j.who \in Accounts /\ account[j.who] \in Account
  BY DEF StaffInv, StaffTypeOK, WriteAccount, Handler
<1>2. handler' = [handler EXCEPT ![h] = next] /\ UNCHANGED <<badge, session>>
  BY DEF WriteAccount
<1>3. account' = [account EXCEPT ![j.who] = row]
  BY DEF WriteAccount, Updated
<1>4. row \in Account
  BY <1>1, UpdatedIsAccount
<1>5. next \in Handler /\ RoleGiven(next) /\ ~ Harms(next)
  <2>1. Work("revoking", j.who, "same", "same") \in Handler
    BY <1>1, WorkIsHandler
  <2>2. RoleGiven(Work("revoking", j.who, "same", "same")) /\ ~ Harms(Work("revoking", j.who, "same", "same"))
    BY DEF RoleGiven, Harms, Work
  <2> QED
    BY <2>1, <2>2, FreeIsHandler, FreeIsHarmless
<1>6. CASE Harms(j)
  <2>1. \E o \in Accounts : o # j.who /\ IsOwner(o)
    BY <1>6 DEF StaffInv, LeavesOwner
  <2> QED
    BY <1>1, <1>2, <1>3, <1>4, <1>5, <2>1, WriteKeeps
<1>7. CASE ~ Harms(j)
  <2>1. j.role \in {"same", "OWNER"} /\ j.switch \in {"same", "on"}
    BY <1>1, <1>7 DEF Harms, Handler, Roles
  <2>2. IsOwner(j.who) => row.exists /\ row.role = "OWNER" /\ row.active
    BY <2>1 DEF IsOwner, Updated
  <2> QED
    BY <1>1, <1>2, <1>3, <1>4, <1>5, <2>2, WriteKeeps
<1> QED
  BY <1>6, <1>7

LEMMA RevokeSessionsKeeps ==
  ASSUME StaffInv, NEW h \in Handlers, RevokeSessions(h) \/ BreaksOff(h)
  PROVE  StaffInv'
BY FreeKeeps DEF RevokeSessions, BreaksOff

LEMMA StaffStutterKeeps == ASSUME StaffInv, UNCHANGED staffVars PROVE StaffInv'
<1>1. StaffTypeOK'
  BY DEF StaffInv, StaffTypeOK, staffVars
<1> QED
  BY <1>1, OnlyHandlerMoves DEF staffVars

LEMMA StaffNextKeeps == OneHandler /\ StaffInv /\ [StaffNext]_staffVars => StaffInv'
<1> SUFFICES ASSUME OneHandler, StaffInv, [StaffNext]_staffVars PROVE StaffInv'
  OBVIOUS
<1>1. ASSUME NEW u \in Accounts, SignIn(u) \/ Renew(u) \/ BadgeExpires(u) PROVE StaffInv'
  BY <1>1, SignInKeeps, BadgeExpiresKeeps DEF Renew
<1>2. ASSUME NEW h \in Handlers, Insert(h) \/ WriteAccount(h) \/ RevokeSessions(h) \/ BreaksOff(h)
      PROVE  StaffInv'
  BY <1>2, InsertKeeps, WriteAccountKeeps, RevokeSessionsKeeps
<1>3. ASSUME NEW h \in Handlers, NEW a \in Accounts, NEW u \in Accounts,
             Disable(h, a, u) \/ Enable(h, a, u) \/ ResetPassword(h, a, u)
      PROVE  StaffInv'
  BY <1>3, DisableKeeps, EnableKeeps
<1>4. ASSUME NEW h \in Handlers, NEW a \in Accounts, NEW u \in Accounts, NEW role \in Roles,
             CreateAccount(h, a, u, role) \/ ChangeRole(h, a, u, role)
      PROVE  StaffInv'
  BY <1>4, CreateAccountKeeps, ChangeRoleKeeps
<1> QED
  BY <1>1, <1>2, <1>3, <1>4, StaffStutterKeeps DEF StaffNext

\* An active owner remains (staff.service.ts:89), and the types with it, as
\* long as one staff request ends before the next begins: however many
\* accounts there are, though an actor may have been demoted or disabled
\* since the token was issued, and though a request may end half way.
THEOREM AnOwnerRemains == OneHandler => (StaffSpec => [](StaffTypeOK /\ OwnerRemains))
<1>1. OneHandler /\ StaffInit /\ [][StaffNext]_staffVars => []StaffInv
  <2> SUFFICES ASSUME OneHandler PROVE StaffInit /\ [][StaffNext]_staffVars => []StaffInv
    OBVIOUS
  <2>1. StaffInv /\ [StaffNext]_staffVars => StaffInv'
    BY StaffNextKeeps
  <2> QED
    BY StaffInitHolds, <2>1, PTL
<1>2. StaffInv => StaffTypeOK /\ OwnerRemains
  BY DEF StaffInv
<1> QED
  BY <1>1, <1>2, PTL DEF StaffSpec

-----------------------------------------------------------------------------
(* CustomerBook: however many orders come in, while the staff make one     *)
(* request at a time.                                                      *)

\* At most one request of the staff is under way.
OneClerk == \A k, l \in Clerks : k = l

\* The counters count the orders that stand.
CountersOK ==
  \A g \in Regulars :
    /\ book[g].orders = Cardinality(Standing(g))
    /\ book[g].dineIn = Cardinality(Seated(g))
    /\ book[g].takeaway = book[g].orders - book[g].dineIn
    /\ book[g].consent => book[g].dated

\* What a request has read is still so; a consent that is no change is there.
InHand(r) ==
  /\ r.stage \in {"none", "moving", "updating"}
  /\ r.stage = "moving" =>
       /\ r.ticket \in Tickets /\ ticket[r.ticket] # Nobody /\ ticket[r.ticket].status = "OPEN"
       /\ r.type = ticket[r.ticket].type /\ r.to \in {"COMPLETED", "CANCELLED"}
  /\ r.stage = "updating" =>
       /\ r.guest \in Regulars /\ r.consent \in BOOLEAN
       /\ r.consent /\ ~ r.changed => book[r.guest].consent

BookInv ==
  /\ book \in [Regulars -> Page]
  /\ ticket \in [Tickets -> Ticket]
  /\ clerk = [k \in Clerks |-> clerk[k]]
  /\ IsFiniteSet({o \in Tickets : ticket[o] # Nobody})
  /\ CountersOK
  /\ \A k \in Clerks : InHand(clerk[k])

LEMMA StandingIsFinite ==
  ASSUME IsFiniteSet({o \in Tickets : ticket[o] # Nobody}), NEW g
  PROVE  /\ IsFiniteSet(Standing(g)) /\ IsFiniteSet(Seated(g))
         /\ Cardinality(Standing(g)) \in Nat /\ Cardinality(Seated(g)) \in Nat
         /\ Cardinality(Seated(g)) <= Cardinality(Standing(g))
         /\ Seated(g) = Standing(g) <=> Cardinality(Seated(g)) = Cardinality(Standing(g))
<1>1. Standing(g) \subseteq {o \in Tickets : ticket[o] # Nobody} /\ Seated(g) \subseteq Standing(g)
  BY DEF Standing, Seated
<1>2. IsFiniteSet(Standing(g))
  BY <1>1, FS_Subset
<1> QED
  BY <1>1, <1>2, FS_Subset, FS_CardinalityType

LEMMA BookInitHolds == BookInit => BookInv
<1> SUFFICES ASSUME BookInit PROVE BookInv
  OBVIOUS
<1>1. {o \in Tickets : ticket[o] # Nobody} = {}
  BY DEF BookInit
<1>2. \A g \in Regulars : Standing(g) = {} /\ Seated(g) = {}
  BY <1>1 DEF Standing, Seated
<1>3. CountersOK
  BY <1>2, FS_EmptySet DEF BookInit, BlankPage, CountersOK
<1>4. IsFiniteSet({o \in Tickets : ticket[o] # Nobody})
  BY <1>1, FS_EmptySet
<1>5. book \in [Regulars -> Page] /\ ticket \in [Tickets -> Ticket]
  BY DEF BookInit, BlankPage, Page, Ticket
<1>6. clerk = [k \in Clerks |-> clerk[k]] /\ \A k \in Clerks : InHand(clerk[k])
  BY DEF BookInit, Resting, InHand
<1> QED
  BY <1>3, <1>4, <1>5, <1>6 DEF BookInv

\* The counters stay true where the orders stay and the page keeps them.
LEMMA CountersStay ==
  ASSUME CountersOK, ticket' = ticket,
         \A g \in Regulars : /\ book'[g].orders = book[g].orders
                             /\ book'[g].dineIn = book[g].dineIn
                             /\ book'[g].takeaway = book[g].takeaway
                             /\ book'[g].consent => book'[g].dated
  PROVE  CountersOK'
<1>1. \A g : Standing(g)' = Standing(g) /\ Seated(g)' = Seated(g)
  BY DEF Standing, Seated
<1> QED
  BY <1>1 DEF CountersOK

\* What an order placed, and one cancelled, make of a page.
LEMMA CountedInIs ==
  ASSUME NEW p \in Page, NEW type, NEW tick \in BOOLEAN
  PROVE  LET q == CountedIn(p, type, tick)
         IN  /\ q.orders = p.orders + 1
             /\ q.dineIn = p.dineIn + AtTable(type)
             /\ q.takeaway = p.takeaway + 1 - AtTable(type)
             /\ q.consent = (p.consent \/ tick)
             /\ q.dated = (p.dated \/ (tick /\ ~ p.consent))
             /\ q \in Page
<1> DEFINE c == p.consent \/ tick
           d == p.dated \/ (tick /\ ~ p.consent)
           n == p.orders + 1
           a == p.dineIn + AtTable(type)
           t == p.takeaway + 1 - AtTable(type)
<1>1. c \in BOOLEAN /\ d \in BOOLEAN /\ n \in Nat /\ a \in Nat /\ t \in Nat
  BY DEF Page, AtTable
<1>2. CountedIn(p, type, tick) = [p EXCEPT !.known = TRUE, !.orders = n, !.idle = 0, !.dineIn = a,
                                           !.takeaway = t, !.consent = c, !.dated = d]
  BY DEF CountedIn
<1> HIDE DEF c, d, n, a, t
<1>3. CountedIn(p, type, tick) = [known |-> TRUE, orders |-> n, dineIn |-> a, takeaway |-> t,
                                  idle |-> 0, consent |-> c, dated |-> d]
  BY <1>2 DEF Page
<1>4. CountedIn(p, type, tick) \in Page
  BY <1>1, <1>3 DEF Page
<1> QED
  BY <1>3, <1>4 DEF c, d, n, a, t

LEMMA CountedOutIs ==
  ASSUME NEW p \in Page, NEW type
  PROVE  LET q == CountedOut(p, type)
         IN  /\ q.orders = p.orders - 1
             /\ q.dineIn = p.dineIn - AtTable(type)
             /\ q.takeaway = p.takeaway - (1 - AtTable(type))
             /\ q.consent = p.consent /\ q.dated = p.dated
             /\ q.orders \in Nat /\ q.dineIn \in Nat /\ q.takeaway \in Nat => q \in Page
<1> DEFINE n == p.orders - 1
           a == p.dineIn - AtTable(type)
           t == p.takeaway - (1 - AtTable(type))
<1>1. CountedOut(p, type) = [p EXCEPT !.orders = n, !.dineIn = a, !.takeaway = t]
  BY DEF CountedOut
<1> HIDE DEF n, a, t
<1>2. CountedOut(p, type) = [known |-> p.known, orders |-> n, dineIn |-> a, takeaway |-> t,
                             idle |-> p.idle, consent |-> p.consent, dated |-> p.dated]
  BY <1>1 DEF Page
<1>3. n \in Nat /\ a \in Nat /\ t \in Nat => CountedOut(p, type) \in Page
  BY <1>2 DEF Page
<1> QED
  BY <1>2, <1>3 DEF n, a, t

LEMMA PlaceTicketKeeps ==
  ASSUME BookInv, NEW o \in Tickets, NEW g \in Regulars, NEW type \in Types, NEW tick \in BOOLEAN,
         PlaceTicket(o, g, type, tick)
  PROVE  BookInv'
<1> DEFINE row == [guest |-> g, type |-> type, status |-> "OPEN"]
           p == book[g]
<1>1. ticket[o] = Nobody /\ ticket' = [ticket EXCEPT ![o] = row] /\ clerk' = clerk
      /\ book' = [book EXCEPT ![g] = CountedIn(p, type, tick)]
  BY DEF PlaceTicket
<1>2. row \in TicketRow /\ row # Nobody
  BY BookAssumption DEF TicketRow
<1>3. ticket'[o] = row /\ \A x \in Tickets \ {o} : ticket'[x] = ticket[x]
  BY <1>1 DEF BookInv
<1>4. ticket' \in [Tickets -> Ticket]
  BY <1>1, <1>2 DEF BookInv, Ticket
<1>5. {x \in Tickets : ticket'[x] # Nobody} = {x \in Tickets : ticket[x] # Nobody} \cup {o}
  BY <1>2, <1>3
<1>6. IsFiniteSet({x \in Tickets : ticket'[x] # Nobody})
  BY <1>5, FS_AddElement DEF BookInv
<1>7. p \in Page /\ p.orders = Cardinality(Standing(g)) /\ p.dineIn = Cardinality(Seated(g))
      /\ p.takeaway = p.orders - p.dineIn /\ (p.consent => p.dated)
  BY DEF BookInv, CountersOK
<1>8. AtTable(type) \in {0, 1}
  BY DEF AtTable
<1>9. /\ CountedIn(p, type, tick) \in Page
      /\ CountedIn(p, type, tick).orders = p.orders + 1
      /\ CountedIn(p, type, tick).dineIn = p.dineIn + AtTable(type)
      /\ CountedIn(p, type, tick).takeaway = p.takeaway + 1 - AtTable(type)
      /\ CountedIn(p, type, tick).consent <=> p.consent \/ tick
      /\ CountedIn(p, type, tick).consent => CountedIn(p, type, tick).dated
  <2> HIDE DEF p
  <2> QED
    <3>1. CountedIn(p, type, tick).consent = (p.consent \/ tick)
          /\ CountedIn(p, type, tick).dated = (p.dated \/ (tick /\ ~ p.consent))
      BY <1>7, CountedInIs
    <3>2. /\ CountedIn(p, type, tick) \in Page
          /\ CountedIn(p, type, tick).orders = p.orders + 1
          /\ CountedIn(p, type, tick).dineIn = p.dineIn + AtTable(type)
          /\ CountedIn(p, type, tick).takeaway = p.takeaway + 1 - AtTable(type)
      BY <1>7, CountedInIs
    <3>3. CountedIn(p, type, tick).consent <=> p.consent \/ tick
      BY <3>1, Zenon
    <3>4. CountedIn(p, type, tick).consent => CountedIn(p, type, tick).dated
      BY <1>7, <3>1, Zenon
    <3> QED
      BY <3>2, <3>3, <3>4
<1>10. book'[g] = CountedIn(p, type, tick) /\ \A x \in Regulars \ {g} : book'[x] = book[x]
  BY <1>1 DEF BookInv
<1>11. book' \in [Regulars -> Page]
  BY <1>1, <1>9 DEF BookInv
<1>12. /\ Standing(g)' = Standing(g) \cup {o} /\ o \notin Standing(g)
       /\ Seated(g)' = IF type = "DINE_IN" THEN Seated(g) \cup {o} ELSE Seated(g)
       /\ o \notin Seated(g)
       /\ \A x \in Regulars \ {g} : Standing(x)' = Standing(x) /\ Seated(x)' = Seated(x)
  BY <1>1, <1>2, <1>3 DEF Standing, Seated
<1>13. /\ Cardinality(Standing(g)') = Cardinality(Standing(g)) + 1
       /\ Cardinality(Seated(g)') = Cardinality(Seated(g)) + AtTable(type)
       /\ Cardinality(Standing(g)) \in Nat /\ Cardinality(Seated(g)) \in Nat
  <2>1. IsFiniteSet(Standing(g)) /\ IsFiniteSet(Seated(g))
        /\ Cardinality(Standing(g)) \in Nat /\ Cardinality(Seated(g)) \in Nat
    BY StandingIsFinite DEF BookInv
  <2>2. Cardinality(Standing(g) \cup {o}) = Cardinality(Standing(g)) + 1
    BY <1>12, <2>1, FS_AddElement
  <2>3. Cardinality(Seated(g) \cup {o}) = Cardinality(Seated(g)) + 1
    BY <1>12, <2>1, FS_AddElement
  <2>4. Cardinality(Standing(g)') = Cardinality(Standing(g)) + 1
    BY <1>12, <2>2
  <2>5. Cardinality(Seated(g)') = Cardinality(Seated(g)) + AtTable(type)
    BY <1>12, <2>1, <2>3 DEF AtTable
  <2> QED
    BY <2>1, <2>4, <2>5
<1>14. CountersOK'
  <2> SUFFICES ASSUME NEW x \in Regulars
               PROVE  /\ book'[x].orders = Cardinality(Standing(x)')
                      /\ book'[x].dineIn = Cardinality(Seated(x)')
                      /\ book'[x].takeaway = book'[x].orders - book'[x].dineIn
                      /\ book'[x].consent => book'[x].dated
    BY DEF CountersOK
  <2>1. CASE x = g
    <3> HIDE DEF p
    <3> QED
      BY <2>1, <1>7, <1>8, <1>9, <1>10, <1>13
  <2>2. CASE x # g
    BY <2>2, <1>10, <1>12 DEF BookInv, CountersOK
  <2> QED
    BY <2>1, <2>2
<1>15. \A k \in Clerks : InHand(clerk[k])'
  <2> SUFFICES ASSUME NEW k \in Clerks PROVE InHand(clerk[k])'
    OBVIOUS
  <2>1. InHand(clerk[k]) /\ clerk'[k] = clerk[k]
    BY <1>1 DEF BookInv
  <2>2. \A x \in Regulars : book[x].consent => book'[x].consent
    BY <1>9, <1>10
  <2>3. \A x \in Tickets : ticket[x] # Nobody => ticket'[x] = ticket[x]
    BY <1>1, <1>3
  <2> QED
    BY <2>1, <2>2, <2>3 DEF InHand
<1> QED
  BY <1>1, <1>4, <1>6, <1>11, <1>14, <1>15 DEF BookInv

\* A request that moves on is all there is.
LEMMA OnlyClerk ==
  ASSUME OneClerk, BookInv, NEW k \in Clerks, NEW next, clerk' = [clerk EXCEPT ![k] = next]
  PROVE  clerk' = [l \in Clerks |-> clerk'[l]] /\ \A l \in Clerks : clerk'[l] = next
BY DEF BookInv, OneClerk

LEMMA BeginsKeep ==
  ASSUME BookInv, OneClerk, NEW k \in Clerks,
         \/ \E o \in Tickets, to \in {"COMPLETED", "CANCELLED"} : BeginMove(k, o, to)
         \/ \E g \in Regulars, consent \in BOOLEAN : BeginUpdate(k, g, consent)
         \/ WalksOff(k)
  PROVE  BookInv'
<1>1. book' = book /\ ticket' = ticket
  BY DEF BeginMove, BeginUpdate, WalksOff
<1>2. PICK next : clerk' = [clerk EXCEPT ![k] = next] /\ InHand(next)
  <2>1. ASSUME NEW o \in Tickets, NEW to \in {"COMPLETED", "CANCELLED"}, BeginMove(k, o, to)
        PROVE  \E next : clerk' = [clerk EXCEPT ![k] = next] /\ InHand(next)
    <3> DEFINE next == [stage |-> "moving", ticket |-> o, type |-> ticket[o].type, to |-> to]
    <3>1. InHand(next)
      BY <2>1 DEF BeginMove, InHand
    <3>2. clerk' = [clerk EXCEPT ![k] = next]
      BY <2>1 DEF BeginMove
    <3> QED
      BY <3>1, <3>2
  <2>2. ASSUME NEW g \in Regulars, NEW consent \in BOOLEAN, BeginUpdate(k, g, consent)
        PROVE  \E next : clerk' = [clerk EXCEPT ![k] = next] /\ InHand(next)
    <3> DEFINE next == [stage |-> "updating", guest |-> g, consent |-> consent,
                        changed |-> consent # book[g].consent]
    <3>1. InHand(next)
      BY DEF InHand
    <3>2. clerk' = [clerk EXCEPT ![k] = next]
      BY <2>2 DEF BeginUpdate
    <3> QED
      BY <3>1, <3>2
  <2>3. ASSUME WalksOff(k) PROVE clerk' = [clerk EXCEPT ![k] = Resting] /\ InHand(Resting)
    BY <2>3 DEF WalksOff, InHand, Resting
  <2> QED
    BY <2>1, <2>2, <2>3
<1>3. clerk' = [l \in Clerks |-> clerk'[l]] /\ \A l \in Clerks : InHand(clerk[l])'
  <2>1. clerk' = [l \in Clerks |-> clerk'[l]] /\ \A l \in Clerks : clerk'[l] = next
    BY <1>2, OnlyClerk
  <2> QED
    BY <1>1, <1>2, <2>1 DEF InHand
<1>4. CountersOK'
  BY <1>1, CountersStay DEF BookInv, CountersOK
<1> QED
  BY <1>1, <1>3, <1>4 DEF BookInv

LEMMA RestingInHand == InHand(Resting) /\ InHand(Resting)'
BY DEF InHand, Resting

LEMMA CommitMoveKeeps ==
  ASSUME BookInv, OneClerk, NEW k \in Clerks, CommitMove(k)
  PROVE  BookInv'
<1>0. PICK o, to, type, g : /\ o = clerk[k].ticket /\ to = clerk[k].to
                            /\ type = clerk[k].type /\ g = ticket[o].guest
  OBVIOUS
<1> DEFINE p == book[g]
<1>1. /\ o \in Tickets /\ ticket[o] # Nobody /\ ticket[o].status = "OPEN"
      /\ type = ticket[o].type /\ to \in {"COMPLETED", "CANCELLED"}
  BY <1>0 DEF CommitMove, BookInv, InHand
<1>2. /\ ticket' = [ticket EXCEPT ![o].status = to]
      /\ book' = IF to = "CANCELLED" THEN [book EXCEPT ![g] = CountedOut(p, type)] ELSE book
      /\ clerk' = [clerk EXCEPT ![k] = Resting]
  BY <1>0 DEF CommitMove
<1>3. ticket[o] \in TicketRow /\ g \in Regulars /\ type \in Types
  BY <1>0, <1>1 DEF BookInv, Ticket, TicketRow
<1>4. /\ ticket'[o] = [ticket[o] EXCEPT !.status = to]
      /\ \A x \in Tickets \ {o} : ticket'[x] = ticket[x]
  BY <1>1, <1>2 DEF BookInv
<1>5. /\ ticket'[o] \in TicketRow /\ ticket'[o] # Nobody
      /\ ticket'[o].guest = g /\ ticket'[o].type = type /\ ticket'[o].status = to
  BY <1>0, <1>1, <1>3, <1>4, BookAssumption DEF TicketRow
<1>6. ticket' \in [Tickets -> Ticket]
  BY <1>2, <1>4, <1>5 DEF BookInv, Ticket
<1>7. IsFiniteSet({x \in Tickets : ticket'[x] # Nobody})
  <2>1. {x \in Tickets : ticket'[x] # Nobody} = {x \in Tickets : ticket[x] # Nobody}
    BY <1>1, <1>4, <1>5
  <2> QED
    BY <2>1 DEF BookInv
<1>8. clerk' = [l \in Clerks |-> clerk'[l]] /\ \A l \in Clerks : InHand(clerk[l])'
  BY <1>2, OnlyClerk, RestingInHand
<1>9. o \in Standing(g) /\ (o \in Seated(g) <=> type = "DINE_IN")
  BY <1>0, <1>1 DEF Standing, Seated
<1> HIDE DEF p
<1>10. CASE to = "COMPLETED"
  <2>1. book' = book
    BY <1>2, <1>10
  <2>2. \A x : Standing(x)' = Standing(x) /\ Seated(x)' = Seated(x)
    <3>1. ticket'[o].guest = ticket[o].guest /\ ticket'[o].type = ticket[o].type
          /\ ticket'[o].status # "CANCELLED" /\ ticket[o].status # "CANCELLED"
      BY <1>0, <1>1, <1>5, <1>10
    <3>2. \A x : Standing(x)' = Standing(x)
      BY <1>1, <1>4, <1>5, <3>1 DEF Standing
    <3>3. ASSUME NEW x PROVE Seated(x)' = Seated(x)
      <4>1. ASSUME NEW y \in Tickets
            PROVE  y \in Seated(x)' <=> y \in Seated(x)
        <5>1. CASE y = o
          BY <1>1, <1>5, <3>1, <5>1 DEF Standing, Seated
        <5>2. CASE y # o
          BY <1>4, <5>2 DEF Standing, Seated
        <5> QED
          BY <5>1, <5>2
      <4>2. Seated(x)' \subseteq Tickets /\ Seated(x) \subseteq Tickets
        BY DEF Seated, Standing
      <4> QED
        BY <4>1, <4>2
    <3> QED
      BY <3>2, <3>3
  <2>3. CountersOK'
    BY <2>1, <2>2 DEF BookInv, CountersOK
  <2> QED
    BY <1>6, <1>7, <1>8, <2>1, <2>3 DEF BookInv
<1>11. CASE to = "CANCELLED"
  <2>1. /\ Standing(g)' = Standing(g) \ {o}
        /\ Seated(g)' = IF type = "DINE_IN" THEN Seated(g) \ {o} ELSE Seated(g)
        /\ \A x \in Regulars \ {g} : Standing(x)' = Standing(x) /\ Seated(x)' = Seated(x)
    <3>1. /\ ticket'[o].guest = g /\ ticket[o].guest = g /\ ticket'[o].type = type
          /\ ticket[o].type = type /\ ticket'[o].status = "CANCELLED"
      BY <1>0, <1>1, <1>5, <1>11
    <3>2. \A x \in Tickets : x # o => ticket'[x] = ticket[x]
      BY <1>4
    <3>3. ASSUME NEW x
          PROVE  /\ Standing(x)' = Standing(x) \ {o}
                 /\ x # g => o \notin Standing(x)
      BY <3>1, <3>2 DEF Standing
    <3>4. ASSUME NEW x
          PROVE  Seated(x)' = Seated(x) \ {o}
      BY <3>1, <3>2 DEF Standing, Seated
    <3>5. type # "DINE_IN" => o \notin Seated(g)
      BY <3>1 DEF Seated
    <3>6. \A x : x # g => o \notin Seated(x)
      BY <3>3 DEF Seated
    <3> QED
      BY <3>3, <3>4, <3>5, <3>6
  <2>2. /\ Cardinality(Standing(g)') = Cardinality(Standing(g)) - 1
        /\ Cardinality(Seated(g)') = Cardinality(Seated(g)) - AtTable(type)
        /\ Cardinality(Standing(g)) \in Nat /\ Cardinality(Seated(g)) \in Nat
        /\ Cardinality(Standing(g)') \in Nat /\ Cardinality(Seated(g)') \in Nat
        /\ Cardinality(Seated(g)') <= Cardinality(Standing(g)')
    <3>1. IsFiniteSet(Standing(g)) /\ IsFiniteSet(Seated(g))
          /\ Cardinality(Standing(g)) \in Nat /\ Cardinality(Seated(g)) \in Nat
      BY StandingIsFinite DEF BookInv
    <3>2. Cardinality(Standing(g)') = Cardinality(Standing(g)) - 1
      BY <1>9, <2>1, <3>1, FS_RemoveElement
    <3>3. Cardinality(Seated(g)') = Cardinality(Seated(g)) - AtTable(type)
      <4>1. CASE type = "DINE_IN"
        <5>1. Cardinality(Seated(g) \ {o}) = Cardinality(Seated(g)) - 1
          BY <1>9, <3>1, <4>1, FS_RemoveElement
        <5> QED
          BY <2>1, <4>1, <5>1 DEF AtTable
      <4>2. CASE type # "DINE_IN"
        BY <2>1, <3>1, <4>2 DEF AtTable
      <4> QED
        BY <4>1, <4>2
    <3>4. Seated(g)' \subseteq Standing(g)'
      BY DEF Seated
    <3>5. IsFiniteSet(Standing(g)')
      BY <2>1, <3>1, FS_RemoveElement
    <3>6. /\ Cardinality(Standing(g)') \in Nat /\ Cardinality(Seated(g)') \in Nat
          /\ Cardinality(Seated(g)') <= Cardinality(Standing(g)')
      BY <3>4, <3>5, FS_Subset, FS_CardinalityType
    <3> QED
      BY <3>1, <3>2, <3>3, <3>6
  <2>3. /\ p \in Page /\ p.orders = Cardinality(Standing(g)) /\ p.dineIn = Cardinality(Seated(g))
        /\ p.takeaway = p.orders - p.dineIn /\ (p.consent => p.dated)
    BY <1>3 DEF BookInv, CountersOK, p
  <2>4. AtTable(type) \in {0, 1}
    BY DEF AtTable
  <2>5. /\ CountedOut(p, type).orders = Cardinality(Standing(g)')
        /\ CountedOut(p, type).dineIn = Cardinality(Seated(g)')
        /\ CountedOut(p, type).takeaway = Cardinality(Standing(g)') - Cardinality(Seated(g)')
        /\ CountedOut(p, type).consent = p.consent /\ CountedOut(p, type).dated = p.dated
    BY <2>2, <2>3, <2>4, CountedOutIs
  <2>6. CountedOut(p, type) \in Page
    <3>1. Cardinality(Standing(g)') - Cardinality(Seated(g)') \in Nat
      BY <2>2
    <3> QED
      BY <2>2, <2>3, <2>5, <3>1, CountedOutIs
  <2>7. book' = [book EXCEPT ![g] = CountedOut(p, type)]
    BY <1>2, <1>11
  <2>8. book' \in [Regulars -> Page] /\ book'[g] = CountedOut(p, type)
        /\ \A x \in Regulars \ {g} : book'[x] = book[x]
    BY <1>3, <2>6, <2>7 DEF BookInv
  <2>9. CountersOK'
    <3> SUFFICES ASSUME NEW x \in Regulars
                 PROVE  /\ book'[x].orders = Cardinality(Standing(x)')
                        /\ book'[x].dineIn = Cardinality(Seated(x)')
                        /\ book'[x].takeaway = book'[x].orders - book'[x].dineIn
                        /\ book'[x].consent => book'[x].dated
      BY DEF CountersOK
    <3>1. CASE x = g
      <4>1. book'[x] = CountedOut(p, type)
        BY <3>1, <2>8
      <4>2. Standing(x)' = Standing(g)' /\ Seated(x)' = Seated(g)'
        BY <3>1
      <4> QED
        BY <4>1, <4>2, <2>3, <2>5
    <3>2. CASE x # g
      BY <3>2, <2>1, <2>8 DEF BookInv, CountersOK
    <3> QED
      BY <3>1, <3>2
  <2> QED
    BY <1>6, <1>7, <1>8, <2>8, <2>9 DEF BookInv
<1> QED
  BY <1>1, <1>10, <1>11

LEMMA CommitUpdateKeeps ==
  ASSUME BookInv, OneClerk, NEW k \in Clerks, CommitUpdate(k)
  PROVE  BookInv'
<1> DEFINE g == clerk[k].guest
           c == clerk[k].consent
           changed == clerk[k].changed
           next == Consented(book[g], c, changed)
<1>1. g \in Regulars /\ c \in BOOLEAN /\ (c /\ ~ changed => book[g].consent)
  BY DEF CommitUpdate, BookInv, InHand
<1>2. /\ book' = [book EXCEPT ![g] = next] /\ ticket' = ticket
      /\ clerk' = [clerk EXCEPT ![k] = Resting]
  BY DEF CommitUpdate
<1>3. book[g] \in Page /\ (book[g].consent => book[g].dated)
  BY <1>1 DEF BookInv, CountersOK
<1> HIDE DEF g, c, changed
<1>4. /\ next \in Page /\ next.orders = book[g].orders /\ next.dineIn = book[g].dineIn
      /\ next.takeaway = book[g].takeaway /\ (next.consent => next.dated)
  BY <1>1, <1>3 DEF Consented, Page
<1> HIDE DEF next
<1>5. book' \in [Regulars -> Page] /\ book'[g] = next /\ \A x \in Regulars \ {g} : book'[x] = book[x]
  BY <1>1, <1>2, <1>4 DEF BookInv
<1>6. CountersOK'
  BY <1>2, <1>4, <1>5, CountersStay DEF BookInv, CountersOK
<1>7. clerk' = [l \in Clerks |-> clerk'[l]] /\ \A l \in Clerks : InHand(clerk[l])'
  BY <1>2, OnlyClerk, RestingInHand
<1> QED
  BY <1>2, <1>5, <1>6, <1>7 DEF BookInv

LEMMA DaysPassKeeps ==
  ASSUME BookInv, NEW g \in Regulars, DaysPass(g)
  PROVE  BookInv'
<1>1. book' = [book EXCEPT ![g].idle = book[g].idle + 1] /\ ticket' = ticket /\ clerk' = clerk
      /\ book[g].idle < 2 /\ book[g] \in Page
  BY DEF DaysPass, BookInv
<1> DEFINE next == [book[g] EXCEPT !.idle = book[g].idle + 1]
<1>2. /\ next \in Page /\ next.orders = book[g].orders /\ next.dineIn = book[g].dineIn
      /\ next.takeaway = book[g].takeaway /\ next.consent = book[g].consent
      /\ next.dated = book[g].dated
  BY <1>1 DEF Page
<1>3. book' = [book EXCEPT ![g] = next]
  BY <1>1
<1> HIDE DEF next
<1>4. book' \in [Regulars -> Page] /\ book'[g] = next /\ \A x \in Regulars \ {g} : book'[x] = book[x]
  BY <1>2, <1>3 DEF BookInv
<1>5. CountersOK'
  BY <1>1, <1>2, <1>4, CountersStay DEF BookInv, CountersOK
<1>6. \A k \in Clerks : InHand(clerk[k])'
  <2>1. \A x \in Regulars : book'[x].consent = book[x].consent
    BY <1>2, <1>4
  <2> QED
    BY <1>1, <2>1 DEF BookInv, InHand
<1> QED
  BY <1>1, <1>4, <1>5, <1>6 DEF BookInv

LEMMA BookNextKeeps == OneClerk /\ BookInv /\ [BookNext]_bookVars => BookInv'
<1> SUFFICES ASSUME OneClerk, BookInv, [BookNext]_bookVars PROVE BookInv'
  OBVIOUS
<1>1. CASE UNCHANGED bookVars
  <2>1. book' = book /\ ticket' = ticket /\ clerk' = clerk
    BY <1>1 DEF bookVars
  <2>2. CountersOK'
    BY <2>1, CountersStay DEF BookInv, CountersOK
  <2> QED
    BY <2>1, <2>2 DEF BookInv, InHand
<1> QED
  BY <1>1, PlaceTicketKeeps, BeginsKeep, CommitMoveKeeps, CommitUpdateKeeps, DaysPassKeeps DEF BookNext

LEMMA BookInvHolds == OneClerk => (BookSpec => []BookInv)
<1> SUFFICES ASSUME OneClerk PROVE BookSpec => []BookInv
  OBVIOUS
<1>1. BookInv /\ [BookNext]_bookVars => BookInv'
  BY BookNextKeeps
<1> QED
  BY BookInitHolds, <1>1, PTL DEF BookSpec

\* The counters are those of the standing orders and the segments of a campaign
\* follow them, the badges of a profile are its segments but for the thirty days
\* within the sixty, and no consent is without its date: for any customers and
\* orders, and one request of the staff.
THEOREM SegmentsStayTrue == OneClerk => (BookSpec => []SegmentsAreTrue)
<1>1. BookInv => SegmentsAreTrue
  <2> SUFFICES ASSUME BookInv, NEW g \in Regulars
               PROVE  LET p == book[g]
                          n == Cardinality(Standing(g))
                          d == Cardinality(Seated(g))
                      IN  /\ p.orders = n /\ p.dineIn = d /\ p.takeaway = n - d
                          /\ InSegment("NEW", p) <=> n = 1
                          /\ InSegment("RETURNING", p) <=> n >= 2
                          /\ InSegment("VIP", p) <=> n >= VipFloor
                          /\ InSegment("DINE_IN", p) => d > n - d
                          /\ InSegment("TAKEAWAY", p) => d < n - d
                          /\ \A s \in Segments \ {"INACTIVE_30"} : s \in Badges(p) <=> InSegment(s, p)
                          /\ InSegment("INACTIVE_30", p) <=>
                               "INACTIVE_30" \in Badges(p) \/ "INACTIVE_60" \in Badges(p)
                          /\ p.consent => p.dated
    BY DEF SegmentsAreTrue
  <2> DEFINE p == book[g]
             n == Cardinality(Standing(g))
             d == Cardinality(Seated(g))
  <2>1. /\ p \in Page /\ p.orders = n /\ p.dineIn = d /\ p.takeaway = n - d
        /\ p.consent => p.dated
    BY DEF BookInv, CountersOK
  <2>2. n \in Nat /\ d \in Nat /\ d <= n
    BY StandingIsFinite DEF BookInv
  <2> HIDE DEF p, n, d
  <2>3. /\ InSegment("NEW", p) <=> n = 1
        /\ InSegment("RETURNING", p) <=> n >= 2
        /\ InSegment("VIP", p) <=> n >= VipFloor
        /\ InSegment("DINE_IN", p) => d > n - d
        /\ InSegment("TAKEAWAY", p) => d < n - d
    BY <2>1, <2>2 DEF InSegment, NewCeiling
  <2>4. \A s : s \in Badges(p) <=>
          \/ s = "NEW" /\ p.orders > 0 /\ p.orders <= NewCeiling
          \/ s = "RETURNING" /\ p.orders > NewCeiling
          \/ s = "VIP" /\ p.orders >= VipFloor
          \/ s = "INACTIVE_60" /\ p.known /\ p.idle = 2
          \/ s = "INACTIVE_30" /\ p.known /\ p.idle = 1
          \/ s = "DINE_IN" /\ p.dineIn > 0 /\ p.takeaway = 0
          \/ s = "TAKEAWAY" /\ p.takeaway > 0 /\ p.dineIn = 0
    BY DEF Badges, Badge
  <2>5. /\ InSegment("NEW", p) <=> p.orders > 0 /\ p.orders <= NewCeiling
        /\ InSegment("RETURNING", p) <=> p.orders > NewCeiling
        /\ InSegment("VIP", p) <=> p.orders >= VipFloor
        /\ InSegment("DINE_IN", p) <=> p.dineIn > 0 /\ p.takeaway = 0
        /\ InSegment("TAKEAWAY", p) <=> p.takeaway > 0 /\ p.dineIn = 0
    BY DEF InSegment
  <2>6. /\ InSegment("INACTIVE_60", p) <=> p.known /\ p.idle = 2
        /\ InSegment("INACTIVE_30", p) <=> p.known /\ (p.idle = 1 \/ p.idle = 2)
    <3>1. p.idle \in 0 .. 2
      BY <2>1 DEF Page
    <3> QED
      BY <3>1 DEF InSegment
  <2>7. ASSUME NEW s \in Segments \ {"INACTIVE_30"} PROVE s \in Badges(p) <=> InSegment(s, p)
    <3>1. s \in {"NEW", "RETURNING", "VIP", "INACTIVE_60", "DINE_IN", "TAKEAWAY"}
      BY DEF Segments
    <3> QED
      BY <2>4, <2>5, <2>6, <3>1
  <2>8. InSegment("INACTIVE_30", p) <=> "INACTIVE_30" \in Badges(p) \/ "INACTIVE_60" \in Badges(p)
    BY <2>4, <2>6
  <2> QED
    BY <2>1, <2>3, <2>7, <2>8 DEF p, n, d
<1> QED
  BY <1>1, BookInvHolds, PTL

-----------------------------------------------------------------------------
(* WebSession: one tab, its calls and its cookies.                         *)

\* The callers whose answers the tab waits for.
Tab == {"boot", "flight"}

\* The types, with the bound that keeps them: a query is denied or waiting.
WebTypes == WebTypeOK /\ denied + waiting <= MaxQueries

\* A page's own call and its flight are never both under way.
OneTurn ==
  /\ rotation["boot"].stage # "none" => boot \in {"asking", "again"} /\ rotation["flight"].stage = "none"
  /\ rotation["flight"].stage # "none" => flight = "asking"

\* A page that boots has no query out, and has been let in only by a cookie.
BootsFirst ==
  /\ denied + waiting > 0 => boot = "done"
  /\ boot # "done" /\ status = "authenticated" => access

\* A token whose cookie has not arrived yet: nobody has presented it.
Unheard(t) == t \in 1 .. Len(tokens) /\ tokens[t] # "rotated" /\ jar # t /\ \A d \in Callers : rotation[d].token # t

FreshIsNew ==
  /\ \A c \in Callers : rotation[c].fresh # NoToken <=> rotation[c].stage = "issued"
  /\ \A c \in Callers : rotation[c].stage = "issued" =>
       Unheard(rotation[c].fresh) /\ signing.token # rotation[c].fresh
  /\ \A c, d \in Callers : rotation[c].stage = "issued" /\ rotation[c].fresh = rotation[d].fresh => c = d
  /\ signing.kind = "login" <=> signing.token # NoToken
  /\ signing.kind = "login" => Unheard(signing.token)

\* The cookie that was rotated belongs to the turn that will replace it.
JarIsHeard ==
  jar # NoToken /\ tokens[jar] = "rotated" =>
    \/ jar \in lost
    \/ \E c \in Tab : rotation[c].stage \in {"revoked", "issued"} /\ rotation[c].token = jar

OrphanIsLost == rotation["orphan"].stage # "none" => rotation["orphan"].token \in lost

WebInv ==
  WebTypes /\ OneTurn /\ BootsFirst /\ FreshIsNew /\ JarIsHeard /\ OrphanIsLost /\ SpentTokenIsNotPresented

TokenStates == {"live", "rotated", "ended"}

LEMMA TokenAppended ==
  ASSUME NEW s \in Seq(TokenStates), NEW e \in TokenStates
  PROVE  /\ Append(s, e) \in Seq(TokenStates) /\ Len(s) \in Nat /\ Len(Append(s, e)) = Len(s) + 1
         /\ \A i \in 1 .. Len(s) : Append(s, e)[i] = s[i]
         /\ Append(s, e)[Len(s) + 1] = e
<1> HIDE DEF TokenStates
<1> QED
  OBVIOUS

LEMMA TokenOverwritten ==
  ASSUME NEW s \in Seq(TokenStates), NEW j, NEW e \in TokenStates
  PROVE  /\ [s EXCEPT ![j] = e] \in Seq(TokenStates) /\ Len([s EXCEPT ![j] = e]) = Len(s)
         /\ \A i \in 1 .. Len(s) : [s EXCEPT ![j] = e][i] = IF i = j THEN e ELSE s[i]
<1> DEFINE q == [s EXCEPT ![j] = e]
<1>1. DOMAIN s = 1 .. Len(s) /\ Len(s) \in Nat /\ \A i \in 1 .. Len(s) : s[i] \in TokenStates
  BY DEF TokenStates
<1>2. q = [i \in 1 .. Len(s) |-> IF i = j THEN e ELSE s[i]]
  BY <1>1
<1> HIDE DEF q
<1>3. q \in Seq(TokenStates) /\ Len(q) = Len(s)
  BY <1>1, <1>2
<1>4. \A i \in 1 .. Len(s) : q[i] = IF i = j THEN e ELSE s[i]
  BY <1>2
<1> QED
  BY <1>3, <1>4 DEF q

LEMMA WebInitHolds == WebInit => WebInv
<1> SUFFICES ASSUME WebInit PROVE WebInv
  OBVIOUS
<1> USE TokensAreCounted
<1>1. /\ tokens \in Seq({"live", "rotated", "ended"}) /\ Len(tokens) \in 0 .. 1 /\ jar \in 0 .. Len(tokens)
      /\ jar # NoToken => tokens[jar] = "live"
  <2>1. CASE tokens = <<"live">> /\ jar = 1
    BY <2>1
  <2>2. CASE tokens = <<>> /\ jar = NoToken
    BY <2>2 DEF NoToken
  <2> QED
    BY <2>1, <2>2 DEF WebInit
<1>2. /\ rotation \in [Callers -> Rotation]
      /\ rotation["boot"] = [stage |-> "sent", token |-> jar, fresh |-> 0]
      /\ rotation["flight"] = [stage |-> "none", token |-> 0, fresh |-> 0]
      /\ rotation["orphan"] = [stage |-> "none", token |-> 0, fresh |-> 0]
  BY <1>1 DEF WebInit, Callers, Turn, NoTurn, NoToken, Rotation
<1>3. access = FALSE /\ status = "loading" /\ boot = "asking" /\ flight = "none" /\ denied = 0 /\ waiting = 0
      /\ signing = [kind |-> "none", token |-> 0] /\ lost = {}
  BY DEF WebInit, Quiet, NoToken
<1>4. WebTypes
  <2>1. /\ \A c \in Callers : rotation[c].token <= Len(tokens) /\ rotation[c].fresh <= Len(tokens)
        /\ signing \in [kind: {"none", "login", "logout"}, token: 0 .. Len(tokens)]
    BY <1>1, <1>2, <1>3 DEF Callers
  <2>2. Len(tokens) <= MaxTokens /\ denied \in 0 .. MaxQueries /\ waiting \in 0 .. MaxQueries
        /\ denied + waiting <= MaxQueries
    <3>1. Len(tokens) <= MaxTokens
      <4>1. Len(tokens) = 0 \/ Len(tokens) = 1
        BY <1>1
      <4>2. MaxTokens \in Nat /\ MaxTokens >= 1
        OBVIOUS
      <4> QED
        BY <4>1, <4>2
    <3>2. denied = 0 /\ waiting = 0
      BY <1>3
    <3>3. denied + waiting = 0
      BY <3>2
    <3> QED
      BY <3>1, <3>2, <3>3
  <2> QED
    BY <1>1, <1>2, <1>3, <2>1, <2>2 DEF WebTypes, WebTypeOK
<1>5. OneTurn /\ BootsFirst /\ JarIsHeard /\ OrphanIsLost /\ SpentTokenIsNotPresented
  BY <1>1, <1>2, <1>3 DEF OneTurn, BootsFirst, JarIsHeard, OrphanIsLost, SpentTokenIsNotPresented, Tab
<1>6. FreshIsNew
  BY <1>1, <1>2, <1>3 DEF FreshIsNew, Callers, NoToken
<1> QED
  BY <1>4, <1>5, <1>6 DEF WebInv

\* What a step may do to a turn.
LEMMA TurnTyped ==
  ASSUME WebTypes, NEW c \in Callers
  PROVE  /\ rotation[c] \in Rotation /\ rotation[c].token \in 0 .. Len(tokens) /\ rotation[c].fresh \in 0 .. Len(tokens)
         /\ \A s \in {"none", "sent", "found", "revoked", "issued", "refused"} :
              [rotation[c] EXCEPT !.stage = s] \in Rotation
         /\ \A t \in 0 .. Len(tokens) : Turn("sent", t, NoToken) \in Rotation
         /\ NoTurn \in Rotation
BY TokensAreCounted DEF WebTypes, WebTypeOK, Rotation, Turn, NoTurn, NoToken

\* A turn is moved on, presented anew, handed over or dropped.
MovedOn(c, r) ==
  \/ \E d \in Callers : r = rotation[d]
  \/ r = NoTurn
  \/ r = Turn("sent", jar, NoToken)
  \/ \E s \in {"none", "sent", "found", "revoked", "issued", "refused"} : r = [rotation[c] EXCEPT !.stage = s]

LEMMA MovedOnTyped ==
  ASSUME WebTypes, NEW c \in Callers, NEW r, MovedOn(c, r)
  PROVE  r \in Rotation /\ r.token \in 0 .. Len(tokens) /\ r.fresh \in 0 .. Len(tokens)
<1>1. jar \in 0 .. Len(tokens) /\ Len(tokens) \in Nat
  BY DEF WebTypes, WebTypeOK
<1>2. ASSUME NEW d \in Callers, r = rotation[d]
      PROVE  r \in Rotation /\ r.token \in 0 .. Len(tokens) /\ r.fresh \in 0 .. Len(tokens)
  BY <1>2, TurnTyped
<1>3. ASSUME NEW s \in {"none", "sent", "found", "revoked", "issued", "refused"},
             r = [rotation[c] EXCEPT !.stage = s]
      PROVE  r \in Rotation /\ r.token \in 0 .. Len(tokens) /\ r.fresh \in 0 .. Len(tokens)
  <2>1. r.token = rotation[c].token /\ r.fresh = rotation[c].fresh
    BY <1>3, TurnTyped DEF Rotation
  <2> QED
    BY <1>3, <2>1, TurnTyped
<1>4. CASE r = NoTurn \/ r = Turn("sent", jar, NoToken)
  <2>1. r \in Rotation
    BY <1>1, <1>4, TurnTyped
  <2>2. r.token \in {0, jar} /\ r.fresh = 0
    BY <1>4 DEF NoTurn, Turn, NoToken
  <2> QED
    BY <1>1, <2>1, <2>2
<1> QED
  BY <1>2, <1>3, <1>4 DEF MovedOn

LEMMA TurnsTyped ==
  ASSUME WebTypes, Len(tokens') \in Nat, Len(tokens) <= Len(tokens'),
         rotation' = [c \in Callers |-> rotation'[c]], \A c \in Callers : MovedOn(c, rotation'[c])
  PROVE  /\ rotation' \in [Callers -> Rotation]
         /\ \A c \in Callers : rotation'[c].token <= Len(tokens') /\ rotation'[c].fresh <= Len(tokens')
<1>1. ASSUME NEW c \in Callers
      PROVE  rotation'[c] \in Rotation /\ rotation'[c].token <= Len(tokens')
             /\ rotation'[c].fresh <= Len(tokens')
  <2> DEFINE r == rotation'[c]
  <2>1. r \in Rotation /\ r.token \in 0 .. Len(tokens) /\ r.fresh \in 0 .. Len(tokens)
    <3> HIDE DEF r
    <3>1. MovedOn(c, r)
      BY DEF r
    <3> QED
      BY <3>1, MovedOnTyped
  <2>2. Len(tokens) \in Nat
    BY DEF WebTypes, WebTypeOK
  <2> HIDE DEF r
  <2>3. r.token <= Len(tokens') /\ r.fresh <= Len(tokens')
    BY <2>1, <2>2
  <2> QED
    BY <2>1, <2>3 DEF r
<1> QED
  BY <1>1

LEMMA WebTypesKept == WebTypes /\ [WebNext]_webVars => WebTypes'
<1> SUFFICES ASSUME WebTypes, [WebNext]_webVars PROVE WebTypes'
  OBVIOUS
<1> DEFINE TokensGrow == /\ tokens' \in Seq({"live", "rotated", "ended"})
                         /\ Len(tokens') \in Nat /\ Len(tokens) <= Len(tokens') /\ Len(tokens') <= MaxTokens
           TurnsMove == /\ rotation' = [c \in Callers |-> rotation'[c]]
                        /\ \A c \in Callers : MovedOn(c, rotation'[c])
           RestTyped == /\ jar' \in 0 .. Len(tokens')
                        /\ access' \in BOOLEAN
                        /\ status' \in {"loading", "authenticated", "anonymous"}
                        /\ boot' \in {"asking", "waiting", "again", "done"}
                        /\ flight' \in {"none", "asking", "yes", "no"}
                        /\ denied' \in 0 .. MaxQueries
                        /\ waiting' \in 0 .. MaxQueries
                        /\ denied' + waiting' <= MaxQueries
                        /\ signing' \in [kind: {"none", "login", "logout"}, token: 0 .. Len(tokens')]
                        /\ lost' \subseteq 0 .. Len(tokens')
<1>1. TokensGrow /\ TurnsMove /\ RestTyped => WebTypes'
  <2> SUFFICES ASSUME TokensGrow, TurnsMove, RestTyped PROVE WebTypes'
    OBVIOUS
  <2>1. /\ rotation' \in [Callers -> Rotation]
        /\ \A c \in Callers : rotation'[c].token <= Len(tokens') /\ rotation'[c].fresh <= Len(tokens')
    BY TurnsTyped
  <2> QED
    BY <2>1 DEF WebTypes, WebTypeOK
<1>2. tokens' = tokens => TokensGrow
  BY DEF WebTypes, WebTypeOK
<1>3. rotation' = rotation => TurnsMove
  BY DEF WebTypes, WebTypeOK, MovedOn
<1>4. \A c \in Callers : \A r : rotation' = [rotation EXCEPT ![c] = r] /\ MovedOn(c, r) => TurnsMove
  BY DEF WebTypes, WebTypeOK, MovedOn
<1>5. ASSUME NEW c \in Callers, NEW s \in {"none", "sent", "found", "revoked", "issued", "refused"}, Moves(c, s)
      PROVE  TurnsMove
  <2>1. rotation' = [rotation EXCEPT ![c] = [rotation[c] EXCEPT !.stage = s]]
    BY <1>5 DEF Moves, WebTypes, WebTypeOK
  <2> QED
    BY <1>4, <2>1 DEF MovedOn
<1> USE DEF NoToken
<1> HIDE DEF TurnsMove
<1>11. ASSUME NEW c \in Callers, FindToken(c) PROVE WebTypes'
  <2>1. TurnsMove
    BY <1>11, <1>5 DEF FindToken
  <2> QED
    BY <1>1, <1>2, <1>11, <2>1 DEF FindToken, WebTypes, WebTypeOK
<1>12. ASSUME NEW c \in Callers, RevokeToken(c) PROVE WebTypes'
  <2>1. TurnsMove
    BY <1>12, <1>5 DEF RevokeToken
  <2>2. TokensGrow /\ Len(tokens') = Len(tokens)
    <3>1. PICK j : tokens' = [tokens EXCEPT ![j] = "rotated"] /\ tokens \in Seq(TokenStates)
      BY <1>12 DEF RevokeToken, WebTypes, WebTypeOK, TokenStates
    <3>2. tokens' \in Seq(TokenStates) /\ Len(tokens') = Len(tokens)
      BY <3>1, TokenOverwritten DEF TokenStates
    <3> QED
      BY <3>2 DEF WebTypes, WebTypeOK, TokenStates
  <2> QED
    BY <1>1, <1>12, <2>1, <2>2 DEF RevokeToken, WebTypes, WebTypeOK
<1>13. ASSUME NEW c \in Callers, IssueToken(c) PROVE WebTypes'
  <2>1. TokensGrow /\ Len(tokens') = Len(tokens) + 1
    <3>1. tokens' = Append(tokens, "live") /\ Len(tokens) < MaxTokens /\ tokens \in Seq(TokenStates)
      BY <1>13 DEF IssueToken, WebTypes, WebTypeOK, TokenStates
    <3>2. tokens' \in Seq(TokenStates) /\ Len(tokens') = Len(tokens) + 1 /\ Len(tokens) \in Nat
      BY <3>1, TokenAppended DEF TokenStates
    <3> QED
      BY <3>1, <3>2, TokensAreCounted DEF TokenStates
  <2>2. /\ rotation' \in [Callers -> Rotation]
        /\ \A d \in Callers : rotation'[d].token <= Len(tokens') /\ rotation'[d].fresh <= Len(tokens')
    <3> DEFINE r == [rotation[c] EXCEPT !.stage = "issued", !.fresh = Len(tokens) + 1]
    <3>1. Len(tokens) + 1 \in 0 .. MaxTokens
      BY <1>13, TokensAreCounted DEF IssueToken, WebTypes, WebTypeOK
    <3>2. r \in Rotation /\ r.token = rotation[c].token /\ r.fresh = Len(tokens) + 1
      BY <3>1, TurnTyped DEF Rotation
    <3>3. rotation' = [rotation EXCEPT ![c] = r]
      BY <1>13 DEF IssueToken, WebTypes, WebTypeOK
    <3> HIDE DEF r
    <3>4. ASSUME NEW d \in Callers
          PROVE  rotation'[d] \in Rotation
                 /\ rotation'[d].token <= Len(tokens') /\ rotation'[d].fresh <= Len(tokens')
      <4>1. Len(tokens) \in Nat /\ rotation[d] \in Rotation /\ r.token \in 0 .. Len(tokens)
            /\ rotation[d].token \in 0 .. Len(tokens) /\ rotation[d].fresh \in 0 .. Len(tokens)
        <5>1. Len(tokens) \in Nat
          BY DEF WebTypes, WebTypeOK
        <5>2. rotation[d] \in Rotation /\ rotation[d].token \in 0 .. Len(tokens)
              /\ rotation[d].fresh \in 0 .. Len(tokens)
          BY TurnTyped
        <5>3. rotation[c].token \in 0 .. Len(tokens)
          BY TurnTyped
        <5> QED
          BY <3>2, <5>1, <5>2, <5>3
      <4>2. rotation'[d] = rotation[d] \/ rotation'[d] = r
        BY <3>3 DEF WebTypes, WebTypeOK
      <4>3. CASE rotation'[d] = rotation[d]
        <5>1. rotation[d].token <= Len(tokens) + 1 /\ rotation[d].fresh <= Len(tokens) + 1
          BY <4>1
        <5> QED
          BY <2>1, <4>1, <4>3, <5>1
      <4>4. CASE rotation'[d] = r
        <5>1. r.token <= Len(tokens) + 1 /\ r.fresh <= Len(tokens) + 1
          BY <3>2, <4>1
        <5> QED
          BY <2>1, <3>2, <4>4, <5>1
      <4> QED
        BY <4>2, <4>3, <4>4
    <3> QED
      BY <3>3, <3>4 DEF WebTypes, WebTypeOK
  <2>3. RestTyped
    BY <1>13, <2>1 DEF IssueToken, WebTypes, WebTypeOK
  <2> QED
    BY <2>1, <2>2, <2>3 DEF WebTypes, WebTypeOK
<1>14. ASSUME NEW c \in Callers, Fails(c) PROVE WebTypes'
  <2>1. TurnsMove
    BY <1>14, <1>4 DEF Fails, MovedOn
  <2>2. rotation[c].token \in 0 .. Len(tokens)
    BY TurnTyped
  <2> QED
    BY <1>1, <1>2, <1>14, <2>1, <2>2 DEF Fails, WebTypes, WebTypeOK
<1>15. ASSUME BootSucceeds \/ FlightSucceeds \/ OrphanEnds PROVE WebTypes'
  <2>1. TurnsMove
    <3>1. PICK c \in Callers : rotation' = [rotation EXCEPT ![c] = NoTurn]
      BY <1>15 DEF BootSucceeds, FlightSucceeds, OrphanEnds, Callers
    <3> QED
      BY <1>4, <3>1 DEF MovedOn
  <2>2. \A c \in Callers : rotation[c].fresh \in 0 .. Len(tokens)
    BY TurnTyped
  <2>3. RestTyped
    BY <1>15, <2>2 DEF BootSucceeds, FlightSucceeds, OrphanEnds, Cookies, WebTypes, WebTypeOK, Callers
  <2>4. tokens' = tokens
    BY <1>15 DEF BootSucceeds, FlightSucceeds, OrphanEnds
  <2> QED
    BY <1>1, <1>2, <2>1, <2>3, <2>4
<1>16. CASE BootRefused
  <2>1. TurnsMove
    <3>1. CASE boot = "asking"
      BY <1>16, <3>1 DEF BootRefused, WebTypes, WebTypeOK, MovedOn, Callers, TurnsMove
    <3>2. CASE boot # "asking"
      BY <1>4, <1>16, <3>2 DEF BootRefused, MovedOn, Callers
    <3> QED
      BY <3>1, <3>2
  <2> QED
    BY <1>1, <1>2, <1>16, <2>1 DEF BootRefused, WebTypes, WebTypeOK
<1>17. CASE FlightRefused
  <2>1. TurnsMove
    BY <1>4, <1>17 DEF FlightRefused, MovedOn, Callers
  <2> QED
    BY <1>1, <1>2, <1>17, <2>1 DEF FlightRefused, WebTypes, WebTypeOK
<1>18. CASE RevokeAllSessions
  <2>1. TokensGrow /\ Len(tokens') = Len(tokens)
    <3>1. DOMAIN tokens = 1 .. Len(tokens) /\ Len(tokens) \in Nat
          /\ \A t \in DOMAIN tokens : tokens[t] \in {"live", "rotated", "ended"}
      BY DEF WebTypes, WebTypeOK
    <3>2. tokens' = [t \in 1 .. Len(tokens) |-> IF tokens[t] = "live" THEN "ended" ELSE tokens[t]]
      BY <1>18, <3>1 DEF RevokeAllSessions
    <3>3. tokens' \in Seq({"live", "rotated", "ended"}) /\ Len(tokens') = Len(tokens)
      BY <3>1, <3>2
    <3> QED
      BY <3>3 DEF WebTypes, WebTypeOK
  <2> QED
    BY <1>1, <1>3, <1>18, <2>1 DEF RevokeAllSessions, WebTypes, WebTypeOK
<1>19. CASE Expire \/ QueryDenied \/ ResumeQueries \/ Release
  <2>1. tokens' = tokens /\ rotation' = rotation
    BY <1>19 DEF Expire, QueryDenied, ResumeQueries, Release
  <2>2. RestTyped
    <3>1. CASE Expire
      BY <3>1 DEF Expire, WebTypes, WebTypeOK
    <3>2. CASE QueryDenied
      BY <3>2, TokensAreCounted DEF QueryDenied, WebTypes, WebTypeOK
    <3>3. CASE ResumeQueries
      BY <3>3, TokensAreCounted DEF ResumeQueries, WebTypes, WebTypeOK
    <3>4. CASE Release
      BY <3>4 DEF Release, WebTypes, WebTypeOK
    <3> QED
      BY <1>19, <3>1, <3>2, <3>3, <3>4
  <2> QED
    BY <1>1, <1>2, <1>3, <2>1, <2>2
<1>20. CASE Join
  <2>1. TurnsMove
    BY <1>3, <1>4, <1>20 DEF Join, Presents, MovedOn, Callers
  <2> QED
    BY <1>1, <1>2, <1>20, <2>1, TokensAreCounted DEF Join, WebTypes, WebTypeOK
<1>21. CASE ResumeBoot
  <2>1. TurnsMove
    BY <1>3, <1>4, <1>21 DEF ResumeBoot, Presents, MovedOn, Callers
  <2> QED
    BY <1>1, <1>2, <1>21, <2>1 DEF ResumeBoot, WebTypes, WebTypeOK
<1>22. CASE Reload
  <2>1. TurnsMove
    <3>1. PICK left : /\ left = {c \in {"boot", "flight"} : rotation[c] # NoTurn}
                      /\ rotation' = [c \in Callers |->
                           IF c = "boot" THEN Turn("sent", jar, NoToken)
                           ELSE IF c = "orphan" /\ left # {} THEN rotation[CHOOSE d \in left : TRUE]
                           ELSE NoTurn]
      BY <1>22 DEF Reload
    <3>2. left # {} => (CHOOSE d \in left : TRUE) \in Callers
      BY <3>1 DEF Callers
    <3> QED
      BY <3>1, <3>2 DEF MovedOn, TurnsMove
  <2>2. lost' \subseteq 0 .. Len(tokens)
    BY <1>22, TurnTyped DEF Reload, WebTypes, WebTypeOK, Callers
  <2> QED
    BY <1>1, <1>2, <1>22, <2>1, <2>2, TokensAreCounted DEF Reload, WebTypes, WebTypeOK, Quiet
<1>23. CASE Login
  <2>1. TokensGrow /\ Len(tokens') = Len(tokens) + 1
    <3>1. tokens' = Append(tokens, "live") /\ Len(tokens) < MaxTokens /\ tokens \in Seq(TokenStates)
      BY <1>23 DEF Login, WebTypes, WebTypeOK, TokenStates
    <3>2. tokens' \in Seq(TokenStates) /\ Len(tokens') = Len(tokens) + 1 /\ Len(tokens) \in Nat
      BY <3>1, TokenAppended DEF TokenStates
    <3> QED
      BY <3>1, <3>2, TokensAreCounted DEF TokenStates
  <2> QED
    BY <1>1, <1>3, <1>23, <2>1 DEF Login, WebTypes, WebTypeOK
<1>24. CASE LoggedIn \/ LoginFails \/ LoggedOut
  <2>1. tokens' = tokens /\ rotation' = rotation
    BY <1>24 DEF LoggedIn, LoginFails, LoggedOut
  <2>2. RestTyped
    <3>1. CASE LoggedIn
      BY <3>1 DEF LoggedIn, WebTypes, WebTypeOK, Quiet
    <3>2. CASE LoginFails
      BY <3>2 DEF LoginFails, WebTypes, WebTypeOK, Quiet
    <3>3. CASE LoggedOut
      <4>1. access' \in BOOLEAN
        BY <3>3 DEF LoggedOut, WebTypes, WebTypeOK
      <4>2. jar' \in 0 .. Len(tokens')
        BY <2>1, <3>3 DEF LoggedOut, WebTypes, WebTypeOK
      <4>3. signing' = Quiet /\ status' = "anonymous"
            /\ boot' = boot /\ flight' = flight /\ denied' = denied /\ waiting' = waiting /\ lost' = lost
        BY <3>3 DEF LoggedOut
      <4> QED
        BY <2>1, <4>1, <4>2, <4>3 DEF WebTypes, WebTypeOK, Quiet
    <3> QED
      BY <1>24, <3>1, <3>2, <3>3
  <2> QED
    BY <1>1, <1>2, <1>3, <2>1, <2>2
<1>25. CASE Logout
  <2>1. TokensGrow /\ Len(tokens') = Len(tokens)
    BY <1>2, <1>25 DEF Logout, Found, WebTypes, WebTypeOK
  <2> QED
    BY <1>1, <1>3, <1>25, <2>1 DEF Logout, WebTypes, WebTypeOK
<1>26. CASE UNCHANGED webVars
  BY <1>26 DEF webVars, WebTypes, WebTypeOK
<1> QED
  BY <1>11, <1>12, <1>13, <1>14, <1>15, <1>16, <1>17, <1>18, <1>19, <1>20, <1>21, <1>22, <1>23, <1>24,
     <1>25, <1>26 DEF WebNext
\* What has been rotated stays rotated, and nothing else becomes so.
OnlyRevokes ==
  /\ Len(tokens) <= Len(tokens')
  /\ \A t \in 1 .. Len(tokens) : tokens'[t] = "rotated" => tokens[t] = "rotated"

\* One turn moves to r.
TurnBecomes(c, stage, t, fresh) ==
  /\ rotation'[c].stage = stage /\ rotation'[c].token = t /\ rotation'[c].fresh = fresh
  /\ \A d \in Callers \ {c} : rotation'[d] = rotation[d]

LEMMA TurnMoves ==
  ASSUME WebTypes, NEW c \in Callers, NEW stage, Moves(c, stage)
  PROVE  TurnBecomes(c, stage, rotation[c].token, rotation[c].fresh)
<1>1. rotation'[c] = [rotation[c] EXCEPT !.stage = stage]
      /\ \A d \in Callers \ {c} : rotation'[d] = rotation[d]
  BY DEF Moves, WebTypes, WebTypeOK
<1>2. rotation[c] \in Rotation
  BY TurnTyped
<1>3. [rotation[c] EXCEPT !.stage = stage].stage = stage
      /\ [rotation[c] EXCEPT !.stage = stage].token = rotation[c].token
      /\ [rotation[c] EXCEPT !.stage = stage].fresh = rotation[c].fresh
  BY <1>2 DEF Rotation
<1> QED
  BY <1>1, <1>3 DEF TurnBecomes

LEMMA TurnSet ==
  ASSUME WebTypes, NEW c \in Callers, NEW stage, NEW t, NEW fresh,
         rotation' = [rotation EXCEPT ![c] = Turn(stage, t, fresh)]
  PROVE  TurnBecomes(c, stage, t, fresh)
<1>1. rotation'[c] = Turn(stage, t, fresh) /\ \A d \in Callers \ {c} : rotation'[d] = rotation[d]
  BY DEF WebTypes, WebTypeOK
<1>2. Turn(stage, t, fresh).stage = stage /\ Turn(stage, t, fresh).token = t
      /\ Turn(stage, t, fresh).fresh = fresh
  BY DEF Turn
<1> QED
  BY <1>1, <1>2 DEF TurnBecomes

LEMMA WebFacts ==
  ASSUME WebTypes
  PROVE  /\ jar \in 0 .. Len(tokens) /\ Len(tokens) \in Nat
         /\ \A c \in Callers : rotation[c].token \in 0 .. Len(tokens) /\ rotation[c].fresh \in 0 .. Len(tokens)
         /\ signing.token \in 0 .. Len(tokens)
<1>1. signing \in [kind: {"none", "login", "logout"}, token: 0 .. Len(tokens)]
  BY DEF WebTypes, WebTypeOK
<1>2. signing.token \in 0 .. Len(tokens)
  BY <1>1
<1>3. jar \in 0 .. Len(tokens) /\ Len(tokens) \in Nat
  BY DEF WebTypes, WebTypeOK
<1> QED
  BY <1>2, <1>3, TurnTyped

\* A step shows and rotates only tokens that have been seen.
Spread ==
  /\ Len(tokens') \in Nat /\ Len(tokens) <= Len(tokens')
  /\ \A t \in 1 .. Len(tokens) : tokens'[t] = "rotated" =>
       tokens[t] = "rotated" \/ \E d \in Callers : rotation[d].token = t
  /\ \A c \in Callers : rotation'[c].token \in {jar, 0} \cup {rotation[d].token : d \in Callers}

StillUnheard(t) ==
  t \in 1 .. Len(tokens') /\ tokens'[t] # "rotated" /\ jar' # t /\ \A d \in Callers : rotation'[d].token # t

LEMMA UnheardStays ==
  ASSUME WebTypes, Spread, NEW t, Unheard(t), jar' # t
  PROVE  StillUnheard(t)
<1>1. t \in 1 .. Len(tokens) /\ Len(tokens) \in Nat
  BY DEF Unheard, WebTypes, WebTypeOK
<1>2. t \in 1 .. Len(tokens')
  BY <1>1 DEF Spread
<1>3. tokens'[t] # "rotated" /\ \A d \in Callers : rotation'[d].token # t
  BY <1>1 DEF Unheard, Spread
<1> QED
  BY <1>2, <1>3 DEF StillUnheard

\* What the next two lemmas and all others take from the invariant.
LEMMA FreshFacts ==
  ASSUME WebTypes, FreshIsNew
  PROVE  /\ \A c \in Callers : rotation[c].stage = "issued" =>
              /\ rotation[c].fresh # 0 /\ tokens[rotation[c].fresh] # "rotated" /\ jar # rotation[c].fresh
              /\ \A d \in Callers : rotation[d].token # rotation[c].fresh
         /\ signing.kind = "login" => tokens[signing.token] # "rotated" /\ jar # signing.token
BY DEF FreshIsNew, Unheard, NoToken

LEMMA FindTokenKeeps ==
  ASSUME WebInv, WebTypes', NEW c \in Callers, FindToken(c)
  PROVE  WebInv'
<1> USE DEF NoToken, Callers, Tab
<1>1. PICK s : /\ TurnBecomes(c, s, rotation[c].token, rotation[c].fresh) /\ s \in {"found", "refused"}
               /\ rotation[c].stage = "sent"
               /\ UNCHANGED <<tokens, jar, access, status, boot, flight, denied, waiting, signing, lost>>
  BY TurnMoves DEF FindToken, WebInv
<1>0. /\ jar \in 0 .. Len(tokens) /\ Len(tokens) \in Nat /\ signing.token \in 0 .. Len(tokens)
      /\ \A d \in Callers : rotation[d].token \in 0 .. Len(tokens) /\ rotation[d].fresh \in 0 .. Len(tokens)
  BY WebFacts DEF WebInv
<1>2. /\ \A d \in Callers : rotation[d].stage = "issued" => rotation[d].fresh # 0 /\ tokens[rotation[d].fresh] # "rotated"
                                                  /\ jar # rotation[d].fresh
      /\ signing.kind = "login" => tokens[signing.token] # "rotated" /\ jar # signing.token
  BY FreshFacts DEF WebInv
<1>10. OneTurn'
  BY <1>0, <1>1, <1>2 DEF OneTurn, WebInv, TurnBecomes
<1>11. BootsFirst'
  BY <1>0, <1>1, <1>2 DEF OneTurn, BootsFirst, WebTypes, WebTypeOK, WebInv, TurnBecomes
<1>3. Spread
  BY <1>0, <1>1 DEF Spread, TurnBecomes
<1>4. \A t : Unheard(t) /\ jar' # t => StillUnheard(t)
  BY <1>3, UnheardStays DEF WebInv, Unheard, StillUnheard
<1>12. FreshIsNew'
  <2>0. \A e \in Callers :
          /\ rotation'[e].fresh = rotation[e].fresh
          /\ rotation'[e].stage = "issued" => rotation[e].stage = "issued"
    BY <1>1 DEF TurnBecomes
  <2>2. \A e, f \in Callers : rotation'[e].stage = "issued" /\ rotation'[e].fresh = rotation'[f].fresh => e = f
    <3>1. \A e, f \in Callers : rotation[e].stage = "issued" /\ rotation[e].fresh = rotation[f].fresh => e = f
      BY DEF WebInv, FreshIsNew
    <3> QED
      BY <2>0, <3>1
  <2> USE DEF TurnBecomes
  <2>1. \A e \in Callers : rotation'[e].fresh # 0 <=> rotation'[e].stage = "issued"
    BY <1>0, <1>1 DEF WebInv, FreshIsNew
  <2>3. signing'.kind = "login" <=> signing'.token # 0
    BY <1>0, <1>1 DEF WebInv, FreshIsNew
  <2>4. ASSUME NEW e \in Callers, rotation'[e].stage = "issued"
        PROVE  StillUnheard(rotation'[e].fresh) /\ signing'.token # rotation'[e].fresh
    BY <1>0, <1>1, <1>2, <1>4, <2>4 DEF WebInv, FreshIsNew
  <2>5. signing'.kind = "login" => StillUnheard(signing'.token)
    BY <1>0, <1>1, <1>2, <1>4 DEF WebInv, FreshIsNew
  <2> QED
    BY <2>1, <2>2, <2>3, <2>4, <2>5 DEF FreshIsNew, Unheard, StillUnheard
<1>13. JarIsHeard'
  BY <1>0, <1>1, <1>2 DEF OneTurn, JarIsHeard, OrphanIsLost, WebInv, TurnBecomes
<1>14. OrphanIsLost'
  BY <1>0, <1>1, <1>2 DEF OneTurn, OrphanIsLost, WebInv, TurnBecomes
<1>15. SpentTokenIsNotPresented'
  BY <1>0, <1>1, <1>2 DEF OneTurn, JarIsHeard, OrphanIsLost, SpentTokenIsNotPresented, WebInv, TurnBecomes
<1> QED
  BY <1>10, <1>11, <1>12, <1>13, <1>14, <1>15 DEF WebInv

LEMMA RevokeTokenKeeps ==
  ASSUME WebInv, WebTypes', NEW c \in Callers, RevokeToken(c)
  PROVE  WebInv'
<1> USE DEF NoToken, Callers, Tab
<1>1. /\ TurnBecomes(c, "revoked", rotation[c].token, rotation[c].fresh)
      /\ rotation[c].stage = "found"
      /\ \A t \in 1 .. Len(tokens) : tokens'[t] = IF t = rotation[c].token THEN "rotated" ELSE tokens[t]
      /\ Len(tokens') = Len(tokens)
      /\ UNCHANGED <<jar, access, status, boot, flight, denied, waiting, signing, lost>>
  BY TurnMoves, TokenOverwritten DEF RevokeToken, WebInv, WebTypes, WebTypeOK, TokenStates
<1>0. /\ jar \in 0 .. Len(tokens) /\ Len(tokens) \in Nat /\ signing.token \in 0 .. Len(tokens)
      /\ \A d \in Callers : rotation[d].token \in 0 .. Len(tokens) /\ rotation[d].fresh \in 0 .. Len(tokens)
  BY WebFacts DEF WebInv
<1>2. /\ \A d \in Callers : rotation[d].stage = "issued" => rotation[d].fresh # 0 /\ tokens[rotation[d].fresh] # "rotated"
                                                  /\ jar # rotation[d].fresh
      /\ signing.kind = "login" => tokens[signing.token] # "rotated" /\ jar # signing.token
  BY FreshFacts DEF WebInv
<1>10. OneTurn'
  BY <1>0, <1>1, <1>2 DEF OneTurn, WebInv, TurnBecomes
<1>11. BootsFirst'
  BY <1>0, <1>1, <1>2 DEF OneTurn, BootsFirst, WebTypes, WebTypeOK, WebInv, TurnBecomes
<1>3. Spread
  BY <1>0, <1>1, SMTT(30) DEF Spread, TurnBecomes
<1>4. \A t : Unheard(t) /\ jar' # t => StillUnheard(t)
  BY <1>3, UnheardStays DEF WebInv, Unheard, StillUnheard
<1>12. FreshIsNew'
  <2>0. \A e \in Callers :
          /\ rotation'[e].fresh = rotation[e].fresh
          /\ rotation'[e].stage = "issued" => rotation[e].stage = "issued"
    BY <1>1 DEF TurnBecomes
  <2>2. \A e, f \in Callers : rotation'[e].stage = "issued" /\ rotation'[e].fresh = rotation'[f].fresh => e = f
    <3>1. \A e, f \in Callers : rotation[e].stage = "issued" /\ rotation[e].fresh = rotation[f].fresh => e = f
      BY DEF WebInv, FreshIsNew
    <3> QED
      BY <2>0, <3>1
  <2> USE DEF TurnBecomes
  <2>1. \A e \in Callers : rotation'[e].fresh # 0 <=> rotation'[e].stage = "issued"
    BY <1>0, <1>1 DEF WebInv, FreshIsNew
  <2>3. signing'.kind = "login" <=> signing'.token # 0
    BY <1>0, <1>1 DEF WebInv, FreshIsNew
  <2>4. ASSUME NEW e \in Callers, rotation'[e].stage = "issued"
        PROVE  StillUnheard(rotation'[e].fresh) /\ signing'.token # rotation'[e].fresh
    BY <1>0, <1>1, <1>2, <1>4, <2>4 DEF WebInv, FreshIsNew
  <2>5. signing'.kind = "login" => StillUnheard(signing'.token)
    BY <1>0, <1>1, <1>2, <1>4 DEF WebInv, FreshIsNew
  <2> QED
    BY <2>1, <2>2, <2>3, <2>4, <2>5 DEF FreshIsNew, Unheard, StillUnheard
<1>13. JarIsHeard'
  BY <1>0, <1>1, <1>2 DEF OneTurn, JarIsHeard, OrphanIsLost, WebInv, TurnBecomes
<1>14. OrphanIsLost'
  BY <1>0, <1>1, <1>2 DEF OneTurn, OrphanIsLost, WebInv, TurnBecomes
<1>15. SpentTokenIsNotPresented'
  BY <1>0, <1>1, <1>2 DEF OneTurn, JarIsHeard, OrphanIsLost, SpentTokenIsNotPresented, WebInv, TurnBecomes
<1> QED
  BY <1>10, <1>11, <1>12, <1>13, <1>14, <1>15 DEF WebInv

LEMMA IssueTokenKeeps ==
  ASSUME WebInv, WebTypes', NEW c \in Callers, IssueToken(c)
  PROVE  WebInv'
<1> USE DEF NoToken, Callers, Tab
<1>1. /\ TurnBecomes(c, "issued", rotation[c].token, Len(tokens) + 1)
      /\ rotation[c].stage = "revoked"
      /\ Len(tokens') = Len(tokens) + 1
      /\ tokens'[Len(tokens) + 1] = "live" /\ \A t \in 1 .. Len(tokens) : tokens'[t] = tokens[t]
      /\ UNCHANGED <<jar, access, status, boot, flight, denied, waiting, signing, lost>>
  <2>1. rotation' = [rotation EXCEPT ![c] = [rotation[c] EXCEPT !.stage = "issued", !.fresh = Len(tokens) + 1]]
    BY DEF IssueToken, WebInv, WebTypes, WebTypeOK
  <2>2. rotation[c] \in Rotation
    BY TurnTyped DEF WebInv
  <2>3. TurnBecomes(c, "issued", rotation[c].token, Len(tokens) + 1)
    BY <2>1, <2>2 DEF WebInv, WebTypes, WebTypeOK, TurnBecomes, Rotation
  <2>4. tokens' = Append(tokens, "live") /\ tokens \in Seq(TokenStates)
    BY DEF IssueToken, WebInv, WebTypes, WebTypeOK, TokenStates
  <2>5. tokens'[Len(tokens) + 1] = "live" /\ Len(tokens') = Len(tokens) + 1
        /\ \A t \in 1 .. Len(tokens) : tokens'[t] = tokens[t]
    BY <2>4, TokenAppended DEF TokenStates
  <2> QED
    BY <2>3, <2>4, <2>5 DEF IssueToken
<1>0. /\ jar \in 0 .. Len(tokens) /\ Len(tokens) \in Nat /\ signing.token \in 0 .. Len(tokens)
      /\ \A d \in Callers : rotation[d].token \in 0 .. Len(tokens) /\ rotation[d].fresh \in 0 .. Len(tokens)
  BY WebFacts DEF WebInv
<1>2. /\ \A d \in Callers : rotation[d].stage = "issued" => rotation[d].fresh # 0 /\ tokens[rotation[d].fresh] # "rotated"
                                                  /\ jar # rotation[d].fresh
      /\ signing.kind = "login" => tokens[signing.token] # "rotated" /\ jar # signing.token
  BY FreshFacts DEF WebInv
<1>10. OneTurn'
  BY <1>0, <1>1, <1>2 DEF OneTurn, WebInv, TurnBecomes
<1>11. BootsFirst'
  BY <1>0, <1>1, <1>2 DEF OneTurn, BootsFirst, WebTypes, WebTypeOK, WebInv, TurnBecomes
<1>3. Spread
  BY <1>0, <1>1, SMTT(30) DEF Spread, TurnBecomes
<1>4. \A t : Unheard(t) /\ jar' # t => StillUnheard(t)
  BY <1>3, UnheardStays DEF WebInv, Unheard, StillUnheard
<1>6. StillUnheard(Len(tokens) + 1)
  BY <1>0, <1>1 DEF StillUnheard, TurnBecomes
<1>12. FreshIsNew'
  <2> USE DEF TurnBecomes
  <2>1. \A e \in Callers : rotation'[e].fresh # 0 <=> rotation'[e].stage = "issued"
    BY <1>0, <1>1 DEF WebInv, FreshIsNew
  <2>2. \A e, f \in Callers : rotation'[e].stage = "issued" /\ rotation'[e].fresh = rotation'[f].fresh => e = f
    BY <1>0, <1>1 DEF WebInv, FreshIsNew
  <2>3. signing'.kind = "login" <=> signing'.token # 0
    BY <1>0, <1>1 DEF WebInv, FreshIsNew
  <2>4. ASSUME NEW e \in Callers, rotation'[e].stage = "issued"
        PROVE  StillUnheard(rotation'[e].fresh) /\ signing'.token # rotation'[e].fresh
    BY <1>0, <1>1, <1>2, <1>4, <2>4, <1>6 DEF WebInv, FreshIsNew
  <2>5. signing'.kind = "login" => StillUnheard(signing'.token)
    BY <1>0, <1>1, <1>2, <1>4, <1>6 DEF WebInv, FreshIsNew
  <2> QED
    BY <2>1, <2>2, <2>3, <2>4, <2>5 DEF FreshIsNew, Unheard, StillUnheard
<1>13. JarIsHeard'
  BY <1>0, <1>1, <1>2 DEF OneTurn, JarIsHeard, OrphanIsLost, WebInv, TurnBecomes
<1>14. OrphanIsLost'
  BY <1>0, <1>1, <1>2 DEF OneTurn, OrphanIsLost, WebInv, TurnBecomes
<1>15. SpentTokenIsNotPresented'
  BY <1>0, <1>1, <1>2 DEF OneTurn, JarIsHeard, OrphanIsLost, SpentTokenIsNotPresented, WebInv, TurnBecomes
<1> QED
  BY <1>10, <1>11, <1>12, <1>13, <1>14, <1>15 DEF WebInv

LEMMA FailsKeeps ==
  ASSUME WebInv, WebTypes', NEW c \in Callers, Fails(c)
  PROVE  WebInv'
<1> USE DEF NoToken, Callers, Tab
<1>1. /\ TurnBecomes(c, "none", 0, 0) /\ c # "orphan"
      /\ rotation[c].stage # "none"
      /\ lost' = IF rotation[c].stage \in {"revoked", "issued"} THEN lost \cup {rotation[c].token} ELSE lost
      /\ IF c = "boot" THEN boot' = "done" /\ status' = "anonymous" /\ UNCHANGED flight
                       ELSE flight' = "no" /\ UNCHANGED <<boot, status>>
      /\ UNCHANGED <<tokens, jar, access, denied, waiting, signing>>
  BY TurnSet DEF Fails, WebInv, NoTurn
<1>0. /\ jar \in 0 .. Len(tokens) /\ Len(tokens) \in Nat /\ signing.token \in 0 .. Len(tokens)
      /\ \A d \in Callers : rotation[d].token \in 0 .. Len(tokens) /\ rotation[d].fresh \in 0 .. Len(tokens)
  BY WebFacts DEF WebInv
<1>2. /\ \A d \in Callers : rotation[d].stage = "issued" => rotation[d].fresh # 0 /\ tokens[rotation[d].fresh] # "rotated"
                                                  /\ jar # rotation[d].fresh
      /\ signing.kind = "login" => tokens[signing.token] # "rotated" /\ jar # signing.token
  BY FreshFacts DEF WebInv
<1>10. OneTurn'
  BY <1>0, <1>1, <1>2 DEF OneTurn, WebInv, TurnBecomes
<1>11. BootsFirst'
  BY <1>0, <1>1, <1>2 DEF OneTurn, BootsFirst, WebTypes, WebTypeOK, WebInv, TurnBecomes
<1>3. Spread
  BY <1>0, <1>1 DEF Spread, TurnBecomes
<1>4. \A t : Unheard(t) /\ jar' # t => StillUnheard(t)
  BY <1>3, UnheardStays DEF WebInv, Unheard, StillUnheard
<1>12. FreshIsNew'
  <2> USE DEF TurnBecomes
  <2>1. \A e \in Callers : rotation'[e].fresh # 0 <=> rotation'[e].stage = "issued"
    BY <1>0, <1>1 DEF WebInv, FreshIsNew
  <2>2. \A e, f \in Callers : rotation'[e].stage = "issued" /\ rotation'[e].fresh = rotation'[f].fresh => e = f
    BY <1>0, <1>1 DEF WebInv, FreshIsNew
  <2>3. signing'.kind = "login" <=> signing'.token # 0
    BY <1>0, <1>1 DEF WebInv, FreshIsNew
  <2>4. ASSUME NEW e \in Callers, rotation'[e].stage = "issued"
        PROVE  StillUnheard(rotation'[e].fresh) /\ signing'.token # rotation'[e].fresh
    BY <1>0, <1>1, <1>2, <1>4, <2>4 DEF WebInv, FreshIsNew
  <2>5. signing'.kind = "login" => StillUnheard(signing'.token)
    BY <1>0, <1>1, <1>2, <1>4 DEF WebInv, FreshIsNew
  <2> QED
    BY <2>1, <2>2, <2>3, <2>4, <2>5 DEF FreshIsNew, Unheard, StillUnheard
<1>13. JarIsHeard'
  BY <1>0, <1>1, <1>2 DEF OneTurn, JarIsHeard, OrphanIsLost, WebInv, TurnBecomes
<1>14. OrphanIsLost'
  BY <1>0, <1>1, <1>2 DEF OneTurn, OrphanIsLost, WebInv, TurnBecomes
<1>15. SpentTokenIsNotPresented'
  BY <1>0, <1>1, <1>2 DEF OneTurn, JarIsHeard, OrphanIsLost, SpentTokenIsNotPresented, WebInv, TurnBecomes
<1> QED
  BY <1>10, <1>11, <1>12, <1>13, <1>14, <1>15 DEF WebInv

LEMMA BootSucceedsKeeps ==
  ASSUME WebInv, WebTypes', BootSucceeds
  PROVE  WebInv'
<1> USE DEF NoToken, Callers, Tab
<1>1. /\ TurnBecomes("boot", "none", 0, 0)
      /\ rotation["boot"].stage = "issued"
      /\ jar' = rotation["boot"].fresh /\ access' = TRUE /\ boot' = "done"
      /\ UNCHANGED <<tokens, flight, denied, waiting, signing, lost>>
  BY TurnSet DEF BootSucceeds, Cookies, WebInv, NoTurn
<1>0. /\ jar \in 0 .. Len(tokens) /\ Len(tokens) \in Nat /\ signing.token \in 0 .. Len(tokens)
      /\ \A d \in Callers : rotation[d].token \in 0 .. Len(tokens) /\ rotation[d].fresh \in 0 .. Len(tokens)
  BY WebFacts DEF WebInv
<1>2. /\ \A d \in Callers : rotation[d].stage = "issued" => rotation[d].fresh # 0 /\ tokens[rotation[d].fresh] # "rotated"
                                                  /\ jar # rotation[d].fresh
      /\ signing.kind = "login" => tokens[signing.token] # "rotated" /\ jar # signing.token
  BY FreshFacts DEF WebInv
<1>10. OneTurn'
  BY <1>0, <1>1, <1>2 DEF OneTurn, WebInv, TurnBecomes
<1>11. BootsFirst'
  BY <1>0, <1>1, <1>2 DEF OneTurn, BootsFirst, WebTypes, WebTypeOK, WebInv, TurnBecomes
<1>3. Spread
  BY <1>0, <1>1 DEF Spread, TurnBecomes
<1>4. \A t : Unheard(t) /\ jar' # t => StillUnheard(t)
  BY <1>3, UnheardStays DEF WebInv, Unheard, StillUnheard
<1>12. FreshIsNew'
  <2> USE DEF TurnBecomes
  <2>1. \A e \in Callers : rotation'[e].fresh # 0 <=> rotation'[e].stage = "issued"
    BY <1>0, <1>1 DEF WebInv, FreshIsNew
  <2>2. \A e, f \in Callers : rotation'[e].stage = "issued" /\ rotation'[e].fresh = rotation'[f].fresh => e = f
    BY <1>0, <1>1 DEF WebInv, FreshIsNew
  <2>3. signing'.kind = "login" <=> signing'.token # 0
    BY <1>0, <1>1 DEF WebInv, FreshIsNew
  <2>4. ASSUME NEW e \in Callers, rotation'[e].stage = "issued"
        PROVE  StillUnheard(rotation'[e].fresh) /\ signing'.token # rotation'[e].fresh
    BY <1>0, <1>1, <1>2, <1>4, <2>4 DEF WebInv, FreshIsNew
  <2>5. signing'.kind = "login" => StillUnheard(signing'.token)
    BY <1>0, <1>1, <1>2, <1>4 DEF WebInv, FreshIsNew
  <2> QED
    BY <2>1, <2>2, <2>3, <2>4, <2>5 DEF FreshIsNew, Unheard, StillUnheard
<1>13. JarIsHeard'
  BY <1>0, <1>1, <1>2 DEF OneTurn, JarIsHeard, OrphanIsLost, WebInv, TurnBecomes
<1>14. OrphanIsLost'
  BY <1>0, <1>1, <1>2 DEF OneTurn, OrphanIsLost, WebInv, TurnBecomes
<1>15. SpentTokenIsNotPresented'
  BY <1>0, <1>1, <1>2 DEF OneTurn, JarIsHeard, OrphanIsLost, SpentTokenIsNotPresented, WebInv, TurnBecomes
<1> QED
  BY <1>10, <1>11, <1>12, <1>13, <1>14, <1>15 DEF WebInv

LEMMA FlightSucceedsKeeps ==
  ASSUME WebInv, WebTypes', FlightSucceeds
  PROVE  WebInv'
<1> USE DEF NoToken, Callers, Tab
<1>1. /\ TurnBecomes("flight", "none", 0, 0)
      /\ rotation["flight"].stage = "issued"
      /\ jar' = rotation["flight"].fresh /\ access' = TRUE /\ flight' = "yes"
      /\ UNCHANGED <<tokens, status, boot, denied, waiting, signing, lost>>
  BY TurnSet DEF FlightSucceeds, Cookies, WebInv, NoTurn
<1>0. /\ jar \in 0 .. Len(tokens) /\ Len(tokens) \in Nat /\ signing.token \in 0 .. Len(tokens)
      /\ \A d \in Callers : rotation[d].token \in 0 .. Len(tokens) /\ rotation[d].fresh \in 0 .. Len(tokens)
  BY WebFacts DEF WebInv
<1>2. /\ \A d \in Callers : rotation[d].stage = "issued" => rotation[d].fresh # 0 /\ tokens[rotation[d].fresh] # "rotated"
                                                  /\ jar # rotation[d].fresh
      /\ signing.kind = "login" => tokens[signing.token] # "rotated" /\ jar # signing.token
  BY FreshFacts DEF WebInv
<1>10. OneTurn'
  BY <1>0, <1>1, <1>2 DEF OneTurn, WebInv, TurnBecomes
<1>11. BootsFirst'
  BY <1>0, <1>1, <1>2 DEF OneTurn, BootsFirst, WebTypes, WebTypeOK, WebInv, TurnBecomes
<1>3. Spread
  BY <1>0, <1>1 DEF Spread, TurnBecomes
<1>4. \A t : Unheard(t) /\ jar' # t => StillUnheard(t)
  BY <1>3, UnheardStays DEF WebInv, Unheard, StillUnheard
<1>12. FreshIsNew'
  <2> USE DEF TurnBecomes
  <2>1. \A e \in Callers : rotation'[e].fresh # 0 <=> rotation'[e].stage = "issued"
    BY <1>0, <1>1 DEF WebInv, FreshIsNew
  <2>2. \A e, f \in Callers : rotation'[e].stage = "issued" /\ rotation'[e].fresh = rotation'[f].fresh => e = f
    BY <1>0, <1>1 DEF WebInv, FreshIsNew
  <2>3. signing'.kind = "login" <=> signing'.token # 0
    BY <1>0, <1>1 DEF WebInv, FreshIsNew
  <2>4. ASSUME NEW e \in Callers, rotation'[e].stage = "issued"
        PROVE  StillUnheard(rotation'[e].fresh) /\ signing'.token # rotation'[e].fresh
    BY <1>0, <1>1, <1>2, <1>4, <2>4 DEF WebInv, FreshIsNew
  <2>5. signing'.kind = "login" => StillUnheard(signing'.token)
    BY <1>0, <1>1, <1>2, <1>4 DEF WebInv, FreshIsNew
  <2> QED
    BY <2>1, <2>2, <2>3, <2>4, <2>5 DEF FreshIsNew, Unheard, StillUnheard
<1>13. JarIsHeard'
  BY <1>0, <1>1, <1>2 DEF OneTurn, JarIsHeard, OrphanIsLost, WebInv, TurnBecomes
<1>14. OrphanIsLost'
  BY <1>0, <1>1, <1>2 DEF OneTurn, OrphanIsLost, WebInv, TurnBecomes
<1>15. SpentTokenIsNotPresented'
  BY <1>0, <1>1, <1>2 DEF OneTurn, JarIsHeard, OrphanIsLost, SpentTokenIsNotPresented, WebInv, TurnBecomes
<1> QED
  BY <1>10, <1>11, <1>12, <1>13, <1>14, <1>15 DEF WebInv

LEMMA OrphanEndsKeeps ==
  ASSUME WebInv, WebTypes', OrphanEnds
  PROVE  WebInv'
<1> USE DEF NoToken, Callers, Tab
<1>1. /\ TurnBecomes("orphan", "none", 0, 0)
      /\ \/ rotation["orphan"].stage = "issued" /\ jar' = rotation["orphan"].fresh /\ access' = TRUE
         \/ UNCHANGED <<jar, access>>
      /\ UNCHANGED <<tokens, status, boot, flight, denied, waiting, signing, lost>>
  BY TurnSet DEF OrphanEnds, Cookies, WebInv, NoTurn
<1>0. /\ jar \in 0 .. Len(tokens) /\ Len(tokens) \in Nat /\ signing.token \in 0 .. Len(tokens)
      /\ \A d \in Callers : rotation[d].token \in 0 .. Len(tokens) /\ rotation[d].fresh \in 0 .. Len(tokens)
  BY WebFacts DEF WebInv
<1>2. /\ \A d \in Callers : rotation[d].stage = "issued" => rotation[d].fresh # 0 /\ tokens[rotation[d].fresh] # "rotated"
                                                  /\ jar # rotation[d].fresh
      /\ signing.kind = "login" => tokens[signing.token] # "rotated" /\ jar # signing.token
  BY FreshFacts DEF WebInv
<1>10. OneTurn'
  BY <1>0, <1>1, <1>2 DEF OneTurn, WebInv, TurnBecomes
<1>11. BootsFirst'
  BY <1>0, <1>1, <1>2 DEF OneTurn, BootsFirst, WebTypes, WebTypeOK, WebInv, TurnBecomes
<1>3. Spread
  BY <1>0, <1>1 DEF Spread, TurnBecomes
<1>4. \A t : Unheard(t) /\ jar' # t => StillUnheard(t)
  BY <1>3, UnheardStays DEF WebInv, Unheard, StillUnheard
<1>12. FreshIsNew'
  <2> USE DEF TurnBecomes
  <2>1. \A e \in Callers : rotation'[e].fresh # 0 <=> rotation'[e].stage = "issued"
    BY <1>0, <1>1 DEF WebInv, FreshIsNew
  <2>2. \A e, f \in Callers : rotation'[e].stage = "issued" /\ rotation'[e].fresh = rotation'[f].fresh => e = f
    BY <1>0, <1>1 DEF WebInv, FreshIsNew
  <2>3. signing'.kind = "login" <=> signing'.token # 0
    BY <1>0, <1>1 DEF WebInv, FreshIsNew
  <2>4. ASSUME NEW e \in Callers, rotation'[e].stage = "issued"
        PROVE  StillUnheard(rotation'[e].fresh) /\ signing'.token # rotation'[e].fresh
    BY <1>0, <1>1, <1>2, <1>4, <2>4 DEF WebInv, FreshIsNew
  <2>5. signing'.kind = "login" => StillUnheard(signing'.token)
    BY <1>0, <1>1, <1>2, <1>4 DEF WebInv, FreshIsNew
  <2> QED
    BY <2>1, <2>2, <2>3, <2>4, <2>5 DEF FreshIsNew, Unheard, StillUnheard
<1>13. JarIsHeard'
  BY <1>0, <1>1, <1>2 DEF OneTurn, JarIsHeard, OrphanIsLost, WebInv, TurnBecomes
<1>14. OrphanIsLost'
  BY <1>0, <1>1, <1>2 DEF OneTurn, OrphanIsLost, WebInv, TurnBecomes
<1>15. SpentTokenIsNotPresented'
  BY <1>0, <1>1, <1>2 DEF OneTurn, JarIsHeard, OrphanIsLost, SpentTokenIsNotPresented, WebInv, TurnBecomes
<1> QED
  BY <1>10, <1>11, <1>12, <1>13, <1>14, <1>15 DEF WebInv

LEMMA FlightRefusedKeeps ==
  ASSUME WebInv, WebTypes', FlightRefused
  PROVE  WebInv'
<1> USE DEF NoToken, Callers, Tab
<1>1. /\ TurnBecomes("flight", "none", 0, 0)
      /\ rotation["flight"].stage = "refused" /\ flight' = "no"
      /\ UNCHANGED <<tokens, jar, access, status, boot, denied, waiting, signing, lost>>
  BY TurnSet DEF FlightRefused, WebInv, NoTurn
<1>0. /\ jar \in 0 .. Len(tokens) /\ Len(tokens) \in Nat /\ signing.token \in 0 .. Len(tokens)
      /\ \A d \in Callers : rotation[d].token \in 0 .. Len(tokens) /\ rotation[d].fresh \in 0 .. Len(tokens)
  BY WebFacts DEF WebInv
<1>2. /\ \A d \in Callers : rotation[d].stage = "issued" => rotation[d].fresh # 0 /\ tokens[rotation[d].fresh] # "rotated"
                                                  /\ jar # rotation[d].fresh
      /\ signing.kind = "login" => tokens[signing.token] # "rotated" /\ jar # signing.token
  BY FreshFacts DEF WebInv
<1>10. OneTurn'
  BY <1>0, <1>1, <1>2 DEF OneTurn, WebInv, TurnBecomes
<1>11. BootsFirst'
  BY <1>0, <1>1, <1>2 DEF OneTurn, BootsFirst, WebTypes, WebTypeOK, WebInv, TurnBecomes
<1>3. Spread
  BY <1>0, <1>1 DEF Spread, TurnBecomes
<1>4. \A t : Unheard(t) /\ jar' # t => StillUnheard(t)
  BY <1>3, UnheardStays DEF WebInv, Unheard, StillUnheard
<1>12. FreshIsNew'
  <2> USE DEF TurnBecomes
  <2>1. \A e \in Callers : rotation'[e].fresh # 0 <=> rotation'[e].stage = "issued"
    BY <1>0, <1>1 DEF WebInv, FreshIsNew
  <2>2. \A e, f \in Callers : rotation'[e].stage = "issued" /\ rotation'[e].fresh = rotation'[f].fresh => e = f
    BY <1>0, <1>1 DEF WebInv, FreshIsNew
  <2>3. signing'.kind = "login" <=> signing'.token # 0
    BY <1>0, <1>1 DEF WebInv, FreshIsNew
  <2>4. ASSUME NEW e \in Callers, rotation'[e].stage = "issued"
        PROVE  StillUnheard(rotation'[e].fresh) /\ signing'.token # rotation'[e].fresh
    BY <1>0, <1>1, <1>2, <1>4, <2>4 DEF WebInv, FreshIsNew
  <2>5. signing'.kind = "login" => StillUnheard(signing'.token)
    BY <1>0, <1>1, <1>2, <1>4 DEF WebInv, FreshIsNew
  <2> QED
    BY <2>1, <2>2, <2>3, <2>4, <2>5 DEF FreshIsNew, Unheard, StillUnheard
<1>13. JarIsHeard'
  BY <1>0, <1>1, <1>2 DEF OneTurn, JarIsHeard, OrphanIsLost, WebInv, TurnBecomes
<1>14. OrphanIsLost'
  BY <1>0, <1>1, <1>2 DEF OneTurn, OrphanIsLost, WebInv, TurnBecomes
<1>15. SpentTokenIsNotPresented'
  BY <1>0, <1>1, <1>2 DEF OneTurn, JarIsHeard, OrphanIsLost, SpentTokenIsNotPresented, WebInv, TurnBecomes
<1> QED
  BY <1>10, <1>11, <1>12, <1>13, <1>14, <1>15 DEF WebInv

LEMMA BootGivesUpKeeps ==
  ASSUME WebInv, WebTypes', BootRefused, boot # "asking"
  PROVE  WebInv'
<1> USE DEF NoToken, Callers, Tab
<1>1. /\ TurnBecomes("boot", "none", 0, 0)
      /\ rotation["boot"].stage = "refused" /\ boot' = "done" /\ status' = "anonymous" /\ flight' = flight
      /\ UNCHANGED <<tokens, jar, access, denied, waiting, signing, lost>>
  BY TurnSet DEF BootRefused, WebInv, NoTurn
<1>0. /\ jar \in 0 .. Len(tokens) /\ Len(tokens) \in Nat /\ signing.token \in 0 .. Len(tokens)
      /\ \A d \in Callers : rotation[d].token \in 0 .. Len(tokens) /\ rotation[d].fresh \in 0 .. Len(tokens)
  BY WebFacts DEF WebInv
<1>2. /\ \A d \in Callers : rotation[d].stage = "issued" => rotation[d].fresh # 0 /\ tokens[rotation[d].fresh] # "rotated"
                                                  /\ jar # rotation[d].fresh
      /\ signing.kind = "login" => tokens[signing.token] # "rotated" /\ jar # signing.token
  BY FreshFacts DEF WebInv
<1>10. OneTurn'
  BY <1>0, <1>1, <1>2 DEF OneTurn, WebInv, TurnBecomes
<1>11. BootsFirst'
  BY <1>0, <1>1, <1>2 DEF OneTurn, BootsFirst, WebTypes, WebTypeOK, WebInv, TurnBecomes
<1>3. Spread
  BY <1>0, <1>1 DEF Spread, TurnBecomes
<1>4. \A t : Unheard(t) /\ jar' # t => StillUnheard(t)
  BY <1>3, UnheardStays DEF WebInv, Unheard, StillUnheard
<1>12. FreshIsNew'
  <2> USE DEF TurnBecomes
  <2>1. \A e \in Callers : rotation'[e].fresh # 0 <=> rotation'[e].stage = "issued"
    BY <1>0, <1>1 DEF WebInv, FreshIsNew
  <2>2. \A e, f \in Callers : rotation'[e].stage = "issued" /\ rotation'[e].fresh = rotation'[f].fresh => e = f
    BY <1>0, <1>1 DEF WebInv, FreshIsNew
  <2>3. signing'.kind = "login" <=> signing'.token # 0
    BY <1>0, <1>1 DEF WebInv, FreshIsNew
  <2>4. ASSUME NEW e \in Callers, rotation'[e].stage = "issued"
        PROVE  StillUnheard(rotation'[e].fresh) /\ signing'.token # rotation'[e].fresh
    BY <1>0, <1>1, <1>2, <1>4, <2>4 DEF WebInv, FreshIsNew
  <2>5. signing'.kind = "login" => StillUnheard(signing'.token)
    BY <1>0, <1>1, <1>2, <1>4 DEF WebInv, FreshIsNew
  <2> QED
    BY <2>1, <2>2, <2>3, <2>4, <2>5 DEF FreshIsNew, Unheard, StillUnheard
<1>13. JarIsHeard'
  BY <1>0, <1>1, <1>2 DEF OneTurn, JarIsHeard, OrphanIsLost, WebInv, TurnBecomes
<1>14. OrphanIsLost'
  BY <1>0, <1>1, <1>2 DEF OneTurn, OrphanIsLost, WebInv, TurnBecomes
<1>15. SpentTokenIsNotPresented'
  BY <1>0, <1>1, <1>2 DEF OneTurn, JarIsHeard, OrphanIsLost, SpentTokenIsNotPresented, WebInv, TurnBecomes
<1> QED
  BY <1>10, <1>11, <1>12, <1>13, <1>14, <1>15 DEF WebInv

LEMMA BootWaitsKeeps ==
  ASSUME WebInv, WebTypes', BootRefused, boot = "asking"
  PROVE  WebInv'
<1> USE DEF NoToken, Callers, Tab
<1>1. /\ rotation'["boot"].stage = "none" /\ rotation'["boot"].token = 0 /\ rotation'["boot"].fresh = 0
      /\ rotation'["orphan"] = rotation["orphan"]
      /\ flight # "none" => rotation'["flight"] = rotation["flight"] /\ flight' = flight
      /\ flight = "none" => /\ rotation'["flight"].stage = "sent" /\ rotation'["flight"].token = jar
                            /\ rotation'["flight"].fresh = 0 /\ flight' = "asking"
      /\ rotation["boot"].stage = "refused" /\ boot' = "waiting"
      /\ UNCHANGED <<tokens, jar, access, status, denied, waiting, signing, lost>>
  BY DEF BootRefused, WebInv, NoTurn, Turn, WebTypes, WebTypeOK
<1>0. /\ jar \in 0 .. Len(tokens) /\ Len(tokens) \in Nat /\ signing.token \in 0 .. Len(tokens)
      /\ \A d \in Callers : rotation[d].token \in 0 .. Len(tokens) /\ rotation[d].fresh \in 0 .. Len(tokens)
  BY WebFacts DEF WebInv
<1>2. /\ \A d \in Callers : rotation[d].stage = "issued" => rotation[d].fresh # 0 /\ tokens[rotation[d].fresh] # "rotated"
                                                  /\ jar # rotation[d].fresh
      /\ signing.kind = "login" => tokens[signing.token] # "rotated" /\ jar # signing.token
  BY FreshFacts DEF WebInv
<1>10. OneTurn'
  BY <1>0, <1>1, <1>2 DEF OneTurn, WebInv, TurnBecomes
<1>11. BootsFirst'
  BY <1>0, <1>1, <1>2 DEF OneTurn, BootsFirst, WebTypes, WebTypeOK, WebInv, TurnBecomes
<1>3. Spread
  BY <1>0, <1>1 DEF Spread, TurnBecomes
<1>4. \A t : Unheard(t) /\ jar' # t => StillUnheard(t)
  BY <1>3, UnheardStays DEF WebInv, Unheard, StillUnheard
<1>12. FreshIsNew'
  <2> USE DEF TurnBecomes
  <2>1. \A e \in Callers : rotation'[e].fresh # 0 <=> rotation'[e].stage = "issued"
    BY <1>0, <1>1 DEF WebInv, FreshIsNew
  <2>2. \A e, f \in Callers : rotation'[e].stage = "issued" /\ rotation'[e].fresh = rotation'[f].fresh => e = f
    BY <1>0, <1>1 DEF WebInv, FreshIsNew
  <2>3. signing'.kind = "login" <=> signing'.token # 0
    BY <1>0, <1>1 DEF WebInv, FreshIsNew
  <2>4. ASSUME NEW e \in Callers, rotation'[e].stage = "issued"
        PROVE  StillUnheard(rotation'[e].fresh) /\ signing'.token # rotation'[e].fresh
    BY <1>0, <1>1, <1>2, <1>4, <2>4 DEF WebInv, FreshIsNew
  <2>5. signing'.kind = "login" => StillUnheard(signing'.token)
    BY <1>0, <1>1, <1>2, <1>4 DEF WebInv, FreshIsNew
  <2> QED
    BY <2>1, <2>2, <2>3, <2>4, <2>5 DEF FreshIsNew, Unheard, StillUnheard
<1>13. JarIsHeard'
  BY <1>0, <1>1, <1>2 DEF OneTurn, JarIsHeard, OrphanIsLost, WebInv, TurnBecomes
<1>14. OrphanIsLost'
  BY <1>0, <1>1, <1>2 DEF OneTurn, OrphanIsLost, WebInv, TurnBecomes
<1>15. SpentTokenIsNotPresented'
  BY <1>0, <1>1, <1>2 DEF OneTurn, JarIsHeard, OrphanIsLost, SpentTokenIsNotPresented, WebInv, TurnBecomes
<1> QED
  BY <1>10, <1>11, <1>12, <1>13, <1>14, <1>15 DEF WebInv

LEMMA JoinStartsKeeps ==
  ASSUME WebInv, WebTypes', Join, flight = "none"
  PROVE  WebInv'
<1> USE DEF NoToken, Callers, Tab
<1>1. /\ TurnBecomes("flight", "sent", jar, 0)
      /\ denied > 0 /\ denied' = denied - 1 /\ waiting' = waiting + 1 /\ flight' = "asking"
      /\ boot = "done" /\ rotation["boot"].stage = "none" /\ rotation["flight"].stage = "none"
      /\ UNCHANGED <<tokens, jar, access, status, boot, signing, lost>>
  <2>1. /\ TurnBecomes("flight", "sent", jar, 0)
        /\ denied > 0 /\ denied' = denied - 1 /\ waiting' = waiting + 1 /\ flight' = "asking"
        /\ UNCHANGED <<tokens, jar, access, status, boot, signing, lost>>
    BY TurnSet DEF Join, Presents, WebInv
  <2>2. denied + waiting > 0
    BY <2>1 DEF WebInv, WebTypes, WebTypeOK
  <2>3. boot = "done" /\ rotation["boot"].stage = "none" /\ rotation["flight"].stage = "none"
    BY <2>2 DEF WebInv, OneTurn, BootsFirst
  <2> QED
    BY <2>1, <2>3
<1>0. /\ jar \in 0 .. Len(tokens) /\ Len(tokens) \in Nat /\ signing.token \in 0 .. Len(tokens)
      /\ \A d \in Callers : rotation[d].token \in 0 .. Len(tokens) /\ rotation[d].fresh \in 0 .. Len(tokens)
  BY WebFacts DEF WebInv
<1>2. /\ \A d \in Callers : rotation[d].stage = "issued" => rotation[d].fresh # 0 /\ tokens[rotation[d].fresh] # "rotated"
                                                  /\ jar # rotation[d].fresh
      /\ signing.kind = "login" => tokens[signing.token] # "rotated" /\ jar # signing.token
  BY FreshFacts DEF WebInv
<1>10. OneTurn'
  BY <1>0, <1>1, <1>2 DEF OneTurn, WebInv, TurnBecomes
<1>11. BootsFirst'
  BY <1>0, <1>1, <1>2 DEF OneTurn, BootsFirst, WebTypes, WebTypeOK, WebInv, TurnBecomes
<1>3. Spread
  BY <1>0, <1>1 DEF Spread, TurnBecomes
<1>4. \A t : Unheard(t) /\ jar' # t => StillUnheard(t)
  BY <1>3, UnheardStays DEF WebInv, Unheard, StillUnheard
<1>12. FreshIsNew'
  <2> USE DEF TurnBecomes
  <2>1. \A e \in Callers : rotation'[e].fresh # 0 <=> rotation'[e].stage = "issued"
    BY <1>0, <1>1 DEF WebInv, FreshIsNew
  <2>2. \A e, f \in Callers : rotation'[e].stage = "issued" /\ rotation'[e].fresh = rotation'[f].fresh => e = f
    BY <1>0, <1>1 DEF WebInv, FreshIsNew
  <2>3. signing'.kind = "login" <=> signing'.token # 0
    BY <1>0, <1>1 DEF WebInv, FreshIsNew
  <2>4. ASSUME NEW e \in Callers, rotation'[e].stage = "issued"
        PROVE  StillUnheard(rotation'[e].fresh) /\ signing'.token # rotation'[e].fresh
    BY <1>0, <1>1, <1>2, <1>4, <2>4 DEF WebInv, FreshIsNew
  <2>5. signing'.kind = "login" => StillUnheard(signing'.token)
    BY <1>0, <1>1, <1>2, <1>4 DEF WebInv, FreshIsNew
  <2> QED
    BY <2>1, <2>2, <2>3, <2>4, <2>5 DEF FreshIsNew, Unheard, StillUnheard
<1>13. JarIsHeard'
  BY <1>0, <1>1, <1>2 DEF OneTurn, JarIsHeard, OrphanIsLost, WebInv, TurnBecomes
<1>14. OrphanIsLost'
  BY <1>0, <1>1, <1>2 DEF OneTurn, OrphanIsLost, WebInv, TurnBecomes
<1>15. SpentTokenIsNotPresented'
  BY <1>0, <1>1, <1>2 DEF OneTurn, JarIsHeard, OrphanIsLost, SpentTokenIsNotPresented, WebInv, TurnBecomes
<1> QED
  BY <1>10, <1>11, <1>12, <1>13, <1>14, <1>15 DEF WebInv

LEMMA BootAgainKeeps ==
  ASSUME WebInv, WebTypes', ResumeBoot, flight = "yes"
  PROVE  WebInv'
<1> USE DEF NoToken, Callers, Tab
<1>1. /\ TurnBecomes("boot", "sent", jar, 0)
      /\ boot = "waiting" /\ boot' = "again" /\ status' = status
      /\ UNCHANGED <<tokens, jar, access, flight, denied, waiting, signing, lost>>
  BY TurnSet DEF ResumeBoot, Presents, WebInv
<1>0. /\ jar \in 0 .. Len(tokens) /\ Len(tokens) \in Nat /\ signing.token \in 0 .. Len(tokens)
      /\ \A d \in Callers : rotation[d].token \in 0 .. Len(tokens) /\ rotation[d].fresh \in 0 .. Len(tokens)
  BY WebFacts DEF WebInv
<1>2. /\ \A d \in Callers : rotation[d].stage = "issued" => rotation[d].fresh # 0 /\ tokens[rotation[d].fresh] # "rotated"
                                                  /\ jar # rotation[d].fresh
      /\ signing.kind = "login" => tokens[signing.token] # "rotated" /\ jar # signing.token
  BY FreshFacts DEF WebInv
<1>10. OneTurn'
  BY <1>0, <1>1, <1>2 DEF OneTurn, WebInv, TurnBecomes
<1>11. BootsFirst'
  BY <1>0, <1>1, <1>2 DEF OneTurn, BootsFirst, WebTypes, WebTypeOK, WebInv, TurnBecomes
<1>3. Spread
  BY <1>0, <1>1 DEF Spread, TurnBecomes
<1>4. \A t : Unheard(t) /\ jar' # t => StillUnheard(t)
  BY <1>3, UnheardStays DEF WebInv, Unheard, StillUnheard
<1>12. FreshIsNew'
  <2> USE DEF TurnBecomes
  <2>1. \A e \in Callers : rotation'[e].fresh # 0 <=> rotation'[e].stage = "issued"
    BY <1>0, <1>1 DEF WebInv, FreshIsNew
  <2>2. \A e, f \in Callers : rotation'[e].stage = "issued" /\ rotation'[e].fresh = rotation'[f].fresh => e = f
    BY <1>0, <1>1 DEF WebInv, FreshIsNew
  <2>3. signing'.kind = "login" <=> signing'.token # 0
    BY <1>0, <1>1 DEF WebInv, FreshIsNew
  <2>4. ASSUME NEW e \in Callers, rotation'[e].stage = "issued"
        PROVE  StillUnheard(rotation'[e].fresh) /\ signing'.token # rotation'[e].fresh
    BY <1>0, <1>1, <1>2, <1>4, <2>4 DEF WebInv, FreshIsNew
  <2>5. signing'.kind = "login" => StillUnheard(signing'.token)
    BY <1>0, <1>1, <1>2, <1>4 DEF WebInv, FreshIsNew
  <2> QED
    BY <2>1, <2>2, <2>3, <2>4, <2>5 DEF FreshIsNew, Unheard, StillUnheard
<1>13. JarIsHeard'
  BY <1>0, <1>1, <1>2 DEF OneTurn, JarIsHeard, OrphanIsLost, WebInv, TurnBecomes
<1>14. OrphanIsLost'
  BY <1>0, <1>1, <1>2 DEF OneTurn, OrphanIsLost, WebInv, TurnBecomes
<1>15. SpentTokenIsNotPresented'
  BY <1>0, <1>1, <1>2 DEF OneTurn, JarIsHeard, OrphanIsLost, SpentTokenIsNotPresented, WebInv, TurnBecomes
<1> QED
  BY <1>10, <1>11, <1>12, <1>13, <1>14, <1>15 DEF WebInv

LEMMA ReloadKeeps ==
  ASSUME WebInv, WebTypes', Reload
  PROVE  WebInv'
<1> USE DEF NoToken, Callers, Tab
<1>1. PICK h : /\ h \in {"boot", "flight", "gone"}
               /\ h # "gone" => rotation'["orphan"] = rotation[h] /\ rotation[h].token \in lost'
               /\ h = "gone" => rotation'["orphan"].stage = "none" /\ rotation'["orphan"].token = 0
                               /\ rotation'["orphan"].fresh = 0
               /\ rotation'["boot"].stage = "sent" /\ rotation'["boot"].token = jar /\ rotation'["boot"].fresh = 0
               /\ rotation'["flight"].stage = "none" /\ rotation'["flight"].token = 0
               /\ rotation'["flight"].fresh = 0
               /\ \A c \in Tab : rotation[c].stage # "none" => rotation[c].token \in lost'
               /\ lost \subseteq lost'
               /\ status' = "loading" /\ boot' = "asking" /\ flight' = "none" /\ denied' = 0 /\ waiting' = 0
               /\ signing' = Quiet /\ Quiet.kind = "none" /\ Quiet.token = 0
               /\ UNCHANGED <<tokens, jar, access>>
  <2> DEFINE left == {c \in {"boot", "flight"} : rotation[c] # NoTurn}
  <2>1. PICK d : d = IF left = {} THEN "gone" ELSE CHOOSE e \in left : TRUE
    OBVIOUS
  <2>2. left # {} => d \in left
    BY <2>1
  <2>3. NoTurn.stage = "none" /\ NoTurn.token = 0 /\ NoTurn.fresh = 0
        /\ Turn("sent", jar, NoToken).stage = "sent" /\ Turn("sent", jar, NoToken).token = jar
        /\ Turn("sent", jar, NoToken).fresh = 0 /\ Quiet.kind = "none" /\ Quiet.token = 0
    BY DEF NoTurn, Turn, Quiet
  <2>4. /\ rotation'["boot"] = Turn("sent", jar, NoToken) /\ rotation'["flight"] = NoTurn
        /\ rotation'["orphan"] = IF left # {} THEN rotation[CHOOSE e \in left : TRUE] ELSE NoTurn
        /\ lost' = lost \cup {rotation[c].token : c \in left}
        /\ status' = "loading" /\ boot' = "asking" /\ flight' = "none" /\ denied' = 0 /\ waiting' = 0
        /\ signing' = Quiet /\ UNCHANGED <<tokens, jar, access>>
    BY DEF Reload
  <2>5. \A c \in Tab : rotation[c].stage # "none" => c \in left
    BY <2>3
  <2> QED
    BY <2>1, <2>2, <2>3, <2>4, <2>5
<1>0. /\ jar \in 0 .. Len(tokens) /\ Len(tokens) \in Nat /\ signing.token \in 0 .. Len(tokens)
      /\ \A d \in Callers : rotation[d].token \in 0 .. Len(tokens) /\ rotation[d].fresh \in 0 .. Len(tokens)
  BY WebFacts DEF WebInv
<1>2. /\ \A d \in Callers : rotation[d].stage = "issued" => rotation[d].fresh # 0 /\ tokens[rotation[d].fresh] # "rotated"
                                                  /\ jar # rotation[d].fresh
      /\ signing.kind = "login" => tokens[signing.token] # "rotated" /\ jar # signing.token
  BY FreshFacts DEF WebInv
<1>10. OneTurn'
  BY <1>0, <1>1, <1>2 DEF OneTurn, WebInv, TurnBecomes
<1>11. BootsFirst'
  BY <1>0, <1>1, <1>2 DEF OneTurn, BootsFirst, WebTypes, WebTypeOK, WebInv, TurnBecomes
<1>3. Spread
  BY <1>0, <1>1 DEF Spread, TurnBecomes
<1>4. \A t : Unheard(t) /\ jar' # t => StillUnheard(t)
  BY <1>3, UnheardStays DEF WebInv, Unheard, StillUnheard
<1>12. FreshIsNew'
  <2> USE DEF TurnBecomes
  <2>1. \A e \in Callers : rotation'[e].fresh # 0 <=> rotation'[e].stage = "issued"
    BY <1>0, <1>1 DEF WebInv, FreshIsNew
  <2>2. \A e, f \in Callers : rotation'[e].stage = "issued" /\ rotation'[e].fresh = rotation'[f].fresh => e = f
    BY <1>0, <1>1 DEF WebInv, FreshIsNew
  <2>3. signing'.kind = "login" <=> signing'.token # 0
    BY <1>0, <1>1 DEF WebInv, FreshIsNew
  <2>4. ASSUME NEW e \in Callers, rotation'[e].stage = "issued"
        PROVE  StillUnheard(rotation'[e].fresh) /\ signing'.token # rotation'[e].fresh
    BY <1>0, <1>1, <1>2, <1>4, <2>4 DEF WebInv, FreshIsNew
  <2>5. signing'.kind = "login" => StillUnheard(signing'.token)
    BY <1>0, <1>1, <1>2, <1>4 DEF WebInv, FreshIsNew
  <2> QED
    BY <2>1, <2>2, <2>3, <2>4, <2>5 DEF FreshIsNew, Unheard, StillUnheard
<1>13. JarIsHeard'
  BY <1>0, <1>1, <1>2 DEF OneTurn, JarIsHeard, OrphanIsLost, WebInv, TurnBecomes
<1>14. OrphanIsLost'
  BY <1>0, <1>1, <1>2 DEF OneTurn, OrphanIsLost, WebInv, TurnBecomes
<1>15. SpentTokenIsNotPresented'
  BY <1>0, <1>1, <1>2 DEF OneTurn, JarIsHeard, OrphanIsLost, SpentTokenIsNotPresented, WebInv, TurnBecomes
<1> QED
  BY <1>10, <1>11, <1>12, <1>13, <1>14, <1>15 DEF WebInv

LEMMA CookieKeeps ==
  ASSUME WebInv, WebTypes', rotation' = rotation, OnlyRevokes,
         lost' = lost, flight' = flight \/ flight \in {"yes", "no"},
         boot' = boot \/ (boot = "waiting" /\ boot' = "done"), denied' + waiting' > 0 => denied + waiting > 0 \/ boot = "done",
         status' = "authenticated" => access' \/ (status = "authenticated" /\ (boot = "done" \/ access' = access)),
         \/ jar' = jar /\ signing' = signing
         \/ jar' \in {jar, 0} /\ signing'.kind # "login" /\ signing'.token = 0
         \/ jar' = jar /\ signing'.kind = "login" /\ signing'.token = Len(tokens) + 1
            /\ tokens'[Len(tokens) + 1] # "rotated" /\ Len(tokens') = Len(tokens) + 1
         \/ signing.kind = "login" /\ jar' = signing.token /\ signing'.kind = "none" /\ signing'.token = 0
  PROVE  WebInv'
<1> USE DEF NoToken, Callers, Tab
<1>1. /\ rotation' = rotation /\ OnlyRevokes /\ lost' = lost
      /\ flight' = flight \/ flight \in {"yes", "no"}
      /\ boot' = boot \/ (boot = "waiting" /\ boot' = "done")
  OBVIOUS
<1>0. /\ jar \in 0 .. Len(tokens) /\ Len(tokens) \in Nat /\ signing.token \in 0 .. Len(tokens)
      /\ \A d \in Callers : rotation[d].token \in 0 .. Len(tokens) /\ rotation[d].fresh \in 0 .. Len(tokens)
  BY WebFacts DEF WebInv
<1>2. /\ \A d \in Callers : rotation[d].stage = "issued" => rotation[d].fresh # 0 /\ tokens[rotation[d].fresh] # "rotated"
                                                  /\ jar # rotation[d].fresh
      /\ signing.kind = "login" => tokens[signing.token] # "rotated" /\ jar # signing.token
  BY FreshFacts DEF WebInv
<1>10. OneTurn'
  BY <1>0, <1>1, <1>2 DEF OneTurn, WebInv, OnlyRevokes
<1>11. BootsFirst'
  BY <1>0, <1>1, <1>2 DEF OneTurn, BootsFirst, WebTypes, WebTypeOK, WebInv, OnlyRevokes
<1>3. Spread
  BY <1>0, <1>1 DEF Spread, OnlyRevokes
<1>4. \A t : Unheard(t) /\ jar' # t => StillUnheard(t)
  BY <1>3, UnheardStays DEF WebInv, Unheard, StillUnheard
<1>6. tokens'[Len(tokens) + 1] # "rotated" /\ Len(tokens') = Len(tokens) + 1 /\ jar' = jar
      => StillUnheard(Len(tokens) + 1)
  BY <1>0, <1>1 DEF StillUnheard
<1>12. FreshIsNew'
  <2> USE DEF OnlyRevokes
  <2>1. \A e \in Callers : rotation'[e].fresh # 0 <=> rotation'[e].stage = "issued"
    BY <1>0, <1>1 DEF WebInv, FreshIsNew
  <2>2. \A e, f \in Callers : rotation'[e].stage = "issued" /\ rotation'[e].fresh = rotation'[f].fresh => e = f
    BY <1>0, <1>1 DEF WebInv, FreshIsNew
  <2>3. signing'.kind = "login" <=> signing'.token # 0
    BY <1>0, <1>1 DEF WebInv, FreshIsNew
  <2>4. ASSUME NEW e \in Callers, rotation'[e].stage = "issued"
        PROVE  StillUnheard(rotation'[e].fresh) /\ signing'.token # rotation'[e].fresh
    BY <1>0, <1>1, <1>2, <1>4, <2>4, <1>6 DEF WebInv, FreshIsNew
  <2>5. signing'.kind = "login" => StillUnheard(signing'.token)
    BY <1>0, <1>1, <1>2, <1>4, <1>6 DEF WebInv, FreshIsNew
  <2> QED
    BY <2>1, <2>2, <2>3, <2>4, <2>5 DEF FreshIsNew, Unheard, StillUnheard
<1>13. JarIsHeard'
  BY <1>0, <1>1, <1>2 DEF OneTurn, JarIsHeard, OrphanIsLost, WebInv, OnlyRevokes
<1>14. OrphanIsLost'
  BY <1>0, <1>1, <1>2 DEF OneTurn, OrphanIsLost, WebInv, OnlyRevokes
<1>15. SpentTokenIsNotPresented'
  BY <1>0, <1>1, <1>2 DEF OneTurn, JarIsHeard, OrphanIsLost, SpentTokenIsNotPresented, WebInv, OnlyRevokes
<1> QED
  BY <1>10, <1>11, <1>12, <1>13, <1>14, <1>15 DEF WebInv


LEMMA TokensStand == tokens' = tokens /\ WebTypes => OnlyRevokes
BY DEF OnlyRevokes, WebTypes, WebTypeOK

LEMMA WebNextKeeps == WebInv /\ [WebNext]_webVars => WebInv'
<1> SUFFICES ASSUME WebInv, [WebNext]_webVars PROVE WebInv'
  OBVIOUS
<1>1. WebTypes /\ WebTypes'
  BY WebTypesKept DEF WebInv
<1>2. ASSUME NEW c \in Callers, FindToken(c) \/ RevokeToken(c) \/ IssueToken(c) \/ Fails(c) PROVE WebInv'
  BY <1>1, <1>2, FindTokenKeeps, RevokeTokenKeeps, IssueTokenKeeps, FailsKeeps
<1>3. CASE BootSucceeds \/ FlightSucceeds \/ OrphanEnds \/ BootRefused \/ FlightRefused \/ Reload
  BY <1>1, <1>3, BootSucceedsKeeps, FlightSucceedsKeeps, OrphanEndsKeeps, FlightRefusedKeeps,
     BootGivesUpKeeps, BootWaitsKeeps, ReloadKeeps
<1>4. CASE RevokeAllSessions
  <2>1. OnlyRevokes
    <3>1. DOMAIN tokens = 1 .. Len(tokens) /\ Len(tokens) \in Nat
      BY <1>1 DEF WebTypes, WebTypeOK
    <3>2. tokens' = [t \in 1 .. Len(tokens) |-> IF tokens[t] = "live" THEN "ended" ELSE tokens[t]]
      BY <1>4, <3>1 DEF RevokeAllSessions
    <3>3. Len(tokens') = Len(tokens)
      BY <3>1, <3>2
    <3> QED
      BY <3>1, <3>2, <3>3 DEF OnlyRevokes
  <2> QED
    BY <1>1, <1>4, <2>1, CookieKeeps DEF RevokeAllSessions
<1>5. CASE Expire
  BY <1>1, <1>5, TokensStand, CookieKeeps DEF Expire
<1>6. CASE QueryDenied
  <2>1. boot = "done"
    BY <1>6 DEF QueryDenied, WebInv, BootsFirst
  <2> QED
    BY <1>1, <1>6, <2>1, TokensStand, CookieKeeps DEF QueryDenied
<1>7. CASE Join
  <2>1. CASE flight = "none"
    BY <1>1, <1>7, <2>1, JoinStartsKeeps
  <2>2. CASE flight # "none"
    <3>1. denied + waiting > 0
      BY <1>1, <1>7 DEF Join, WebTypes, WebTypeOK
    <3> QED
      BY <1>1, <1>7, <2>2, <3>1, TokensStand, CookieKeeps DEF Join
  <2> QED
    BY <2>1, <2>2
<1>8. CASE ResumeQueries
  <2>1. denied + waiting > 0
    BY <1>1, <1>8 DEF ResumeQueries, WebTypes, WebTypeOK
  <2> QED
    BY <1>1, <1>8, <2>1, TokensStand, CookieKeeps DEF ResumeQueries
<1>9. CASE ResumeBoot
  <2>1. CASE flight = "yes"
    BY <1>1, <1>9, <2>1, BootAgainKeeps
  <2>2. CASE flight = "no"
    BY <1>1, <1>9, <2>2, TokensStand, CookieKeeps DEF ResumeBoot
  <2> QED
    BY <1>9, <2>1, <2>2 DEF ResumeBoot
<1>10. CASE Release
  BY <1>1, <1>10, TokensStand, CookieKeeps DEF Release
<1>11. CASE Login
  <2>1. tokens' = Append(tokens, "live") /\ tokens \in Seq(TokenStates)
    BY <1>1, <1>11 DEF Login, WebTypes, WebTypeOK, TokenStates
  <2>2. /\ Len(tokens') = Len(tokens) + 1 /\ Len(tokens) \in Nat /\ tokens'[Len(tokens) + 1] = "live"
        /\ \A t \in 1 .. Len(tokens) : tokens'[t] = tokens[t]
    BY <2>1, TokenAppended DEF TokenStates
  <2>3. OnlyRevokes
    BY <2>2 DEF OnlyRevokes
  <2>4. signing'.kind = "login" /\ signing'.token = Len(tokens) + 1
    BY <1>11 DEF Login
  <2> QED
    BY <1>1, <1>11, <2>2, <2>3, <2>4, CookieKeeps DEF Login
<1>12. CASE LoggedIn
  <2>1. signing'.kind = "none" /\ signing'.token = 0
    BY <1>12 DEF LoggedIn, Quiet, NoToken
  <2> QED
    BY <1>1, <1>12, <2>1, TokensStand, CookieKeeps DEF LoggedIn
<1>13. CASE LoginFails \/ LoggedOut
  <2>1. signing'.kind = "none" /\ signing'.token = 0 /\ jar' \in {jar, 0}
    BY <1>13 DEF LoginFails, LoggedOut, Quiet, NoToken
  <2> QED
    BY <1>1, <1>13, <2>1, TokensStand, CookieKeeps DEF LoginFails, LoggedOut
<1>14. CASE Logout
  <2>1. signing'.kind = "logout" /\ signing'.token = 0
    BY <1>14 DEF Logout, NoToken
  <2>2. OnlyRevokes
    <3>1. ASSUME tokens' = [tokens EXCEPT ![jar] = "ended"] PROVE OnlyRevokes
      <4>1. tokens \in Seq(TokenStates) /\ Len(tokens) \in Nat
        BY <1>1 DEF WebTypes, WebTypeOK, TokenStates
      <4>2. /\ Len(tokens') = Len(tokens)
            /\ \A t \in 1 .. Len(tokens) : tokens'[t] = IF t = jar THEN "ended" ELSE tokens[t]
        BY <3>1, <4>1, TokenOverwritten DEF TokenStates
      <4> QED
        BY <4>1, <4>2 DEF OnlyRevokes
    <3> QED
      BY <1>1, <1>14, <3>1, TokensStand DEF Logout
  <2> QED
    BY <1>1, <1>14, <2>1, <2>2, CookieKeeps DEF Logout
<1>15. CASE UNCHANGED webVars
  BY <1>1, <1>15, TokensStand, CookieKeeps DEF webVars
<1> QED
  BY <1>2, <1>3, <1>4, <1>5, <1>6, <1>7, <1>8, <1>9, <1>10, <1>11, <1>12, <1>13, <1>14, <1>15 DEF WebNext

\* A tab never waits for an answer on a token that was rotated already, other
\* than one whose rotation it could not hear of: for any number of queries and
\* tokens, and whatever the connection loses.
THEOREM NoSpentToken == WebSpec => [](WebTypeOK /\ SpentTokenIsNotPresented)
<1>1. WebInv => WebTypeOK /\ SpentTokenIsNotPresented
  BY DEF WebInv, WebTypes
<1> QED
  BY <1>1, WebInitHolds, WebNextKeeps, PTL DEF WebSpec

-----------------------------------------------------------------------------
(* Carts: a menu under edit, two kinds of page, and the two readings of an *)
(* order.                                                                  *)

\* A row of a dish that another may have replaced: an edition has one group.
Before(r, q) == r.edition <= q.edition /\ (r.edition = q.edition => r.group = q.group)
Outdated(m, d, r) == m[d] # Nothing => Before(r, m[d])

\* What the sheet lets a shopper choose.
Chosen(row, ids) ==
  row \in Dish /\ row # Nothing /\ row.available /\ ids \subseteq LiveIds(row)
  /\ \A id \in ids : id[2] \in row.group.offered

FairLine(l) ==
  /\ l.dish \in Dishes /\ Chosen(l.seen, l.ids)
  /\ Fewest(l.seen.group) <= Cardinality(l.ids) /\ Cardinality(l.ids) <= Most(l.seen.group)
  /\ l.unit = UnitPrice(l.seen, l.ids) /\ l.quantity \in Nat

LineOK(m, l) == FairLine(l) /\ Outdated(m, l.dish, l.seen)

MenuOK(m, v, n) ==
  /\ m \in [Dishes -> Dish \cup {Nothing}] /\ v \in [Dishes -> Dish \cup {Nothing}] /\ n \in 0 .. MaxEdits
  /\ \A d \in Dishes : m[d] # Nothing => m[d].edition <= n
  /\ \A d \in Dishes : v[d] # Nothing => Outdated(m, d, v[d])

SheetOK(m, v, s) ==
  s # Nothing =>
    /\ s.dish \in Dishes /\ Chosen(s.row, s.picks)
    /\ Outdated(m, s.dish, s.row)
    /\ Outdated(v, s.dish, s.row)

\* The rows an order has read lie between those its lines saw and the menu.
OrderOK(m, o) ==
  /\ o.stage \in {"idle", "sent", "found", "priced", "placed", "refused", "failed"}
  /\ o.stage \in {"sent", "found", "priced"} => \A l \in o.lines : LineOK(m, l)
  /\ o.stage = "found" => \A l \in o.lines :
       /\ o.rows[l.dish] \in Dish /\ o.rows[l.dish] # Nothing
       /\ Before(l.seen, o.rows[l.dish]) /\ Outdated(m, l.dish, o.rows[l.dish])

Quantities(c, who) ==
  /\ \A l \in c : l.quantity \in 1 .. MaxQuantity + 1
  /\ who = "guest" => \A l \in c : l.quantity <= MaxQuantity
  /\ \A l \in c : l = [dish |-> l.dish, ids |-> l.ids, unit |-> l.unit, quantity |-> l.quantity, seen |-> l.seen]

CartInv ==
  /\ MenuOK(menu, view, edits)
  /\ SheetOK(menu, view, sheet)
  /\ \A l \in cart : LineOK(menu, l)
  /\ Quantities(cart, shopper)
  /\ OrderOK(menu, ordering)
  /\ OneMenuPrices

LEMMA GroupFacts ==
  /\ NoGroup \in Groups /\ OneOf(Extras) \in Groups
  /\ \A g \in Groups : /\ g.options \subseteq Extras /\ g.offered \subseteq g.options
                       /\ g.min \in Nat /\ g.max \in Nat /\ Fewest(g) \in Nat /\ Most(g) \in Nat
                       /\ ~ (g.required \/ g.min > 0) => Fewest(g) = 0
<1>1. NoGroup \in Groups
  BY DEF Groups
<1>2. Cardinality(Extras) \in Nat /\ Cardinality(Extras) >= 1
  BY CartAssumption, FS_EmptySet, FS_CardinalityType
<1>3. OneOf(Extras) \in Groups
  <2> DEFINE g == OneOf(Extras)
  <2>1. /\ g.single = TRUE /\ g.required = TRUE /\ g.min = 1 /\ g.max = 1
        /\ g.options = Extras /\ g.offered = Extras
        /\ g = [single |-> TRUE, required |-> TRUE, min |-> 1, max |-> 1, options |-> Extras, offered |-> Extras]
    BY DEF OneOf
  <2>2. 1 \in 0 .. Cardinality(Extras) /\ Extras \in (SUBSET Extras) \ {{}} /\ Extras \in SUBSET Extras
    BY <1>2, CartAssumption
  <2> HIDE DEF g
  <2>3. g \in [single: BOOLEAN, required: BOOLEAN, min: 0 .. Cardinality(Extras), max: 0 .. Cardinality(Extras),
                options: (SUBSET Extras) \ {{}}, offered: SUBSET Extras]
    BY <2>1, <2>2
  <2>4. g.offered \subseteq g.options /\ g.min <= g.max /\ g.max <= Cardinality(g.options)
        /\ (g.single => g.max <= 1) /\ (g.required => g.min >= 1)
    BY <1>2, <2>1
  <2>5. g \in Groups
    BY <2>3, <2>4 DEF Groups
  <2> QED
    BY <2>5 DEF g
<1>4. ASSUME NEW g \in Groups
      PROVE  /\ g.options \subseteq Extras /\ g.offered \subseteq g.options
             /\ g.min \in Nat /\ g.max \in Nat
             /\ g.single \in BOOLEAN /\ g.required \in BOOLEAN
  <2>1. CASE g = NoGroup
    BY <2>1 DEF NoGroup
  <2>2. CASE g # NoGroup
    <3>1. /\ g \in [single: BOOLEAN, required: BOOLEAN, min: 0 .. Cardinality(Extras),
                     max: 0 .. Cardinality(Extras), options: (SUBSET Extras) \ {{}}, offered: SUBSET Extras]
          /\ g.offered \subseteq g.options
      BY <2>2 DEF Groups
    <3> QED
      BY <3>1
  <2> QED
    BY <2>1, <2>2
<1>5. ASSUME NEW g \in Groups
      PROVE  /\ Fewest(g) \in Nat /\ Most(g) \in Nat
             /\ ~ (g.required \/ g.min > 0) => Fewest(g) = 0
  BY <1>4 DEF Fewest, Most
<1> QED
  BY <1>1, <1>3, <1>4, <1>5

LEMMA BeforeOrders ==
  /\ \A r \in Dish : Before(r, r) /\ r.edition \in 0 .. MaxEdits /\ r.edition \in Nat
  /\ \A r, q, t \in Dish : Before(r, q) /\ Before(q, t) => Before(r, t)
BY CartAssumption DEF Before, Dish

\* An edit takes a dish off or writes a later row of it.
Edited(m, n, d) ==
  /\ d \in Dishes /\ m[d] # Nothing
  /\ n \in [Dishes -> Dish \cup {Nothing}] /\ \A x \in Dishes \ {d} : n[x] = m[x]
  /\ n[d] # Nothing => Before(m[d], n[d])

LEMMA OutdatedStays ==
  ASSUME NEW m \in [Dishes -> Dish \cup {Nothing}], NEW n, NEW d, Edited(m, n, d),
         NEW x \in Dishes, NEW r \in Dish, Outdated(m, x, r)
  PROVE  Outdated(n, x, r)
<1>1. CASE x # d
  BY <1>1 DEF Edited, Outdated
<1>2. CASE x = d
  <2> SUFFICES ASSUME n[x] # Nothing PROVE Before(r, n[x])
    BY DEF Outdated
  <2>1. m[x] # Nothing /\ m[x] \in Dish /\ n[x] \in Dish /\ Before(m[x], n[x]) /\ Before(r, m[x])
    BY <1>2 DEF Edited, Outdated
  <2> QED
    BY <2>1, BeforeOrders
<1> QED
  BY <1>1, <1>2

LEMMA EditsKeep ==
  ASSUME CartInv, NEW d, Edited(menu, menu', d), edits' \in 0 .. MaxEdits,
         edits' = edits + 1, menu'[d] # Nothing => menu'[d].edition <= edits',
         UNCHANGED <<shopper, view, sheet, cart, ordering>>
  PROVE  CartInv'
<1> DEFINE n == menu'
<1>1. menu \in [Dishes -> Dish \cup {Nothing}] /\ view \in [Dishes -> Dish \cup {Nothing}]
      /\ edits \in Nat
  BY DEF CartInv, MenuOK
<1>2. \A x \in Dishes, r \in Dish : Outdated(menu, x, r) => Outdated(n, x, r)
  <2> HIDE DEF n
  <2> SUFFICES ASSUME NEW x \in Dishes, NEW r \in Dish, Outdated(menu, x, r) PROVE Outdated(n, x, r)
    OBVIOUS
  <2>1. Edited(menu, n, d)
    BY DEF n
  <2> QED
    BY <1>1, <2>1, OutdatedStays
<1>3. MenuOK(n, view, edits')
  <2>1. n \in [Dishes -> Dish \cup {Nothing}] /\ \A x \in Dishes : n[x] # Nothing => n[x].edition <= edits'
    <3>1. n \in [Dishes -> Dish \cup {Nothing}] /\ \A x \in Dishes \ {d} : n[x] = menu[x]
      BY DEF Edited
    <3>2. ASSUME NEW x \in Dishes, n[x] # Nothing PROVE n[x].edition <= edits'
      <4>1. CASE x = d
        BY <3>2, <4>1
      <4>2. CASE x # d
        <5>1. n[x] = menu[x]
          BY <3>1, <4>2
        <5>2. menu[x].edition <= edits /\ menu[x].edition \in Nat
          BY <1>1, <3>2, <5>1, BeforeOrders DEF CartInv, MenuOK
        <5> QED
          BY <1>1, <5>1, <5>2
      <4> QED
        BY <4>1, <4>2
    <3> QED
      BY <3>1, <3>2
  <2>2. \A x \in Dishes : view[x] # Nothing => Outdated(n, x, view[x])
    BY <1>1, <1>2 DEF CartInv, MenuOK
  <2> QED
    BY <1>1, <2>1, <2>2 DEF MenuOK
<1>4. SheetOK(n, view, sheet)
  BY <1>2 DEF CartInv, SheetOK, Chosen
<1>5. \A l : LineOK(menu, l) => LineOK(n, l)
  BY <1>2 DEF LineOK, FairLine, Chosen
<1>6. OrderOK(n, ordering)
  <2>1. ordering.stage = "found" => \A l \in ordering.lines : l.dish \in Dishes
    BY DEF CartInv, OrderOK, LineOK, FairLine
  <2> QED
    BY <1>2, <1>5, <2>1 DEF CartInv, OrderOK
<1> QED
  BY <1>3, <1>4, <1>5, <1>6 DEF CartInv, OneMenuPrices

LEMMA MenuStepsKeep ==
  ASSUME CartInv, NEW d \in Dishes,
         SaveProduct(d) \/ PatchProduct(d) \/ SetAvailability(d) \/ RemoveProduct(d)
  PROVE  CartInv'
<1>1. menu[d] # Nothing /\ menu[d] \in Dish /\ edits \in Nat /\ edits < MaxEdits
      /\ menu \in [Dishes -> Dish \cup {Nothing}] /\ menu[d].edition <= edits
      /\ UNCHANGED <<shopper, view, sheet, cart, ordering>> /\ edits' = edits + 1
  BY DEF SaveProduct, PatchProduct, SetAvailability, RemoveProduct, CartInv, MenuOK
<1>2. edits' \in 0 .. MaxEdits
  BY <1>1, CartAssumption
<1>3. PICK row : /\ menu' = [menu EXCEPT ![d] = row]
                 /\ row \in Dish \cup {Nothing}
                 /\ row # Nothing => Before(menu[d], row) /\ row.edition <= edits'
  <2>1. CASE SaveProduct(d)
    <3>1. PICK p \in Prices, a \in BOOLEAN, g \in {menu[d].group, NoGroup, OneOf(Extras)} :
            menu' = [menu EXCEPT ![d] = [price |-> p, available |-> a, edition |-> edits + 1, group |-> g]]
      BY <2>1 DEF SaveProduct
    <3>2. g \in Groups
      BY <1>1, GroupFacts DEF Dish
    <3> DEFINE row == [price |-> p, available |-> a, edition |-> edits + 1, group |-> g]
    <3>3. row \in Dish /\ row.edition = edits + 1 /\ menu' = [menu EXCEPT ![d] = row]
      BY <1>1, <1>2, <3>1, <3>2 DEF Dish
    <3>4. menu[d].edition < edits + 1 /\ menu[d].edition \in Nat
      BY <1>1, BeforeOrders
    <3> HIDE DEF row
    <3>5. Before(menu[d], row) /\ row.edition <= edits'
      BY <1>1, <3>3, <3>4 DEF Before
    <3> QED
      BY <3>3, <3>5
  <2>2. CASE PatchProduct(d)
    <3>1. PICK p \in Prices, a \in BOOLEAN : menu' = [menu EXCEPT ![d].price = p, ![d].available = a]
      BY <2>2 DEF PatchProduct
    <3>2. menu' = [menu EXCEPT ![d] = [menu[d] EXCEPT !.price = p, !.available = a]]
      BY <1>1, <3>1
    <3> DEFINE row == [menu[d] EXCEPT !.price = p, !.available = a]
    <3>3. row \in Dish /\ row.edition = menu[d].edition /\ row.group = menu[d].group
      BY <1>1 DEF Dish
    <3>4. menu[d].edition \in Nat
      BY <1>1, BeforeOrders
    <3> HIDE DEF row
    <3>5. Before(menu[d], row) /\ row.edition <= edits'
      BY <1>1, <3>3, <3>4 DEF Before
    <3> QED
      BY <3>2, <3>3, <3>5 DEF row
  <2>3. CASE SetAvailability(d)
    <3> DEFINE row == [menu[d] EXCEPT !.available = ~ @]
    <3>2. menu' = [menu EXCEPT ![d] = row]
      BY <1>1, <2>3 DEF SetAvailability
    <3>3. row \in Dish /\ row.edition = menu[d].edition /\ row.group = menu[d].group
      BY <1>1 DEF Dish
    <3>4. menu[d].edition \in Nat
      BY <1>1, BeforeOrders
    <3> HIDE DEF row
    <3>5. Before(menu[d], row) /\ row.edition <= edits'
      BY <1>1, <3>3, <3>4 DEF Before
    <3> QED
      BY <3>2, <3>3, <3>5
  <2>4. CASE RemoveProduct(d)
    <3>1. menu' = [menu EXCEPT ![d] = Nothing]
      BY <2>4 DEF RemoveProduct
    <3> QED
      BY <3>1, Zenon
  <2> QED
    BY <2>1, <2>2, <2>3, <2>4
<1>4. Edited(menu, menu', d) /\ (menu'[d] # Nothing => menu'[d].edition <= edits')
  BY <1>1, <1>3 DEF Edited
<1> QED
  BY <1>1, <1>2, <1>4, EditsKeep

\* The page's steps leave the menu, the cart's lines and the order alone.
LEMMA PageKeeps ==
  ASSUME CartInv, MenuOK(menu, view', edits), SheetOK(menu, view', sheet'), cart' \in {cart, {}},
         UNCHANGED <<menu, edits, shopper, ordering>>
  PROVE  CartInv'
BY DEF CartInv, Quantities, OneMenuPrices

LEMMA RowFacts ==
  ASSUME CartInv, NEW d \in Dishes
  PROVE  /\ menu[d] # Nothing => menu[d] \in Dish
         /\ view[d] # Nothing => view[d] \in Dish /\ Outdated(menu, d, view[d]) /\ Outdated(view, d, view[d])
         /\ Outdated(menu, d, menu[d])
BY BeforeOrders DEF CartInv, MenuOK, Outdated

LEMMA ReadAgainKeeps == ASSUME CartInv, ReopenPage \/ Refetch PROVE CartInv'
<1>1. MenuOK(menu, menu, edits)
  BY RowFacts DEF CartInv, MenuOK
<1>2. SheetOK(menu, menu, sheet') /\ view' = menu /\ cart' \in {cart, {}}
  BY DEF ReopenPage, Refetch, CartInv, SheetOK
<1> QED
  BY <1>1, <1>2, PageKeeps DEF ReopenPage, Refetch

LEMMA OpenSheetKeeps == ASSUME CartInv, NEW d \in Dishes, OpenSheet(d) PROVE CartInv'
<1>1. view[d] # Nothing /\ view[d].available /\ UNCHANGED <<menu, edits, shopper, view, cart, ordering>>
  BY DEF OpenSheet
<1>2. PICK picks \in IF Kept(d) THEN {sheet.picks \cap LiveIds(view[d])} ELSE Preselect(view[d]) :
        sheet' = [open |-> TRUE, dish |-> d, row |-> view[d], picks |-> picks]
  BY DEF OpenSheet
<1>3. view[d] \in Dish /\ Outdated(menu, d, view[d]) /\ Outdated(view, d, view[d])
  BY <1>1, RowFacts
<1>4. view[d].group.offered \subseteq view[d].group.options
  BY <1>3, GroupFacts DEF Dish
<1>5. picks \subseteq LiveIds(view[d]) /\ \A id \in picks : id[2] \in view[d].group.offered
  <2>1. CASE Kept(d)
    <3>1. picks = sheet.picks \cap LiveIds(view[d])
      BY <1>2, <2>1
    <3>2. /\ sheet # Nothing /\ sheet.dish = d
          /\ sheet.picks \subseteq LiveIds(sheet.row) /\ \A id \in sheet.picks : id[2] \in sheet.row.group.offered
          /\ Before(sheet.row, view[d])
      BY <1>1, <2>1 DEF Kept, CartInv, SheetOK, Chosen, Outdated
    <3>3. ASSUME NEW id \in picks PROVE id[2] \in view[d].group.offered
      <4>1. id[1] = sheet.row.edition /\ id[1] = view[d].edition /\ id[2] \in sheet.row.group.offered
        BY <3>1, <3>2 DEF LiveIds, Ids
      <4> QED
        BY <3>2, <4>1 DEF Before
    <3> QED
      BY <3>1, <3>3
  <2>2. CASE ~ Kept(d)
    <3>1. picks \in Preselect(view[d])
      BY <1>2, <2>2
    <3>2. picks = {} \/ \E id \in Ids(view[d].edition, view[d].group.offered) : picks = {id}
      BY <3>1 DEF Preselect
    <3> QED
      BY <1>4, <3>2 DEF Ids, LiveIds
  <2> QED
    BY <2>1, <2>2
<1>6. SheetOK(menu, view, sheet')
  <2>1. sheet'.dish = d /\ sheet'.row = view[d] /\ sheet'.picks = picks
    BY <1>2
  <2> QED
    BY <1>1, <1>3, <1>5, <2>1 DEF SheetOK, Chosen
<1> QED
  BY <1>1, <1>6, PageKeeps DEF CartInv

LEMMA ToggleKeeps ==
  ASSUME CartInv, NEW id, Toggle(id)
  PROVE  CartInv'
<1>1. /\ sheet # Nothing /\ UNCHANGED <<menu, edits, shopper, view, cart, ordering>>
      /\ id \in Ids(sheet.row.edition, sheet.row.group.offered)
  BY DEF Toggle, Closed
<1>2. PICK picks : sheet' = [sheet EXCEPT !.picks = picks]
                   /\ (picks = {id} \/ picks = sheet.picks \ {id} \/ picks = sheet.picks \cup {id})
  BY DEF Toggle
<1>3. Chosen(sheet.row, sheet.picks)
  BY <1>1 DEF CartInv, SheetOK
<1>4. sheet.row.group.offered \subseteq sheet.row.group.options
  BY <1>3, GroupFacts DEF Chosen, Dish
<1>5. Chosen(sheet.row, picks)
  BY <1>1, <1>2, <1>3, <1>4 DEF Chosen, Ids, LiveIds
<1>6. sheet'.dish = sheet.dish /\ sheet'.row = sheet.row /\ (sheet'.picks = picks \/ sheet'.picks = sheet.picks)
  BY <1>2
<1>7. SheetOK(menu, view, sheet')
  BY <1>1, <1>3, <1>5, <1>6 DEF CartInv, SheetOK
<1> QED
  BY <1>1, <1>7, PageKeeps DEF CartInv

LEMMA PutAway ==
  ASSUME CartInv, ~ Closed
  PROVE  SheetOK(menu, view, Put(sheet))
<1>1. sheet # Nothing
  BY DEF Closed
<1>2. Put(sheet) # Nothing => Put(sheet) = [sheet EXCEPT !.open = FALSE]
  BY DEF Put
<1>3. [sheet EXCEPT !.open = FALSE].dish = sheet.dish /\ [sheet EXCEPT !.open = FALSE].row = sheet.row
      /\ [sheet EXCEPT !.open = FALSE].picks = sheet.picks
  OBVIOUS
<1> QED
  BY <1>1, <1>2, <1>3 DEF CartInv, SheetOK

LEMMA CloseSheetKeeps == ASSUME CartInv, CloseSheet PROVE CartInv'
BY PutAway, PageKeeps DEF CloseSheet, CartInv

\* A line added is the one the sheet chose, or an earlier one of the same choice.
LEMMA AddedKeeps ==
  ASSUME CartInv, NEW d \in Dishes, NEW row, NEW ids, NEW n \in Nat, n >= 1, n <= MaxQuantity,
         Chosen(row, ids), Fewest(row.group) <= Cardinality(ids), Cardinality(ids) <= Most(row.group),
         Outdated(menu, d, row), cart' = Added(d, row, ids, n), SheetOK(menu, view, sheet'),
         UNCHANGED <<menu, edits, shopper, view, ordering>>
  PROVE  CartInv'
<1> DEFINE new == [dish |-> d, ids |-> ids, unit |-> UnitPrice(row, ids), quantity |-> n, seen |-> row]
           more(l) == [l EXCEPT !.quantity = Capped(@ + n)]
<1>1. \A l \in cart' : l \in cart \/ l = new \/ \E k \in cart : l = more(k)
  BY DEF Added
<1>2. new.dish = d /\ new.ids = ids /\ new.unit = UnitPrice(row, ids) /\ new.seen = row /\ new.quantity = n
      /\ new = [dish |-> new.dish, ids |-> new.ids, unit |-> new.unit, quantity |-> new.quantity, seen |-> new.seen]
  OBVIOUS
<1>3. \A k \in cart : /\ k.quantity \in 1 .. MaxQuantity + 1 /\ (shopper = "guest" => k.quantity <= MaxQuantity)
                      /\ k = [dish |-> k.dish, ids |-> k.ids, unit |-> k.unit, quantity |-> k.quantity, seen |-> k.seen]
                      /\ LineOK(menu, k)
  BY DEF CartInv, Quantities
<1>4. ASSUME NEW k \in cart
      PROVE  more(k) = [dish |-> k.dish, ids |-> k.ids, unit |-> k.unit, quantity |-> Capped(k.quantity + n),
                        seen |-> k.seen]
  BY <1>3
<1>5. ASSUME NEW q \in 1 .. MaxQuantity + 1 PROVE Capped(q + n) \in 1 .. MaxQuantity
  BY CartAssumption DEF Capped
<1>6. MaxQuantity \in Nat
  BY CartAssumption
<1>7. ASSUME NEW k \in cart
      PROVE  /\ more(k).dish = k.dish /\ more(k).ids = k.ids /\ more(k).unit = k.unit /\ more(k).seen = k.seen
             /\ more(k).quantity \in 1 .. MaxQuantity
             /\ more(k) = [dish |-> more(k).dish, ids |-> more(k).ids, unit |-> more(k).unit,
                           quantity |-> more(k).quantity, seen |-> more(k).seen]
  BY <1>3, <1>4, <1>5
<1> HIDE DEF new, more
<1>8. LineOK(menu, new) /\ \A k \in cart : LineOK(menu, more(k))
  BY <1>2, <1>3, <1>6, <1>7 DEF LineOK, FairLine
<1>9. \A l \in cart' : LineOK(menu, l)
  BY <1>1, <1>3, <1>8
<1>10. ASSUME NEW l \in cart'
       PROVE  /\ l.quantity \in 1 .. MaxQuantity + 1 /\ (shopper = "guest" => l.quantity <= MaxQuantity)
              /\ l = [dish |-> l.dish, ids |-> l.ids, unit |-> l.unit, quantity |-> l.quantity, seen |-> l.seen]
  <2>1. CASE l \in cart
    BY <1>3, <2>1
  <2>2. CASE l = new
    BY <1>2, <1>6, <2>2
  <2>3. CASE \E k \in cart : l = more(k)
    BY <1>6, <1>7, <2>3
  <2> QED
    BY <1>1, <2>1, <2>2, <2>3
<1>11. Quantities(cart', shopper)
  BY <1>10 DEF Quantities
<1> QED
  BY <1>9, <1>11 DEF CartInv, OneMenuPrices

LEMMA AddFromSheetKeeps == ASSUME CartInv, AddFromSheet PROVE CartInv'
<1>1. PICK n \in 1 .. MaxQuantity : cart' = Added(sheet.dish, sheet.row, sheet.picks, n)
  BY DEF AddFromSheet
<1>2. sheet # Nothing /\ SheetValid(sheet.row.group, Cardinality(sheet.picks))
      /\ sheet' = Put(sheet) /\ UNCHANGED <<menu, edits, shopper, view, ordering>>
  BY DEF AddFromSheet, Closed
<1>3. sheet.dish \in Dishes /\ Chosen(sheet.row, sheet.picks) /\ Outdated(menu, sheet.dish, sheet.row)
  BY <1>2 DEF CartInv, SheetOK
<1>4. SheetOK(menu, view, sheet')
  BY <1>2, PutAway DEF AddFromSheet
<1>5. n \in Nat /\ n >= 1 /\ n <= MaxQuantity
  BY CartAssumption
<1> QED
  BY <1>1, <1>2, <1>3, <1>4, <1>5, AddedKeeps DEF SheetValid

LEMMA AddAtOnceKeeps == ASSUME CartInv, NEW d \in Dishes, AddAtOnce(d) PROVE CartInv'
<1>1. /\ view[d] # Nothing /\ view[d].available /\ ~ NeedsChoice(view[d]) /\ cart' = Added(d, view[d], {}, 1)
      /\ UNCHANGED <<menu, edits, shopper, view, sheet, ordering>>
  BY DEF AddAtOnce
<1>2. view[d] \in Dish /\ Outdated(menu, d, view[d])
  BY <1>1, RowFacts
<1>3. Fewest(view[d].group) = 0 /\ Most(view[d].group) \in Nat
  BY <1>1, <1>2, GroupFacts DEF Dish, NeedsChoice
<1>4. Cardinality({}) = 0
  BY FS_EmptySet
<1>5. Chosen(view[d], {}) /\ Fewest(view[d].group) <= Cardinality({})
      /\ Cardinality({}) <= Most(view[d].group)
  BY <1>1, <1>2, <1>3, <1>4 DEF Chosen
<1>6. SheetOK(menu, view, sheet')
  BY <1>1 DEF CartInv
<1>7. 1 \in Nat /\ 1 >= 1 /\ 1 <= MaxQuantity
  BY CartAssumption
<1> QED
  BY <1>1, <1>2, <1>5, <1>6, <1>7, AddedKeeps

LEMMA SetQuantityKeeps == ASSUME CartInv, NEW l \in cart, SetQuantity(l) PROVE CartInv'
<1>1. PICK n \in {l.quantity - 1, l.quantity + 1} :
        /\ n <= MaxQuantity + 1
        /\ cart' = IF n = 0 THEN cart \ {l}
                   ELSE (cart \ {l}) \cup {[l EXCEPT !.quantity = IF shopper = "guest" THEN Capped(n) ELSE n]}
  BY DEF SetQuantity
<1> DEFINE q == IF shopper = "guest" THEN Capped(n) ELSE n
           new == [l EXCEPT !.quantity = q]
<1>2. /\ l.quantity \in 1 .. MaxQuantity + 1 /\ LineOK(menu, l)
      /\ l = [dish |-> l.dish, ids |-> l.ids, unit |-> l.unit, quantity |-> l.quantity, seen |-> l.seen]
  BY DEF CartInv, Quantities
<1>3. UNCHANGED <<menu, edits, shopper, view, sheet, ordering>>
  BY DEF SetQuantity
<1>4. n # 0 => q \in 1 .. MaxQuantity + 1 /\ (shopper = "guest" => q <= MaxQuantity)
  BY <1>1, <1>2, CartAssumption DEF Capped
<1> HIDE DEF q
<1>5. new = [dish |-> l.dish, ids |-> l.ids, unit |-> l.unit, quantity |-> q, seen |-> l.seen]
  BY <1>2
<1>6. new.dish = l.dish /\ new.ids = l.ids /\ new.unit = l.unit /\ new.seen = l.seen /\ new.quantity = q
      /\ new = [dish |-> new.dish, ids |-> new.ids, unit |-> new.unit, quantity |-> new.quantity, seen |-> new.seen]
  BY <1>5
<1> HIDE DEF new
<1>7. n # 0 => LineOK(menu, new)
  BY <1>2, <1>4, <1>6, CartAssumption DEF LineOK, FairLine
<1>8. \A k \in cart' : k \in cart \/ (n # 0 /\ k = new)
  BY <1>1 DEF new, q
<1>9. \A k \in cart' : LineOK(menu, k)
  BY <1>7, <1>8 DEF CartInv
<1>10. Quantities(cart', shopper)
  BY <1>4, <1>6, <1>8 DEF CartInv, Quantities
<1> QED
  BY <1>3, <1>9, <1>10 DEF CartInv, OneMenuPrices
\* The order's own steps leave the menu and the page alone.
LEMMA OrderStepKeeps ==
  ASSUME CartInv, OrderOK(menu, ordering'), OneMenuPrices', cart' \in {cart, {}},
         UNCHANGED <<menu, edits, shopper, view, sheet>>
  PROVE  CartInv'
BY DEF CartInv, Quantities

LEMMA AnswersKeep ==
  ASSUME CartInv, NEW to \in {"idle", "placed", "refused", "failed"}, ordering' = [stage |-> to],
         cart' \in {cart, {}}, UNCHANGED <<menu, edits, shopper, view, sheet>>
  PROVE  CartInv'
<1>1. ordering'.stage = to
  OBVIOUS
<1>2. OrderOK(menu, ordering') /\ OneMenuPrices'
  BY <1>1 DEF OrderOK, OneMenuPrices
<1> QED
  BY <1>2, OrderStepKeeps

LEMMA SendCartKeeps == ASSUME CartInv, SendCart PROVE CartInv'
<1>1. /\ ordering'.stage = "sent" /\ ordering'.lines = cart /\ cart' = cart
      /\ UNCHANGED <<menu, edits, shopper, view, sheet>>
  BY DEF SendCart
<1>2. OrderOK(menu, ordering') /\ OneMenuPrices'
  BY <1>1 DEF CartInv, OrderOK, OneMenuPrices
<1> QED
  BY <1>1, <1>2, OrderStepKeeps

LEMMA ReadProductsKeeps == ASSUME CartInv, ReadProducts PROVE CartInv'
<1>1. UNCHANGED <<menu, edits, shopper, view, sheet, cart>> /\ ordering.stage = "sent"
  BY DEF ReadProducts
<1>2. CASE ordering' = [stage |-> "refused"]
  BY <1>1, <1>2, AnswersKeep
<1>3. CASE /\ \A l \in ordering.lines : menu[l.dish] # Nothing
           /\ ordering' = [stage |-> "found", lines |-> ordering.lines, rows |-> menu]
  <2>1. ordering'.stage = "found" /\ ordering'.lines = ordering.lines /\ ordering'.rows = menu
    BY <1>3
  <2>2. \A l \in ordering.lines : LineOK(menu, l) /\ menu[l.dish] # Nothing
    BY <1>1, <1>3 DEF CartInv, OrderOK
  <2>3. ASSUME NEW l \in ordering.lines
        PROVE  /\ menu[l.dish] \in Dish /\ menu[l.dish] # Nothing
               /\ Before(l.seen, menu[l.dish]) /\ Outdated(menu, l.dish, menu[l.dish])
    <3>1. l.dish \in Dishes /\ Outdated(menu, l.dish, l.seen) /\ menu[l.dish] # Nothing
      BY <2>2 DEF LineOK, FairLine
    <3> QED
      BY <3>1, RowFacts DEF Outdated
  <2>4. OrderOK(menu, ordering') /\ OneMenuPrices'
    BY <2>1, <2>2, <2>3 DEF OrderOK, OneMenuPrices
  <2> QED
    BY <1>1, <2>4, OrderStepKeeps
<1> QED
  BY <1>2, <1>3 DEF ReadProducts, Answered

\* What the second reading adds to a line's price is what one menu asks.
LEMMA ChargeIsOneMenus ==
  ASSUME CartInv, ordering.stage = "found", NEW l \in ordering.lines, Accepts(l)
  PROVE  \E m \in {ordering.rows, menu} :
           m[l.dish] # Nothing /\ l.ids \subseteq LiveIds(m[l.dish]) /\ Charge(l) = UnitPrice(m[l.dish], l.ids)
<1> DEFINE r == ordering.rows[l.dish]
<1>1. /\ LineOK(menu, l) /\ r \in Dish /\ r # Nothing /\ Before(l.seen, r) /\ Outdated(menu, l.dish, r)
  BY DEF CartInv, OrderOK
<1>2. l.dish \in Dishes /\ l.seen \in Dish /\ l.ids \subseteq LiveIds(l.seen)
  BY <1>1 DEF LineOK, FairLine, Chosen
<1>3. r.edition \in Nat /\ l.seen.edition \in Nat
  BY <1>1, <1>2, BeforeOrders
<1>4. CASE l.ids = {}
  <2>1. Cardinality(l.ids) = 0 /\ r.edition * 0 = 0
    BY <1>3, <1>4, FS_EmptySet
  <2>2. Charge(l) = r.price + 0 /\ UnitPrice(r, l.ids) = r.price + 0
    BY <1>4, <2>1 DEF Charge, UnitPrice
  <2> QED
    BY <1>1, <1>4, <2>2
<1>5. CASE l.ids # {}
  <2>1. PICK id \in l.ids : TRUE
    BY <1>5
  <2>2. menu[l.dish] # Nothing /\ l.ids \subseteq LiveIds(menu[l.dish])
    BY <1>5 DEF Accepts, FoundIds
  <2>3. menu[l.dish] \in Dish /\ menu[l.dish].edition \in Nat
    BY <1>2, <2>2, RowFacts, BeforeOrders
  <2>4. id[1] = menu[l.dish].edition /\ id[1] = l.seen.edition
    BY <1>2, <2>1, <2>2 DEF LiveIds, Ids
  <2>5. l.seen.edition <= r.edition /\ r.edition <= menu[l.dish].edition
    BY <1>1, <2>2 DEF Before, Outdated
  <2>6. r.edition = menu[l.dish].edition
    BY <1>3, <2>3, <2>4, <2>5
  <2>7. r.group = menu[l.dish].group
    BY <1>1, <2>2, <2>6 DEF Before, Outdated
  <2>8. l.ids \subseteq LiveIds(r)
    BY <2>2, <2>6, <2>7 DEF LiveIds
  <2>9. Charge(l) = UnitPrice(r, l.ids)
    BY <1>5, <2>6 DEF Charge, UnitPrice
  <2> QED
    BY <1>1, <2>8, <2>9
<1> QED
  BY <1>4, <1>5

LEMMA ReadGroupsKeeps == ASSUME CartInv, ReadGroups PROVE CartInv'
<1>1. UNCHANGED <<menu, edits, shopper, view, sheet, cart>> /\ ordering.stage = "found"
  BY DEF ReadGroups
<1>2. CASE ordering' = [stage |-> "refused"]
  BY <1>1, <1>2, AnswersKeep
<1>3. CASE /\ \A l \in ordering.lines : Accepts(l)
           /\ ordering' = [stage |-> "priced", lines |-> ordering.lines, first |-> ordering.rows, second |-> menu,
                           charge |-> [l \in ordering.lines |-> Charge(l)]]
  <2>1. /\ ordering'.stage = "priced" /\ ordering'.lines = ordering.lines /\ ordering'.first = ordering.rows
        /\ ordering'.second = menu /\ \A l \in ordering.lines : ordering'.charge[l] = Charge(l)
    BY <1>3
  <2>2. \A l \in ordering.lines : \E m \in {ordering.rows, menu} :
          m[l.dish] # Nothing /\ l.ids \subseteq LiveIds(m[l.dish]) /\ Charge(l) = UnitPrice(m[l.dish], l.ids)
    BY <1>1, <1>3, ChargeIsOneMenus
  <2>3. OneMenuPrices'
    BY <2>1, <2>2 DEF OneMenuPrices
  <2>4. OrderOK(menu, ordering')
    BY <1>1, <2>1 DEF CartInv, OrderOK
  <2> QED
    BY <1>1, <2>3, <2>4, OrderStepKeeps
<1> QED
  BY <1>2, <1>3 DEF ReadGroups, Answered

LEMMA CartEndsKeep ==
  ASSUME CartInv, InsertOrder \/ OrderFails \/ TakeAnswer \/ AnswerLost
  PROVE  CartInv'
<1>1. UNCHANGED <<menu, edits, shopper, view, sheet>> /\ cart' \in {cart, {}}
  BY DEF InsertOrder, OrderFails, TakeAnswer, AnswerLost
<1>2. \E to \in {"idle", "placed", "refused", "failed"} : ordering' = [stage |-> to]
  BY DEF InsertOrder, OrderFails, TakeAnswer, AnswerLost, Answered, NoOrder
<1> QED
  BY <1>1, <1>2, AnswersKeep

LEMMA CartStutterKeeps == ASSUME CartInv, UNCHANGED cartVars PROVE CartInv'
BY DEF CartInv, cartVars, OneMenuPrices

LEMMA CartNextKeeps == CartInv /\ [CartNext]_cartVars => CartInv'
BY MenuStepsKeep, OpenSheetKeeps, AddAtOnceKeeps, ToggleKeeps, SetQuantityKeeps, ReadAgainKeeps,
   CloseSheetKeeps, AddFromSheetKeeps, SendCartKeeps, ReadProductsKeeps, ReadGroupsKeeps, CartEndsKeep,
   CartStutterKeeps DEF CartNext

\* The lowest price is one of the prices.
LEMMA LeastPrice == Least(Prices) \in Prices
<1>1. SUFFICES ASSUME \A x \in Prices : \E y \in Prices : y < x PROVE FALSE
  <2>1. CASE \E x \in Prices : \A y \in Prices : x <= y
    BY <2>1 DEF Least
  <2>2. CASE \A x \in Prices : \E y \in Prices : ~ (x <= y)
    <3>1. \A x, y \in Prices : ~ (x <= y) => y < x
      BY CartAssumption
    <3> QED
      BY <1>1, <2>2, <3>1
  <2> QED
    BY <2>1, <2>2
<1>2. PICK top \in Prices : TRUE
  BY CartAssumption
<1> DEFINE S == {n \in Nat : \A x \in Prices : n <= x}
           next == [n \in S |-> n + 1]
<1>3. IsFiniteSet(S)
  <2>1. S \in SUBSET Nat /\ (\A n \in S : n <= top) /\ top \in Nat
    BY <1>2, CartAssumption
  <2> QED
    BY <2>1, FS_BoundedSetOfNaturals
<1>4. 0 \in S
  BY CartAssumption
<1>5. ASSUME NEW n \in S PROVE n + 1 \in S
  <2>1. ASSUME NEW x \in Prices PROVE n + 1 <= x
    <3>1. PICK y \in Prices : y < x
      BY <1>1
    <3>2. n <= y /\ y \in Nat /\ x \in Nat /\ n \in Nat
      BY CartAssumption
    <3> QED
      BY <3>1, <3>2
  <2> QED
    BY <2>1
<1>6. next \in Injection(S, S)
  <2>1. next \in [S -> S]
    BY <1>5
  <2>2. \A a, b \in S : next[a] = next[b] => a = b
    OBVIOUS
  <2> QED
    BY <2>1, <2>2 DEF Injection, IsInjective
<1>7. next \in Surjection(S, S)
  <2> HIDE DEF next, S
  <2> QED
    BY <1>3, <1>6, FS_Injection
<1>8. \E n \in S : next[n] = 0
  BY <1>4, <1>7 DEF Surjection
<1> QED
  BY <1>8

LEMMA CartInitHolds == CartInit => CartInv
<1> SUFFICES ASSUME CartInit PROVE CartInv
  OBVIOUS
<1>1. \A g \in StartGroups : g \in Groups
  BY GroupFacts DEF StartGroups
<1>2. /\ menu \in [Dishes -> [price: {Least(Prices)}, available: {TRUE}, edition: {0}, group: StartGroups]]
      /\ edits = 0 /\ shopper \in {"guest", "counter"} /\ view = menu /\ sheet = Nothing /\ cart = {}
      /\ ordering.stage = "idle"
  BY DEF CartInit, NoOrder
<1>3. ASSUME NEW d \in Dishes PROVE menu[d] \in Dish /\ menu[d].edition = 0
  <2>1. menu[d] \in [price: {Least(Prices)}, available: {TRUE}, edition: {0}, group: StartGroups]
    BY <1>2
  <2>2. /\ menu[d] = [price |-> menu[d].price, available |-> menu[d].available,
                      edition |-> menu[d].edition, group |-> menu[d].group]
        /\ menu[d].price = Least(Prices) /\ menu[d].available = TRUE /\ menu[d].edition = 0
        /\ menu[d].group \in StartGroups
    BY <2>1
  <2>3. menu[d].price \in Prices /\ menu[d].group \in Groups /\ 0 \in 0 .. MaxEdits /\ TRUE \in BOOLEAN
    BY <1>1, <2>2, LeastPrice, CartAssumption
  <2> QED
    BY <2>2, <2>3 DEF Dish
<1>4. menu \in [Dishes -> Dish \cup {Nothing}] /\ 0 \in 0 .. MaxEdits
  BY <1>2, <1>3, CartAssumption
<1>5. MenuOK(menu, view, edits)
  BY <1>2, <1>3, <1>4, BeforeOrders DEF MenuOK, Outdated
<1> QED
  BY <1>2, <1>5 DEF CartInv, SheetOK, Quantities, OrderOK, OneMenuPrices

LEMMA CartTyped == CartInv => CartTypeOK
<1> SUFFICES ASSUME CartInv PROVE CartTypeOK
  OBVIOUS
<1>1. ASSUME NEW l \in cart PROVE l \in Line
  <2>1. /\ l.dish \in Dishes /\ l.seen \in Dish /\ l.ids \subseteq LiveIds(l.seen)
        /\ l.unit = UnitPrice(l.seen, l.ids) /\ l.quantity \in 1 .. MaxQuantity + 1
        /\ l = [dish |-> l.dish, ids |-> l.ids, unit |-> l.unit, quantity |-> l.quantity, seen |-> l.seen]
    BY DEF CartInv, LineOK, FairLine, Chosen, Quantities
  <2>2. l.seen.edition \in 0 .. MaxEdits /\ l.seen.edition \in Nat /\ l.seen.group.options \subseteq Extras
        /\ l.seen.price \in Nat
    BY <2>1, BeforeOrders, GroupFacts, CartAssumption DEF Dish
  <2>3. l.ids \subseteq {l.seen.edition} \X Extras
    BY <2>1, <2>2 DEF LiveIds, Ids
  <2>4. IsFiniteSet({l.seen.edition} \X Extras)
    BY CartAssumption, FS_Singleton, FS_Product
  <2>5. Cardinality(l.ids) \in Nat
    BY <2>3, <2>4, FS_Subset, FS_CardinalityType
  <2> DEFINE u == l.unit
             n == Cardinality(l.ids)
             e == l.seen.edition
             p == l.seen.price
  <2>6. u = p + e * n
    BY <2>1 DEF UnitPrice
  <2>7. n \in Nat /\ e \in Nat /\ p \in Nat
    BY <2>2, <2>5
  <2>8. u \in Nat
    <3> HIDE DEF u, n, e, p
    <3> QED
      BY <2>6, <2>7
  <2>9. l.ids \in SUBSET ((0 .. MaxEdits) \X Extras)
    BY <2>2, <2>3
  <2> QED
    BY <2>1, <2>8, <2>9 DEF Line
<1> QED
  BY <1>1 DEF CartInv, MenuOK, SheetOK, Chosen, Quantities, CartTypeOK

\* A cart and an order have finitely many lines, and a line finitely many options,
\* so that their numbers can be held against the limits of the server.
LinesFinite ==
  /\ IsFiniteSet(cart)
  /\ ordering.stage \in {"sent", "found", "priced"} => IsFiniteSet(ordering.lines)

LEMMA AddedIsFinite ==
  ASSUME IsFiniteSet(cart), NEW d, NEW row, NEW ids, NEW n
  PROVE  IsFiniteSet(Added(d, row, ids, n))
<1> DEFINE new == [dish |-> d, ids |-> ids, unit |-> UnitPrice(row, ids), quantity |-> n, seen |-> row]
           more(l) == IF l.dish = d /\ l.ids = ids THEN [l EXCEPT !.quantity = Capped(@ + n)] ELSE l
           raised == {more(l) : l \in cart}
           f == [l \in cart |-> more(l)]
<1>1. Added(d, row, ids, n) = raised \/ Added(d, row, ids, n) = cart \cup {new}
  BY DEF Added
<1>2. f \in Surjection(cart, raised)
  BY DEF Surjection
<1>3. IsFiniteSet(raised)
  BY <1>2, FS_Surjection
<1>4. IsFiniteSet(cart \cup {new})
  BY FS_AddElement
<1> QED
  BY <1>1, <1>3, <1>4

LEMMA LinesStayFinite == LinesFinite /\ [CartNext]_cartVars => LinesFinite'
<1> SUFFICES ASSUME LinesFinite, [CartNext]_cartVars PROVE LinesFinite'
  OBVIOUS
<1> USE DEF LinesFinite
<1>1. CASE UNCHANGED <<cart, ordering>>
  BY <1>1
<1>2. CASE ReopenPage
  BY <1>2, FS_EmptySet DEF ReopenPage
<1>3. CASE AddFromSheet \/ \E d \in Dishes : AddAtOnce(d)
  BY <1>3, AddedIsFinite DEF AddFromSheet, AddAtOnce
<1>4. ASSUME NEW l \in cart, SetQuantity(l) PROVE LinesFinite'
  <2>1. PICK n \in {l.quantity - 1, l.quantity + 1} :
          cart' = IF n = 0 THEN cart \ {l}
                  ELSE (cart \ {l}) \cup
                         {[l EXCEPT !.quantity = IF shopper = "guest" THEN Capped(n) ELSE n]}
    BY <1>4 DEF SetQuantity
  <2>2. IsFiniteSet(cart \ {l})
    BY FS_RemoveElement
  <2>3. IsFiniteSet(cart')
    BY <2>1, <2>2, FS_AddElement
  <2> QED
    BY <1>4, <2>3 DEF SetQuantity
<1>5. CASE SendCart \/ ReadProducts \/ ReadGroups \/ InsertOrder
  BY <1>5 DEF SendCart, ReadProducts, ReadGroups, InsertOrder, Answered, Browses, NoOrder
<1>6. CASE OrderFails \/ TakeAnswer \/ AnswerLost
  BY <1>6, FS_EmptySet DEF OrderFails, TakeAnswer, AnswerLost, Answered, NoOrder
<1>7. CASE Refetch \/ CloseSheet \/ \E id \in (0 .. MaxEdits) \X Extras : Toggle(id)
  BY <1>1, <1>7 DEF Refetch, CloseSheet, Toggle
<1>8. CASE \E d \in Dishes : \/ SaveProduct(d) \/ PatchProduct(d) \/ SetAvailability(d)
                             \/ RemoveProduct(d) \/ OpenSheet(d)
  BY <1>1, <1>8 DEF SaveProduct, PatchProduct, SetAvailability, RemoveProduct, OpenSheet
<1> QED
  BY <1>1, <1>2, <1>3, <1>4, <1>5, <1>6, <1>7, <1>8 DEF CartNext, cartVars

LEMMA LinesStartFinite == CartInit => LinesFinite
BY FS_EmptySet DEF CartInit, LinesFinite, NoOrder

LEMMA ChosenIsFinite ==
  ASSUME NEW row, NEW ids, Chosen(row, ids)
  PROVE  Cardinality(ids) \in Nat
<1>1. row.group.options \subseteq Extras
  BY GroupFacts DEF Chosen, Dish
<1>2. IsFiniteSet(row.group.options)
  BY <1>1, CartAssumption, FS_Subset
<1>3. IsFiniteSet({row.edition} \X row.group.options)
  BY <1>2, FS_Singleton, FS_Product
<1>4. ids \subseteq {row.edition} \X row.group.options
  BY DEF Chosen, LiveIds, Ids
<1> QED
  BY <1>3, <1>4, FS_Subset, FS_CardinalityType

\* A line that is as the menu has it.
UpToDate(l) == menu[l.dish] = l.seen

LEMMA FreshIsAccepted ==
  ASSUME NEW l, LineOK(menu, l), UpToDate(l)
  PROVE  /\ menu[l.dish] # Nothing /\ menu[l.dish].available
         /\ Accepts(l) /\ l.ids \subseteq LiveIds(menu[l.dish])
BY DEF LineOK, FairLine, Chosen, UpToDate, Accepts, FoundGroup, FoundIds

\* An order is refused only for a line that is stale, for more lines than an
\* order may have, or for a line with more portions or more options than a line
\* may have; and a line whose row was still the one the shopper saw is charged
\* its estimate: for any menu and prices, edited by staff at any moment, any such
\* limits, and for either shopper.
THEOREM CartsAreHonoured == CartSpec => CartIsHonoured
<1> DEFINE Honoured ==
      /\ ordering.stage # "refused" /\ ordering'.stage = "refused" =>
            \/ \E l \in ordering.lines :
                  Stale(l) \/ l.quantity > MaxQuantity \/ Cardinality(l.ids) > MaxOptions
            \/ Cardinality(ordering.lines) > MaxLines
      /\ ordering.stage = "found" /\ ordering'.stage = "priced" =>
            \A l \in ordering.lines : ordering.rows[l.dish] = l.seen => ordering'.charge[l] = l.unit
<1>1. ASSUME CartInv, LinesFinite, [CartNext]_cartVars PROVE [Honoured]_cartVars
  <2>1. CASE ordering' = ordering
    BY <2>1
  <2>2. CASE \E to \in {"idle", "placed", "failed", "sent", "found"} : ordering'.stage = to
    BY <2>2
  <2> DEFINE WithinSizes(o) ==
               /\ \A l \in o.lines : /\ ~ Stale(l) /\ ~ (l.quantity > MaxQuantity)
                                     /\ ~ (Cardinality(l.ids) > MaxOptions)
               /\ ~ (Cardinality(o.lines) > MaxLines)
  <2>3. CASE /\ ordering.stage \in {"sent", "found", "priced"} /\ ordering' = [stage |-> "refused"]
             /\ ~ WithinSizes(ordering)
    BY <2>3
  <2>4. CASE ReadProducts \/ ReadGroups \/ InsertOrder
    <3>1. ordering.stage \in {"sent", "found", "priced"} /\ \A l \in ordering.lines : LineOK(menu, l)
      BY <1>1, <2>4 DEF ReadProducts, ReadGroups, InsertOrder, CartInv, OrderOK
    <3>2. WithinSizes(ordering) => ordering'.stage # "refused"
      <4> SUFFICES ASSUME WithinSizes(ordering) PROVE ordering'.stage # "refused"
        OBVIOUS
      <4>1. \A l \in ordering.lines : UpToDate(l)
        BY DEF UpToDate, Stale
      <4>2. ASSUME ReadProducts PROVE FitsSchema(ordering.lines)
        <5>1. Cardinality(ordering.lines) \in Nat
          BY <1>1, <4>2, FS_CardinalityType DEF ReadProducts, LinesFinite
        <5>2. \A l \in ordering.lines : Cardinality(l.ids) \in Nat
          BY <3>1, ChosenIsFinite DEF LineOK, FairLine
        <5>3. \A l \in ordering.lines : l.quantity \in Nat
          BY <3>1 DEF LineOK, FairLine
        <5> QED
          BY <5>1, <5>2, <5>3, CartAssumption DEF FitsSchema
      <4> QED
        BY <2>4, <3>1, <4>1, <4>2, FreshIsAccepted DEF ReadProducts, ReadGroups, InsertOrder, Answered
    <3>3. ordering' = [stage |-> "refused"] \/ ordering'.stage \in {"found", "priced", "placed"}
      BY <2>4 DEF ReadProducts, ReadGroups, InsertOrder, Answered
    <3>4. CASE ordering'.stage = "priced"
      <4>1. ReadGroups
        BY <2>4, <3>4 DEF ReadProducts, InsertOrder, Answered
      <4>2. /\ \A l \in ordering.lines : Accepts(l)
            /\ \A l \in ordering.lines : ordering'.charge[l] = Charge(l)
        BY <3>4, <4>1 DEF ReadGroups, Answered
      <4>3. ASSUME NEW l \in ordering.lines, ordering.rows[l.dish] = l.seen PROVE Charge(l) = l.unit
        <5>1. l.unit = UnitPrice(l.seen, l.ids) /\ l.ids \subseteq LiveIds(l.seen)
              /\ l.seen.edition \in Nat
          BY <3>1, BeforeOrders DEF LineOK, FairLine, Chosen
        <5>2. CASE l.ids = {}
          <6>1. Cardinality(l.ids) = 0 /\ l.seen.edition * 0 = 0
            BY <5>1, <5>2, FS_EmptySet
          <6>2. Charge(l) = l.seen.price + 0 /\ UnitPrice(l.seen, l.ids) = l.seen.price + 0
            BY <4>3, <5>2, <6>1 DEF Charge, UnitPrice
          <6> QED
            BY <5>1, <6>2
        <5>3. CASE l.ids # {}
          <6>1. PICK id \in l.ids : TRUE
            BY <5>3
          <6>2. menu[l.dish] # Nothing /\ l.ids \subseteq LiveIds(menu[l.dish])
            BY <4>2, <5>3 DEF Accepts, FoundIds
          <6>3. menu[l.dish].edition = l.seen.edition
            BY <5>1, <6>1, <6>2 DEF LiveIds, Ids
          <6> QED
            BY <4>3, <5>1, <5>3, <6>3 DEF Charge, UnitPrice
        <5> QED
          BY <5>2, <5>3
      <4> QED
        BY <3>4, <4>2, <4>3
    <3> QED
      BY <2>2, <2>3, <3>1, <3>2, <3>3, <3>4
  <2>5. CASE UNCHANGED cartVars
    BY <2>5
  <2>6. CASE SendCart \/ OrderFails \/ TakeAnswer \/ AnswerLost
    BY <2>2, <2>6 DEF SendCart, OrderFails, TakeAnswer, AnswerLost, Answered, NoOrder
  <2>7. CASE ReopenPage \/ Refetch \/ CloseSheet \/ AddFromSheet \/ \E l \in cart : SetQuantity(l)
    BY <2>1, <2>7 DEF ReopenPage, Refetch, CloseSheet, AddFromSheet, SetQuantity
  <2>8. CASE \/ \E d \in Dishes : \/ SaveProduct(d) \/ PatchProduct(d) \/ SetAvailability(d)
                                  \/ RemoveProduct(d) \/ OpenSheet(d) \/ AddAtOnce(d)
             \/ \E id \in (0 .. MaxEdits) \X Extras : Toggle(id)
    BY <2>1, <2>8 DEF SaveProduct, PatchProduct, SetAvailability, RemoveProduct, OpenSheet, AddAtOnce, Toggle
  <2> QED
    BY <1>1, <2>4, <2>5, <2>6, <2>7, <2>8 DEF CartNext
<1> QED
  BY <1>1, CartInitHolds, CartNextKeeps, LinesStartFinite, LinesStayFinite, PTL
     DEF CartSpec, CartIsHonoured

\* Every line is charged what one of the two menus read asks for its options,
\* whatever staff save in between, and everything has its type.
THEOREM OneMenuEach == CartSpec => [](CartTypeOK /\ OneMenuPrices)
<1>1. CartInv => CartTypeOK /\ OneMenuPrices
  BY CartTyped DEF CartInv
<1> QED
  BY <1>1, CartInitHolds, CartNextKeeps, PTL DEF CartSpec

-----------------------------------------------------------------------------
(* GuestCalls: no bar ever shows a call that is not there, though fetches   *)
(* are thrown away and answer late.                                         *)

LEMMA AwayIsATap == NoTap \in TapState
BY CallsAreCounted DEF NoTap, TapState, AnySpot

LEMMA FetchesAreTyped == NoFetch \in Fetch /\ NewFetch \in Fetch
BY DEF NoFetch, NewFetch, Fetch

LEMMA OpenAreCalls == OpenCalls \subseteq DOMAIN calls
BY DEF OpenCalls

LEMMA FloorInitTyped == FloorInit => FloorTypeOK
<1> SUFFICES ASSUME FloorInit PROVE FloorTypeOK
  OBVIOUS
<1>1. calls \in Seq(Call) /\ Len(calls) = 0
  BY DEF FloorInit
<1>2. tap \in [Taps -> TapState]
  BY AwayIsATap DEF FloorInit
<1>3. fetch \in [Screens -> Fetch] /\ \A s \in Screens : fetch[s].list = {}
  BY FetchesAreTyped DEF FloorInit, NoFetch
<1>4. shown \in [Screens -> SUBSET DOMAIN calls] /\ socket \subseteq Screens
  BY DEF FloorInit
<1>5. updates \in 0 .. MaxUpdates /\ misses \in 0 .. MaxMisses
  BY CallsAreCounted DEF FloorInit
<1> QED
  BY <1>1, <1>2, <1>3, <1>4, <1>5, CallsAreCounted DEF FloorTypeOK

\* The part of the invariant that speaks of the screens.
ScreensTyped ==
  /\ fetch \in [Screens -> Fetch]
  /\ shown \in [Screens -> SUBSET DOMAIN calls]
  /\ \A s \in Screens : fetch[s].list \subseteq DOMAIN calls

\* Calls are never deleted: what screens have read stays there.
LEMMA ScreensStay ==
  ASSUME ScreensTyped, DOMAIN calls \subseteq DOMAIN calls', UNCHANGED <<fetch, shown>>
  PROVE  ScreensTyped'
<1>1. \A s \in Screens : shown[s] \subseteq DOMAIN calls'
  BY DEF ScreensTyped
<1> QED
  BY <1>1 DEF ScreensTyped

\* A screen that asks anew has nothing to show yet.
LEMMA FetchesAnew ==
  ASSUME ScreensTyped, DOMAIN calls' = DOMAIN calls, shown' = shown,
         NEW f \in [Screens -> Fetch], fetch' = f,
         \A s \in Screens : f[s].list \subseteq DOMAIN calls
  PROVE  ScreensTyped'
BY DEF ScreensTyped

LEMMA ToldIsTyped ==
  ASSUME ScreensTyped
  PROVE  Told \in [Screens -> Fetch] /\ \A s \in Screens : Told[s].list \subseteq DOMAIN calls
BY FetchesAreTyped DEF ScreensTyped, Told, NewFetch

LEMMA FloorNextTyped == FloorTypeOK /\ [FloorNext]_floorVars => FloorTypeOK'
<1> SUFFICES ASSUME FloorTypeOK, [FloorNext]_floorVars PROVE FloorTypeOK'
  OBVIOUS
<1>s. ScreensTyped
  BY DEF FloorTypeOK, ScreensTyped
<1>t. ASSUME /\ calls' \in Seq(Call) /\ Len(calls') <= MaxCalls
             /\ tap' \in [Taps -> TapState]
             /\ socket' \subseteq Screens
             /\ ScreensTyped'
             /\ updates' \in 0 .. MaxUpdates /\ misses' \in 0 .. MaxMisses
      PROVE  FloorTypeOK'
  BY <1>t DEF FloorTypeOK, ScreensTyped
<1>1. ASSUME NEW g \in Taps, NEW spot \in Spots, TapButton(g, spot) PROVE FloorTypeOK'
  <2>1. tap' \in [Taps -> TapState]
    BY <1>1 DEF TapButton, FloorTypeOK, TapState
  <2>2. UNCHANGED <<calls, socket, fetch, shown, updates, misses>>
    BY <1>1 DEF TapButton
  <2> QED
    BY <2>1, <2>2, <1>s, <1>t, ScreensStay DEF FloorTypeOK
<1>2. ASSUME NEW g \in Taps, CreateCall(g) PROVE FloorTypeOK'
  <2> DEFINE new == [spot |-> tap[g].spot, status |-> "OPEN"]
  <2>1. new \in Call
    BY DEF FloorTypeOK, TapState, Call, CallStatuses
  <2>2. calls' = Append(calls, new) /\ Len(calls) < MaxCalls
    BY <1>2 DEF CreateCall
  <2> HIDE DEF new
  <2>3. calls' \in Seq(Call) /\ Len(calls') = Len(calls) + 1 /\ Len(calls) \in Nat
    BY <2>1, <2>2, AppendProperties DEF FloorTypeOK
  <2>4. DOMAIN calls \subseteq DOMAIN calls'
    BY <2>3 DEF FloorTypeOK
  <2>5. tap' \in [Taps -> TapState]
    BY <1>2 DEF CreateCall, FloorTypeOK, TapState
  <2>6. UNCHANGED <<socket, fetch, shown, updates, misses>>
    BY <1>2 DEF CreateCall
  <2>7. ScreensTyped'
    BY <2>4, <2>6, <1>s, ScreensStay
  <2>8. Len(calls') <= MaxCalls
    BY <2>2, <2>3, CallsAreCounted
  <2> QED
    BY <2>3, <2>5, <2>6, <2>7, <2>8, <1>t DEF FloorTypeOK
<1>3. ASSUME NEW g \in Taps, Tell(g) PROVE FloorTypeOK'
  <2>1. tap' \in [Taps -> TapState]
    BY <1>3, AwayIsATap DEF Tell, FloorTypeOK
  <2>2. fetch' = Told /\ UNCHANGED <<calls, socket, shown, updates, misses>>
    BY <1>3 DEF Tell
  <2>3. ScreensTyped'
    BY <2>2, <1>s, ToldIsTyped, FetchesAnew
  <2> QED
    BY <2>1, <2>2, <2>3, <1>t DEF FloorTypeOK
<1>4. ASSUME NEW g \in Taps, TapBreaks(g) PROVE FloorTypeOK'
  <2>1. tap' \in [Taps -> TapState]
    BY <1>4, AwayIsATap DEF TapBreaks, FloorTypeOK
  <2>2. UNCHANGED <<calls, socket, fetch, shown, updates>> /\ misses' \in 0 .. MaxMisses
    BY <1>4, CallsAreCounted DEF TapBreaks, FloorTypeOK
  <2> QED
    BY <2>1, <2>2, <1>s, <1>t, ScreensStay DEF FloorTypeOK
<1>5. ASSUME NEW s \in Screens, SocketChanges(s) PROVE FloorTypeOK'
  <2>1. socket' \subseteq Screens /\ UNCHANGED <<calls, tap, fetch, shown, updates, misses>>
    BY <1>5 DEF SocketChanges, FloorTypeOK
  <2> QED
    BY <2>1, <1>s, <1>t, ScreensStay DEF FloorTypeOK
<1>6. ASSUME NEW s \in Screens, NEW f \in Fetch, f.list \subseteq DOMAIN calls,
             fetch' = [fetch EXCEPT ![s] = f],
             UNCHANGED <<calls, tap, socket, shown, updates>>, misses' \in 0 .. MaxMisses
      PROVE  FloorTypeOK'
  <2> DEFINE fs == [fetch EXCEPT ![s] = f]
  <2>1. fs \in [Screens -> Fetch] /\ \A x \in Screens : fs[x].list \subseteq DOMAIN calls
    BY <1>6, <1>s DEF ScreensTyped
  <2>2. fetch' = fs
    BY <1>6
  <2> HIDE DEF fs
  <2>3. ScreensTyped'
    BY <2>1, <2>2, <1>6, <1>s, FetchesAnew
  <2> QED
    BY <2>3, <1>6, <1>t DEF FloorTypeOK
<1>7. ASSUME NEW s \in Screens, Poll(s) \/ FetchFails(s) PROVE FloorTypeOK'
  <2>1. misses' \in 0 .. MaxMisses /\ UNCHANGED <<calls, tap, socket, shown, updates>>
    BY <1>7, CallsAreCounted DEF Poll, FetchFails, FloorTypeOK
  <2>2. PICK f \in {NoFetch, NewFetch} : fetch' = [fetch EXCEPT ![s] = f]
    BY <1>7 DEF Poll, FetchFails
  <2>3. f \in Fetch /\ f.list \subseteq DOMAIN calls
    BY FetchesAreTyped DEF NoFetch, NewFetch
  <2> QED
    BY <2>1, <2>2, <2>3, <1>6
<1>8. ASSUME NEW s \in Screens, ListOpenCalls(s) PROVE FloorTypeOK'
  <2> DEFINE f == [stage |-> "answered", list |-> OpenCalls]
  <2>1. DOMAIN calls = 1 .. Len(calls) /\ Len(calls) \in Nat /\ Len(calls) <= MaxCalls
    BY DEF FloorTypeOK
  <2>2. OpenCalls \subseteq 1 .. MaxCalls
    BY <2>1, OpenAreCalls, CallsAreCounted
  <2>3. f \in Fetch /\ f.list \subseteq DOMAIN calls
    BY <2>2, OpenAreCalls DEF Fetch
  <2>4. fetch' = [fetch EXCEPT ![s] = f]
    BY <1>8 DEF ListOpenCalls
  <2>5. UNCHANGED <<calls, tap, socket, shown, updates>> /\ misses' \in 0 .. MaxMisses
    BY <1>8 DEF ListOpenCalls, FloorTypeOK
  <2> HIDE DEF f
  <2> QED
    BY <2>3, <2>4, <2>5, <1>6
<1>9. ASSUME NEW s \in Screens, Show(s) PROVE FloorTypeOK'
  <2>1. /\ shown' = [shown EXCEPT ![s] = fetch[s].list]
        /\ fetch' = [fetch EXCEPT ![s] = NoFetch]
        /\ UNCHANGED <<calls, tap, socket, updates, misses>>
    BY <1>9 DEF Show
  <2>2. shown' \in [Screens -> SUBSET DOMAIN calls]
    BY <2>1, <1>s DEF ScreensTyped
  <2>3. fetch' \in [Screens -> Fetch] /\ \A x \in Screens : fetch'[x].list \subseteq DOMAIN calls
    BY <2>1, <1>s, FetchesAreTyped DEF ScreensTyped, NoFetch
  <2>4. ScreensTyped'
    BY <2>1, <2>2, <2>3 DEF ScreensTyped
  <2> QED
    BY <2>1, <2>4, <1>t DEF FloorTypeOK
<1>10. ASSUME NEW s \in Screens, NEW c \in shown[s], NEW st \in {"ACKNOWLEDGED", "RESOLVED"},
              UpdateCall(s, c, st)
       PROVE  FloorTypeOK'
  <2> DEFINE row == [calls[c] EXCEPT !.status = st]
  <2>1. c \in DOMAIN calls /\ calls[c] \in Call
    BY <1>s DEF ScreensTyped, FloorTypeOK
  <2>2. row \in Call
    BY <2>1 DEF Call, CallStatuses
  <2>3. calls' = [calls EXCEPT ![c] = row]
    BY <1>10 DEF UpdateCall
  <2> HIDE DEF row
  <2>4. calls' \in Seq(Call) /\ Len(calls') = Len(calls) /\ DOMAIN calls' = DOMAIN calls
    BY <2>1, <2>2, <2>3, ExceptSeq DEF FloorTypeOK
  <2> DEFINE f == [Told EXCEPT ![s] = NewFetch]
  <2>5. f \in [Screens -> Fetch] /\ \A x \in Screens : f[x].list \subseteq DOMAIN calls
    BY <1>s, ToldIsTyped, FetchesAreTyped DEF NewFetch
  <2>6. fetch' = f /\ UNCHANGED <<tap, socket, shown, misses>> /\ updates' \in 0 .. MaxUpdates
    BY <1>10, CallsAreCounted DEF UpdateCall, FloorTypeOK
  <2> HIDE DEF f
  <2>7. ScreensTyped'
    BY <2>4, <2>5, <2>6, <1>s, FetchesAnew
  <2> QED
    BY <2>4, <2>6, <2>7, <1>t DEF FloorTypeOK
<1>11. CASE UNCHANGED floorVars
  BY <1>11, <1>s, <1>t, ScreensStay DEF floorVars, FloorTypeOK
<1> QED
  BY <1>1, <1>2, <1>3, <1>4, <1>5, <1>7, <1>8, <1>9, <1>10, <1>11 DEF FloorNext

LEMMA FloorTyped == FloorSpec => []FloorTypeOK
BY FloorInitTyped, FloorNextTyped, PTL DEF FloorSpec

-----------------------------------------------------------------------------
(* OrderScreens: a rail never shows a ticket that is not the kitchen's, nor *)
(* a guest's page another guest's order, however late their rows come.      *)

\* Rows a screen may show, or be sent.
MayShow(p, rows) ==
  \A row \in rows :
    IF p \in Kitchens THEN row \in RailTicket /\ row.status \in KitchenActive
    ELSE row \in SlipRow /\ row.id = p

QueryOK(p, q) == q.stage \in {"idle", "asking", "answered"} /\ MayShow(p, q.rows)

MoverOK(w) ==
  \/ w = AtRest
  \/ w.stage = "answering" /\ w.place \in Kitchens
  \/ /\ w.stage = "moving" /\ w.place \in Kitchens \cup {Counter}
     /\ w.order \in Slips /\ w.to \in OrderStatus

SlipsOK == slip \in [Slips -> SlipRow] /\ \A o \in Slips : slip[o].id = o
MoversOK == mover = [m \in Movers |-> mover[m]] /\ \A m \in Movers : MoverOK(mover[m])
AskedOK == asked = [p \in Screened |-> asked[p]] /\ \A p \in Screened : QueryOK(p, asked[p])
CopyOK == copy = [p \in Screened |-> copy[p]] /\ \A p \in Screened : MayShow(p, copy[p])
CountsOK == taps \in 0 .. MaxTaps /\ faults \in 0 .. MaxFaults

RailInv ==
  /\ SlipsOK /\ MoversOK /\ AskedOK /\ CopyOK /\ CountsOK
  /\ news \subseteq Events /\ up \subseteq Screened

LEMMA RailInvTyped == RailInv => RailTypeOK
<1> SUFFICES ASSUME RailInv PROVE RailTypeOK
  OBVIOUS
<1>1. \A m \in Movers :
         \/ mover[m] = AtRest
         \/ mover[m].stage = "answering" /\ mover[m].place \in Kitchens
         \/ /\ mover[m].stage = "moving" /\ mover[m].place \in Kitchens \cup {Counter}
            /\ mover[m].order \in Slips /\ mover[m].to \in OrderStatus
  BY DEF RailInv, MoversOK, MoverOK
<1>2. \A p \in Screened :
         /\ asked[p].stage \in {"idle", "asking", "answered"}
         /\ \A row \in copy[p] \cup asked[p].rows :
              IF p \in Kitchens THEN row \in RailTicket /\ row.status \in KitchenActive
                                ELSE row \in SlipRow /\ row.id = p
  BY DEF RailInv, AskedOK, CopyOK, QueryOK, MayShow
<1> QED
  BY <1>1, <1>2 DEF RailInv, SlipsOK, CountsOK, RailTypeOK

LEMMA NoQueryIsOK == \A p : QueryOK(p, NoQuery) /\ QueryOK(p, NewQuery)
BY DEF QueryOK, MayShow, NoQuery, NewQuery

LEMMA RailInitHolds == RailInit => RailInv
<1> SUFFICES ASSUME RailInit PROVE RailInv
  OBVIOUS
<1>1. /\ slip \in [Slips -> SlipRow]
      /\ \A o \in Slips : slip[o].id = o
      /\ news \subseteq Events /\ up \subseteq Screened
  <2> DEFINE Blank == {row \in SlipRow : row.status = "UNPLACED" /\ row.rounds = 0 /\ row.paid = "PENDING"}
  <2>1. slip \in [Slips -> Blank] /\ Blank \subseteq SlipRow
    BY DEF RailInit
  <2> HIDE DEF Blank
  <2>2. slip \in [Slips -> SlipRow]
    BY <2>1
  <2> QED
    BY <2>2 DEF RailInit
<1>2. mover = [m \in Movers |-> mover[m]] /\ \A m \in Movers : MoverOK(mover[m])
  BY DEF RailInit, MoverOK
<1>3. asked = [p \in Screened |-> asked[p]] /\ \A p \in Screened : QueryOK(p, asked[p])
  BY NoQueryIsOK DEF RailInit
<1>4. copy = [p \in Screened |-> copy[p]] /\ \A p \in Screened : MayShow(p, copy[p])
  BY DEF RailInit, MayShow
<1>5. taps \in 0 .. MaxTaps /\ faults \in 0 .. MaxFaults
  BY ScreensAssumption DEF RailInit
<1> QED
  BY <1>1, <1>2, <1>3, <1>4, <1>5 DEF RailInv, SlipsOK, MoversOK, AskedOK, CopyOK, CountsOK

LEMMA MoverWritten ==
  ASSUME MoversOK, NEW m \in Movers, NEW w, MoverOK(w), mover' = [mover EXCEPT ![m] = w]
  PROVE  MoversOK'
<1>1. \A x \in Movers : mover'[x] = IF x = m THEN w ELSE mover[x]
  BY DEF MoversOK
<1>2. \A x \in Movers : MoverOK(mover'[x])
  BY <1>1 DEF MoversOK
<1>3. mover' = [x \in Movers |-> mover'[x]]
  BY DEF MoversOK
<1> QED
  BY <1>2, <1>3 DEF MoversOK, MoverOK

LEMMA QueryWritten ==
  ASSUME AskedOK, NEW p \in Screened, NEW q, QueryOK(p, q), asked' = [asked EXCEPT ![p] = q]
  PROVE  AskedOK'
<1>1. \A x \in Screened : asked'[x] = IF x = p THEN q ELSE asked[x]
  BY DEF AskedOK
<1>2. \A x \in Screened : QueryOK(x, asked'[x])
  BY <1>1 DEF AskedOK
<1>3. asked' = [x \in Screened |-> asked'[x]]
  BY DEF AskedOK
<1> QED
  BY <1>2, <1>3 DEF AskedOK, QueryOK, MayShow

LEMMA AsksKeeps ==
  ASSUME AskedOK, NEW pages, Asks(pages)
  PROVE  AskedOK'
<1>1. \A x \in Screened : asked'[x] = NewQuery \/ asked'[x] = asked[x]
  BY DEF Asks
<1>2. \A x \in Screened : QueryOK(x, asked'[x])
  BY <1>1, NoQueryIsOK DEF AskedOK
<1>3. asked' = [x \in Screened |-> asked'[x]]
  BY DEF Asks
<1> QED
  BY <1>2, <1>3 DEF AskedOK, QueryOK, MayShow

\* A row keeps its name whatever else is written of it.
LEMMA SlipWritten ==
  ASSUME SlipsOK, NEW o \in Slips, NEW row \in SlipRow, row.id = o,
         slip' = [slip EXCEPT ![o] = row]
  PROVE  SlipsOK'
BY DEF SlipsOK

LEMMA AnnouncedKeeps ==
  ASSUME news \subseteq Events, NEW kind \in {"order", "payment"}, NEW o \in Slips, Announce(kind, o)
  PROVE  news' \subseteq Events
BY DEF Announce, Events

LEMMA AnsweringIsOK == \A place : MoverOK(Answering(place)) /\ MoverOK(AtRest)
BY DEF MoverOK, Answering, AtRest

\* The rows sent to a screen are its own.
LEMMA RowsAreOwn ==
  ASSUME SlipsOK, NEW p \in Screened
  PROVE  MayShow(p, RowsFor(p))
<1>1. CASE p \in Kitchens
  <2>1. ASSUME NEW o \in Slips, slip[o].status \in KitchenActive
        PROVE  TicketOf(slip[o]) \in RailTicket /\ TicketOf(slip[o]).status \in KitchenActive
    <3>1. /\ slip[o].id \in Slips /\ slip[o].type \in OrderType
          /\ slip[o].status \in OrderStatus /\ slip[o].rounds \in 0 .. MaxRounds
      BY <2>1 DEF SlipsOK, SlipRow, KitchenActive, OrderStatus, ActiveStatus
    <3>2. TicketOf(slip[o]) = [id |-> slip[o].id, type |-> slip[o].type,
                               status |-> slip[o].status, rounds |-> slip[o].rounds]
      BY DEF TicketOf
    <3> QED
      BY <2>1, <3>1, <3>2 DEF RailTicket
  <2> QED
    BY <1>1, <2>1 DEF MayShow, RowsFor
<1>2. CASE p \notin Kitchens
  <2>1. p \in Slips
    BY <1>2 DEF Screened
  <2> QED
    BY <1>2, <2>1 DEF MayShow, RowsFor, SlipsOK
<1> QED
  BY <1>1, <1>2

LEMMA StatusesAreStatuses ==
  ASSUME NEW type \in OrderType, NEW from, NEW to, CanTransition(type, from, to)
  PROVE  to \in OrderStatus
BY DEF CanTransition, TransitionTable, SharedHops, Cancellable, DineInHops, DeliveryHops,
       TakeawayHops, OrderStatus, ActiveStatus, Terminal, OrderType

LEMMA RailNextKeeps == RailInv /\ [RailNext]_railVars => RailInv'
<1> SUFFICES ASSUME RailInv, [RailNext]_railVars PROVE RailInv'
  OBVIOUS
<1>p. /\ SlipsOK /\ MoversOK /\ AskedOK /\ CopyOK /\ CountsOK
      /\ news \subseteq Events /\ up \subseteq Screened
  BY DEF RailInv
<1>q. ASSUME SlipsOK', MoversOK', AskedOK', CopyOK', CountsOK', news' \subseteq Events, up' \subseteq Screened
      PROVE  RailInv'
  BY <1>q DEF RailInv
<1>k. /\ slip' = slip => SlipsOK'
      /\ mover' = mover => MoversOK'
      /\ asked' = asked => AskedOK'
      /\ copy' = copy => CopyOK'
      /\ UNCHANGED <<taps, faults>> => CountsOK'
  <2>1. slip' = slip => SlipsOK'
    BY <1>p DEF SlipsOK
  <2>2. mover' = mover => MoversOK'
    BY <1>p DEF MoversOK, MoverOK
  <2>3. asked' = asked => AskedOK'
    BY <1>p DEF AskedOK, QueryOK, MayShow
  <2>4. copy' = copy => CopyOK'
    BY <1>p DEF CopyOK, MayShow
  <2>5. UNCHANGED <<taps, faults>> => CountsOK'
    BY <1>p DEF CountsOK
  <2> QED
    BY <2>1, <2>2, <2>3, <2>4, <2>5
<1>1. ASSUME NEW o \in Slips, NEW st \in {"PENDING", "SENT_TO_KITCHEN"}, PlaceSlip(o, st)
      PROVE  RailInv'
  <2> DEFINE row == [slip[o] EXCEPT !.status = st]
  <2>1. row \in SlipRow /\ row.id = o
    BY <1>p DEF SlipsOK, SlipRow, OrderStatus, ActiveStatus
  <2>2. slip' = [slip EXCEPT ![o] = row] /\ Asks({o}) /\ Announce("order", o)
        /\ UNCHANGED <<mover, up, copy, taps, faults>>
    BY <1>1 DEF PlaceSlip
  <2> HIDE DEF row
  <2> QED
    BY <2>1, <2>2, <1>p, <1>q, <1>k, SlipWritten, AsksKeeps, AnnouncedKeeps
<1>2. ASSUME NEW o \in Slips, AddToSlip(o) PROVE RailInv'
  <2> DEFINE row == [slip[o] EXCEPT !.rounds = @ + 1]
  <2>1. row \in SlipRow /\ row.id = o
    BY <1>2, <1>p, ScreensAssumption DEF AddToSlip, SlipsOK, SlipRow
  <2>2. slip' = [slip EXCEPT ![o] = row] /\ Announce("order", o)
        /\ UNCHANGED <<mover, up, asked, copy, taps, faults>>
    BY <1>2 DEF AddToSlip
  <2> HIDE DEF row
  <2> QED
    BY <2>1, <2>2, <1>p, <1>q, <1>k, SlipWritten, AnnouncedKeeps
<1>3. ASSUME NEW o \in Slips, PaySlip(o) PROVE RailInv'
  <2> DEFINE row == [slip[o] EXCEPT !.paid = "PAID"]
  <2>1. row \in SlipRow /\ row.id = o
    BY <1>p DEF SlipsOK, SlipRow
  <2>2. slip' = [slip EXCEPT ![o] = row] /\ Announce("payment", o)
        /\ UNCHANGED <<mover, up, asked, copy, taps, faults>>
    BY <1>3 DEF PaySlip
  <2> HIDE DEF row
  <2> QED
    BY <2>1, <2>2, <1>p, <1>q, <1>k, SlipWritten, AnnouncedKeeps
<1>4. ASSUME NEW o \in Slips, RefundSlip(o) PROVE RailInv'
  <2> DEFINE row == [slip[o] EXCEPT !.paid = "REFUNDED"]
  <2>1. row \in SlipRow /\ row.id = o
    BY <1>p DEF SlipsOK, SlipRow
  <2>2. slip' = [slip EXCEPT ![o] = row] /\ UNCHANGED <<news, mover, up, asked, copy, taps, faults>>
    BY <1>4 DEF RefundSlip
  <2> HIDE DEF row
  <2> QED
    BY <2>1, <2>2, <1>p, <1>q, <1>k, SlipWritten
<1>5. ASSUME NEW m \in Movers, NEW o \in Slips, NEW to \in OrderStatus, MoveSlip(m, o, to)
      PROVE  RailInv'
  <2> DEFINE w == Moving(Counter, o, to)
  <2>1. MoverOK(w)
    BY DEF MoverOK, Moving
  <2>2. mover' = [mover EXCEPT ![m] = w] /\ UNCHANGED <<slip, news, up, asked, copy, taps, faults>>
    BY <1>5 DEF MoveSlip
  <2> HIDE DEF w
  <2> QED
    BY <2>1, <2>2, <1>p, <1>q, <1>k, MoverWritten
<1>6. ASSUME NEW m \in Movers, CommitSlip(m) PROVE RailInv'
  <2> DEFINE o == mover[m].order
             row == [slip[o] EXCEPT !.status = mover[m].to]
  <2>1. o \in Slips /\ mover[m].to \in OrderStatus
    BY <1>6, <1>p DEF CommitSlip, MoversOK, MoverOK, AtRest
  <2>2. row \in SlipRow /\ row.id = o
    BY <2>1, <1>p DEF SlipsOK, SlipRow
  <2>3. /\ slip' = [slip EXCEPT ![o] = row]
        /\ mover' = [mover EXCEPT ![m] = Answering(mover[m].place)]
        /\ Announce("order", o)
        /\ UNCHANGED <<up, asked, copy, taps, faults>>
    BY <1>6 DEF CommitSlip
  <2> HIDE DEF row, o
  <2> QED
    BY <2>1, <2>2, <2>3, <1>p, <1>q, <1>k, SlipWritten, MoverWritten, AnsweringIsOK, AnnouncedKeeps
<1>7. ASSUME NEW m \in Movers, HearAnswer(m) PROVE RailInv'
  <2>1. mover' = [mover EXCEPT ![m] = AtRest] /\ Asks({mover[m].place})
        /\ UNCHANGED <<slip, news, up, copy, taps, faults>>
    BY <1>7 DEF HearAnswer
  <2> QED
    BY <2>1, <1>p, <1>q, <1>k, MoverWritten, AnsweringIsOK, AsksKeeps
<1>8. ASSUME NEW m \in Movers, MoveFails(m) PROVE RailInv'
  <2>1. mover' = [mover EXCEPT ![m] = Answering(mover[m].place)]
        /\ UNCHANGED <<slip, news, up, asked, copy, taps>>
    BY <1>8 DEF MoveFails
  <2>2. CountsOK'
    BY <1>8, <1>p, ScreensAssumption DEF MoveFails, CountsOK
  <2> QED
    BY <2>1, <2>2, <1>p, <1>q, <1>k, MoverWritten, AnsweringIsOK
<1>9. ASSUME NEW m \in Movers, NEW k \in Kitchens, NEW card \in copy[k], TapTicket(m, k, card)
      PROVE  RailInv'
  <2> DEFINE to == NextStatus(card)
             w == IF Allows(slip[card.id], to) THEN Moving(k, card.id, to) ELSE Answering(k)
  <2>1. card.id \in Slips
    BY <1>p DEF CopyOK, MayShow, Screened, RailTicket
  <2>2. slip[card.id].type \in OrderType
    BY <2>1, <1>p DEF SlipsOK, SlipRow
  <2>3. Allows(slip[card.id], to) => to \in OrderStatus
    BY <2>2, StatusesAreStatuses DEF Allows
  <2> HIDE DEF to
  <2>4. MoverOK(w)
    BY <2>1, <2>3, AnsweringIsOK DEF MoverOK, Moving
  <2>5. mover' = [mover EXCEPT ![m] = w] /\ UNCHANGED <<slip, news, up, asked, copy, faults>>
    BY <1>9 DEF TapTicket, to
  <2>6. CountsOK'
    BY <1>9, <1>p, ScreensAssumption DEF TapTicket, CountsOK
  <2> HIDE DEF w
  <2> QED
    BY <2>4, <2>5, <2>6, <1>p, <1>q, <1>k, MoverWritten
<1>10. ASSUME NEW event \in news, NEW wired \in SUBSET up, EmitEvent(event, wired) PROVE RailInv'
  <2>1. Asks(wired) /\ news' \subseteq news /\ UNCHANGED <<slip, mover, up, copy, taps, faults>>
    BY <1>10 DEF EmitEvent
  <2> QED
    BY <2>1, <1>p, <1>q, <1>k, AsksKeeps
<1>11. ASSUME NEW p \in Screened, PollRows(p) \/ ReadRows(p) \/ QueryFails(p) PROVE RailInv'
  <2>1. PICK q \in {NoQuery, NewQuery, Fetched(RowsFor(p))} : asked' = [asked EXCEPT ![p] = q]
    BY <1>11 DEF PollRows, ReadRows, QueryFails
  <2>2. QueryOK(p, Fetched(RowsFor(p)))
    BY <1>p, RowsAreOwn DEF QueryOK, Fetched
  <2>3. QueryOK(p, q)
    BY <2>1, <2>2, NoQueryIsOK
  <2>4. UNCHANGED <<slip, news, mover, up, copy>> /\ CountsOK'
    BY <1>11, <1>p, ScreensAssumption DEF PollRows, ReadRows, QueryFails, CountsOK
  <2> QED
    BY <2>1, <2>3, <2>4, <1>p, <1>q, <1>k, QueryWritten
<1>12. ASSUME NEW p \in Screened, ShowRows(p) PROVE RailInv'
  <2>1. /\ copy' = [copy EXCEPT ![p] = asked[p].rows]
        /\ asked' = [asked EXCEPT ![p] = NoQuery]
        /\ UNCHANGED <<slip, news, mover, up, taps, faults>>
    BY <1>12 DEF ShowRows
  <2>2. MayShow(p, asked[p].rows)
    BY <1>p DEF AskedOK, QueryOK
  <2>3. \A x \in Screened : copy'[x] = IF x = p THEN asked[p].rows ELSE copy[x]
    BY <2>1, <1>p DEF CopyOK
  <2>4. \A x \in Screened : MayShow(x, copy'[x])
    BY <2>2, <2>3, <1>p DEF CopyOK
  <2>5. copy' = [x \in Screened |-> copy'[x]]
    BY <2>1, <1>p DEF CopyOK
  <2>6. CopyOK'
    BY <2>4, <2>5 DEF CopyOK, MayShow
  <2> QED
    BY <2>1, <2>6, <1>p, <1>q, <1>k, QueryWritten, NoQueryIsOK
<1>13. CASE UNCHANGED railVars
  BY <1>13, <1>p, <1>q, <1>k DEF railVars
<1> QED
  BY <1>1, <1>2, <1>3, <1>4, <1>5, <1>6, <1>7, <1>8, <1>9, <1>10, <1>11, <1>12, <1>13 DEF RailNext

LEMMA RailInvHolds == RailSpec => []RailInv
BY RailInitHolds, RailNextKeeps, PTL DEF RailSpec

-----------------------------------------------------------------------------
(* Subscriptions: the types of the requests                                 *)

\* A request has the fields of its stage.
Shaped(w) ==
  \/ w = Free
  \/ w = Submitting(w.plan)
  \/ w = Settling(w.invoice, w.status)
  \/ w = Activating(w.invoice)
  \/ w = Writing(w.invoice, w.kind, w.patch)
  \/ w = Flagging(w.kind, w.active)

SubShapes ==
  /\ onSale \subseteq Plans
  /\ tenant \in {"absent", "active", "inactive"}
  /\ lastWord \in {"payment", "status", "switch"}
  /\ hands \in 0 .. MaxHands
  /\ \A r \in Requests : Shaped(request[r])

LEMMA ShapesAre ==
  /\ Shaped(Free)
  /\ \A p : Shaped(Submitting(p))
  /\ \A i, st : Shaped(Settling(i, st))
  /\ \A i : Shaped(Activating(i))
  /\ \A i, kind, patch : Shaped(Writing(i, kind, patch))
  /\ \A kind, active : Shaped(Flagging(kind, active))
<1>1. Shaped(Free)
  BY DEF Shaped
<1>2. ASSUME NEW p PROVE Shaped(Submitting(p))
  BY DEF Shaped, Submitting
<1>3. ASSUME NEW i, NEW st PROVE Shaped(Settling(i, st))
  BY DEF Shaped, Settling
<1>4. ASSUME NEW i PROVE Shaped(Activating(i))
  BY DEF Shaped, Activating
<1>5. ASSUME NEW i, NEW kind, NEW patch PROVE Shaped(Writing(i, kind, patch))
  BY DEF Shaped, Writing
<1>6. ASSUME NEW kind, NEW active PROVE Shaped(Flagging(kind, active))
  BY DEF Shaped, Flagging
<1> QED
  BY <1>1, <1>2, <1>3, <1>4, <1>5, <1>6

LEMMA RequestTyped ==
  ASSUME NEW w, Shaped(w), RequestOK(w)
  PROVE  w \in RequestStates
<1>1. CASE w = Free
  BY <1>1 DEF RequestStates
<1>2. CASE w = Submitting(w.plan)
  <2>1. w.stage = "submitting"
    BY <1>2 DEF Submitting
  <2>2. w.plan \in Plans
    BY <2>1 DEF RequestOK
  <2>3. Submitting(w.plan) \in [stage: {"submitting"}, plan: Plans]
    BY <2>2 DEF Submitting
  <2> QED
    BY <1>2, <2>3 DEF RequestStates
<1>3. CASE w = Settling(w.invoice, w.status)
  <2>1. w.stage = "settling"
    BY <1>3 DEF Settling
  <2>2. w.invoice \in DOMAIN invoices /\ w.status \in InvoiceStatuses \ {"PENDING"}
    BY <2>1 DEF RequestOK, Open
  <2>3. Settling(w.invoice, w.status) \in
          [stage: {"settling"}, invoice: DOMAIN invoices, status: InvoiceStatuses \ {"PENDING"}]
    BY <2>2 DEF Settling
  <2> QED
    BY <1>3, <2>3 DEF RequestStates
<1>4. CASE w = Activating(w.invoice)
  <2>1. w.stage = "activating"
    BY <1>4 DEF Activating
  <2>2. w.invoice \in DOMAIN invoices
    BY <2>1 DEF RequestOK, IsOwed
  <2>3. Activating(w.invoice) \in [stage: {"activating"}, invoice: DOMAIN invoices]
    BY <2>2 DEF Activating
  <2> QED
    BY <1>4, <2>3 DEF RequestStates
<1>5. CASE w = Writing(w.invoice, w.kind, w.patch)
  <2>1. w.stage = "writing"
    BY <1>5 DEF Writing
  <2>2. w.invoice \in {0} \cup DOMAIN invoices /\ w.kind \in {"payment", "edit"} /\ w.patch \in Patches
    BY <2>1 DEF RequestOK, WritesOK, IsOwed
  <2>3. Writing(w.invoice, w.kind, w.patch) \in
          [stage: {"writing"}, invoice: {0} \cup DOMAIN invoices, kind: {"payment", "edit"}, patch: Patches]
    BY <2>2 DEF Writing
  <2> QED
    BY <1>5, <2>3 DEF RequestStates
<1>6. CASE w = Flagging(w.kind, w.active)
  <2>1. w.stage = "flagging"
    BY <1>6 DEF Flagging
  <2>2. w.kind \in {"payment", "status"} /\ w.active \in {"active", "inactive"}
    BY <2>1 DEF RequestOK, FlagsOK
  <2>3. Flagging(w.kind, w.active) \in
          [stage: {"flagging"}, kind: {"payment", "status"}, active: {"active", "inactive"}]
    BY <2>2 DEF Flagging
  <2> QED
    BY <1>6, <2>3 DEF RequestStates
<1> QED
  BY <1>1, <1>2, <1>3, <1>4, <1>5, <1>6 DEF Shaped

LEMMA SubTyped == SubInv /\ SubShapes => SubTypeOK
<1> SUFFICES ASSUME SubInv, SubShapes PROVE SubTypeOK
  OBVIOUS
<1>1. request \in [Requests -> RequestStates]
  <2>1. \A r \in Requests : request[r] \in RequestStates
    BY RequestTyped DEF SubInv, SubShapes, RequestsOK
  <2> QED
    BY <2>1 DEF SubInv, RequestsOK
<1>2. sub = Null => \A r \in Requests : request[r].stage \notin {"writing", "flagging"}
  BY DEF SubInv, RequestsOK, RequestOK, WritesOK, FlagsOK
<1> QED
  BY <1>1, <1>2 DEF SubInv, SubShapes, RowOK, BooksOK, SubTypeOK

LEMMA SubShapesStart == SubInit => SubShapes
BY PlansAndDates, ShapesAre DEF SubInit, SubShapes

LEMMA ShapesKept ==
  ASSUME SubInv, SubShapes, NEW r \in Requests, NEW w, Shaped(w), Goes(r, w),
         UNCHANGED <<onSale, tenant>>, lastWord' \in {lastWord, "switch"}, hands' \in 0 .. MaxHands
  PROVE  SubShapes'
<1>1. \A q \in Requests : request'[q] = IF q = r THEN w ELSE request[q]
  BY DEF Goes, SubInv, RequestsOK
<1>2. \A q \in Requests : Shaped(request'[q])
  BY <1>1 DEF SubShapes
<1> QED
  BY <1>2 DEF SubShapes, Shaped

LEMMA SubShapesKeep == SubInv /\ SubShapes /\ [SubNext]_subVars => SubShapes'
<1> SUFFICES ASSUME SubInv, SubShapes, [SubNext]_subVars PROVE SubShapes'
  OBVIOUS
<1>h. ByHand => hands' \in 0 .. MaxHands
  BY PlansAndDates DEF ByHand, SubShapes
<1>u. hands' = hands => hands' \in 0 .. MaxHands
  BY DEF SubShapes
<1>r. request' = request => \A r \in Requests : Shaped(request[r])'
  BY DEF SubShapes, Shaped
<1>1. CASE Tick \/ SignUp \/ SeedPlatform
  BY <1>1, <1>u, <1>r DEF Tick, SignUp, SeedPlatform, SubShapes
<1>2. ASSUME NEW p \in Plans, SwitchPlan(p) PROVE SubShapes'
  BY <1>2, <1>h, <1>r DEF SwitchPlan, SubShapes
<1>3. ASSUME NEW r \in Requests, Suspend(r) \/ Lift(r) \/ \E active \in {"active", "inactive"} : SetActive(r, active)
      PROVE  SubShapes'
  BY <1>3, <1>h, <1>r DEF Suspend, Lift, SetActive, SubShapes
<1>4. ASSUME NEW r \in Requests, CreateInvoice(r) \/ DieIn(r) PROVE SubShapes'
  <2>1. Goes(r, Free) /\ UNCHANGED <<onSale, tenant, hands>> /\ lastWord' \in {lastWord, "switch"}
    BY <1>4 DEF CreateInvoice, DieIn
  <2> QED
    BY <2>1, <1>u, ShapesAre, ShapesKept
<1>5. ASSUME NEW r \in Requests, Settle(r) PROVE SubShapes'
  <2>1. PICK w \in {Activating(request[r].invoice), Free} : Goes(r, w)
    BY <1>5 DEF Settle
  <2>2. Shaped(w)
    BY <2>1, ShapesAre
  <2> QED
    BY <1>5, <2>1, <2>2, <1>u, ShapesKept DEF Settle
<1>6. ASSUME NEW r \in Requests, NEW i, NEW p, Load(r, i, p) PROVE SubShapes'
  <2>1. UNCHANGED <<onSale, tenant, hands, lastWord>>
    BY <1>6 DEF Load
  <2>2. CASE p \in onSale /\ sub # Null
    <3> DEFINE w == Writing(i, "payment", Paid(p, Base(sub.plan = p) + Term))
    <3>1. Goes(r, w)
      BY <1>6, <2>2 DEF Load
    <3>2. Shaped(w)
      BY ShapesAre
    <3> HIDE DEF w
    <3> QED
      BY <2>1, <3>1, <3>2, <1>u, ShapesKept
  <2>3. CASE ~ (p \in onSale /\ sub # Null)
    <3>1. Goes(r, Free)
      BY <1>6, <2>3 DEF Load
    <3> QED
      BY <2>1, <3>1, <1>u, ShapesAre, ShapesKept
  <2> QED
    BY <2>2, <2>3
<1>7. ASSUME NEW r \in Requests, Extend(r) PROVE SubShapes'
  <2> DEFINE w == Writing(0, "payment", [status |-> "ACTIVE", expires |-> Base(TRUE) + Term])
  <2>1. Goes(r, w) /\ UNCHANGED <<onSale, tenant, hands, lastWord>>
    BY <1>7 DEF Extend
  <2>2. Shaped(w)
    BY ShapesAre
  <2> HIDE DEF w
  <2> QED
    BY <2>1, <2>2, <1>u, ShapesKept
<1>8. ASSUME NEW r \in Requests, WriteRow(r) PROVE SubShapes'
  <2>1. UNCHANGED <<onSale, tenant, hands, lastWord>>
    BY <1>8 DEF WriteRow
  <2>2. \E w : Goes(r, w) /\ Shaped(w)
    <3> DEFINE j == request[r]
    <3>1. CASE j.kind = "payment"
      <4>1. Goes(r, Flagging("payment", "active"))
        BY <1>8, <3>1 DEF WriteRow
      <4> QED
        BY <4>1, ShapesAre
    <3>2. CASE j.kind = "edit" /\ "status" \in DOMAIN j.patch
      <4>1. Goes(r, Flagging("status", IF j.patch.status = "SUSPENDED" THEN "inactive" ELSE "active"))
        BY <1>8, <3>2 DEF WriteRow
      <4> QED
        BY <4>1, ShapesAre
    <3>3. CASE ~ (j.kind = "payment") /\ ~ (j.kind = "edit" /\ "status" \in DOMAIN j.patch)
      <4>1. Goes(r, Free)
        BY <1>8, <3>3 DEF WriteRow
      <4> QED
        BY <4>1, ShapesAre
    <3> QED
      BY <3>1, <3>2, <3>3
  <2> QED
    BY <2>1, <2>2, <1>u, ShapesKept
<1>9. ASSUME NEW r \in Requests, WriteFlag(r) PROVE SubShapes'
  <2>1. /\ tenant' = request[r].active /\ lastWord' = request[r].kind
        /\ UNCHANGED <<onSale, hands>> /\ Goes(r, Free)
    BY <1>9 DEF WriteFlag
  <2>2. tenant' \in {"active", "inactive"} /\ lastWord' \in {"payment", "status"}
    BY <1>9, <2>1 DEF WriteFlag, SubInv, RequestsOK, RequestOK, FlagsOK
  <2>3. \A q \in Requests : request'[q] = Free \/ request'[q] = request[q]
    BY <2>1 DEF Goes, SubInv, RequestsOK
  <2>4. \A q \in Requests : Shaped(request'[q])
    BY <2>3, ShapesAre DEF SubShapes
  <2> QED
    BY <2>1, <2>2, <2>4, <1>u DEF SubShapes, Shaped
<1>10. ASSUME NEW r \in Requests, NEW p \in Plans, Submit(r, p) PROVE SubShapes'
  <2>1. Goes(r, Submitting(p)) /\ UNCHANGED <<onSale, tenant, hands, lastWord>>
    BY <1>10 DEF Submit
  <2> QED
    BY <2>1, <1>u, ShapesAre, ShapesKept
<1>11. ASSUME NEW r \in Requests, NEW i, NEW st, Review(r, i, st) PROVE SubShapes'
  <2>1. Goes(r, Settling(i, st)) /\ UNCHANGED <<onSale, tenant, hands, lastWord>>
    BY <1>11 DEF Review
  <2> QED
    BY <2>1, <1>u, ShapesAre, ShapesKept
<1>12. ASSUME NEW r \in Requests, NEW patch, Edit(r, patch) PROVE SubShapes'
  <2>1. Goes(r, Writing(0, "edit", patch)) /\ UNCHANGED <<onSale, tenant, lastWord>> /\ ByHand
    BY <1>12 DEF Edit
  <2> QED
    BY <2>1, <1>h, ShapesAre, ShapesKept
<1>13. CASE UNCHANGED subVars
  BY <1>13, <1>u, <1>r DEF subVars, SubShapes
<1> QED
  BY <1>1, <1>2, <1>3, <1>4, <1>5, <1>6, <1>7, <1>8, <1>9, <1>10, <1>11, <1>12, <1>13
     DEF SubNext, ActivateInvoice, ActivatePlan

-----------------------------------------------------------------------------
(* BackOffice: the parts side by side.                                     *)

\* One actor of each kind: a request of a tenant's billing, a campaign, a
\* staff request and a request about the book of customers.
OneOfEach == OneRequest /\ OneSender /\ OneHandler /\ OneClerk

LEMMA PartsStart ==
  BackOfficeInit =>
    /\ Init /\ SubInit /\ CampInit /\ WebInit /\ StaffInit
    /\ FloorInit /\ CartInit /\ BookInit /\ RailInit
    /\ part \in Parts
BY DEF BackOfficeInit

LEMMA PartsStep ==
  [BackOfficeNext]_BackOfficeVars =>
    /\ [Next]_vars /\ [SubNext]_subVars /\ [CampNext]_campVars /\ [WebNext]_webVars
    /\ [StaffNext]_staffVars /\ [FloorNext]_floorVars /\ [CartNext]_cartVars
    /\ [BookNext]_bookVars /\ [RailNext]_railVars
    /\ part' = part
BY DEF BackOfficeNext, BackOfficeVars, Messages, Billing, Campaigning, Browsing,
       Staffing, Serving, Selling, Bookkeeping, Showing

\* Seen from one part the others do nothing: its behaviours in BackOffice are
\* behaviours of its own specification, so that whatever is proved of the part
\* holds there. (The screens' fairness is asked of them only while they are at
\* work: of their specifications the initial states and the steps are left.)
THEOREM PartsAreThemselves ==
  BackOfficeSpec =>
    /\ Spec /\ SubSpec /\ CampSpec /\ WebSpec /\ StaffSpec /\ CartSpec /\ BookSpec
    /\ FloorInit /\ [][FloorNext]_floorVars
    /\ RailInit /\ [][RailNext]_railVars
<1>1. BackOfficeFairness => Fairness
  BY PTL DEF BackOfficeFairness
<1> QED
  BY <1>1, PartsStart, PartsStep, PTL
     DEF BackOfficeSpec, Spec, SubSpec, CampSpec, WebSpec, StaffSpec, CartSpec, BookSpec

\* Every part keeps its types at whatever the others do: with one actor of
\* each kind, as the safety properties of those parts ask.
THEOREM BackOfficeIsTyped == OneOfEach => (BackOfficeSpec => []BackOfficeTypeOK)
<1> SUFFICES ASSUME OneOfEach PROVE BackOfficeSpec => []BackOfficeTypeOK
  OBVIOUS
<1>1. OneRequest /\ OneSender /\ OneHandler /\ OneClerk
  BY DEF OneOfEach
<1> DEFINE All == /\ OutboxInv /\ QueueInv /\ SubInv /\ SubShapes /\ CampInv /\ WebInv
                  /\ StaffInv /\ FloorTypeOK /\ CartInv /\ BookInv /\ RailInv
                  /\ part \in Parts
<1>2. BackOfficeInit => All
  BY PartsStart, OutboxInitHolds, QueueInitHolds, SubInitHolds, SubShapesStart, CampInitHolds,
     WebInitHolds, StaffInitHolds, FloorInitTyped, CartInitHolds, BookInitHolds, RailInitHolds
<1>3. All /\ [BackOfficeNext]_BackOfficeVars => All'
  <2> SUFFICES ASSUME All, [BackOfficeNext]_BackOfficeVars PROVE All'
    OBVIOUS
  <2>1. OutboxInv' /\ QueueInv'
    BY PartsStep, OutboxNextKeeps, QueueNextKeeps
  <2>2. SubInv' /\ SubShapes'
    BY <1>1, PartsStep, SubNextKeeps, SubShapesKeep
  <2>3. CampInv' /\ WebInv' /\ StaffInv'
    BY <1>1, PartsStep, CampNextKeeps, WebNextKeeps, StaffNextKeeps
  <2>4. FloorTypeOK' /\ CartInv'
    BY PartsStep, FloorNextTyped, CartNextKeeps
  <2>5. BookInv' /\ RailInv'
    BY <1>1, PartsStep, BookNextKeeps, RailNextKeeps
  <2>6. (part \in Parts)'
    BY PartsStep
  <2> QED
    BY <2>1, <2>2, <2>3, <2>4, <2>5, <2>6
<1>4. All => BackOfficeTypeOK
  <2> SUFFICES ASSUME All PROVE BackOfficeTypeOK
    OBVIOUS
  <2>1. TypeOK /\ SubTypeOK /\ CartTypeOK /\ RailTypeOK
    BY OutboxTyped, SubTyped, CartTyped, RailInvTyped DEF CartInv
  <2>2. CampTypeOK /\ WebTypeOK /\ StaffTypeOK
    BY DEF CampInv, WebInv, WebTypes, StaffInv
  <2>3. BookTypeOK
    BY DEF BookInv, InHand, BookTypeOK
  <2> QED
    BY <2>1, <2>2, <2>3 DEF BackOfficeTypeOK
<1> QED
  BY <1>2, <1>3, <1>4, PTL DEF BackOfficeSpec

\* And with them what each part promises, all at once.
THEOREM BackOfficeIsSound ==
  OneOfEach =>
    (BackOfficeSpec =>
       /\ [](OutboxIsSound /\ InStep /\ InvoiceCountsOnce /\ NobodyTwice /\ AllowanceKept
               /\ ReportIsTrue /\ SpentTokenIsNotPresented /\ OwnerRemains /\ OneMenuPrices
               /\ SegmentsAreTrue)
       /\ PaidTimeIsKept
       /\ CartIsHonoured)
<1> SUFFICES ASSUME OneOfEach
             PROVE  BackOfficeSpec =>
                      /\ [](OutboxIsSound /\ InStep /\ InvoiceCountsOnce /\ NobodyTwice
                              /\ AllowanceKept /\ ReportIsTrue /\ SpentTokenIsNotPresented
                              /\ OwnerRemains /\ OneMenuPrices /\ SegmentsAreTrue)
                      /\ PaidTimeIsKept
                      /\ CartIsHonoured
  OBVIOUS
<1>1. OneRequest /\ OneSender /\ OneHandler /\ OneClerk
  BY DEF OneOfEach
<1>2. SubSpec => []InStep /\ []InvoiceCountsOnce /\ PaidTimeIsKept
  BY <1>1, SwitchFollowsRow, InvoicesCountOnce, DaysAreKept
<1>3. CampSpec => []NobodyTwice /\ []AllowanceKept /\ []ReportIsTrue
  BY <1>1, NobodyIsReachedTwice, AllowanceIsKept, ReportStaysTrue
<1>4. StaffSpec => [](StaffTypeOK /\ OwnerRemains)
  BY <1>1, AnOwnerRemains
<1>5. BookSpec => []SegmentsAreTrue
  BY <1>1, SegmentsStayTrue
<1> QED
  BY <1>2, <1>3, <1>4, <1>5, PartsAreThemselves, OutboxStaysSound, NoSpentToken, CartsAreHonoured,
     OneMenuEach, PTL

=============================================================================
