----------------------------- MODULE GuestCalls -----------------------------
(***************************************************************************)
(* A guest calls the waiter: guest.service.ts, the event that carries the  *)
(* call to the screens of the floor, and the bar of open calls on each     *)
(* screen (waiter-call-bar.tsx). The event goes to the sockets that are    *)
(* connected and is gone; what a screen shows is what its last fetch read. *)
(***************************************************************************)
EXTENDS Integers, Sequences, FiniteSets

CONSTANTS
    Taps,           \* guests' requests that can be under way at once
    Spots,          \* a table with a reason
    Screens,        \* screens of the floor, signed in and in view
    MaxCalls,       \* bound: calls ever created
    MaxUpdates,     \* bound: taps of the staff
    MaxMisses       \* bound: fetches that fail and requests that break off

ASSUME CallsAreCounted ==
    /\ MaxCalls \in Nat /\ MaxUpdates \in Nat /\ MaxMisses \in Nat
    /\ Spots # {}

VARIABLES
    calls,          \* the table waiter_calls, in order of creation
    tap,            \* the callWaiter() of each guest
    socket,         \* screens whose socket is connected
    fetch,          \* the query "waiter-calls" of each screen
    shown,          \* the calls in the bar of each screen
    updates,
    misses

floorVars == <<calls, tap, socket, fetch, shown, updates, misses>>

CallStatuses == {"OPEN", "ACKNOWLEDGED", "RESOLVED"}
Call == [spot: Spots, status: CallStatuses]
OpenCalls == {c \in DOMAIN calls : calls[c].status # "RESOLVED"}

\* A tap has found no open call and creates one, or has created one and is
\* about to emit the event; spot is of no account while it is away.
AnySpot == CHOOSE s \in Spots : TRUE
TapState == [stage: {"away", "creating", "telling"}, spot: Spots]
NoTap == [stage |-> "away", spot |-> AnySpot]

\* A fetch is on its way to the API, or has its answer.
Fetch == [stage: {"idle", "asking", "answered"}, list: SUBSET (1 .. MaxCalls)]
NoFetch == [stage |-> "idle", list |-> {}]
NewFetch == [stage |-> "asking", list |-> {}]

FloorInit ==
    /\ calls = <<>>
    /\ tap = [g \in Taps |-> NoTap]
    /\ socket = Screens
    /\ fetch = [s \in Screens |-> NoFetch]
    /\ shown = [s \in Screens |-> {}]
    /\ updates = 0
    /\ misses = 0

-----------------------------------------------------------------------------
(* callWaiter()                                                             *)

\* An open call of the table for the same reason is returned instead.
TapButton(g, spot) ==
    /\ tap[g].stage = "away"
    /\ \A c \in OpenCalls : calls[c].spot # spot
    /\ tap' = [tap EXCEPT ![g] = [stage |-> "creating", spot |-> spot]]
    /\ UNCHANGED <<calls, socket, fetch, shown, updates, misses>>

CreateCall(g) ==
    /\ tap[g].stage = "creating"
    /\ Len(calls) < MaxCalls
    /\ calls' = Append(calls, [spot |-> tap[g].spot, status |-> "OPEN"])
    /\ tap' = [tap EXCEPT ![g].stage = "telling"]
    /\ UNCHANGED <<socket, fetch, shown, updates, misses>>

\* WAITER_CALLED: every connected screen asks anew, whatever it was asking.
Told == [s \in Screens |-> IF s \in socket THEN NewFetch ELSE fetch[s]]

Tell(g) ==
    /\ tap[g].stage = "telling"
    /\ fetch' = Told
    /\ tap' = [tap EXCEPT ![g] = NoTap]
    /\ UNCHANGED <<calls, socket, shown, updates, misses>>

\* The request ends where it stands: a call may be there that nobody was told of.
TapBreaks(g) ==
    /\ misses < MaxMisses
    /\ tap[g].stage # "away"
    /\ tap' = [tap EXCEPT ![g] = NoTap]
    /\ misses' = misses + 1
    /\ UNCHANGED <<calls, socket, fetch, shown, updates>>

-----------------------------------------------------------------------------
(* The screens.                                                             *)

SocketChanges(s) ==
    /\ socket' = IF s \in socket THEN socket \ {s} ELSE socket \cup {s}
    /\ UNCHANGED <<calls, tap, fetch, shown, updates, misses>>

\* Mutant: a screen polls while it is not connected, and trusts the socket
\* otherwise.
PollOffline(s) ==
    /\ s \notin socket
    /\ fetch[s].stage = "idle"
    /\ fetch' = [fetch EXCEPT ![s] = NewFetch]
    /\ UNCHANGED <<calls, tap, socket, shown, updates, misses>>

\* refetchInterval, every 30 seconds.
Poll(s) ==
    /\ fetch[s].stage = "idle"
    /\ fetch' = [fetch EXCEPT ![s] = NewFetch]
    /\ UNCHANGED <<calls, tap, socket, shown, updates, misses>>

\* listOpenCalls()
ListOpenCalls(s) ==
    /\ fetch[s].stage = "asking"
    /\ fetch' = [fetch EXCEPT ![s] = [stage |-> "answered", list |-> OpenCalls]]
    /\ UNCHANGED <<calls, tap, socket, shown, updates, misses>>

Show(s) ==
    /\ fetch[s].stage = "answered"
    /\ shown' = [shown EXCEPT ![s] = fetch[s].list]
    /\ fetch' = [fetch EXCEPT ![s] = NoFetch]
    /\ UNCHANGED <<calls, tap, socket, updates, misses>>

\* No answer, or an error: the bar stays as it is.
FetchFails(s) ==
    /\ misses < MaxMisses
    /\ fetch[s].stage # "idle"
    /\ fetch' = [fetch EXCEPT ![s] = NoFetch]
    /\ misses' = misses + 1
    /\ UNCHANGED <<calls, tap, socket, shown, updates>>

\* updateCall() from a bar that may be behind: it does not look at the status,
\* and a resolved call can be acknowledged back to life. The event and the
\* mutation's own success make the screens ask anew.
UpdateCall(s, c, status) ==
    /\ updates < MaxUpdates
    /\ c \in shown[s]
    /\ calls' = [calls EXCEPT ![c].status = status]
    /\ fetch' = [Told EXCEPT ![s] = NewFetch]
    /\ updates' = updates + 1
    /\ UNCHANGED <<tap, socket, shown, misses>>

FloorNext ==
    \/ \E g \in Taps : CreateCall(g) \/ Tell(g) \/ TapBreaks(g) \/ \E spot \in Spots : TapButton(g, spot)
    \/ \E s \in Screens :
         \/ SocketChanges(s) \/ Poll(s) \/ ListOpenCalls(s) \/ Show(s) \/ FetchFails(s)
         \/ \E c \in shown[s], status \in {"ACKNOWLEDGED", "RESOLVED"} : UpdateCall(s, c, status)

(***************************************************************************)
(* Fairness. A screen in view polls, its fetch is answered, and an answer  *)
(* is shown. Nothing is asked of the sockets, of the guests or of the      *)
(* staff, nor of a tap once it has begun.                                  *)
(***************************************************************************)
FloorFairness ==
    \A s \in Screens :
        /\ WF_floorVars(Poll(s))
        /\ WF_floorVars(ListOpenCalls(s))
        /\ WF_floorVars(Show(s))

FloorSpec == FloorInit /\ [][FloorNext]_floorVars /\ FloorFairness

-----------------------------------------------------------------------------
\* Type invariant.
FloorTypeOK ==
    /\ calls \in Seq(Call)
    /\ Len(calls) <= MaxCalls
    /\ tap \in [Taps -> TapState]
    /\ socket \subseteq Screens
    /\ fetch \in [Screens -> Fetch]
    /\ shown \in [Screens -> SUBSET DOMAIN calls]
    /\ \A s \in Screens : fetch[s].list \subseteq DOMAIN calls
    /\ updates \in 0 .. MaxUpdates
    /\ misses \in 0 .. MaxMisses

\* "polling is the fallback so a blocked WebSocket cannot leave a table waiting
\* unseen" (waiter-call-bar.tsx:24): once guests and staff pause, every bar in
\* view comes to show the open calls and no other, with sockets that come and
\* go, requests that end before they emit their event, fetches that fail or
\* answer late, and events that throw a fetch away. MaxCalls, MaxUpdates and
\* MaxMisses make everybody pause in the end.
CallsAreSeen == <>[](\A s \in Screens : shown[s] = OpenCalls)

=============================================================================
