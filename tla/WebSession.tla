----------------------------- MODULE WebSession -----------------------------
(***************************************************************************)
(* A session in one browser tab: auth.service.ts on one side, the API      *)
(* client and the auth context of the web application on the other.        *)
(*                                                                         *)
(* The tab holds no token: two cookies do. A page that loads rotates the   *)
(* refresh token to learn who it is ("boot"); a query that is refused for  *)
(* its access token waits for a rotation that all refused queries share    *)
(* (the "flight", refreshInFlight). A rotation is four steps on the        *)
(* server, and its answer, which carries the cookies, may never arrive.    *)
(* A page that goes away leaves its rotation to run on ("orphan").         *)
(***************************************************************************)
EXTENDS Integers, Sequences, FiniteSets

CONSTANTS
    MaxQueries,     \* bound: queries of a page that are refused at once
    MaxTokens       \* bound: refresh tokens ever issued

ASSUME TokensAreCounted == MaxQueries \in Nat /\ MaxTokens \in Nat \ {0}

VARIABLES
    tokens,         \* the table refresh_tokens: "live", "rotated" or "ended"
    jar,            \* the refresh cookie: a token, or NoToken
    access,         \* whether the access cookie would be accepted
    status,         \* what the auth context says
    boot,           \* the page's own call of /auth/refresh
    flight,         \* refreshInFlight
    denied,         \* queries that were refused and do not know it yet
    waiting,        \* queries that wait for the flight
    rotation,       \* a rotation for each caller
    signing,        \* a login or logout that is under way
    lost            \* tokens whose rotation the tab did not hear of

webVars == <<tokens, jar, access, status, boot, flight, denied, waiting, rotation, signing, lost>>

NoToken == 0
Callers == {"boot", "flight", "orphan"}

Turn(stage, t, fresh) == [stage |-> stage, token |-> t, fresh |-> fresh]
NoTurn == Turn("none", NoToken, NoToken)
Rotation == [stage: {"none", "sent", "found", "revoked", "issued", "refused"},
             token: 0 .. MaxTokens, fresh: 0 .. MaxTokens]

Quiet == [kind |-> "none", token |-> NoToken]

\* A page loads, with or without the cookie of an earlier visit.
WebInit ==
    /\ \/ tokens = <<"live">> /\ jar = 1
       \/ tokens = <<>> /\ jar = NoToken
    /\ access = FALSE
    /\ status = "loading"
    /\ boot = "asking"
    /\ flight = "none"
    /\ denied = 0
    /\ waiting = 0
    /\ rotation = [c \in Callers |-> IF c = "boot" THEN Turn("sent", jar, NoToken) ELSE NoTurn]
    /\ signing = Quiet
    /\ lost = {}

-----------------------------------------------------------------------------
(* refresh() on the server: the token is looked up, revoked, and replaced. *)
(* issueRefreshToken() is a statement of its own, and so is each before it. *)

Found(t) == t # NoToken /\ tokens[t] = "live"

Moves(c, stage) == rotation' = [rotation EXCEPT ![c].stage = stage]

FindToken(c) ==
    /\ rotation[c].stage = "sent"
    /\ Moves(c, IF Found(rotation[c].token) THEN "found" ELSE "refused")
    /\ UNCHANGED <<tokens, jar, access, status, boot, flight, denied, waiting, signing, lost>>

RevokeToken(c) ==
    /\ rotation[c].stage = "found"
    /\ tokens' = [tokens EXCEPT ![rotation[c].token] = "rotated"]
    /\ Moves(c, "revoked")
    /\ UNCHANGED <<jar, access, status, boot, flight, denied, waiting, signing, lost>>

IssueToken(c) ==
    /\ rotation[c].stage = "revoked"
    /\ Len(tokens) < MaxTokens
    /\ tokens' = Append(tokens, "live")
    /\ rotation' = [rotation EXCEPT ![c].stage = "issued", ![c].fresh = Len(tokens) + 1]
    /\ UNCHANGED <<jar, access, status, boot, flight, denied, waiting, signing, lost>>

\* revokeAllSessions(), for a new password or a disabled account.
RevokeAllSessions ==
    /\ tokens' = [t \in DOMAIN tokens |-> IF tokens[t] = "live" THEN "ended" ELSE tokens[t]]
    /\ UNCHANGED <<jar, access, status, boot, flight, denied, waiting, rotation, signing, lost>>

-----------------------------------------------------------------------------
(* What the caller makes of an answer. boot goes through apiRequest(): a    *)
(* refusal makes it wait for the flight and ask once more ("again").        *)

Presents(c) == rotation' = [rotation EXCEPT ![c] = Turn("sent", jar, NoToken)]

\* The answer of a rotation brings both cookies.
Cookies(c) == jar' = rotation[c].fresh /\ access' = TRUE

BootSucceeds ==
    /\ rotation["boot"].stage = "issued"
    /\ Cookies("boot")
    /\ status' = "authenticated"
    /\ boot' = "done"
    /\ rotation' = [rotation EXCEPT !["boot"] = NoTurn]
    /\ UNCHANGED <<tokens, flight, denied, waiting, signing, lost>>

FlightSucceeds ==
    /\ rotation["flight"].stage = "issued"
    /\ Cookies("flight")
    /\ flight' = "yes"
    /\ rotation' = [rotation EXCEPT !["flight"] = NoTurn]
    /\ UNCHANGED <<tokens, status, boot, denied, waiting, signing, lost>>

\* refreshSession(): a refused call joins the flight, or starts it.
BootRefused ==
    /\ rotation["boot"].stage = "refused"
    /\ IF boot = "asking"
         THEN /\ boot' = "waiting"
              /\ flight' = IF flight = "none" THEN "asking" ELSE flight
              /\ rotation' = [rotation EXCEPT !["boot"] = NoTurn,
                                              !["flight"] = IF flight = "none" THEN Turn("sent", jar, NoToken) ELSE @]
              /\ UNCHANGED status
         ELSE /\ boot' = "done"
              /\ status' = "anonymous"
              /\ rotation' = [rotation EXCEPT !["boot"] = NoTurn]
              /\ UNCHANGED flight
    /\ UNCHANGED <<tokens, jar, access, denied, waiting, signing, lost>>

FlightRefused ==
    /\ rotation["flight"].stage = "refused"
    /\ flight' = "no"
    /\ rotation' = [rotation EXCEPT !["flight"] = NoTurn]
    /\ UNCHANGED <<tokens, jar, access, status, boot, denied, waiting, signing, lost>>

\* The connection or the process fails: fetch() throws, wherever the server is.
Fails(c) ==
    /\ c # "orphan"
    /\ rotation[c].stage # "none"
    /\ lost' = IF rotation[c].stage \in {"revoked", "issued"} THEN lost \cup {rotation[c].token} ELSE lost
    /\ rotation' = [rotation EXCEPT ![c] = NoTurn]
    /\ IF c = "boot" THEN boot' = "done" /\ status' = "anonymous" /\ UNCHANGED flight
                     ELSE flight' = "no" /\ UNCHANGED <<boot, status>>
    /\ UNCHANGED <<tokens, jar, access, denied, waiting, signing>>

\* The rotation of a page that is gone: its cookies are stored, or they are not.
OrphanEnds ==
    /\ rotation["orphan"].stage \in {"issued", "refused"}
    /\ \/ rotation["orphan"].stage = "issued" /\ Cookies("orphan")
       \/ UNCHANGED <<jar, access>>
    /\ rotation' = [rotation EXCEPT !["orphan"] = NoTurn]
    /\ UNCHANGED <<tokens, status, boot, flight, denied, waiting, signing, lost>>

-----------------------------------------------------------------------------
(* The page.                                                                *)

\* The access token lives for minutes and a page boots in seconds.
Expire ==
    /\ access
    /\ boot = "done"
    /\ access' = FALSE
    /\ UNCHANGED <<tokens, jar, status, boot, flight, denied, waiting, rotation, signing, lost>>

\* A query of a screen, which is only shown to somebody who is signed in, goes
\* out with an access token that is no longer good. The others just succeed.
QueryDenied ==
    /\ status = "authenticated"
    /\ ~ access
    /\ denied + waiting < MaxQueries
    /\ denied' = denied + 1
    /\ UNCHANGED <<tokens, jar, access, status, boot, flight, waiting, rotation, signing, lost>>

\* Mutant: every refused query rotates on its own account.
JoinAlone ==
    /\ denied > 0
    /\ denied' = denied - 1
    /\ waiting' = waiting + 1
    /\ flight' = "asking"
    /\ Presents("flight")
    /\ UNCHANGED <<tokens, jar, access, status, boot, signing, lost>>

\* Its 401 arrives, at any time: it joins the flight, or starts another.
Join ==
    /\ denied > 0
    /\ denied' = denied - 1
    /\ waiting' = waiting + 1
    /\ flight' = IF flight = "none" THEN "asking" ELSE flight
    /\ IF flight = "none" THEN Presents("flight") ELSE UNCHANGED rotation
    /\ UNCHANGED <<tokens, jar, access, status, boot, signing, lost>>

\* The flight has landed. Every query is repeated, without a second refresh,
\* or fails and the session is lost with it.
ResumeQueries ==
    /\ waiting > 0
    /\ flight \in {"yes", "no"}
    /\ waiting' = 0
    /\ status' = IF flight = "no" THEN "anonymous" ELSE status
    /\ UNCHANGED <<tokens, jar, access, boot, flight, denied, rotation, signing, lost>>

ResumeBoot ==
    /\ boot = "waiting"
    /\ flight \in {"yes", "no"}
    /\ IF flight = "yes"
         THEN boot' = "again" /\ Presents("boot") /\ UNCHANGED status
         ELSE boot' = "done" /\ status' = "anonymous" /\ UNCHANGED rotation
    /\ UNCHANGED <<tokens, jar, access, flight, denied, waiting, signing, lost>>

\* setTimeout(0): after everybody who waited.
Release ==
    /\ flight \in {"yes", "no"}
    /\ boot # "waiting"
    /\ waiting = 0
    /\ flight' = "none"
    /\ UNCHANGED <<tokens, jar, access, status, boot, denied, waiting, rotation, signing, lost>>

\* The user reloads or comes back. One rotation of an old page is followed.
Reload ==
    /\ rotation["orphan"] = NoTurn
    /\ LET left == {c \in {"boot", "flight"} : rotation[c] # NoTurn}
       IN  /\ Cardinality(left) <= 1
           /\ lost' = lost \cup {rotation[c].token : c \in left}
           /\ rotation' = [c \in Callers |->
                IF c = "boot" THEN Turn("sent", jar, NoToken)
                ELSE IF c = "orphan" /\ left # {} THEN rotation[CHOOSE d \in left : TRUE]
                ELSE NoTurn]
    /\ status' = "loading"
    /\ boot' = "asking"
    /\ flight' = "none"
    /\ denied' = 0
    /\ waiting' = 0
    /\ signing' = Quiet
    /\ UNCHANGED <<tokens, jar, access>>

-----------------------------------------------------------------------------
(* Signing in and out. The form does not wait for the page to boot.        *)

Login ==
    /\ signing = Quiet
    /\ status # "authenticated"
    /\ Len(tokens) < MaxTokens
    /\ tokens' = Append(tokens, "live")
    /\ signing' = [kind |-> "login", token |-> Len(tokens) + 1]
    /\ UNCHANGED <<jar, access, status, boot, flight, denied, waiting, rotation, lost>>

LoggedIn ==
    /\ signing.kind = "login"
    /\ jar' = signing.token
    /\ access' = TRUE
    /\ status' = "authenticated"
    /\ signing' = Quiet
    /\ UNCHANGED <<tokens, boot, flight, denied, waiting, rotation, lost>>

\* logout() ends the token it is shown, unless that has been rotated already.
Logout ==
    /\ signing = Quiet
    /\ status = "authenticated"
    /\ tokens' = IF Found(jar) THEN [tokens EXCEPT ![jar] = "ended"] ELSE tokens
    /\ signing' = [kind |-> "logout", token |-> NoToken]
    /\ UNCHANGED <<jar, access, status, boot, flight, denied, waiting, rotation, lost>>

\* The cookies go with the answer; the page forgets in any case.
LoggedOut ==
    /\ signing.kind = "logout"
    /\ \/ jar' = NoToken /\ access' = FALSE
       \/ UNCHANGED <<jar, access>>
    /\ status' = "anonymous"
    /\ signing' = Quiet
    /\ UNCHANGED <<tokens, boot, flight, denied, waiting, rotation, lost>>

LoginFails ==
    /\ signing.kind = "login"
    /\ signing' = Quiet
    /\ UNCHANGED <<tokens, jar, access, status, boot, flight, denied, waiting, rotation, lost>>

WebNext ==
    \/ \E c \in Callers : FindToken(c) \/ RevokeToken(c) \/ IssueToken(c) \/ Fails(c)
    \/ BootSucceeds \/ BootRefused \/ FlightSucceeds \/ FlightRefused \/ OrphanEnds
    \/ RevokeAllSessions \/ Expire
    \/ QueryDenied \/ Join \/ ResumeQueries
    \/ ResumeBoot \/ Release \/ Reload
    \/ Login \/ LoggedIn \/ LoginFails \/ Logout \/ LoggedOut

WebSpec == WebInit /\ [][WebNext]_webVars

-----------------------------------------------------------------------------
\* Type invariant.
WebTypeOK ==
    /\ tokens \in Seq({"live", "rotated", "ended"})
    /\ Len(tokens) <= MaxTokens
    /\ jar \in 0 .. Len(tokens)
    /\ access \in BOOLEAN
    /\ status \in {"loading", "authenticated", "anonymous"}
    /\ boot \in {"asking", "waiting", "again", "done"}
    /\ flight \in {"none", "asking", "yes", "no"}
    /\ denied \in 0 .. MaxQueries
    /\ waiting \in 0 .. MaxQueries
    /\ rotation \in [Callers -> Rotation]
    /\ \A c \in Callers : rotation[c].token <= Len(tokens) /\ rotation[c].fresh <= Len(tokens)
    /\ signing \in [kind: {"none", "login", "logout"}, token: 0 .. Len(tokens)]
    /\ lost \subseteq 0 .. Len(tokens)

\* "Concurrent 401s share a single refresh call" (api-client.ts:78), and the
\* page's own call is not one more: a tab never waits for an answer on a token
\* that was rotated already, except one whose rotation it could not hear of.
\* Otherwise the session would end under a user who is at work. It holds for
\* one tab; two tabs share the cookie and not the flight.
SpentTokenIsNotPresented ==
    \A c \in {"boot", "flight"} :
        (/\ rotation[c].stage = "sent"
         /\ rotation[c].token # NoToken
         /\ tokens[rotation[c].token] = "rotated") => rotation[c].token \in lost

=============================================================================
