--------------------------- MODULE StaffAccounts ---------------------------
(***************************************************************************)
(* The accounts of a restaurant: staff.service.ts. An actor is who the     *)
(* access token says, in the role it was issued for: the account may have  *)
(* been demoted or disabled since. A handler looks, then writes, then ends *)
(* the sessions of the account, in queries of their own; it may break off  *)
(* between any two.                                                        *)
(***************************************************************************)
EXTENDS Integers, FiniteSets

CONSTANTS
    Handlers,       \* staff requests that can be under way at once
    Accounts,
    Founder,        \* the owner signup() creates
    MaxStaff        \* maxStaff of the plan

ASSUME FounderIsAnAccount == Founder \in Accounts /\ MaxStaff \in Nat /\ IsFiniteSet(Accounts)

VARIABLES
    account,        \* the table users
    badge,          \* the role in an access token that is still good, or "NONE"
    session,        \* accounts with a refresh token that is not revoked
    handler         \* what each request is about to write

staffVars == <<account, badge, session, handler>>

\* Two roles stand for all: only an owner has the permission STAFF_MANAGE, so
\* that assertCanManageRole() never refuses anybody who gets there.
Roles == {"OWNER", "MANAGER"}
Account == [exists: BOOLEAN, role: Roles, active: BOOLEAN]
Unborn == [exists |-> FALSE, role |-> "MANAGER", active |-> FALSE]

\* "creating" and "writing" carry the account and what becomes of it; "revoking"
\* the account whose sessions are to end.
Handler == [stage: {"free", "creating", "writing", "revoking"}, who: Accounts,
            role: Roles \cup {"same"}, switch: {"on", "off", "same"}]
Work(stage, u, role, switch) == [stage |-> stage, who |-> u, role |-> role, switch |-> switch]
FreeHandler == Work("free", Founder, "same", "same")

StaffInit ==
    /\ account = [u \in Accounts |->
                    IF u = Founder THEN [exists |-> TRUE, role |-> "OWNER", active |-> TRUE] ELSE Unborn]
    /\ badge = [u \in Accounts |-> "NONE"]
    /\ session = {}
    /\ handler = [h \in Handlers |-> FreeHandler]

-----------------------------------------------------------------------------
(* Signing in, as far as accounts go, and the end of an access token.      *)

SignIn(u) ==
    /\ account[u].exists /\ account[u].active
    /\ badge' = [badge EXCEPT ![u] = account[u].role]
    /\ session' = session \cup {u}
    /\ UNCHANGED <<account, handler>>

\* A refresh, which reads the role anew.
Renew(u) == u \in session /\ SignIn(u)

BadgeExpires(u) ==
    /\ badge' = [badge EXCEPT ![u] = "NONE"]
    /\ UNCHANGED <<account, session, handler>>

-----------------------------------------------------------------------------
(* The handlers up to their write.                                          *)

Begins(h, a) == handler[h].stage = "free" /\ badge[a] = "OWNER"

\* Mutant: owners who have been disabled count.
NotTheOnlyOwnerEver(u) ==
    \E o \in Accounts \ {u} : account[o].exists /\ account[o].role = "OWNER"

assertNotLastOwner(u) ==
    \E o \in Accounts \ {u} :
        account[o].exists /\ account[o].role = "OWNER" /\ account[o].active

\* The plan counts the accounts that are active.
HasRoom == Cardinality({u \in Accounts : account[u].exists /\ account[u].active}) < MaxStaff

Prepares(h, next) ==
    /\ handler' = [handler EXCEPT ![h] = next]
    /\ UNCHANGED <<account, badge, session>>

CreateAccount(h, a, u, role) ==
    /\ Begins(h, a)
    /\ HasRoom
    /\ ~ account[u].exists
    /\ Prepares(h, Work("creating", u, role, "on"))

\* update() with a role, which revokes even when it is the same one ...
ChangeRole(h, a, u, role) ==
    /\ Begins(h, a)
    /\ account[u].exists
    /\ u = a => role = account[u].role
    /\ account[u].role = "OWNER" => assertNotLastOwner(u)
    /\ Prepares(h, Work("writing", u, role, "same"))

\* ... with isActive: false, or remove(), which comes to the same ...
Disable(h, a, u) ==
    /\ Begins(h, a)
    /\ account[u].exists
    /\ u # a
    /\ account[u].role = "OWNER" => assertNotLastOwner(u)
    /\ Prepares(h, Work("writing", u, "same", "off"))

\* ... or with isActive: true, which looks at no limit.
Enable(h, a, u) ==
    /\ Begins(h, a)
    /\ account[u].exists
    /\ Prepares(h, Work("writing", u, "same", "on"))

\* resetPassword()
ResetPassword(h, a, u) ==
    /\ Begins(h, a)
    /\ account[u].exists
    /\ Prepares(h, Work("revoking", u, "same", "same"))

-----------------------------------------------------------------------------
\* The email is unique: the insert of a row that is there by now fails.
Insert(h) ==
    LET j == handler[h]
    IN  /\ j.stage = "creating"
        /\ account' = IF account[j.who].exists THEN account
                      ELSE [account EXCEPT ![j.who] = [exists |-> TRUE, role |-> j.role, active |-> TRUE]]
        /\ handler' = [handler EXCEPT ![h] = FreeHandler]
        /\ UNCHANGED <<badge, session>>

\* Only the fields that were asked for.
WriteAccount(h) ==
    LET j == handler[h]
    IN  /\ j.stage = "writing"
        /\ account' = [account EXCEPT ![j.who] =
                [exists |-> TRUE,
                 role   |-> IF j.role = "same" THEN @.role ELSE j.role,
                 active |-> IF j.switch = "same" THEN @.active ELSE j.switch = "on"]]
        /\ handler' = [handler EXCEPT ![h] =
                IF j.switch = "on" THEN FreeHandler ELSE Work("revoking", j.who, "same", "same")]
        /\ UNCHANGED <<badge, session>>

\* The refresh tokens end; an access token that is out runs on.
RevokeSessions(h) ==
    /\ handler[h].stage = "revoking"
    /\ session' = session \ {handler[h].who}
    /\ handler' = [handler EXCEPT ![h] = FreeHandler]
    /\ UNCHANGED <<account, badge>>

BreaksOff(h) ==
    /\ handler[h].stage # "free"
    /\ handler' = [handler EXCEPT ![h] = FreeHandler]
    /\ UNCHANGED <<account, badge, session>>

StaffNext ==
    \/ \E u \in Accounts : SignIn(u) \/ Renew(u) \/ BadgeExpires(u)
    \/ \E h \in Handlers :
         \/ Insert(h) \/ WriteAccount(h) \/ RevokeSessions(h) \/ BreaksOff(h)
         \/ \E a, u \in Accounts :
              \/ Disable(h, a, u) \/ Enable(h, a, u) \/ ResetPassword(h, a, u)
              \/ \E role \in Roles : CreateAccount(h, a, u, role) \/ ChangeRole(h, a, u, role)

StaffSpec == StaffInit /\ [][StaffNext]_staffVars

-----------------------------------------------------------------------------
\* Type invariant.
StaffTypeOK ==
    /\ account \in [Accounts -> Account]
    /\ badge \in [Accounts -> Roles \cup {"NONE"}]
    /\ session \subseteq Accounts
    /\ handler \in [Handlers -> Handler]
    /\ \A h \in Handlers : handler[h].stage = "creating" => handler[h].role \in Roles

\* "An owner locking or demoting themselves would leave the tenant stranded"
\* (staff.service.ts:89): an active owner remains, though the actors may be
\* demoted or disabled accounts on an old token. It holds for one request at a
\* time; of two owners who disable each other, each counts the other.
OwnerRemains == \E o \in Accounts : account[o].exists /\ account[o].role = "OWNER" /\ account[o].active

=============================================================================
