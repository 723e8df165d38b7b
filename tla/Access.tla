------------------------------- MODULE Access -------------------------------
(***************************************************************************)
(* Roles and access tokens on top of the refresh tokens.                   *)
(*                                                                         *)
(* Each pair of IssueTokenPair holds a signed access token with the role   *)
(* the user had when its row was read.  AuthMiddleware and RequireRole     *)
(* believe it until it expires: no request looks at the row again.  What   *)
(* an administrator may change, users' roles and status among it, is       *)
(* therefore decided by what some row said a while ago.                    *)
(*                                                                         *)
(* The access token of a pair has the number of its refresh token.         *)
(***************************************************************************)
EXTENDS Tokens

CONSTANT Role
ASSUME RoleAssumption == {"viewer", "admin"} \subseteq Role /\ "none" \notin Role

VARIABLES
    role,      \* [User -> Role \cup {"none"}], "none" before the registration
    held,      \* [Worker -> Role \cup {"none"}], the role in the row it has read
    claim,     \* [Token -> Role \cup {"none"}], the role in the access token
    lapsed,    \* the access tokens that have expired
    inflight   \* the access tokens with an administrator's request past the checks

access == <<role, held, claim, lapsed, inflight>>
allvars == <<vars, access>>

AccessInit ==
    /\ Init
    /\ role \in [User -> Role \cup {"none"}]
    /\ held = [w \in Worker |-> "none"]
    /\ claim = [t \in Token |-> "none"]
    /\ lapsed = {}
    /\ inflight = {}

\* Mutant: the role asked for is only looked up among the valid ones.
RegisterAny(u, asked) ==
    /\ role[u] = "none" /\ account[u] # "deleted"
    /\ role' = [role EXCEPT ![u] = asked]
    /\ UNCHANGED <<vars, held, claim, lapsed, inflight>>

\* AuthService.Register: the first administrator is not made here.
Register(u, asked) ==
    /\ role[u] = "none" /\ account[u] # "deleted"
    /\ asked # "admin"
    /\ role' = [role EXCEPT ![u] = asked]
    /\ UNCHANGED <<vars, held, claim, lapsed, inflight>>

-----------------------------------------------------------------------------
\* The steps of Tokens, with what they do to roles and claims.

Forget == held' = [w \in Worker |-> IF pc'[w] = "idle" THEN "none" ELSE held[w]]

\* The row is read, and the access token signed from it before the next statement.
AccessLogin(w, u) ==
    /\ role[u] # "none"
    /\ Login(w, u)
    /\ held' = [held EXCEPT ![w] = role[u]]
    /\ UNCHANGED <<role, claim, lapsed, inflight>>

\* Mutant: the role is carried over from the claims of the old pair.
AccessCheckClaim(w) ==
    /\ CheckUser(w)
    /\ held' = [held EXCEPT ![w] = claim[old[w]]]
    /\ UNCHANGED <<role, claim, lapsed, inflight>>

AccessCheckUser(w) ==
    /\ CheckUser(w)
    /\ held' = [held EXCEPT ![w] = role[usr[w]]]
    /\ UNCHANGED <<role, claim, lapsed, inflight>>

AccessIssue(w) ==
    /\ Issue(w)
    /\ claim' = [claim EXCEPT ![new'[w]] = held[w]]
    /\ held' = [held EXCEPT ![w] = "none"]
    /\ UNCHANGED <<role, lapsed, inflight>>

AccessOther(w) ==
    /\ \/ \E t \in Token : Present(w, t)
       \/ RevokeFamily(w) \/ AuditLogin(w) \/ Find(w) \/ Inherit(w) \/ Retire(w)
       \/ Answer(w) \/ Fail(w)
    /\ Forget
    /\ UNCHANGED <<role, claim, lapsed, inflight>>

\* Mutant: the expiry in the claims is not looked at.
AuthenticatedEver(t) == t \in known

\* AuthMiddleware: a token with a valid signature that has not expired.
Authenticated(t) == t \in known /\ t \notin lapsed

\* A logout is a protected request: the user is the one of the access token.
AccessLogout(w, t) ==
    /\ Authenticated(t)
    /\ \E u \in User : owner[t] = u /\ Logout(w, u)
    /\ UNCHANGED access

-----------------------------------------------------------------------------
\* Mutant: a route without RequireRole.
AuthoriseAny(t) ==
    /\ Authenticated(t)
    /\ inflight' = inflight \cup {t}
    /\ UNCHANGED <<vars, role, held, claim, lapsed>>

\* RequireRole("admin"), on the claims.
Authorise(t) ==
    /\ Authenticated(t)
    /\ claim[t] = "admin"
    /\ inflight' = inflight \cup {t}
    /\ UNCHANGED <<vars, role, held, claim, lapsed>>

\* The handler of such a request.  A PUT of a user sets the role and the status,
\* one or both, in one statement; a column it leaves out keeps its value.
AccessUpdateUser(t, u, r, status) ==
    /\ t \in inflight
    /\ role[u] # "none"
    /\ SetActive(u, status)
    /\ role' = [role EXCEPT ![u] = r]
    /\ inflight' = inflight \ {t}
    /\ UNCHANGED <<held, claim, lapsed>>

AccessDeleteUser(t, u) ==
    /\ t \in inflight
    /\ role[u] # "none"
    /\ DeleteUser(u)
    /\ inflight' = inflight \ {t}
    /\ UNCHANGED <<role, held, claim, lapsed>>

\* It does something else to the system, or it is refused.
ActOtherwise(t) ==
    /\ t \in inflight
    /\ inflight' = inflight \ {t}
    /\ UNCHANGED <<vars, role, held, claim, lapsed>>

\* The lifetime of an access token has passed, known to a client or not.
Lapse(t) ==
    /\ claim[t] # "none" /\ t \notin lapsed
    /\ lapsed' = lapsed \cup {t}
    /\ UNCHANGED <<vars, role, held, claim, inflight>>

AccessCrash ==
    /\ Crash
    /\ Forget
    /\ inflight' = {}
    /\ UNCHANGED <<role, claim, lapsed>>

AccessStep(w) ==
    \/ AccessCheckUser(w) \/ AccessIssue(w) \/ AccessOther(w)

AccessNext ==
    \/ \E u \in User, r \in Role : Register(u, r)
    \/ \E w \in Worker : AccessStep(w) \/ \E u \in User : AccessLogin(w, u)
    \/ \E w \in Worker, t \in Token : AccessLogout(w, t)
    \/ \E t \in Token : Authorise(t) \/ Lapse(t) \/ ActOtherwise(t)
    \/ \E t \in Token, u \in User :
          \/ \E r \in Role, s \in {"active", "inactive"} : AccessUpdateUser(t, u, r, s)
          \/ AccessDeleteUser(t, u)
    \/ (\E t \in Token : Expire(t)) /\ UNCHANGED access
    \/ Cleanup /\ UNCHANGED access
    \/ AccessCrash

AccessSpec == AccessInit /\ [][AccessNext]_allvars

\* Time passes, and requests that have begun end.
AccessFairness ==
    /\ \A t \in Token : WF_allvars(Lapse(t)) /\ WF_allvars(ActOtherwise(t))
    /\ \A w \in Worker : WF_allvars(AccessStep(w))

FairAccessSpec == AccessSpec /\ AccessFairness

-----------------------------------------------------------------------------
\* Properties.

AccessTypeOK ==
    /\ role \in [User -> Role \cup {"none"}]
    /\ held \in [Worker -> Role \cup {"none"}]
    /\ claim \in [Token -> Role \cup {"none"}]
    /\ lapsed \subseteq Token
    /\ inflight \subseteq Token

Administrator(u) == role[u] = "admin" /\ account[u] = "active"

\* What lets a user act as an administrator, or may let it soon: an access token
\* that has not expired, a request past the checks, a pair about to be issued.
Empowers(t, u) == owner[t] = u /\ claim[t] = "admin" /\ (t \notin lapsed \/ t \in inflight)
Empowered(u) ==
    \/ \E t \in Token : Empowers(t, u)
    \/ \E w \in Worker : usr[w] = u /\ held[w] = "admin"

Powerless(u) == ~Administrator(u) /\ ~Empowered(u)

\* A user who is demoted, deactivated or deleted and whose access tokens have
\* expired has lost its rights for good: refreshing, logging in or registering
\* does not bring them back, only another user with an administrator's token
\* does.  In particular, once nobody is an administrator nobody ever is.
DemotionIsFinal ==
    [][\A u \in User : Powerless(u) =>
          \/ Powerless(u)'
          \/ Administrator(u)' /\ \E v \in User \ {u} : Empowered(v)]_allvars

\* A demotion or deactivation that lasts takes effect, as every access token
\* expires and none with the old role is issued any more.
DemotionTakesEffect ==
    \A u \in User : <>[]~Administrator(u) => <>[]Powerless(u)
=============================================================================
