------------------------------- MODULE Tokens -------------------------------
(***************************************************************************)
(* Refresh tokens: login, rotation, replay detection, logout, cleanup.     *)
(*                                                                         *)
(* TokenService runs each statement in a transaction of its own, so a      *)
(* refresh is a sequence of steps between which any other request, an      *)
(* administrator, the cleanup or a crash may come.  A worker is a request  *)
(* handler; pc[w] is the statement it runs next and the other variables of *)
(* a worker are what it has read so far, which may be stale by then.       *)
(*                                                                         *)
(* Tokens are numbered in the order of their INSERT.  The number stands    *)
(* for the row, for the raw token and for the fresh family id that         *)
(* IssueTokenPair draws.                                                   *)
(***************************************************************************)
EXTENDS Naturals

CONSTANTS
    User,
    Worker,
    MaxTokens,     \* bound on the tokens ever issued
    Ignored        \* the statements whose error the code ignores and that may
                   \* fail: a subset of {"audit", "revoke_family", "inherit", "retire"}

ASSUME UserAssumption == "nobody" \notin User
ASSUME MaxTokensAssumption == MaxTokens \in Nat
ASSUME IgnoredAssumption == Ignored \subseteq {"audit", "revoke_family", "inherit", "retire"}

Token == 1 .. MaxTokens
NoToken == 0

VARIABLES
    account,   \* [User -> {"active", "inactive", "deleted"}]
    logins,    \* the login events, each named by the token its login issued
    issued,    \* how many tokens were inserted
    row,       \* [Token -> {"none", "stored", "deleted"}]
    owner,     \* [Token -> User \cup {"nobody"}], user_id
    family,    \* [Token -> Nat], family_id
    revoked,   \* the tokens whose revoked_at is set
    expired,   \* the tokens whose expires_at has passed
    successor, \* [Token -> Nat], replaced_by
    known,     \* the raw tokens that reached a client
    pc,        \* the next statement of each worker
    usr,       \* the user it works for
    old,       \* the token presented to it
    fam,       \* the family of that token when it was read
    new,       \* the token it issued
    replayed,  \* history: families in which a replay was detected
    loggedOut  \* history: families that existed when their user logged out

users == <<account, logins>>
table == <<issued, row, owner, family, revoked, expired, successor>>
work == <<pc, usr, old, fam, new>>
history == <<replayed, loggedOut>>
vars == <<account, logins, issued, row, owner, family, revoked, expired, successor,
          known, pc, usr, old, fam, new, replayed, loggedOut>>

Stored(t) == row[t] = "stored"
LiveToken(t) == Stored(t) /\ t \notin revoked \cup expired
Members(f) == {t \in Token : Stored(t) /\ family[t] = f}
TokensOf(u) == {t \in Token : Stored(t) /\ owner[t] = u}

Init ==
    /\ account = [u \in User |-> "active"]
    /\ logins = {}
    /\ issued = 0
    /\ row = [t \in Token |-> "none"]
    /\ owner = [t \in Token |-> "nobody"]
    /\ family = [t \in Token |-> NoToken]
    /\ revoked = {}
    /\ expired = {}
    /\ successor = [t \in Token |-> NoToken]
    /\ known = {}
    /\ pc = [w \in Worker |-> "idle"]
    /\ usr = [w \in Worker |-> "nobody"]
    /\ old = [w \in Worker |-> NoToken]
    /\ fam = [w \in Worker |-> NoToken]
    /\ new = [w \in Worker |-> NoToken]
    /\ replayed = {}
    /\ loggedOut = {}

Goto(w, place) == pc' = [pc EXCEPT ![w] = place]

\* The answer leaves the handler; its variables go out of scope.
Finish(w) ==
    /\ Goto(w, "idle")
    /\ usr' = [usr EXCEPT ![w] = "nobody"]
    /\ old' = [old EXCEPT ![w] = NoToken]
    /\ fam' = [fam EXCEPT ![w] = NoToken]
    /\ new' = [new EXCEPT ![w] = NoToken]

-----------------------------------------------------------------------------
\* AuthService.Login with the right password: the user is read and found active.
Login(w, u) ==
    /\ pc[w] = "idle"
    /\ account[u] = "active"
    /\ Goto(w, "issue")
    /\ usr' = [usr EXCEPT ![w] = u]
    /\ UNCHANGED <<users, table, known, old, fam, new, history>>

\* Mutant: a revoked token is not told from a valid one.
PresentAny(w, t) ==
    /\ pc[w] = "idle"
    /\ t \in known /\ Stored(t) /\ t \notin expired
    /\ Goto(w, "user")
    /\ usr' = [usr EXCEPT ![w] = owner[t]]
    /\ old' = [old EXCEPT ![w] = t]
    /\ fam' = [fam EXCEPT ![w] = family[t]]
    /\ UNCHANGED <<users, table, known, new, history>>

\* TokenService.RefreshTokens, first statement: a client presents a token.
Present(w, t) ==
    /\ pc[w] = "idle"
    /\ t \in known
    /\ Stored(t)
    /\ t \notin expired \ revoked
    /\ Goto(w, IF t \in revoked THEN "revoke_family" ELSE "user")
    /\ usr' = [usr EXCEPT ![w] = owner[t]]
    /\ old' = [old EXCEPT ![w] = t]
    /\ fam' = [fam EXCEPT ![w] = family[t]]
    /\ UNCHANGED <<users, table, known, new, history>>

\* Mutant: a replay revokes the presented token only.
RevokePresented(w) ==
    /\ pc[w] = "revoke_family"
    /\ revoked' = revoked \cup {old[w]}
    /\ replayed' = replayed \cup {fam[w]}
    /\ Finish(w)
    /\ UNCHANGED <<users, issued, row, owner, family, expired, successor, known, loggedOut>>

\* RevokeTokenFamily, on a revoked token.  Its error is ignored.
RevokeFamily(w) ==
    /\ pc[w] = "revoke_family"
    /\ \/ revoked' = revoked \cup Members(fam[w])
       \/ "revoke_family" \in Ignored /\ UNCHANGED revoked
    /\ replayed' = replayed \cup {fam[w]}
    /\ Finish(w)
    /\ UNCHANGED <<users, issued, row, owner, family, expired, successor, known, loggedOut>>

\* Mutant: is_active is not looked at.
CheckNothing(w) ==
    /\ pc[w] = "user"
    /\ Goto(w, "issue")
    /\ UNCHANGED <<users, table, known, usr, old, fam, new, history>>

\* The user of the token is read.
CheckUser(w) ==
    /\ pc[w] = "user"
    /\ account[usr[w]] = "active"
    /\ Goto(w, "issue")
    /\ UNCHANGED <<users, table, known, usr, old, fam, new, history>>

\* Mutant: the family id of a new token is left at its zero value.
IssueWithoutFamily(w) ==
    /\ pc[w] = "issue"
    /\ issued < MaxTokens
    /\ account[usr[w]] # "deleted"
    /\ LET n == issued + 1 IN
        /\ issued' = n
        /\ row' = [row EXCEPT ![n] = "stored"]
        /\ owner' = [owner EXCEPT ![n] = usr[w]]
        /\ new' = [new EXCEPT ![w] = n]
    /\ Goto(w, IF old[w] = NoToken THEN "audit" ELSE "find")
    /\ UNCHANGED <<users, family, revoked, expired, successor, known, usr, old, fam, history>>

\* IssueTokenPair: the row of a new token, in a family of its own.  The
\* foreign key wants the user to exist still.
Issue(w) ==
    /\ pc[w] = "issue"
    /\ issued < MaxTokens
    /\ account[usr[w]] # "deleted"
    /\ LET n == issued + 1 IN
        /\ issued' = n
        /\ row' = [row EXCEPT ![n] = "stored"]
        /\ owner' = [owner EXCEPT ![n] = usr[w]]
        /\ family' = [family EXCEPT ![n] = n]
        /\ new' = [new EXCEPT ![w] = n]
    /\ Goto(w, IF old[w] = NoToken THEN "audit" ELSE "find")
    /\ UNCHANGED <<users, revoked, expired, successor, known, usr, old, fam, history>>

\* Mutant: the event is left to a goroutine that is never waited for.
AuditLater(w) ==
    /\ pc[w] = "audit"
    /\ Goto(w, "answer")
    /\ UNCHANGED <<users, table, known, usr, old, fam, new, history>>

\* AuthService.Login writes its event in a transaction of its own, after the
\* token, and ignores the error.
AuditLogin(w) ==
    /\ pc[w] = "audit"
    /\ \/ logins' = logins \cup {new[w]}
       \/ "audit" \in Ignored /\ UNCHANGED logins
    /\ Goto(w, "answer")
    /\ UNCHANGED <<account, table, known, usr, old, fam, new, history>>

\* The new row is read back by its hash.
Find(w) ==
    /\ pc[w] = "find"
    /\ Stored(new[w])
    /\ Goto(w, "inherit")
    /\ UNCHANGED <<users, table, known, usr, old, fam, new, history>>

\* Mutant: the new token keeps the family it was issued with.
InheritNothing(w) ==
    /\ pc[w] = "inherit"
    /\ Goto(w, "retire")
    /\ UNCHANGED <<users, table, known, usr, old, fam, new, history>>

\* It inherits the family read with the old token.  An UPDATE of a row that is
\* gone changes nothing; an error is ignored.
Inherit(w) ==
    /\ pc[w] = "inherit"
    /\ \/ family' = IF Stored(new[w]) THEN [family EXCEPT ![new[w]] = fam[w]] ELSE family
       \/ "inherit" \in Ignored /\ UNCHANGED family
    /\ Goto(w, "retire")
    /\ UNCHANGED <<users, issued, row, owner, revoked, expired, successor, known,
                   usr, old, fam, new, history>>

\* Mutant: the old token is linked to the new one and stays valid.
RetireNothing(w) ==
    /\ pc[w] = "retire"
    /\ successor' = [successor EXCEPT ![old[w]] = new[w]]
    /\ Goto(w, "answer")
    /\ UNCHANGED <<users, issued, row, owner, family, revoked, expired, known,
                   usr, old, fam, new, history>>

\* The old token is revoked and linked to the new one, whatever became of it
\* since it was read.  An error is ignored.
Retire(w) ==
    /\ pc[w] = "retire"
    /\ \/ /\ Stored(old[w])
          /\ revoked' = revoked \cup {old[w]}
          /\ successor' = [successor EXCEPT ![old[w]] = new[w]]
       \/ /\ ~Stored(old[w]) \/ "retire" \in Ignored
          /\ UNCHANGED revoked /\ UNCHANGED successor
    /\ Goto(w, "answer")
    /\ UNCHANGED <<users, issued, row, owner, family, expired, known, usr, old, fam, new, history>>

\* The pair reaches the client; or the connection is gone and it does not.
Answer(w) ==
    /\ pc[w] = "answer"
    /\ known' \in {known, known \cup {new[w]}}
    /\ Finish(w)
    /\ UNCHANGED <<users, table, history>>

\* A check fails, or a statement whose error is not ignored.
Fail(w) ==
    /\ pc[w] \in {"user", "issue", "find"}
    /\ Finish(w)
    /\ UNCHANGED <<users, table, known, history>>

\* Mutant: a logout revokes the newest token of the user.
LogoutNewest(w, u) ==
    /\ pc[w] = "idle"
    /\ TokensOf(u) # {}
    /\ revoked' = revoked \cup {t \in TokensOf(u) : \A s \in TokensOf(u) : s <= t}
    /\ loggedOut' = loggedOut \cup {family[t] : t \in TokensOf(u)}
    /\ UNCHANGED <<users, issued, row, owner, family, expired, successor, known, work, replayed>>

\* RevokeAllUserTokens: a logout is a request of one statement.
Logout(w, u) ==
    /\ pc[w] = "idle"
    /\ TokensOf(u) # {}
    /\ revoked' = revoked \cup TokensOf(u)
    /\ loggedOut' = loggedOut \cup {family[t] : t \in TokensOf(u)}
    /\ UNCHANGED <<users, issued, row, owner, family, expired, successor, known, work, replayed>>

-----------------------------------------------------------------------------
\* UserService.UpdateUser on is_active, and DeleteUser with its cascade.
SetActive(u, status) ==
    /\ account[u] # "deleted"
    /\ status \in {"active", "inactive"}
    /\ account' = [account EXCEPT ![u] = status]
    /\ UNCHANGED <<logins, table, known, work, history>>

DeleteUser(u) ==
    /\ account[u] # "deleted"
    /\ account' = [account EXCEPT ![u] = "deleted"]
    /\ row' = [t \in Token |-> IF t \in TokensOf(u) THEN "deleted" ELSE row[t]]
    /\ UNCHANGED <<logins, issued, owner, family, revoked, expired, successor, known, work, history>>

Expire(t) ==
    /\ Stored(t) /\ t \notin expired
    /\ expired' = expired \cup {t}
    /\ UNCHANGED <<users, issued, row, owner, family, revoked, successor, known, work, history>>

\* Mutant: every revoked row goes, and its number becomes free.
CleanupRevoked ==
    /\ row' = [t \in Token |-> IF t \in revoked THEN "none" ELSE row[t]]
    /\ UNCHANGED <<users, issued, owner, family, revoked, expired, successor, known, work, history>>

\* OutboxPublisher.cleanupExpiredRefreshTokens, one statement.
Cleanup ==
    LET gone == {t \in expired \cap revoked : Stored(t)} IN
    /\ gone # {}
    /\ row' = [t \in Token |-> IF t \in gone THEN "deleted" ELSE row[t]]
    /\ UNCHANGED <<users, issued, owner, family, revoked, expired, successor, known, work, history>>

\* The process dies between two statements; those that ran stay committed.
Crash ==
    /\ pc' = [w \in Worker |-> "idle"]
    /\ usr' = [w \in Worker |-> "nobody"]
    /\ old' = [w \in Worker |-> NoToken]
    /\ fam' = [w \in Worker |-> NoToken]
    /\ new' = [w \in Worker |-> NoToken]
    /\ UNCHANGED <<users, table, known, history>>

Step(w) ==
    \/ RevokeFamily(w) \/ CheckUser(w) \/ Issue(w) \/ AuditLogin(w) \/ Find(w)
    \/ Inherit(w) \/ Retire(w) \/ Answer(w) \/ Fail(w)

Next ==
    \/ \E w \in Worker, u \in User : Login(w, u) \/ Logout(w, u)
    \/ \E w \in Worker, t \in Token : Present(w, t)
    \/ \E w \in Worker : Step(w)
    \/ \E u \in User : DeleteUser(u) \/ \E s \in {"active", "inactive"} : SetActive(u, s)
    \/ \E t \in Token : Expire(t)
    \/ Cleanup
    \/ Crash

Spec == Init /\ [][Next]_vars

-----------------------------------------------------------------------------
\* Properties.

TypeOK ==
    /\ account \in [User -> {"active", "inactive", "deleted"}]
    /\ logins \subseteq Token
    /\ issued \in 0 .. MaxTokens
    /\ row \in [Token -> {"none", "stored", "deleted"}]
    /\ \A t \in Token : row[t] = "none" <=> t > issued
    /\ owner \in [Token -> User \cup {"nobody"}]
    /\ family \in [Token -> 0 .. MaxTokens]
    /\ revoked \subseteq Token
    /\ expired \subseteq Token
    /\ successor \in [Token -> 0 .. MaxTokens]
    /\ known \subseteq Token
    /\ pc \in [Worker -> {"idle", "user", "issue", "audit", "find", "inherit", "retire",
                          "answer", "revoke_family"}]
    /\ usr \in [Worker -> User \cup {"nobody"}]
    /\ old \in [Worker -> 0 .. MaxTokens]
    /\ fam \in [Worker -> 0 .. MaxTokens]
    /\ new \in [Worker -> 0 .. MaxTokens]
    /\ replayed \subseteq 0 .. MaxTokens
    /\ loggedOut \subseteq 0 .. MaxTokens

\* The tokens of a family belong to one user, so a replay never revokes the
\* sessions of somebody else, whatever requests, crashes and errors interleave.
FamilyOfOneUser ==
    \A s, t \in Token :
        Stored(s) /\ Stored(t) /\ family[s] = family[t] => owner[s] = owner[t]

\* A request that read a token of family f as valid and has not yet given its
\* new token that family.
Rotating(f) ==
    \E w \in Worker : /\ pc[w] \in {"user", "issue", "find", "inherit"}
                       /\ old[w] # NoToken
                       /\ fam[w] = f

Dead(f) == f <= issued /\ ~Rotating(f) /\ Members(f) \subseteq revoked

\* Once a family is revoked and no rotation of it is under way, no token of
\* it is ever valid again: this is what replay detection is worth.
DeadFamilyStaysDead == [][\A f \in Token : Dead(f) => Dead(f)']_vars

\* A user that is not active, with no request past its check of that.
Blocked(u) ==
    /\ account[u] # "active"
    /\ \A w \in Worker : usr[w] = u => pc[w] \in {"user", "revoke_family"}

\* A deactivated or deleted user obtains no token and no row is made for it,
\* except by requests that were past their check when it was deactivated.
NoTokenWhileBlocked ==
    [][\A u \in User : Blocked(u) =>
          /\ Blocked(u)' \/ account'[u] = "active"
          /\ TokensOf(u)' \subseteq TokensOf(u)
          /\ known' \cap TokensOf(u) = known \cap TokensOf(u)]_vars

\* As long as a rotated token could pass for valid, its row is there and says
\* that it was used: cleanup never destroys what detects a replay.
ReplayRecognised ==
    \A t \in known :
        successor[t] # NoToken /\ t \notin expired /\ account[owner[t]] # "deleted"
            => Stored(t) /\ t \in revoked

\* models/refresh_token.go: the replacement inherits the family.  Inherit runs
\* before Retire, so a crash between them leaves no successor outside it.
SuccessorInFamily ==
    \A t \in Token :
        LET n == successor[t]
        IN n # NoToken /\ Stored(t) /\ Stored(n) => family[n] = family[t]

Quiet == \A w \in Worker : pc[w] = "idle"

\* README, Valid refresh: a rotation replaces the old token by the new one, so
\* the clients of a session hold at most one token that works.
OneUsablePerFamily ==
    Quiet => \A s, t \in known :
                LiveToken(s) /\ LiveToken(t) /\ family[s] = family[t] => s = t

\* README: on a replay all tokens in the family are revoked.
ReplayEndsFamily == Quiet => \A f \in replayed : Members(f) \subseteq revoked

\* README: a logout destroys all refresh tokens of the user.
LogoutEndsSessions == Quiet => \A f \in loggedOut : Members(f) \subseteq revoked

\* README: every login records an audit event.  A session begins with a login
\* that is on record: its first token is in the hands of a client only if the
\* event is there, as long as the INSERT of the event does not fail.  (The
\* event comes after the token, in a transaction of its own.)
LoginsAudited == \A t \in known : Stored(t) /\ family[t] = t => t \in logins
=============================================================================
