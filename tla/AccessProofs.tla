---------------------------- MODULE AccessProofs ----------------------------
(***************************************************************************)
(* Roles and access tokens for any number of users, handlers and tokens:   *)
(* the composition keeps the promises of the refresh tokens, and a right   *)
(* that is lost does not come back by itself.                              *)
(***************************************************************************)
EXTENDS Access, TokensProofs

\* Every step of the composition is a step of the refresh tokens, or none.
LEMMA TokensStep ==
    ASSUME [AccessNext]_allvars
    PROVE  [Next]_vars
<1>1. ASSUME NEW w \in Worker, AccessStep(w) PROVE Next
  <2>1. Step(w) \/ \E t \in Token : Present(w, t)
    BY <1>1 DEF AccessStep, AccessCheckUser, AccessIssue, AccessOther, Step
  <2> QED
    BY <2>1 DEF Next
<1>2. ASSUME NEW w \in Worker, NEW u \in User, AccessLogin(w, u) PROVE Next
  BY <1>2 DEF AccessLogin, Next
<1>3. ASSUME NEW w \in Worker, NEW t \in Token, AccessLogout(w, t) PROVE Next
  BY <1>3 DEF AccessLogout, Next
<1>4. ASSUME NEW u \in User, NEW r \in Role, Register(u, r) PROVE UNCHANGED vars
  BY <1>4 DEF Register
<1>5. ASSUME NEW t \in Token, Authorise(t) \/ Lapse(t) \/ ActOtherwise(t) PROVE UNCHANGED vars
  BY <1>5 DEF Authorise, Lapse, ActOtherwise
<1>6. ASSUME NEW t \in Token, NEW u \in User, NEW r \in Role, NEW s \in {"active", "inactive"},
             AccessUpdateUser(t, u, r, s)
      PROVE  Next
  BY <1>6 DEF AccessUpdateUser, Next
<1>7. ASSUME NEW t \in Token, NEW u \in User, AccessDeleteUser(t, u) PROVE Next
  BY <1>7 DEF AccessDeleteUser, Next
<1>8. ASSUME (\E t \in Token : Expire(t)) \/ Cleanup \/ AccessCrash PROVE Next
  BY <1>8 DEF AccessCrash, Next
<1>9. ASSUME UNCHANGED allvars PROVE UNCHANGED vars
  BY <1>9 DEF allvars
<1> QED
  BY <1>1, <1>2, <1>3, <1>4, <1>5, <1>6, <1>7, <1>8, <1>9 DEF AccessNext

\* What holds of the refresh tokens holds of the composition.
THEOREM ComposedTokens == AccessSpec => Spec
<1>1. AccessInit => Init
  BY DEF AccessInit
<1> QED
  BY <1>1, TokensStep, PTL DEF AccessSpec, Spec

-----------------------------------------------------------------------------
\* A role is carried from the row that was read to the pair, and no further;
\* an access token names a user that was issued one; a request past the checks
\* has an administrator's token.
Carried ==
    /\ \A w \in Worker : held[w] # "none" => pc[w] = "issue"
    /\ \A t \in Token : claim[t] # "none" => owner[t] \in User /\ t <= issued
    /\ \A t \in inflight : claim[t] = "admin"

\* The inductive invariant of access tokens and roles.
AccessInv == IInv /\ AccessTypeOK /\ Carried

\* The system starts in the invariant.
LEMMA AccessInvInit == AccessInit => AccessInv
BY InvInit DEF AccessInit, AccessInv, AccessTypeOK, Carried

\* The steps that leave the roles in memory and in tokens alone keep what is
\* said of them, if they leave the handlers at "issue" there.
LEMMA ForgetKeeps ==
    ASSUME AccessInv, Forget, UNCHANGED <<role, claim, lapsed>>,
           inflight' \subseteq inflight, UNCHANGED <<owner, issued>>,
           \A w \in Worker : held[w] # "none" => pc'[w] \in {"idle", "issue"}
    PROVE  AccessTypeOK' /\ Carried'
<1>1. \A w \in Worker : held'[w] = IF pc'[w] = "idle" THEN "none" ELSE held[w]
  BY DEF Forget
<1>2. held' \in [Worker -> Role \cup {"none"}]
  BY <1>1 DEF AccessInv, Forget, AccessTypeOK
<1> QED
  BY <1>1, <1>2 DEF AccessInv, AccessTypeOK, Carried

\* And no step leaves it.
LEMMA AccessInvStep ==
    ASSUME AccessInv, [AccessNext]_allvars
    PROVE  AccessInv'
<1>1. IInv /\ AccessTypeOK /\ Carried
  BY DEF AccessInv
<1>2. IInv'
  <2>1. [Next]_vars
    BY TokensStep
  <2> QED
    BY <1>1, <2>1, TypeStep, ControlStep, OwnershipStep DEF IInv
<1> SUFFICES AccessTypeOK' /\ Carried'
  BY <1>2 DEF AccessInv
<1>3. ASSUME NEW u \in User, NEW r \in Role, Register(u, r) PROVE AccessTypeOK' /\ Carried'
  BY <1>1, <1>3 DEF Register, AccessTypeOK, Carried, vars
<1>4. ASSUME NEW w \in Worker, NEW u \in User, AccessLogin(w, u) PROVE AccessTypeOK' /\ Carried'
  <2>1. /\ pc' = [pc EXCEPT ![w] = "issue"]
        /\ held' = [held EXCEPT ![w] = role[u]]
        /\ UNCHANGED <<role, claim, lapsed, inflight, owner, issued>>
    BY <1>4 DEF AccessLogin, Login, Goto, table
  <2> QED
    BY <1>1, <2>1 DEF AccessTypeOK, Carried, IInv, TypeOK
<1>5. ASSUME NEW w \in Worker, AccessCheckUser(w) PROVE AccessTypeOK' /\ Carried'
  <2>1. /\ pc' = [pc EXCEPT ![w] = "issue"]
        /\ held' = [held EXCEPT ![w] = role[usr[w]]]
        /\ pc[w] = "user"
        /\ UNCHANGED <<role, claim, lapsed, inflight, owner, issued>>
    BY <1>5 DEF AccessCheckUser, CheckUser, Goto, table
  <2>2. usr[w] \in User
    BY <1>1, <2>1 DEF IInv, Control
  <2> QED
    BY <1>1, <2>1, <2>2 DEF AccessTypeOK, Carried, IInv, TypeOK
<1>6. ASSUME NEW w \in Worker, AccessIssue(w) PROVE AccessTypeOK' /\ Carried'
  <2> DEFINE n == issued + 1
  <2>1. /\ pc[w] = "issue" /\ n \in Token /\ usr[w] \in User /\ issued \in Nat
    BY <1>1, <1>6, MaxTokensAssumption DEF AccessIssue, Issue, IInv, TypeOK, Control, Token
  <2>2. /\ issued' = n
        /\ owner' = [owner EXCEPT ![n] = usr[w]]
        /\ new' = [new EXCEPT ![w] = n]
        /\ held' = [held EXCEPT ![w] = "none"]
        /\ UNCHANGED <<role, lapsed, inflight>>
    BY <1>6 DEF AccessIssue, Issue
  <2>3. new'[w] = n
    BY <1>1, <2>2 DEF IInv, TypeOK
  <2>4. claim' = [claim EXCEPT ![n] = held[w]]
    BY <1>6, <2>3 DEF AccessIssue
  <2>5. \A v \in Worker : v # w => pc'[v] = pc[v]
    BY <1>1, <1>6 DEF AccessIssue, Issue, Goto, IInv, TypeOK
  <2>6. \A t \in inflight : t \in Token /\ t <= issued /\ t # n
    BY <1>1, <2>1, MaxTokensAssumption DEF AccessTypeOK, Carried, Token
  <2>7. \A t \in Token : owner'[t] = IF t = n THEN usr[w] ELSE owner[t]
    BY <1>1, <2>2 DEF IInv, TypeOK
  <2>8. \A t \in Token : claim'[t] = IF t = n THEN held[w] ELSE claim[t]
    BY <1>1, <2>4 DEF AccessTypeOK
  <2>9. \A v \in Worker : held'[v] = IF v = w THEN "none" ELSE held[v]
    BY <1>1, <2>2 DEF AccessTypeOK
  <2>10. AccessTypeOK'
    BY <1>1, <2>1, <2>2, <2>4 DEF AccessTypeOK
  <2>11. \A t \in Token : t <= issued => t <= n
    BY <2>1, MaxTokensAssumption DEF Token
  <2>12. n <= n
    BY <2>1
  <2> HIDE DEF n
  <2> QED
    BY <1>1, <2>1, <2>2, <2>5, <2>6, <2>7, <2>8, <2>9, <2>10, <2>11, <2>12 DEF Carried
<1>7. ASSUME NEW w \in Worker, AccessOther(w) PROVE AccessTypeOK' /\ Carried'
  <2>1. Forget /\ UNCHANGED <<role, claim, lapsed, inflight>>
    BY <1>7 DEF AccessOther
  <2>2. UNCHANGED <<owner, issued>>
    BY <1>7 DEF AccessOther, Present, RevokeFamily, AuditLogin, Find, Inherit, Retire, Answer,
                Fail, table
  <2>3. ASSUME NEW v \in Worker, held[v] # "none" PROVE pc'[v] \in {"idle", "issue"}
    <3>1. pc[v] = "issue"
      BY <1>1, <2>3 DEF Carried
    <3>2. v # w => pc'[v] = pc[v]
      BY <1>1, <1>7 DEF AccessOther, Present, RevokeFamily, AuditLogin, Find, Inherit, Retire,
                        Answer, Fail, Goto, Finish, IInv, TypeOK
    <3>3. v = w => pc'[v] = "idle"
      BY <1>1, <1>7, <3>1 DEF AccessOther, Present, RevokeFamily, AuditLogin, Find, Inherit,
                              Retire, Answer, Fail, Goto, Finish, IInv, TypeOK
    <3> QED
      BY <3>1, <3>2, <3>3
  <2> QED
    BY <2>1, <2>2, <2>3, ForgetKeeps
<1>8. ASSUME NEW w \in Worker, NEW t \in Token, AccessLogout(w, t) PROVE AccessTypeOK' /\ Carried'
  <2>1. UNCHANGED <<pc, owner, issued, role, held, claim, lapsed, inflight>>
    BY <1>8 DEF AccessLogout, Logout, work, access
  <2> QED
    BY <1>1, <2>1 DEF AccessTypeOK, Carried
<1>9. ASSUME NEW t \in Token, Authorise(t) PROVE AccessTypeOK' /\ Carried'
  BY <1>1, <1>9 DEF Authorise, AccessTypeOK, Carried, vars
<1>10. ASSUME NEW t \in Token, Lapse(t) \/ ActOtherwise(t) PROVE AccessTypeOK' /\ Carried'
  BY <1>1, <1>10 DEF Lapse, ActOtherwise, AccessTypeOK, Carried, vars
<1>11. ASSUME NEW t \in Token, NEW u \in User, NEW r \in Role, NEW s \in {"active", "inactive"},
              AccessUpdateUser(t, u, r, s)
       PROVE  AccessTypeOK' /\ Carried'
  <2>1. /\ role' = [role EXCEPT ![u] = r]
        /\ inflight' = inflight \ {t}
        /\ UNCHANGED <<pc, owner, issued, held, claim, lapsed>>
    BY <1>11 DEF AccessUpdateUser, SetActive, table, work
  <2> QED
    BY <1>1, <2>1 DEF AccessTypeOK, Carried
<1>12. ASSUME NEW t \in Token, NEW u \in User, AccessDeleteUser(t, u)
       PROVE  AccessTypeOK' /\ Carried'
  <2>1. /\ inflight' = inflight \ {t}
        /\ UNCHANGED <<pc, owner, issued, role, held, claim, lapsed>>
    BY <1>12 DEF AccessDeleteUser, DeleteUser, work
  <2> QED
    BY <1>1, <2>1 DEF AccessTypeOK, Carried
<1>13. ASSUME (\E t \in Token : Expire(t)) \/ Cleanup, UNCHANGED access
       PROVE  AccessTypeOK' /\ Carried'
  <2>1. UNCHANGED <<pc, owner, issued, role, held, claim, lapsed, inflight>>
    BY <1>13 DEF Expire, Cleanup, work, access
  <2> QED
    BY <1>1, <2>1 DEF AccessTypeOK, Carried
<1>14. CASE AccessCrash
  <2>1. /\ Forget /\ inflight' = {} /\ UNCHANGED <<role, claim, lapsed, owner, issued>>
        /\ pc' = [w \in Worker |-> "idle"]
    BY <1>14 DEF AccessCrash, Crash, table
  <2> QED
    BY <2>1, ForgetKeeps
<1>15. CASE UNCHANGED allvars
  BY <1>1, <1>15 DEF allvars, vars, access, AccessTypeOK, Carried
<1> QED
  BY <1>3, <1>4, <1>5, <1>6, <1>7, <1>8, <1>9, <1>10, <1>11, <1>12, <1>13, <1>14, <1>15
     DEF AccessNext, AccessStep

\* The inductive invariant of roles and access tokens.
THEOREM AccessInvariance == AccessSpec => []AccessInv
<1>1. AccessInv /\ [AccessNext]_allvars => AccessInv'
  BY AccessInvStep
<1> QED
  BY <1>1, AccessInvInit, PTL DEF AccessSpec

-----------------------------------------------------------------------------
\* The cases in which no row, no token and no request changes.
LEMMA NotEmpoweredYet ==
    ASSUME AccessInv, NEW u \in User, ~Empowered(u), UNCHANGED <<owner, claim>>,
           lapsed \subseteq lapsed',
           \A t \in Token : t \in inflight' => t \in inflight \/ t \notin lapsed,
           \A w \in Worker : usr'[w] = u /\ held'[w] = "admin" => usr[w] = u /\ held[w] = "admin"
    PROVE  ~Empowered(u)'
BY DEF Empowered, Empowers

\* Nothing a user without rights can do gives it a token, a request or a pair
\* under way with an administrator's role.
LEMMA NotEmpoweredStep ==
    ASSUME AccessInv, AccessInv', [AccessNext]_allvars, NEW u \in User, Powerless(u)
    PROVE  ~Empowered(u)'
<1>1. /\ TypeOK /\ Control /\ AccessTypeOK /\ Carried
      /\ ~Empowered(u) /\ ~Administrator(u)
  BY DEF AccessInv, IInv, Powerless
<1>2. ASSUME NEW v \in User, NEW r \in Role, Register(v, r) PROVE ~Empowered(u)'
  BY <1>1, <1>2, NotEmpoweredYet DEF Register, vars
<1>3. ASSUME NEW w \in Worker, NEW v \in User, AccessLogin(w, v) PROVE ~Empowered(u)'
  <2>1. /\ account[v] = "active"
        /\ usr' = [usr EXCEPT ![w] = v]
        /\ held' = [held EXCEPT ![w] = role[v]]
        /\ UNCHANGED <<claim, lapsed, inflight, owner>>
    BY <1>3 DEF AccessLogin, Login, table
  <2>2. v = u => role[v] # "admin"
    BY <1>1, <2>1 DEF Administrator
  <2> QED
    BY <1>1, <2>1, <2>2, NotEmpoweredYet DEF TypeOK, AccessTypeOK
<1>4. ASSUME NEW w \in Worker, AccessCheckUser(w) PROVE ~Empowered(u)'
  <2>1. /\ account[usr[w]] = "active"
        /\ held' = [held EXCEPT ![w] = role[usr[w]]]
        /\ UNCHANGED <<usr, claim, lapsed, inflight, owner>>
    BY <1>4 DEF AccessCheckUser, CheckUser, table
  <2>2. usr[w] = u => role[usr[w]] # "admin"
    BY <1>1, <2>1 DEF Administrator
  <2> QED
    BY <1>1, <2>1, <2>2, NotEmpoweredYet DEF AccessTypeOK
<1>5. ASSUME NEW w \in Worker, AccessIssue(w) PROVE ~Empowered(u)'
  <2> DEFINE n == issued + 1
  <2>1. n \in Token
    BY <1>1, <1>5, MaxTokensAssumption DEF AccessIssue, Issue, TypeOK, Token
  <2>2. /\ owner' = [owner EXCEPT ![n] = usr[w]]
        /\ new' = [new EXCEPT ![w] = n]
        /\ held' = [held EXCEPT ![w] = "none"]
        /\ UNCHANGED <<usr, lapsed, inflight>>
    BY <1>5 DEF AccessIssue, Issue
  <2>3. claim' = [claim EXCEPT ![n] = held[w]]
    BY <1>1, <1>5, <2>2 DEF AccessIssue, TypeOK
  <2>4. ~(usr[w] = u /\ held[w] = "admin")
    BY <1>1 DEF Empowered
  <2>5. \A t \in Token : ~Empowers(t, u)'
    BY <1>1, <2>1, <2>2, <2>3, <2>4 DEF Empowers, Empowered, TypeOK, AccessTypeOK
  <2>6. \A v \in Worker : ~(usr'[v] = u /\ held'[v] = "admin")
    BY <1>1, <2>2 DEF Empowered, AccessTypeOK
  <2> QED
    BY <2>5, <2>6 DEF Empowered
<1>6. ASSUME NEW w \in Worker, AccessOther(w) PROVE ~Empowered(u)'
  <2>1. Forget /\ UNCHANGED <<claim, lapsed, inflight, owner>>
    BY <1>6 DEF AccessOther, Present, RevokeFamily, AuditLogin, Find, Inherit, Retire, Answer,
                Fail, table
  <2>2. ASSUME NEW v \in Worker, held'[v] = "admin" PROVE usr'[v] = usr[v] /\ held[v] = "admin"
    <3>1. held[v] = "admin" /\ pc'[v] # "idle"
      BY <2>1, <2>2 DEF Forget
    <3>2. pc[v] = "issue"
      BY <1>1, <3>1 DEF Carried
    <3>3. CASE v = w
      BY <1>1, <1>6, <3>1, <3>2, <3>3 DEF AccessOther, Present, RevokeFamily, AuditLogin, Find,
         Inherit, Retire, Answer, Fail, Goto, Finish, TypeOK
    <3>4. CASE v # w
      BY <1>1, <1>6, <3>1, <3>4 DEF AccessOther, Present, RevokeFamily, AuditLogin, Find,
         Inherit, Retire, Answer, Fail, Goto, Finish, TypeOK
    <3> QED
      BY <3>3, <3>4
  <2> QED
    BY <1>1, <2>1, <2>2, NotEmpoweredYet
<1>7. ASSUME NEW w \in Worker, NEW t \in Token, AccessLogout(w, t) PROVE ~Empowered(u)'
  BY <1>1, <1>7, NotEmpoweredYet DEF AccessLogout, Logout, work, access
<1>8. ASSUME NEW t \in Token, Authorise(t) PROVE ~Empowered(u)'
  BY <1>1, <1>8, NotEmpoweredYet DEF Authorise, Authenticated, vars
<1>9. ASSUME NEW t \in Token, Lapse(t) \/ ActOtherwise(t) PROVE ~Empowered(u)'
  BY <1>1, <1>9, NotEmpoweredYet DEF Lapse, ActOtherwise, vars
<1>10. ASSUME NEW t \in Token, NEW v \in User, NEW r \in Role, NEW s \in {"active", "inactive"},
              AccessUpdateUser(t, v, r, s)
       PROVE  ~Empowered(u)'
  BY <1>1, <1>10, NotEmpoweredYet DEF AccessUpdateUser, SetActive, table, work
<1>11. ASSUME NEW t \in Token, NEW v \in User, AccessDeleteUser(t, v) PROVE ~Empowered(u)'
  BY <1>1, <1>11, NotEmpoweredYet DEF AccessDeleteUser, DeleteUser, work
<1>12. ASSUME (\E t \in Token : Expire(t)) \/ Cleanup, UNCHANGED access PROVE ~Empowered(u)'
  BY <1>1, <1>12, NotEmpoweredYet DEF Expire, Cleanup, work, access
<1>13. CASE AccessCrash
  <2>1. \A w \in Worker : held'[w] = "none"
    BY <1>13 DEF AccessCrash, Crash, Forget
  <2> QED
    BY <1>1, <1>13, <2>1, NotEmpoweredYet DEF AccessCrash, Crash, table
<1>14. CASE UNCHANGED allvars
  BY <1>1, <1>14, NotEmpoweredYet DEF allvars, vars, access
<1> QED
  BY <1>2, <1>3, <1>4, <1>5, <1>6, <1>7, <1>8, <1>9, <1>10, <1>11, <1>12, <1>13, <1>14
     DEF AccessNext, AccessStep

\* Only the request of another user's administrator token makes a user without
\* rights an administrator.
LEMMA PromotedByOther ==
    ASSUME AccessInv, [AccessNext]_allvars, NEW u \in User, Powerless(u), Administrator(u)'
    PROVE  \E v \in User \ {u} : Empowered(v)
<1>1. /\ TypeOK /\ AccessTypeOK /\ Carried
      /\ ~Empowered(u) /\ ~Administrator(u)
  BY DEF AccessInv, IInv, Powerless
<1>2. ASSUME NEW t \in Token, t \in inflight PROVE \E v \in User \ {u} : Empowered(v)
  <2>1. claim[t] = "admin" /\ owner[t] \in User
    BY <1>1, <1>2 DEF Carried
  <2>2. Empowers(t, owner[t])
    BY <1>2, <2>1 DEF Empowers
  <2> QED
    BY <1>1, <2>1, <2>2 DEF Empowered
<1>3. ASSUME NEW v \in User, NEW r \in Role, Register(v, r) PROVE FALSE
  BY <1>1, <1>3 DEF Register, Administrator, AccessTypeOK, vars
<1>4. ASSUME NEW w \in Worker, AccessStep(w) \/ \E v \in User : AccessLogin(w, v) PROVE FALSE
  <2>1. UNCHANGED <<account, role>>
    BY <1>4 DEF AccessStep, AccessCheckUser, CheckUser, AccessIssue, Issue, AccessOther, Present,
                RevokeFamily, AuditLogin, Find, Inherit, Retire, Answer, Fail, AccessLogin, Login,
                users
  <2> QED
    BY <1>1, <2>1 DEF Administrator
<1>5. ASSUME NEW w \in Worker, NEW t \in Token, AccessLogout(w, t) PROVE FALSE
  BY <1>1, <1>5 DEF AccessLogout, Logout, users, access, Administrator
<1>6. ASSUME NEW t \in Token, Authorise(t) \/ Lapse(t) \/ ActOtherwise(t) PROVE FALSE
  BY <1>1, <1>6 DEF Authorise, Lapse, ActOtherwise, vars, Administrator
<1>7. ASSUME NEW t \in Token, NEW v \in User, NEW r \in Role, NEW s \in {"active", "inactive"},
             AccessUpdateUser(t, v, r, s)
      PROVE  t \in inflight
  BY <1>7 DEF AccessUpdateUser
<1>8. ASSUME NEW t \in Token, NEW v \in User, AccessDeleteUser(t, v) PROVE t \in inflight
  BY <1>8 DEF AccessDeleteUser
<1>9. ASSUME (\E t \in Token : Expire(t)) \/ Cleanup, UNCHANGED access PROVE FALSE
  BY <1>1, <1>9 DEF Expire, Cleanup, users, access, Administrator
<1>10. ASSUME AccessCrash \/ UNCHANGED allvars PROVE FALSE
  BY <1>1, <1>10 DEF AccessCrash, Crash, users, allvars, vars, access, Administrator
<1> QED
  BY <1>2, <1>3, <1>4, <1>5, <1>6, <1>7, <1>8, <1>9, <1>10 DEF AccessNext

\* A user who lost its rights and whose access tokens have expired gets them
\* back from another administrator or not at all, whatever it refreshes, and
\* whoever logs in, registers, crashes or is delayed.
THEOREM LostRightsStayLost == AccessSpec => DemotionIsFinal
<1>1. AccessInv /\ AccessInv' /\ [AccessNext]_allvars
        => [\A u \in User : Powerless(u) =>
               \/ Powerless(u)'
               \/ Administrator(u)' /\ \E v \in User \ {u} : Empowered(v)]_allvars
  BY NotEmpoweredStep, PromotedByOther DEF Powerless
<1> QED
  BY <1>1, AccessInvariance, PTL DEF AccessSpec, DemotionIsFinal
=============================================================================
