---------------------------- MODULE TokensProofs ----------------------------
(***************************************************************************)
(* Refresh tokens for any number of users, handlers and tokens, with any   *)
(* of the ignored errors: the types, that a family belongs to one user,    *)
(* and that a revoked family is never valid again.  Then what a session's  *)
(* chain of tokens is worth: a used token is recognised, a successor is in *)
(* the family, a session begins with an audited login, and a blocked user  *)
(* obtains nothing.  Where an ignored error would break a promise the      *)
(* theorem assumes that this statement does not fail; what overlapping     *)
(* requests break is proved of requests that do not overlap, with what is  *)
(* left of it when they do.                                                *)
(***************************************************************************)
EXTENDS Tokens, TLAPS

\* What a handler holds at each place of its program.
Control ==
    \A w \in Worker :
        /\ pc[w] = "idle" => old[w] = NoToken
        /\ pc[w] # "idle" => usr[w] \in User
        /\ pc[w] \in {"audit", "find", "inherit", "retire", "answer"} =>
              new[w] \in 1 .. issued /\ owner[new[w]] = usr[w]
        /\ pc[w] \in {"user", "revoke_family", "find", "inherit", "retire"} => old[w] # NoToken

\* The user of a family is the user its first token was issued to: so it is
\* for every row, and for what a handler that rotates a token has read.
Ownership ==
    /\ \A t \in Token : Stored(t) =>
          owner[t] \in User /\ family[t] \in 1 .. issued /\ owner[family[t]] = owner[t]
    /\ \A w \in Worker : old[w] # NoToken =>
          fam[w] \in 1 .. issued /\ owner[fam[w]] = usr[w]

\* The inductive invariant of the token service.
IInv == TypeOK /\ Control /\ Ownership

\* The initial states satisfy the invariant.
LEMMA InvInit == Init => IInv
BY MaxTokensAssumption DEF Init, IInv, TypeOK, Control, Ownership, Stored, Token, NoToken

\* A handler that ends is well typed.
LEMMA FinishType ==
    ASSUME TypeOK, NEW w \in Worker, Finish(w)
    PROVE  /\ pc' \in [Worker -> {"idle", "user", "issue", "audit", "find", "inherit",
                                  "retire", "answer", "revoke_family"}]
           /\ usr' \in [Worker -> User \cup {"nobody"}]
           /\ old' \in [Worker -> 0 .. MaxTokens]
           /\ fam' \in [Worker -> 0 .. MaxTokens]
           /\ new' \in [Worker -> 0 .. MaxTokens]
BY MaxTokensAssumption DEF TypeOK, Finish, Goto, NoToken

\* Every step keeps the types.
LEMMA TypeStep ==
    ASSUME TypeOK, Control, Ownership, [Next]_vars
    PROVE  TypeOK'
<1> USE MaxTokensAssumption DEF Token, NoToken
<1>1. ASSUME NEW w \in Worker, NEW u \in User, Login(w, u) PROVE TypeOK'
  BY <1>1 DEF TypeOK, Login, Goto, users, table, history
<1>2. ASSUME NEW w \in Worker, NEW u \in User, Logout(w, u) PROVE TypeOK'
  <2>1. loggedOut' \subseteq 0 .. MaxTokens
    <3>1. \A t \in TokensOf(u) : family[t] \in 0 .. MaxTokens
      BY DEF TypeOK, TokensOf
    <3>2. {family[t] : t \in TokensOf(u)} \subseteq 0 .. MaxTokens
      BY <3>1, Zenon
    <3> QED
      BY <1>2, <3>2 DEF TypeOK, Logout
  <2>2. revoked' \subseteq Token
    BY <1>2 DEF TypeOK, Logout, TokensOf
  <2> QED
    BY <1>2, <2>1, <2>2 DEF TypeOK, Logout, users, work
<1>3. ASSUME NEW w \in Worker, NEW t \in Token, Present(w, t) PROVE TypeOK'
  <2> DEFINE place == IF t \in revoked THEN "revoke_family" ELSE "user"
  <2>1. /\ owner[t] \in User \cup {"nobody"}
        /\ family[t] \in 0 .. MaxTokens
        /\ t \in 0 .. MaxTokens
    BY DEF TypeOK
  <2>2. place \in {"idle", "user", "issue", "audit", "find", "inherit", "retire",
                  "answer", "revoke_family"}
    OBVIOUS
  <2>3. /\ pc' = [pc EXCEPT ![w] = place]
        /\ usr' = [usr EXCEPT ![w] = owner[t]]
        /\ old' = [old EXCEPT ![w] = t]
        /\ fam' = [fam EXCEPT ![w] = family[t]]
        /\ UNCHANGED <<account, logins, issued, row, owner, family, revoked, expired,
                       successor, known, new, replayed, loggedOut>>
    BY <1>3 DEF Present, Goto, users, table, history
  <2> HIDE DEF place
  <2>4. /\ pc' \in [Worker -> {"idle", "user", "issue", "audit", "find", "inherit",
                               "retire", "answer", "revoke_family"}]
        /\ usr' \in [Worker -> User \cup {"nobody"}]
        /\ old' \in [Worker -> 0 .. MaxTokens]
        /\ fam' \in [Worker -> 0 .. MaxTokens]
    BY <2>1, <2>2, <2>3 DEF TypeOK
  <2> QED
    BY <2>3, <2>4 DEF TypeOK
<1>4. ASSUME NEW w \in Worker, RevokeFamily(w) PROVE TypeOK'
  <2>1. revoked' \subseteq Token
    BY <1>4 DEF TypeOK, RevokeFamily, Members
  <2>2. replayed' \subseteq 0 .. MaxTokens
    <3>1. replayed' = replayed \cup {fam[w]}
      BY <1>4 DEF RevokeFamily
    <3>2. fam[w] \in 0 .. MaxTokens /\ replayed \subseteq 0 .. MaxTokens
      BY DEF TypeOK
    <3> QED
      BY <3>1, <3>2, Zenon
  <2>3. /\ Finish(w)
        /\ UNCHANGED <<account, logins, issued, row, owner, family, expired, successor, known, loggedOut>>
    BY <1>4 DEF RevokeFamily, users
  <2> QED
    BY <2>1, <2>2, <2>3, FinishType DEF TypeOK
<1>5. ASSUME NEW w \in Worker, CheckUser(w) PROVE TypeOK'
  BY <1>5 DEF TypeOK, CheckUser, Goto, users, table, history
<1>6. ASSUME NEW w \in Worker, Issue(w) PROVE TypeOK'
  <2> DEFINE n == issued + 1
  <2>1. n \in Token /\ issued' = n /\ usr[w] \in User
    BY <1>6 DEF TypeOK, Issue, Control
  <2>2. row' = [row EXCEPT ![n] = "stored"]
    BY <1>6 DEF Issue
  <2>3. \A t \in Token : row'[t] = "none" <=> t > n
    BY <2>1, <2>2 DEF TypeOK
  <2>4. /\ owner' = [owner EXCEPT ![n] = usr[w]]
        /\ family' = [family EXCEPT ![n] = n]
        /\ new' = [new EXCEPT ![w] = n]
        /\ pc' = [pc EXCEPT ![w] = IF old[w] = NoToken THEN "audit" ELSE "find"]
        /\ UNCHANGED <<account, logins, revoked, expired, successor, known, usr, old, fam, replayed, loggedOut>>
    BY <1>6 DEF Issue, Goto, users, history
  <2>7. /\ account' \in [User -> {"active", "inactive", "deleted"}]
        /\ logins' \subseteq Token
        /\ issued' \in 0 .. MaxTokens
        /\ revoked' \subseteq Token /\ expired' \subseteq Token /\ known' \subseteq Token
        /\ successor' \in [Token -> 0 .. MaxTokens]
        /\ usr' \in [Worker -> User \cup {"nobody"}]
        /\ old' \in [Worker -> 0 .. MaxTokens] /\ fam' \in [Worker -> 0 .. MaxTokens]
        /\ replayed' \subseteq 0 .. MaxTokens /\ loggedOut' \subseteq 0 .. MaxTokens
    <3>1. issued' \in 0 .. MaxTokens
      BY <2>1
    <3>2. UNCHANGED <<account, logins, revoked, expired, successor, known, usr, old, fam,
                      replayed, loggedOut>>
      BY <2>4
    <3> HIDE DEF n, Token, NoToken
    <3> QED
      BY <3>1, <3>2 DEF TypeOK
  <2>5. pc' \in [Worker -> {"idle", "user", "issue", "audit", "find", "inherit", "retire",
                          "answer", "revoke_family"}]
    <3> DEFINE place == IF old[w] = NoToken THEN "audit" ELSE "find"
    <3>1. place \in {"idle", "user", "issue", "audit", "find", "inherit", "retire",
                    "answer", "revoke_family"}
      OBVIOUS
    <3>2. pc' = [pc EXCEPT ![w] = place]
      BY <2>4
    <3> HIDE DEF place
    <3> QED
      BY <3>1, <3>2 DEF TypeOK
  <2>6. /\ row' \in [Token -> {"none", "stored", "deleted"}]
        /\ owner' \in [Token -> User \cup {"nobody"}]
        /\ family' \in [Token -> 0 .. MaxTokens]
        /\ new' \in [Worker -> 0 .. MaxTokens]
    BY <2>1, <2>2, <2>4 DEF TypeOK
  <2> QED
    BY <2>1, <2>3, <2>5, <2>6, <2>7 DEF TypeOK
<1>7. ASSUME NEW w \in Worker, Find(w) PROVE TypeOK'
  BY <1>7 DEF TypeOK, Find, Goto, users, table, history
<1>8. ASSUME NEW w \in Worker, Inherit(w) PROVE TypeOK'
  <2>1. new[w] \in Token /\ fam[w] \in 0 .. MaxTokens
    BY <1>8 DEF TypeOK, Inherit, Control
  <2>2. family' \in [Token -> 0 .. MaxTokens]
    BY <1>8, <2>1 DEF TypeOK, Inherit
  <2> QED
    BY <1>8, <2>2 DEF TypeOK, Inherit, Goto, users, history
<1>9. ASSUME NEW w \in Worker, Retire(w) PROVE TypeOK'
  <2>1. old[w] \in Token
    BY <1>9 DEF TypeOK, Retire, Control, NoToken
  <2>2. \/ /\ revoked' = revoked \cup {old[w]}
           /\ successor' = [successor EXCEPT ![old[w]] = new[w]]
        \/ UNCHANGED revoked /\ UNCHANGED successor
    BY <1>9 DEF Retire
  <2>3. revoked' \subseteq Token
    <3>1. revoked \subseteq Token
      BY DEF TypeOK
    <3>2. revoked' = revoked \cup {old[w]} \/ revoked' = revoked
      BY <2>2
    <3> QED
      BY <2>1, <3>1, <3>2
  <2>4. new[w] \in 0 .. MaxTokens /\ successor \in [Token -> 0 .. MaxTokens]
    BY DEF TypeOK
  <2>5. successor' \in [Token -> 0 .. MaxTokens]
    BY <2>2, <2>4
  <2> QED
    BY <1>9, <2>3, <2>5 DEF TypeOK, Retire, Goto, users, history
<1>10. ASSUME NEW w \in Worker, Answer(w) PROVE TypeOK'
  <2>1. known' \subseteq Token
    BY <1>10 DEF TypeOK, Answer, Control
  <2>2. /\ Finish(w)
        /\ UNCHANGED <<account, logins, issued, row, owner, family, revoked, expired, successor>>
        /\ UNCHANGED <<replayed, loggedOut>>
    BY <1>10 DEF Answer, users, table, history
  <2> QED
    BY <2>1, <2>2, FinishType DEF TypeOK
<1>11. ASSUME NEW w \in Worker, Fail(w) PROVE TypeOK'
  <2>1. /\ Finish(w)
        /\ UNCHANGED <<account, logins, issued, row, owner, family, revoked, expired,
                       successor, known, replayed, loggedOut>>
    BY <1>11 DEF Fail, users, table, history
  <2> QED
    BY <2>1, FinishType DEF TypeOK
<1>12. ASSUME NEW u \in User, DeleteUser(u) PROVE TypeOK'
  <2>1. row' \in [Token -> {"none", "stored", "deleted"}]
    BY <1>12 DEF TypeOK, DeleteUser
  <2>2. \A t \in Token : row'[t] = "none" <=> row[t] = "none"
    BY <1>12 DEF TypeOK, DeleteUser, TokensOf, Stored
  <2> QED
    BY <1>12, <2>1, <2>2 DEF TypeOK, DeleteUser, work, history
<1>13. ASSUME NEW u \in User, NEW s \in {"active", "inactive"}, SetActive(u, s) PROVE TypeOK'
  BY <1>13 DEF TypeOK, SetActive, table, work, history
<1>14. ASSUME NEW t \in Token, Expire(t) PROVE TypeOK'
  BY <1>14 DEF TypeOK, Expire, users, work, history
<1>15. CASE Cleanup
  <2>1. row' \in [Token -> {"none", "stored", "deleted"}]
    BY <1>15 DEF TypeOK, Cleanup
  <2>2. \A t \in Token : row'[t] = "none" <=> row[t] = "none"
    BY <1>15 DEF TypeOK, Cleanup, Stored
  <2> QED
    BY <1>15, <2>1, <2>2 DEF TypeOK, Cleanup, users, work, history
<1>16. CASE Crash
  BY <1>16, SMTT(40) DEF TypeOK, Crash, users, table, history
<1>17. CASE UNCHANGED vars
  BY <1>17 DEF TypeOK, vars
<1>18. ASSUME NEW w \in Worker, AuditLogin(w) PROVE TypeOK'
  <2>1. new[w] \in Token
    BY <1>18 DEF TypeOK, Control, AuditLogin
  <2>2. logins \subseteq Token /\ (logins' = logins \cup {new[w]} \/ logins' = logins)
    BY <1>18 DEF TypeOK, AuditLogin
  <2>3. logins' \subseteq Token
    BY <2>1, <2>2
  <2> QED
    BY <1>18, <2>3 DEF TypeOK, AuditLogin, Goto, table, history
<1> QED
  BY <1>1, <1>2, <1>3, <1>4, <1>5, <1>6, <1>7, <1>8, <1>9,
     <1>10, <1>11, <1>12, <1>13, <1>14, <1>15, <1>16, <1>17, <1>18
     DEF Next, Step

\* Every step keeps what the handlers hold.
LEMMA ControlStep ==
    ASSUME TypeOK, Control, Ownership, [Next]_vars
    PROVE  Control'
<1> USE MaxTokensAssumption DEF TypeOK, Token, NoToken
<1>1. ASSUME NEW w \in Worker, NEW u \in User, Login(w, u) PROVE Control'
  BY <1>1 DEF Control, Login, Goto, users, table, history
<1>2. ASSUME NEW w \in Worker, NEW u \in User, Logout(w, u) PROVE Control'
  BY <1>2 DEF Control, Logout, users, work
<1>3. ASSUME NEW w \in Worker, NEW t \in Token, Present(w, t) PROVE Control'
  BY <1>3 DEF Control, Ownership, Stored, Present, Goto, users, table, history
<1>4. ASSUME NEW w \in Worker, RevokeFamily(w) PROVE Control'
  BY <1>4 DEF Control, RevokeFamily, Finish, Goto, users
<1>5. ASSUME NEW w \in Worker, CheckUser(w) PROVE Control'
  BY <1>5 DEF Control, CheckUser, Goto, users, table, history
<1>6. ASSUME NEW w \in Worker, Issue(w) PROVE Control'
  <2> DEFINE n == issued + 1
  <2>1. n \in Token /\ issued' = n /\ usr[w] \in User
    BY <1>6 DEF Control, Issue
  <2>2. ASSUME NEW v \in Worker
        PROVE  /\ pc'[v] = IF v = w THEN (IF old[w] = NoToken THEN "audit" ELSE "find") ELSE pc[v]
               /\ new'[v] = IF v = w THEN n ELSE new[v]
               /\ usr'[v] = usr[v] /\ old'[v] = old[v]
    BY <1>6 DEF Issue, Goto
  <2>3. \A t \in Token : owner'[t] = IF t = n THEN usr[w] ELSE owner[t]
    BY <1>6, <2>1 DEF Issue
  <2>4. pc[w] = "issue"
    BY <1>6 DEF Issue
  <2> SUFFICES ASSUME NEW v \in Worker
               PROVE  /\ pc'[v] = "idle" => old'[v] = NoToken
                      /\ pc'[v] # "idle" => usr'[v] \in User
                      /\ pc'[v] \in {"audit", "find", "inherit", "retire", "answer"} =>
                            new'[v] \in 1 .. n /\ owner'[new'[v]] = usr'[v]
                      /\ pc'[v] \in {"user", "revoke_family", "find", "inherit", "retire"} => old'[v] # NoToken
    BY <2>1 DEF Control
  <2>5. CASE v = w
    <3>1. /\ new'[v] = n /\ old'[v] = old[w] /\ usr'[v] = usr[w]
          /\ pc'[v] = IF old[w] = NoToken THEN "audit" ELSE "find"
      BY <2>2, <2>5
    <3>2. n \in 1 .. n /\ owner'[n] = usr[w]
      BY <2>1, <2>3
    <3> HIDE DEF n
    <3> QED
      BY <2>1, <3>1, <3>2
  <2>6. CASE v # w
    <3>1. UNCHANGED <<pc[v], new[v], usr[v], old[v]>>
      BY <2>2, <2>6
    <3>2. new[v] \in 1 .. issued => new[v] \in 1 .. n /\ owner'[new[v]] = owner[new[v]]
      BY <2>1, <2>3, SMTT(40)
    <3> QED
      BY <3>1, <3>2 DEF Control
  <2> QED
    BY <2>5, <2>6
<1>7. ASSUME NEW w \in Worker, Find(w) PROVE Control'
  BY <1>7 DEF Control, Find, Goto, users, table, history
<1>8. ASSUME NEW w \in Worker, Inherit(w) PROVE Control'
  BY <1>8 DEF Control, Inherit, Goto, users, history
<1>9. ASSUME NEW w \in Worker, Retire(w) PROVE Control'
  BY <1>9 DEF Control, Retire, Goto, users, history
<1>10. ASSUME NEW w \in Worker, Answer(w) PROVE Control'
  BY <1>10 DEF Control, Answer, Finish, Goto, users, table, history
<1>11. ASSUME NEW w \in Worker, Fail(w) PROVE Control'
  BY <1>11 DEF Control, Fail, Finish, Goto, users, table, history
<1>12. ASSUME NEW u \in User, DeleteUser(u) PROVE Control'
  BY <1>12 DEF Control, DeleteUser, work, history
<1>13. ASSUME NEW u \in User, NEW s \in {"active", "inactive"}, SetActive(u, s) PROVE Control'
  BY <1>13 DEF Control, SetActive, table, work, history
<1>14. ASSUME NEW t \in Token, Expire(t) PROVE Control'
  BY <1>14 DEF Control, Expire, users, work, history
<1>15. CASE Cleanup
  BY <1>15 DEF Control, Cleanup, users, work, history
<1>16. CASE Crash
  BY <1>16 DEF Control, Crash, users, table, history
<1>17. CASE UNCHANGED vars
  BY <1>17 DEF Control, vars
<1>18. ASSUME NEW w \in Worker, AuditLogin(w) PROVE Control'
  BY <1>18 DEF Control, AuditLogin, Goto, table, history
<1> QED
  BY <1>1, <1>2, <1>3, <1>4, <1>5, <1>6, <1>7, <1>8, <1>9,
     <1>10, <1>11, <1>12, <1>13, <1>14, <1>15, <1>16, <1>17, <1>18
     DEF Next, Step

\* Every step keeps families with their users.
LEMMA OwnershipStep ==
    ASSUME TypeOK, Control, Ownership, [Next]_vars
    PROVE  Ownership'
<1> USE MaxTokensAssumption DEF TypeOK, Control, Token, NoToken, Stored, TokensOf
<1>1. ASSUME NEW w \in Worker, NEW u \in User, Login(w, u) PROVE Ownership'
  BY <1>1 DEF Ownership, Login, Goto, users, table, history
<1>2. ASSUME NEW w \in Worker, NEW u \in User, Logout(w, u) PROVE Ownership'
  BY <1>2 DEF Ownership, Logout, users, work
<1>3. ASSUME NEW w \in Worker, NEW t \in Token, Present(w, t) PROVE Ownership'
  BY <1>3, SMTT(40) DEF Ownership, Present, Goto, users, table, history
<1>4. ASSUME NEW w \in Worker, RevokeFamily(w) PROVE Ownership'
  BY <1>4 DEF Ownership, RevokeFamily, Finish, Goto, users
<1>5. ASSUME NEW w \in Worker, CheckUser(w) PROVE Ownership'
  BY <1>5 DEF Ownership, CheckUser, Goto, users, table, history
<1>6. ASSUME NEW w \in Worker, Issue(w) PROVE Ownership'
  <2> DEFINE n == issued + 1
  <2>1. n \in Token /\ issued' = n /\ usr[w] \in User
    BY <1>6 DEF Issue
  <2>6. \A t \in Token : owner'[t] = IF t = n THEN usr[w] ELSE owner[t]
    BY <1>6, <2>1 DEF Issue
  <2>7. \A t \in Token : family'[t] = IF t = n THEN n ELSE family[t]
    BY <1>6, <2>1 DEF Issue
  <2>8. \A t \in Token : row'[t] = IF t = n THEN "stored" ELSE row[t]
    BY <1>6, <2>1 DEF Issue
  <2>3. UNCHANGED <<old, fam, usr>>
    BY <1>6 DEF Issue
  <2>4. ASSUME NEW t \in Token, Stored(t)'
        PROVE  owner'[t] \in User /\ family'[t] \in 1 .. n /\ owner'[family'[t]] = owner'[t]
    <3>1. CASE t = n
      BY <2>1, <2>6, <2>7, <3>1, SMTT(40)
    <3>2. CASE t # n
      <4>1. owner[t] \in User /\ family[t] \in 1 .. issued /\ owner[family[t]] = owner[t]
        BY <2>8, <2>4, <3>2 DEF Ownership
      <4> QED
        BY <2>1, <2>6, <2>7, <3>2, <4>1, SMTT(40)
    <3> QED
      BY <3>1, <3>2
  <2>5. ASSUME NEW v \in Worker, old'[v] # NoToken
        PROVE  fam'[v] \in 1 .. n /\ owner'[fam'[v]] = usr'[v]
    <3>1. fam[v] \in 1 .. issued /\ owner[fam[v]] = usr[v]
      BY <2>3, <2>5 DEF Ownership
    <3> QED
      BY <2>1, <2>6, <2>3, <3>1, SMTT(40)
  <2> QED
    BY <2>1, <2>4, <2>5 DEF Ownership
<1>7. ASSUME NEW w \in Worker, Find(w) PROVE Ownership'
  BY <1>7 DEF Ownership, Find, Goto, users, table, history
<1>8. ASSUME NEW w \in Worker, Inherit(w) PROVE Ownership'
  <2>1. /\ new[w] \in 1 .. issued /\ owner[new[w]] = usr[w]
        /\ fam[w] \in 1 .. issued /\ owner[fam[w]] = usr[w]
    BY <1>8 DEF Inherit, Ownership
  <2>2. \A t \in Token : family'[t] = family[t] \/ (t = new[w] /\ family'[t] = fam[w])
    BY <1>8 DEF Inherit
  <2>3. UNCHANGED <<issued, row, owner, usr, old, fam>>
    BY <1>8 DEF Inherit
  <2> QED
    BY <2>1, <2>2, <2>3 DEF Ownership
<1>9. ASSUME NEW w \in Worker, Retire(w) PROVE Ownership'
  BY <1>9 DEF Ownership, Retire, Goto, users, history
<1>10. ASSUME NEW w \in Worker, Answer(w) PROVE Ownership'
  BY <1>10 DEF Ownership, Answer, Finish, Goto, users, table, history
<1>11. ASSUME NEW w \in Worker, Fail(w) PROVE Ownership'
  BY <1>11 DEF Ownership, Fail, Finish, Goto, users, table, history
<1>12. ASSUME NEW u \in User, DeleteUser(u) PROVE Ownership'
  BY <1>12 DEF Ownership, DeleteUser, work, history
<1>13. ASSUME NEW u \in User, NEW s \in {"active", "inactive"}, SetActive(u, s) PROVE Ownership'
  BY <1>13 DEF Ownership, SetActive, table, work, history
<1>14. ASSUME NEW t \in Token, Expire(t) PROVE Ownership'
  BY <1>14 DEF Ownership, Expire, users, work, history
<1>15. CASE Cleanup
  BY <1>15 DEF Ownership, Cleanup, users, work, history
<1>16. CASE Crash
  BY <1>16 DEF Ownership, Crash, users, table, history
<1>17. CASE UNCHANGED vars
  BY <1>17 DEF Ownership, vars
<1>18. ASSUME NEW w \in Worker, AuditLogin(w) PROVE Ownership'
  BY <1>18 DEF Ownership, AuditLogin, Goto, table, history
<1> QED
  BY <1>1, <1>2, <1>3, <1>4, <1>5, <1>6, <1>7, <1>8, <1>9,
     <1>10, <1>11, <1>12, <1>13, <1>14, <1>15, <1>16, <1>17, <1>18
     DEF Next, Step

\* The inductive invariant of the token service holds in every state.
THEOREM Invariance == Spec => []IInv
<1>1. IInv /\ [Next]_vars => IInv'
  BY TypeStep, ControlStep, OwnershipStep DEF IInv
<1> QED
  BY <1>1, InvInit, PTL DEF Spec

\* Every variable keeps its type.
THEOREM TypeCorrect == Spec => []TypeOK
BY Invariance, PTL DEF IInv

\* No interleaving, crash or ignored error ever puts tokens of two users into
\* one family.
THEOREM FamiliesAreOfOneUser == Spec => []FamilyOfOneUser
<1>1. IInv => FamilyOfOneUser
  BY DEF IInv, Ownership, FamilyOfOneUser
<1> QED
  BY <1>1, Invariance, PTL

-----------------------------------------------------------------------------
\* A dead family stays dead in every step.
LEMMA DeadStep ==
    ASSUME TypeOK, Control, Ownership, [Next]_vars, NEW f \in Token, Dead(f)
    PROVE  Dead(f)'
<1> USE MaxTokensAssumption DEF TypeOK, Control, Token, NoToken, Stored, Members, TokensOf
<1>1. ASSUME NEW w \in Worker, NEW u \in User, Login(w, u) PROVE Dead(f)'
  BY <1>1 DEF Dead, Rotating, Login, Goto, users, table, history
<1>2. ASSUME NEW w \in Worker, NEW u \in User, Logout(w, u) PROVE Dead(f)'
  BY <1>2 DEF Dead, Rotating, Logout, users, work
<1>3. ASSUME NEW w \in Worker, NEW t \in Token, Present(w, t) PROVE Dead(f)'
  BY <1>3 DEF Dead, Rotating, Present, Goto, users, table, history
<1>4. ASSUME NEW w \in Worker, RevokeFamily(w) PROVE Dead(f)'
  BY <1>4 DEF Dead, Rotating, RevokeFamily, Finish, Goto, users
<1>5. ASSUME NEW w \in Worker, CheckUser(w) PROVE Dead(f)'
  BY <1>5 DEF Dead, Rotating, CheckUser, Goto, users, table, history
<1>6. ASSUME NEW w \in Worker, Issue(w) PROVE Dead(f)'
  BY <1>6 DEF Dead, Rotating, Issue, Goto, users, history
<1>7. ASSUME NEW w \in Worker, Find(w) PROVE Dead(f)'
  BY <1>7 DEF Dead, Rotating, Find, Goto, users, table, history
<1>8. ASSUME NEW w \in Worker, Inherit(w) PROVE Dead(f)'
  <2>1. fam[w] # f /\ new[w] \in Token
    BY <1>8 DEF Inherit, Dead, Rotating
  <2>2. \A t \in Token : family'[t] = family[t] \/ family'[t] = fam[w]
    BY <1>8, SMTT(40) DEF Inherit
  <2>3. \A v \in Worker : pc'[v] = IF v = w THEN "retire" ELSE pc[v]
    BY <1>8 DEF Inherit, Goto
  <2>4. UNCHANGED <<issued, row, revoked, old, fam>>
    BY <1>8 DEF Inherit
  <2> QED
    BY <2>1, <2>2, <2>3, <2>4 DEF Dead, Rotating
<1>9. ASSUME NEW w \in Worker, Retire(w) PROVE Dead(f)'
  <2>1. revoked \subseteq revoked'
    BY <1>9 DEF Retire
  <2>2. \A v \in Worker : pc'[v] = IF v = w THEN "answer" ELSE pc[v]
    BY <1>9 DEF Retire, Goto
  <2>3. UNCHANGED <<issued, row, family, old, fam>>
    BY <1>9 DEF Retire
  <2> QED
    BY <2>1, <2>2, <2>3 DEF Dead, Rotating
<1>10. ASSUME NEW w \in Worker, Answer(w) PROVE Dead(f)'
  BY <1>10 DEF Dead, Rotating, Answer, Finish, Goto, users, table, history
<1>11. ASSUME NEW w \in Worker, Fail(w) PROVE Dead(f)'
  BY <1>11 DEF Dead, Rotating, Fail, Finish, Goto, users, table, history
<1>12. ASSUME NEW u \in User, DeleteUser(u) PROVE Dead(f)'
  BY <1>12 DEF Dead, Rotating, DeleteUser, work, history
<1>13. ASSUME NEW u \in User, NEW s \in {"active", "inactive"}, SetActive(u, s) PROVE Dead(f)'
  BY <1>13 DEF Dead, Rotating, SetActive, table, work, history
<1>14. ASSUME NEW t \in Token, Expire(t) PROVE Dead(f)'
  BY <1>14 DEF Dead, Rotating, Expire, users, work, history
<1>15. CASE Cleanup
  BY <1>15 DEF Dead, Rotating, Cleanup, users, work, history
<1>16. CASE Crash
  BY <1>16 DEF Dead, Rotating, Crash, users, table, history
<1>17. CASE UNCHANGED vars
  BY <1>17 DEF Dead, Rotating, vars
<1>18. ASSUME NEW w \in Worker, AuditLogin(w) PROVE Dead(f)'
  BY <1>18 DEF Dead, Rotating, AuditLogin, Goto, table, history
<1> QED
  BY <1>1, <1>2, <1>3, <1>4, <1>5, <1>6, <1>7, <1>8, <1>9,
     <1>10, <1>11, <1>12, <1>13, <1>14, <1>15, <1>16, <1>17, <1>18
     DEF Next, Step

\* Once a family is revoked and no rotation of it is under way, none of its
\* tokens is ever valid again.
THEOREM RevocationIsFinal == Spec => DeadFamilyStaysDead
<1>1. IInv /\ [Next]_vars => [\A f \in Token : Dead(f) => Dead(f)']_vars
  BY DeadStep DEF IInv
<1> QED
  BY <1>1, Invariance, PTL DEF Spec, DeadFamilyStaysDead

-----------------------------------------------------------------------------
\* Sessions: chains of tokens.

\* The handler has inserted a row of which no client knows yet.
Carrying(w) == pc[w] \in {"audit", "find", "inherit", "retire", "answer"}

\* Only tokens that reached a client are ever presented and replaced; the token
\* a handler carries is its own secret until it answers; and what it has read
\* of the family of the old token is still so, if the row is there.
Links ==
    /\ known \subseteq 1 .. issued
    /\ \A t \in Token : successor[t] # NoToken => t \in known /\ successor[t] \in 1 .. issued
    /\ \A w \in Worker : old[w] # NoToken =>
          old[w] \in known /\ (Stored(old[w]) => fam[w] = family[old[w]])
    /\ \A w \in Worker : Carrying(w) => new[w] \notin known
    /\ \A w, v \in Worker : Carrying(w) /\ Carrying(v) /\ w # v => new[w] # new[v]
    /\ \A w \in Worker : pc[w] \in {"find", "inherit", "retire"} =>
          \A t \in Token : successor[t] # new[w]

\* A rotation that is past Inherit carries a token of the family it read.
Inherited ==
    \A w \in Worker :
        /\ pc[w] \in {"retire", "answer"} /\ old[w] # NoToken /\ Stored(new[w]) =>
              family[new[w]] = fam[w]
        /\ pc[w] = "audit" => old[w] = NoToken

\* A login that is past its event carries a token that is on record, and a
\* rotation carries one that is younger than the family it read.
OnRecord ==
    \A w \in Worker :
        /\ pc[w] = "answer" /\ old[w] = NoToken => new[w] \in logins
        /\ Carrying(w) /\ old[w] # NoToken => fam[w] # new[w]

\* Every step keeps the links.
LEMMA LinksStep ==
    ASSUME TypeOK, Control, Ownership, Links, [Next]_vars
    PROVE  Links'
<1> USE DEF NoToken, Stored
<1>1. ASSUME NEW w \in Worker, NEW u \in User, Login(w, u) PROVE Links'
  BY <1>1 DEF Links, Carrying, TypeOK, Control, Token, Login, Goto, users, table, history
<1>2. ASSUME NEW w \in Worker, NEW u \in User, Logout(w, u) PROVE Links'
  BY <1>2 DEF Links, Carrying, TypeOK, Control, Token, Logout, users, work
<1>3. ASSUME NEW w \in Worker, NEW t \in Token, Present(w, t) PROVE Links'
  <2>1. /\ t \in known /\ Stored(t) /\ t # NoToken /\ ~Carrying(w)
        /\ pc'[w] \in {"user", "revoke_family"} /\ old'[w] = t /\ fam'[w] = family[t]
        /\ \A v \in Worker \ {w} : UNCHANGED <<pc[v], old[v], fam[v]>>
        /\ UNCHANGED <<issued, row, family, successor, known, new>>
    BY <1>3 DEF TypeOK, Control, Token, Present, Carrying, Goto, users, table, history
  <2>2. \A v \in Worker : Carrying(v)' => Carrying(v) /\ v # w /\ pc'[v] = pc[v]
    BY <2>1 DEF Carrying
  <2>3. \A v \in Worker : old'[v] # NoToken =>
           old'[v] \in known' /\ (Stored(old[v])' => (fam[v] = family[old[v]])')
    BY <2>1 DEF Links
  <2> QED
    BY <2>1, <2>2, <2>3 DEF Links
<1>4. ASSUME NEW w \in Worker, RevokeFamily(w) PROVE Links'
  BY <1>4 DEF Links, Carrying, TypeOK, Control, Token, RevokeFamily, Finish, Goto, users
<1>5. ASSUME NEW w \in Worker, CheckUser(w) PROVE Links'
  BY <1>5 DEF Links, Carrying, TypeOK, Control, Token, CheckUser, Goto, users, table, history
<1>6. ASSUME NEW w \in Worker, Issue(w) PROVE Links'
  <2> DEFINE n == issued + 1
  <2>1. /\ n \in Token /\ issued' = n /\ issued \in Nat
        /\ n \notin 1 .. issued /\ 1 .. issued \subseteq 1 .. n
    BY <1>6, MaxTokensAssumption DEF TypeOK, Token, Issue
  <2>2. /\ \A v \in Worker : new'[v] = IF v = w THEN n ELSE new[v]
        /\ \A v \in Worker : v # w => pc'[v] = pc[v]
        /\ UNCHANGED <<old, fam, successor, known>>
    BY <1>6 DEF TypeOK, Issue, Goto, history
  <2>3. \A t \in 1 .. issued : t \in Token /\ row'[t] = row[t] /\ family'[t] = family[t]
    BY <1>6, <2>1, MaxTokensAssumption DEF TypeOK, Token, Issue
  <2>4. known \subseteq 1 .. issued
    BY DEF Links
  <2>5. \A v \in Worker : v # w /\ Carrying(v)' => Carrying(v) /\ new[v] \in 1 .. issued
    BY <2>2 DEF Carrying, Control
  <2>6. \A t \in Token : successor[t] # n
    BY <2>1 DEF Links
  <2>7. \A v \in Worker : old'[v] # NoToken =>
           old'[v] \in known' /\ (Stored(old[v])' => (fam[v] = family[old[v]])')
    <3> SUFFICES ASSUME NEW v \in Worker, old[v] # NoToken
                 PROVE  old[v] \in known /\ (Stored(old[v])' => fam[v] = family'[old[v]])
      BY <2>2
    <3>1. old[v] \in known /\ (Stored(old[v]) => fam[v] = family[old[v]])
      BY DEF Links
    <3>2. row'[old[v]] = row[old[v]] /\ family'[old[v]] = family[old[v]]
      BY <2>3, <2>4, <3>1
    <3> QED
      BY <2>2, <3>1, <3>2
  <2>8. \A v \in Worker : Carrying(v)' => new'[v] \notin known'
    BY <2>1, <2>2, <2>4, <2>5 DEF Links
  <2>9. \A v, x \in Worker : Carrying(v)' /\ Carrying(x)' /\ v # x => new'[v] # new'[x]
    BY <2>1, <2>2, <2>5 DEF Links
  <2>10. \A v \in Worker : pc'[v] \in {"find", "inherit", "retire"} =>
            \A t \in Token : successor'[t] # new'[v]
    BY <2>2, <2>6 DEF Links
  <2>11. \A t \in Token : successor'[t] # NoToken => t \in known' /\ successor'[t] \in 1 .. issued'
    BY <2>1, <2>2 DEF Links
  <2> HIDE DEF n
  <2> QED
    BY <2>1, <2>2, <2>4, <2>7, <2>8, <2>9, <2>10, <2>11 DEF Links
<1>7. ASSUME NEW w \in Worker, Find(w) PROVE Links'
  <2>1. /\ pc[w] = "find" /\ \A v \in Worker : pc'[v] = IF v = w THEN "inherit" ELSE pc[v]
        /\ UNCHANGED <<issued, row, family, successor, known, old, fam, new>>
    BY <1>7 DEF TypeOK, Control, Token, Find, Goto, users, table, history
  <2> QED
    BY <2>1 DEF Links, Carrying
<1>8. ASSUME NEW w \in Worker, Inherit(w) PROVE Links'
  <2>1. /\ pc[w] = "inherit" /\ \A v \in Worker : pc'[v] = IF v = w THEN "retire" ELSE pc[v]
        /\ \A t \in Token : t # new[w] => family'[t] = family[t]
        /\ UNCHANGED <<issued, row, successor, known, old, fam, new>>
    <3>1. /\ pc[w] = "inherit" /\ pc' = [pc EXCEPT ![w] = "retire"]
          /\ \/ family' = IF Stored(new[w]) THEN [family EXCEPT ![new[w]] = fam[w]] ELSE family
             \/ family' = family
          /\ UNCHANGED <<issued, row, successor, known, old, fam, new>>
      BY <1>8 DEF Inherit, Goto
    <3>2. pc \in [Worker -> {pc[v] : v \in Worker}] /\ DOMAIN family = Token
      BY DEF TypeOK
    <3> QED
      BY <3>1, <3>2 DEF TypeOK
  <2>2. new[w] \notin known
    BY <2>1 DEF Links, Carrying
  <2>3. \A v \in Worker : old'[v] # NoToken =>
           old'[v] \in known' /\ (Stored(old[v])' => (fam[v] = family[old[v]])')
    <3> SUFFICES ASSUME NEW v \in Worker, old[v] # NoToken
                 PROVE  old[v] \in known /\ (Stored(old[v])' => fam[v] = family'[old[v]])
      BY <2>1
    <3>1. old[v] \in known /\ (Stored(old[v]) => fam[v] = family[old[v]])
      BY DEF Links
    <3>2. old[v] \in Token
      BY <3>1 DEF TypeOK
    <3>3. row'[old[v]] = row[old[v]] /\ family'[old[v]] = family[old[v]]
      BY <2>1, <2>2, <3>1, <3>2
    <3> QED
      BY <2>1, <3>1, <3>3
  <2> QED
    BY <2>1, <2>3 DEF Links, Carrying
<1>9. ASSUME NEW w \in Worker, Retire(w) PROVE Links'
  <2>1. /\ pc[w] = "retire" /\ \A v \in Worker : pc'[v] = IF v = w THEN "answer" ELSE pc[v]
        /\ \A t \in Token : successor'[t] = successor[t] \/ (t = old[w] /\ successor'[t] = new[w])
        /\ UNCHANGED <<issued, row, family, known, old, fam, new>>
    <3>1. /\ pc[w] = "retire" /\ pc' = [pc EXCEPT ![w] = "answer"]
          /\ successor' \in {successor, [successor EXCEPT ![old[w]] = new[w]]}
          /\ UNCHANGED <<issued, row, family, known, old, fam, new>>
      BY <1>9 DEF Retire, Goto
    <3>2. pc \in [Worker -> {pc[v] : v \in Worker}] /\ successor \in [Token -> {successor[t] : t \in Token}]
      BY DEF TypeOK
    <3> QED
      BY <3>1, <3>2
  <2>2. Carrying(w) /\ old[w] # NoToken /\ new[w] \in 1 .. issued
    BY <2>1 DEF Carrying, Control
  <2>3. \A t \in Token : successor'[t] # NoToken => t \in known' /\ successor'[t] \in 1 .. issued'
    BY <2>1, <2>2 DEF Links
  <2>4. \A v \in Worker : Carrying(v)' => Carrying(v)
    BY <2>1 DEF Carrying
  <2>5. ASSUME NEW v \in Worker, pc'[v] \in {"find", "inherit", "retire"}, NEW t \in Token
        PROVE  successor'[t] # new'[v]
    <3>1. v # w /\ pc[v] \in {"find", "inherit", "retire"} /\ Carrying(v)
      BY <2>1, <2>5 DEF Carrying
    <3>2. new[v] # new[w] /\ successor[t] # new[v]
      BY <2>2, <3>1 DEF Links
    <3> QED
      BY <2>1, <3>2
  <2> QED
    BY <2>1, <2>3, <2>4, <2>5 DEF Links
<1>10. ASSUME NEW w \in Worker, Answer(w) PROVE Links'
  <2>1. /\ pc[w] = "answer" /\ known' \subseteq known \cup {new[w]} /\ known \subseteq known'
        /\ \A v \in Worker : v # w =>
              pc'[v] = pc[v] /\ old'[v] = old[v] /\ fam'[v] = fam[v] /\ new'[v] = new[v]
        /\ pc'[w] = "idle" /\ old'[w] = NoToken
        /\ UNCHANGED <<issued, row, family, successor>>
    BY <1>10 DEF TypeOK, Control, Token, Answer, Finish, Goto, users, table, history
  <2>2. Carrying(w) /\ new[w] \in 1 .. issued
    BY <2>1 DEF Carrying, Control
  <2>3. \A v \in Worker : Carrying(v)' => Carrying(v) /\ v # w
    BY <2>1 DEF Carrying
  <2>4. ASSUME NEW v \in Worker, Carrying(v)' PROVE new'[v] \notin known'
    <3>1. Carrying(v) /\ v # w
      BY <2>3, <2>4
    <3>2. new[v] \notin known /\ new[v] # new[w]
      BY <2>2, <3>1 DEF Links
    <3> QED
      BY <2>1, <3>1, <3>2
  <2>5. known' \subseteq 1 .. issued'
    BY <2>1, <2>2 DEF Links
  <2>6. \A t \in Token : successor'[t] # NoToken => t \in known' /\ successor'[t] \in 1 .. issued'
    BY <2>1 DEF Links
  <2>7. ASSUME NEW v \in Worker, old'[v] # NoToken
        PROVE  old'[v] \in known' /\ (Stored(old[v])' => (fam[v] = family[old[v]])')
    <3>1. v # w /\ old'[v] = old[v] /\ fam'[v] = fam[v]
      BY <2>1, <2>7
    <3>2. old[v] \in known /\ (Stored(old[v]) => fam[v] = family[old[v]])
      BY <2>7, <3>1 DEF Links
    <3> QED
      BY <2>1, <3>1, <3>2
  <2>8. ASSUME NEW v \in Worker, NEW x \in Worker, Carrying(v)', Carrying(x)', v # x
        PROVE  new'[v] # new'[x]
    BY <2>1, <2>3, <2>8 DEF Links
  <2>9. ASSUME NEW v \in Worker, pc'[v] \in {"find", "inherit", "retire"}, NEW t \in Token
        PROVE  successor'[t] # new'[v]
    BY <2>1, <2>9 DEF Links
  <2> QED
    BY <2>4, <2>5, <2>6, <2>7, <2>8, <2>9 DEF Links
<1>11. ASSUME NEW w \in Worker, Fail(w) PROVE Links'
  BY <1>11 DEF Links, Carrying, TypeOK, Control, Token, Fail, Finish, Goto, users, table, history
<1>12. ASSUME NEW u \in User, DeleteUser(u) PROVE Links'
  BY <1>12 DEF Links, Carrying, TypeOK, Control, Token, DeleteUser, work, history
<1>13. ASSUME NEW u \in User, NEW s \in {"active", "inactive"}, SetActive(u, s) PROVE Links'
  BY <1>13 DEF Links, Carrying, TypeOK, Control, Token, SetActive, table, work, history
<1>14. ASSUME NEW t \in Token, Expire(t) PROVE Links'
  BY <1>14 DEF Links, Carrying, TypeOK, Control, Token, Expire, users, work, history
<1>15. CASE Cleanup
  BY <1>15 DEF Links, Carrying, TypeOK, Control, Token, Cleanup, users, work, history
<1>16. CASE Crash
  BY <1>16 DEF Links, Carrying, TypeOK, Control, Token, Crash, users, table, history
<1>17. CASE UNCHANGED vars
  BY <1>17 DEF Links, Carrying, TypeOK, Control, Token, vars
<1>18. ASSUME NEW w \in Worker, AuditLogin(w) PROVE Links'
  BY <1>18 DEF Links, Carrying, TypeOK, Control, Token, AuditLogin, Goto, table, history
<1> QED
  BY <1>1, <1>2, <1>3, <1>4, <1>5, <1>6, <1>7, <1>8, <1>9, <1>10, <1>11, <1>12,
     <1>13, <1>14, <1>15, <1>16, <1>17, <1>18
     DEF Next, Step


\* How tokens and their successors are linked holds in every state.
THEOREM LinksInvariance == Spec => [](IInv /\ Links)
<1>1. Init => Links
  BY DEF Init, Links, Carrying, NoToken, Token
<1>2. IInv /\ Links /\ [Next]_vars => Links'
  BY LinksStep DEF IInv
<1> QED
  BY <1>1, <1>2, Invariance, PTL DEF Spec

-----------------------------------------------------------------------------
\* Every step keeps the families of the tokens that are carried.
LEMMA InheritedStep ==
    ASSUME "inherit" \notin Ignored, TypeOK, Control, Links, Inherited, [Next]_vars
    PROVE  Inherited'
<1> USE DEF NoToken, Stored
<1>1. ASSUME NEW w \in Worker, NEW u \in User, Login(w, u) PROVE Inherited'
  BY <1>1 DEF Inherited, TypeOK, Control, Token, Login, Goto, users, table, history
<1>2. ASSUME NEW w \in Worker, NEW u \in User, Logout(w, u) PROVE Inherited'
  BY <1>2 DEF Inherited, TypeOK, Control, Token, Logout, users, work
<1>3. ASSUME NEW w \in Worker, NEW t \in Token, Present(w, t) PROVE Inherited'
  BY <1>3 DEF Inherited, TypeOK, Control, Token, Present, Goto, users, table, history
<1>4. ASSUME NEW w \in Worker, RevokeFamily(w) PROVE Inherited'
  BY <1>4 DEF Inherited, TypeOK, Control, Token, RevokeFamily, Finish, Goto, users
<1>5. ASSUME NEW w \in Worker, CheckUser(w) PROVE Inherited'
  BY <1>5 DEF Inherited, TypeOK, Control, Token, CheckUser, Goto, users, table, history
<1>6. ASSUME NEW w \in Worker, Issue(w) PROVE Inherited'
  <2> DEFINE n == issued + 1
  <2>1. /\ \A v \in Worker : v # w => pc'[v] = pc[v] /\ new'[v] = new[v]
        /\ UNCHANGED <<old, fam>>
        /\ pc'[w] = IF old[w] = NoToken THEN "audit" ELSE "find"
    BY <1>6 DEF TypeOK, Issue, Goto
  <2>2. \A t \in 1 .. issued : row'[t] = row[t] /\ family'[t] = family[t]
    BY <1>6, MaxTokensAssumption DEF TypeOK, Token, Issue
  <2>3. \A v \in Worker : pc[v] \in {"retire", "answer"} => new[v] \in 1 .. issued
    BY DEF Control
  <2> QED
    BY <2>1, <2>2, <2>3 DEF Inherited
<1>7. ASSUME NEW w \in Worker, Find(w) PROVE Inherited'
  BY <1>7 DEF Inherited, TypeOK, Control, Token, Find, Goto, users, table, history
<1>8. ASSUME NEW w \in Worker, Inherit(w) PROVE Inherited'
  <2>0. /\ pc[w] = "inherit" /\ \A v \in Worker : pc'[v] = IF v = w THEN "retire" ELSE pc[v]
        /\ UNCHANGED <<row, old, fam, new>>
        /\ family' = IF Stored(new[w]) THEN [family EXCEPT ![new[w]] = fam[w]] ELSE family
    BY <1>8 DEF TypeOK, Inherit, Goto
  <2>1. /\ \A t \in Token : family'[t] = IF t = new[w] /\ Stored(t) THEN fam[w] ELSE family[t]
        /\ new[w] \in Token
    BY <2>0, MaxTokensAssumption DEF TypeOK, Control, Token
  <2>2. \A v \in Worker : v # w /\ pc[v] \in {"retire", "answer"} =>
           new[v] # new[w] /\ new[v] \in Token
    <3> SUFFICES ASSUME NEW v \in Worker, v # w, pc[v] \in {"retire", "answer"}
                 PROVE  new[v] # new[w] /\ new[v] \in Token
      OBVIOUS
    <3>1. Carrying(v) /\ Carrying(w)
      BY <2>0 DEF Carrying
    <3>2. new[v] # new[w]
      BY <3>1 DEF Links
    <3>3. new[v] \in 1 .. issued
      BY DEF Control
    <3> QED
      BY <3>2, <3>3, MaxTokensAssumption DEF TypeOK, Token
  <2> QED
    BY <2>0, <2>1, <2>2 DEF Inherited
<1>9. ASSUME NEW w \in Worker, Retire(w) PROVE Inherited'
  BY <1>9 DEF Inherited, TypeOK, Control, Token, Retire, Goto, users, history
<1>10. ASSUME NEW w \in Worker, Answer(w) PROVE Inherited'
  BY <1>10 DEF Inherited, TypeOK, Control, Token, Answer, Finish, Goto, users, table, history
<1>11. ASSUME NEW w \in Worker, Fail(w) PROVE Inherited'
  BY <1>11 DEF Inherited, TypeOK, Control, Token, Fail, Finish, Goto, users, table, history
<1>12. ASSUME NEW u \in User, DeleteUser(u) PROVE Inherited'
  BY <1>12 DEF Inherited, TypeOK, Control, Token, DeleteUser, work, history
<1>13. ASSUME NEW u \in User, NEW s \in {"active", "inactive"}, SetActive(u, s) PROVE Inherited'
  BY <1>13 DEF Inherited, TypeOK, Control, Token, SetActive, table, work, history
<1>14. ASSUME NEW t \in Token, Expire(t) PROVE Inherited'
  BY <1>14 DEF Inherited, TypeOK, Control, Token, Expire, users, work, history
<1>15. CASE Cleanup
  BY <1>15 DEF Inherited, TypeOK, Control, Token, Cleanup, users, work, history
<1>16. CASE Crash
  BY <1>16 DEF Inherited, TypeOK, Control, Token, Crash, users, table, history
<1>17. CASE UNCHANGED vars
  BY <1>17 DEF Inherited, TypeOK, Control, Token, vars
<1>18. ASSUME NEW w \in Worker, AuditLogin(w) PROVE Inherited'
  BY <1>18 DEF Inherited, TypeOK, Control, Token, AuditLogin, Goto, table, history
<1> QED
  BY <1>1, <1>2, <1>3, <1>4, <1>5, <1>6, <1>7, <1>8, <1>9, <1>10, <1>11, <1>12,
     <1>13, <1>14, <1>15, <1>16, <1>17, <1>18
     DEF Next, Step

\* Every step keeps successors in their families.
LEMMA SuccessorStep ==
    ASSUME TypeOK, Control, Links, Inherited, SuccessorInFamily, [Next]_vars
    PROVE  SuccessorInFamily'
<1> USE DEF NoToken, Stored
<1>1. ASSUME NEW w \in Worker, NEW u \in User, Login(w, u) PROVE SuccessorInFamily'
  BY <1>1 DEF SuccessorInFamily, TypeOK, Control, Token, Login, Goto, users, table, history
<1>2. ASSUME NEW w \in Worker, NEW u \in User, Logout(w, u) PROVE SuccessorInFamily'
  BY <1>2 DEF SuccessorInFamily, TypeOK, Control, Token, Logout, users, work
<1>3. ASSUME NEW w \in Worker, NEW t \in Token, Present(w, t) PROVE SuccessorInFamily'
  BY <1>3 DEF SuccessorInFamily, TypeOK, Control, Token, Present, Goto, users, table, history
<1>4. ASSUME NEW w \in Worker, RevokeFamily(w) PROVE SuccessorInFamily'
  BY <1>4 DEF SuccessorInFamily, TypeOK, Control, Token, RevokeFamily, Finish, Goto, users
<1>5. ASSUME NEW w \in Worker, CheckUser(w) PROVE SuccessorInFamily'
  BY <1>5 DEF SuccessorInFamily, TypeOK, Control, Token, CheckUser, Goto, users, table, history
<1>6. ASSUME NEW w \in Worker, Issue(w) PROVE SuccessorInFamily'
  <2>1. UNCHANGED successor /\ issued \in 0 .. MaxTokens
    BY <1>6 DEF TypeOK, Issue
  <2>2. \A t \in 1 .. issued : row'[t] = row[t] /\ family'[t] = family[t]
    BY <1>6, MaxTokensAssumption DEF TypeOK, Token, Issue
  <2>3. \A t \in Token : successor[t] # NoToken => {t, successor[t]} \subseteq 1 .. issued
    BY DEF Links
  <2> QED
    BY <2>1, <2>2, <2>3 DEF SuccessorInFamily
<1>7. ASSUME NEW w \in Worker, Find(w) PROVE SuccessorInFamily'
  BY <1>7 DEF SuccessorInFamily, TypeOK, Control, Token, Find, Goto, users, table, history
<1>8. ASSUME NEW w \in Worker, Inherit(w) PROVE SuccessorInFamily'
  <2>1. /\ pc[w] = "inherit" /\ UNCHANGED <<row, successor>>
        /\ \A t \in Token : t # new[w] => family'[t] = family[t]
    BY <1>8 DEF TypeOK, Inherit
  <2>2. \A t \in Token : successor[t] # NoToken =>
           t # new[w] /\ successor[t] # new[w] /\ successor[t] \in Token
    BY <2>1 DEF Links, Carrying, TypeOK, Token
  <2> QED
    BY <2>1, <2>2 DEF SuccessorInFamily
<1>9. ASSUME NEW w \in Worker, Retire(w) PROVE SuccessorInFamily'
  <2>1. /\ pc[w] = "retire" /\ old[w] # NoToken
        /\ \A t \in Token : \/ successor'[t] = successor[t]
                            \/ t = old[w] /\ successor'[t] = new[w] /\ Stored(t)
        /\ UNCHANGED <<row, family>>
    BY <1>9 DEF TypeOK, Control, Retire
  <2>2. Stored(new[w]) => family[new[w]] = fam[w]
    BY <2>1 DEF Inherited
  <2>3. Stored(old[w]) => fam[w] = family[old[w]]
    BY <2>1 DEF Links
  <2> QED
    BY <2>1, <2>2, <2>3 DEF SuccessorInFamily
<1>10. ASSUME NEW w \in Worker, Answer(w) PROVE SuccessorInFamily'
  BY <1>10 DEF SuccessorInFamily, TypeOK, Control, Token, Answer, Finish, Goto, users, table, history
<1>11. ASSUME NEW w \in Worker, Fail(w) PROVE SuccessorInFamily'
  BY <1>11 DEF SuccessorInFamily, TypeOK, Control, Token, Fail, Finish, Goto, users, table, history
<1>12. ASSUME NEW u \in User, DeleteUser(u) PROVE SuccessorInFamily'
  <2>1. UNCHANGED <<family, successor>> /\ \A t \in Token : Stored(t)' => Stored(t)
    BY <1>12 DEF DeleteUser
  <2>2. \A t \in Token : successor[t] # NoToken => successor[t] \in Token
    BY MaxTokensAssumption DEF TypeOK, Token
  <2> QED
    BY <2>1, <2>2 DEF SuccessorInFamily
<1>13. ASSUME NEW u \in User, NEW s \in {"active", "inactive"}, SetActive(u, s) PROVE SuccessorInFamily'
  BY <1>13 DEF SuccessorInFamily, TypeOK, Control, Token, SetActive, table, work, history
<1>14. ASSUME NEW t \in Token, Expire(t) PROVE SuccessorInFamily'
  BY <1>14 DEF SuccessorInFamily, TypeOK, Control, Token, Expire, users, work, history
<1>15. CASE Cleanup
  <2>1. UNCHANGED <<family, successor>> /\ \A t \in Token : Stored(t)' => Stored(t)
    BY <1>15 DEF Cleanup
  <2>2. \A t \in Token : successor[t] # NoToken => successor[t] \in Token
    BY MaxTokensAssumption DEF TypeOK, Token
  <2> QED
    BY <2>1, <2>2 DEF SuccessorInFamily
<1>16. CASE Crash
  BY <1>16 DEF SuccessorInFamily, TypeOK, Control, Token, Crash, users, table, history
<1>17. CASE UNCHANGED vars
  BY <1>17 DEF SuccessorInFamily, TypeOK, Control, Token, vars
<1>18. ASSUME NEW w \in Worker, AuditLogin(w) PROVE SuccessorInFamily'
  BY <1>18 DEF SuccessorInFamily, TypeOK, Control, Token, AuditLogin, Goto, table, history
<1> QED
  BY <1>1, <1>2, <1>3, <1>4, <1>5, <1>6, <1>7, <1>8, <1>9, <1>10, <1>11, <1>12,
     <1>13, <1>14, <1>15, <1>16, <1>17, <1>18
     DEF Next, Step

\* As long as the UPDATE of family_id does not fail, a successor is in the
\* family of the token it replaces, in every interleaving and after any crash.
THEOREM SuccessorsInherit == "inherit" \notin Ignored => (Spec => []SuccessorInFamily)
<1> SUFFICES ASSUME "inherit" \notin Ignored PROVE Spec => []SuccessorInFamily
  OBVIOUS
<1>1. Init => Inherited /\ SuccessorInFamily
  BY DEF Init, Inherited, SuccessorInFamily, NoToken, Token
<1>2. IInv /\ Links /\ Inherited /\ SuccessorInFamily /\ [Next]_vars
        => Inherited' /\ SuccessorInFamily'
  BY InheritedStep, SuccessorStep DEF IInv
<1> QED
  BY <1>1, <1>2, LinksInvariance, PTL DEF Spec

-----------------------------------------------------------------------------
\* Every step keeps the first tokens of sessions on record.
LEMMA RecordStep ==
    ASSUME "audit" \notin Ignored, TypeOK, Control, Ownership, Links, Inherited, OnRecord,
           LoginsAudited, [Next]_vars
    PROVE  (OnRecord /\ LoginsAudited)'
<1> USE DEF NoToken, Stored
<1>1. ASSUME NEW w \in Worker, NEW u \in User, Login(w, u) PROVE (OnRecord /\ LoginsAudited)'
  BY <1>1 DEF OnRecord, LoginsAudited, Carrying, TypeOK, Control, Token, Login, Goto, users, table, history
<1>2. ASSUME NEW w \in Worker, NEW u \in User, Logout(w, u) PROVE (OnRecord /\ LoginsAudited)'
  BY <1>2 DEF OnRecord, LoginsAudited, Carrying, TypeOK, Control, Token, Logout, users, work
<1>3. ASSUME NEW w \in Worker, NEW t \in Token, Present(w, t) PROVE (OnRecord /\ LoginsAudited)'
  BY <1>3 DEF OnRecord, LoginsAudited, Carrying, TypeOK, Control, Token, Present, Goto, users, table, history
<1>4. ASSUME NEW w \in Worker, RevokeFamily(w) PROVE (OnRecord /\ LoginsAudited)'
  BY <1>4 DEF OnRecord, LoginsAudited, Carrying, TypeOK, Control, Token, RevokeFamily, Finish, Goto, users
<1>5. ASSUME NEW w \in Worker, CheckUser(w) PROVE (OnRecord /\ LoginsAudited)'
  BY <1>5 DEF OnRecord, LoginsAudited, Carrying, TypeOK, Control, Token, CheckUser, Goto, users, table, history
<1>6. ASSUME NEW w \in Worker, Issue(w) PROVE (OnRecord /\ LoginsAudited)'
  <2> DEFINE n == issued + 1
  <2>1. /\ \A v \in Worker : v # w => pc'[v] = pc[v] /\ new'[v] = new[v]
        /\ UNCHANGED <<old, fam, known, logins>>
        /\ pc'[w] \in {"audit", "find"} /\ new'[w] = n
    BY <1>6 DEF TypeOK, Issue, Goto, users, history
  <2>2. /\ issued \in Nat
        /\ \A t \in 1 .. issued : row'[t] = row[t] /\ family'[t] = family[t]
    BY <1>6, MaxTokensAssumption DEF TypeOK, Token, Issue
  <2>3. old[w] # NoToken => fam[w] # n
    BY <2>2 DEF Ownership
  <2>4. OnRecord'
    BY <2>1, <2>3 DEF OnRecord, Carrying
  <2>5. LoginsAudited'
    BY <2>1, <2>2 DEF LoginsAudited, Links
  <2> QED
    BY <2>4, <2>5
<1>7. ASSUME NEW w \in Worker, Find(w) PROVE (OnRecord /\ LoginsAudited)'
  BY <1>7 DEF OnRecord, LoginsAudited, Carrying, TypeOK, Control, Token, Find, Goto, users, table, history
<1>8. ASSUME NEW w \in Worker, Inherit(w) PROVE (OnRecord /\ LoginsAudited)'
  <2>1. /\ pc[w] = "inherit" /\ \A v \in Worker : pc'[v] = IF v = w THEN "retire" ELSE pc[v]
        /\ UNCHANGED <<row, old, fam, new, known, logins>>
        /\ \A t \in Token : t # new[w] => family'[t] = family[t]
    BY <1>8 DEF TypeOK, Inherit, Goto, users
  <2>2. \A t \in known : t \in Token /\ t # new[w]
    BY <2>1 DEF Links, Carrying, TypeOK
  <2> QED
    BY <2>1, <2>2 DEF OnRecord, LoginsAudited, Carrying
<1>9. ASSUME NEW w \in Worker, Retire(w) PROVE (OnRecord /\ LoginsAudited)'
  BY <1>9 DEF OnRecord, LoginsAudited, Carrying, TypeOK, Control, Token, Retire, Goto, users, history
<1>10. ASSUME NEW w \in Worker, Answer(w) PROVE (OnRecord /\ LoginsAudited)'
  <2>1. /\ pc[w] = "answer" /\ known' \subseteq known \cup {new[w]}
        /\ \A v \in Worker : v # w =>
              pc'[v] = pc[v] /\ old'[v] = old[v] /\ fam'[v] = fam[v] /\ new'[v] = new[v]
        /\ pc'[w] = "idle"
        /\ UNCHANGED <<row, family, logins>>
    BY <1>10 DEF TypeOK, Answer, Finish, Goto, users, table
  <2>2. OnRecord'
    BY <2>1 DEF OnRecord, Carrying
  <2>3. Stored(new[w]) /\ family[new[w]] = new[w] => new[w] \in logins
    BY <2>1 DEF OnRecord, Carrying, Inherited
  <2>4. LoginsAudited'
    BY <2>1, <2>3 DEF LoginsAudited
  <2> QED
    BY <2>2, <2>4
<1>11. ASSUME NEW w \in Worker, Fail(w) PROVE (OnRecord /\ LoginsAudited)'
  BY <1>11 DEF OnRecord, LoginsAudited, Carrying, TypeOK, Control, Token, Fail, Finish, Goto, users, table, history
<1>12. ASSUME NEW u \in User, DeleteUser(u) PROVE (OnRecord /\ LoginsAudited)'
  BY <1>12 DEF OnRecord, LoginsAudited, Carrying, TypeOK, Control, Token, DeleteUser, work, history
<1>13. ASSUME NEW u \in User, NEW s \in {"active", "inactive"}, SetActive(u, s) PROVE (OnRecord /\ LoginsAudited)'
  BY <1>13 DEF OnRecord, LoginsAudited, Carrying, TypeOK, Control, Token, SetActive, table, work, history
<1>14. ASSUME NEW t \in Token, Expire(t) PROVE (OnRecord /\ LoginsAudited)'
  BY <1>14 DEF OnRecord, LoginsAudited, Carrying, TypeOK, Control, Token, Expire, users, work, history
<1>15. CASE Cleanup
  BY <1>15 DEF OnRecord, LoginsAudited, Carrying, TypeOK, Control, Token, Cleanup, users, work, history
<1>16. CASE Crash
  BY <1>16 DEF OnRecord, LoginsAudited, Carrying, TypeOK, Control, Token, Crash, users, table, history
<1>17. CASE UNCHANGED vars
  BY <1>17 DEF OnRecord, LoginsAudited, Carrying, TypeOK, Control, Token, vars
<1>18. ASSUME NEW w \in Worker, AuditLogin(w) PROVE (OnRecord /\ LoginsAudited)'
  <2>1. /\ \A v \in Worker : pc'[v] = IF v = w THEN "answer" ELSE pc[v]
        /\ pc[w] = "audit" /\ logins' = logins \cup {new[w]}
        /\ UNCHANGED <<row, family, known, old, fam, new>>
    BY <1>18 DEF TypeOK, AuditLogin, Goto, table
  <2> QED
    BY <2>1 DEF OnRecord, LoginsAudited, Carrying
<1> QED
  BY <1>1, <1>2, <1>3, <1>4, <1>5, <1>6, <1>7, <1>8, <1>9, <1>10, <1>11, <1>12,
     <1>13, <1>14, <1>15, <1>16, <1>17, <1>18
     DEF Next, Step

\* As long as the INSERT of the event and the UPDATE of family_id do not fail,
\* a session begins with a login that is on record, however requests overlap.
THEOREM SessionsAudited == {"audit", "inherit"} \cap Ignored = {} => (Spec => []LoginsAudited)
<1> SUFFICES ASSUME {"audit", "inherit"} \cap Ignored = {} PROVE Spec => []LoginsAudited
  OBVIOUS
<1>1. Init => Inherited /\ OnRecord /\ LoginsAudited
  BY DEF Init, Inherited, OnRecord, LoginsAudited, Carrying, NoToken
<1>2. IInv /\ Links /\ Inherited /\ OnRecord /\ LoginsAudited /\ [Next]_vars
        => Inherited' /\ OnRecord' /\ LoginsAudited'
  BY InheritedStep, RecordStep DEF IInv
<1> QED
  BY <1>1, <1>2, LinksInvariance, PTL DEF Spec

-----------------------------------------------------------------------------
\* Every step keeps used tokens recognisable.
LEMMA RecognisedStep ==
    ASSUME TypeOK, Control, Ownership, Links, ReplayRecognised, [Next]_vars
    PROVE  ReplayRecognised'
<1> USE DEF NoToken, Stored
<1>1. ASSUME NEW w \in Worker, NEW u \in User, Login(w, u) PROVE ReplayRecognised'
  BY <1>1 DEF ReplayRecognised, TypeOK, Control, Token, Login, Goto, users, table, history
<1>2. ASSUME NEW w \in Worker, NEW u \in User, Logout(w, u) PROVE ReplayRecognised'
  BY <1>2 DEF ReplayRecognised, TypeOK, Control, Token, Logout, users, work
<1>3. ASSUME NEW w \in Worker, NEW t \in Token, Present(w, t) PROVE ReplayRecognised'
  BY <1>3 DEF ReplayRecognised, TypeOK, Control, Token, Present, Goto, users, table, history
<1>4. ASSUME NEW w \in Worker, RevokeFamily(w) PROVE ReplayRecognised'
  BY <1>4 DEF ReplayRecognised, TypeOK, Control, Token, RevokeFamily, Finish, Goto, users
<1>5. ASSUME NEW w \in Worker, CheckUser(w) PROVE ReplayRecognised'
  BY <1>5 DEF ReplayRecognised, TypeOK, Control, Token, CheckUser, Goto, users, table, history
<1>6. ASSUME NEW w \in Worker, Issue(w) PROVE ReplayRecognised'
  <2>1. UNCHANGED <<known, successor, revoked, expired, account>>
    BY <1>6 DEF Issue, users
  <2>2. \A t \in 1 .. issued : row'[t] = row[t] /\ owner'[t] = owner[t]
    BY <1>6, MaxTokensAssumption DEF TypeOK, Token, Issue
  <2> QED
    BY <2>1, <2>2 DEF ReplayRecognised, Links
<1>7. ASSUME NEW w \in Worker, Find(w) PROVE ReplayRecognised'
  BY <1>7 DEF ReplayRecognised, TypeOK, Control, Token, Find, Goto, users, table, history
<1>8. ASSUME NEW w \in Worker, Inherit(w) PROVE ReplayRecognised'
  BY <1>8 DEF ReplayRecognised, TypeOK, Control, Token, Inherit, Goto, users, history
<1>9. ASSUME NEW w \in Worker, Retire(w) PROVE ReplayRecognised'
  <2>1. \/ Stored(old[w]) /\ revoked' = revoked \cup {old[w]}
        \/ UNCHANGED <<revoked, successor>>
    BY <1>9 DEF Retire
  <2>2. \A t \in Token : t # old[w] => successor'[t] = successor[t]
    BY <1>9 DEF TypeOK, Retire
  <2>3. UNCHANGED <<row, known, expired, account, owner>>
    BY <1>9 DEF Retire, users
  <2>4. known \subseteq Token
    BY DEF TypeOK
  <2> QED
    BY <2>1, <2>2, <2>3, <2>4 DEF ReplayRecognised
<1>10. ASSUME NEW w \in Worker, Answer(w) PROVE ReplayRecognised'
  <2>1. /\ pc[w] = "answer" /\ known' \subseteq known \cup {new[w]} /\ new[w] \in Token
        /\ UNCHANGED <<row, successor, revoked, expired, account, owner>>
    BY <1>10, MaxTokensAssumption DEF TypeOK, Control, Token, Answer, users, table
  <2>2. successor[new[w]] = NoToken
    BY <2>1 DEF Links, Carrying
  <2> QED
    BY <2>1, <2>2 DEF ReplayRecognised
<1>11. ASSUME NEW w \in Worker, Fail(w) PROVE ReplayRecognised'
  BY <1>11 DEF ReplayRecognised, TypeOK, Control, Token, Fail, Finish, Goto, users, table, history
<1>12. ASSUME NEW u \in User, DeleteUser(u) PROVE ReplayRecognised'
  <2>1. /\ UNCHANGED <<known, successor, revoked, owner, expired>>
        /\ account' = [account EXCEPT ![u] = "deleted"]
        /\ \A t \in Token : Stored(t) /\ owner[t] # u => Stored(t)'
    BY <1>12 DEF TypeOK, DeleteUser, TokensOf
  <2>2. known \subseteq Token /\ account \in [User -> {"active", "inactive", "deleted"}]
    BY DEF TypeOK
  <2>3. ASSUME NEW t \in known, successor[t] # NoToken, t \notin expired,
               account'[owner[t]] # "deleted"
        PROVE  Stored(t)' /\ t \in revoked
    <3>1. owner[t] # u
      BY <2>1, <2>2, <2>3
    <3>2. account[owner[t]] # "deleted"
      BY <2>1, <2>2, <2>3, <3>1
    <3> QED
      BY <2>1, <2>2, <2>3, <3>1, <3>2 DEF ReplayRecognised
  <2> QED
    BY <2>1, <2>3 DEF ReplayRecognised
<1>13. ASSUME NEW u \in User, NEW s \in {"active", "inactive"}, SetActive(u, s) PROVE ReplayRecognised'
  <2>1. /\ UNCHANGED <<known, successor, revoked, owner, expired, row>>
        /\ account[u] # "deleted" /\ account' = [account EXCEPT ![u] = s]
    BY <1>13 DEF SetActive, table
  <2>2. \A v : account'[v] # "deleted" => account[v] # "deleted"
    BY <2>1 DEF TypeOK
  <2> QED
    BY <2>1, <2>2 DEF ReplayRecognised
<1>14. ASSUME NEW t \in Token, Expire(t) PROVE ReplayRecognised'
  BY <1>14 DEF ReplayRecognised, TypeOK, Control, Token, Expire, users, work, history
<1>15. CASE Cleanup
  <2>1. /\ UNCHANGED <<known, successor, revoked, owner, expired, account>>
        /\ \A t \in Token : Stored(t) /\ t \notin expired => Stored(t)'
    BY <1>15 DEF TypeOK, Cleanup, users, history, work
  <2>2. known \subseteq Token
    BY DEF TypeOK
  <2> QED
    BY <2>1, <2>2 DEF ReplayRecognised
<1>16. CASE Crash
  BY <1>16 DEF ReplayRecognised, TypeOK, Control, Token, Crash, users, table, history
<1>17. CASE UNCHANGED vars
  BY <1>17 DEF ReplayRecognised, TypeOK, Control, Token, vars
<1>18. ASSUME NEW w \in Worker, AuditLogin(w) PROVE ReplayRecognised'
  BY <1>18 DEF ReplayRecognised, TypeOK, Control, Token, AuditLogin, Goto, table, history
<1> QED
  BY <1>1, <1>2, <1>3, <1>4, <1>5, <1>6, <1>7, <1>8, <1>9, <1>10, <1>11, <1>12,
     <1>13, <1>14, <1>15, <1>16, <1>17, <1>18
     DEF Next, Step

\* Cleanup, expiry, crashes and ignored errors never destroy what detects the
\* replay of a token that was used and has not expired.
THEOREM ReplaysRecognised == Spec => []ReplayRecognised
<1>1. Init => ReplayRecognised
  BY DEF Init, ReplayRecognised
<1>2. IInv /\ Links /\ ReplayRecognised /\ [Next]_vars => ReplayRecognised'
  BY RecognisedStep DEF IInv
<1> QED
  BY <1>1, <1>2, LinksInvariance, PTL DEF Spec

-----------------------------------------------------------------------------
\* What a blocked user keeps in a step: no more rows, no more tokens.
Nothing(u) ==
    /\ Blocked(u)' \/ account'[u] = "active"
    /\ TokensOf(u)' \subseteq TokensOf(u)
    /\ known' \cap TokensOf(u) = known \cap TokensOf(u)

\* No step gives a blocked user anything.
LEMMA BlockedStep ==
    ASSUME TypeOK, Control, [Next]_vars, NEW u \in User, Blocked(u)
    PROVE  Nothing(u)
<1> USE UserAssumption DEF Stored
<1>1. ASSUME NEW w \in Worker, NEW v \in User, Login(w, v) PROVE Nothing(u)
  BY <1>1 DEF Nothing, Blocked, TokensOf, TypeOK, Login, Goto, users, table, history
<1>2. ASSUME NEW w \in Worker, NEW v \in User, Logout(w, v) PROVE Nothing(u)
  BY <1>2 DEF Nothing, Blocked, TokensOf, TypeOK, Logout, users, work
<1>3. ASSUME NEW w \in Worker, NEW t \in Token, Present(w, t) PROVE Nothing(u)
  BY <1>3 DEF Nothing, Blocked, TokensOf, TypeOK, Present, Goto, users, table, history
<1>4. ASSUME NEW w \in Worker, RevokeFamily(w) PROVE Nothing(u)
  BY <1>4 DEF Nothing, Blocked, TokensOf, TypeOK, RevokeFamily, Finish, Goto, users
<1>5. ASSUME NEW w \in Worker, CheckUser(w) PROVE Nothing(u)
  BY <1>5 DEF Nothing, Blocked, TokensOf, TypeOK, CheckUser, Goto, users, table, history
<1>6. ASSUME NEW w \in Worker, Issue(w) PROVE Nothing(u)
  BY <1>6 DEF Nothing, Blocked, TokensOf, TypeOK, Issue, Goto, users, history
<1>7. ASSUME NEW w \in Worker, Find(w) PROVE Nothing(u)
  BY <1>7 DEF Nothing, Blocked, TokensOf, TypeOK, Find, Goto, users, table, history
<1>8. ASSUME NEW w \in Worker, Inherit(w) PROVE Nothing(u)
  BY <1>8 DEF Nothing, Blocked, TokensOf, TypeOK, Inherit, Goto, users, history
<1>9. ASSUME NEW w \in Worker, Retire(w) PROVE Nothing(u)
  BY <1>9 DEF Nothing, Blocked, TokensOf, TypeOK, Retire, Goto, users, history
<1>10. ASSUME NEW w \in Worker, Answer(w) PROVE Nothing(u)
  <2>1. /\ pc[w] = "answer" /\ known' \in {known, known \cup {new[w]}}
        /\ \A v \in Worker : v # w => pc'[v] = pc[v] /\ usr'[v] = usr[v]
        /\ usr'[w] = "nobody"
        /\ UNCHANGED <<row, owner, account>>
    BY <1>10 DEF TypeOK, Answer, Finish, Goto, users, table
  <2>2. owner[new[w]] # u
    BY <2>1 DEF Blocked, Control
  <2>3. known' \cap TokensOf(u) = known \cap TokensOf(u)
    BY <2>1, <2>2 DEF TokensOf
  <2>4. Blocked(u)'
    BY <2>1 DEF Blocked
  <2> QED
    BY <2>1, <2>3, <2>4 DEF Nothing, TokensOf
<1>11. ASSUME NEW w \in Worker, Fail(w) PROVE Nothing(u)
  BY <1>11 DEF Nothing, Blocked, TokensOf, TypeOK, Fail, Finish, Goto, users, table, history
<1>12. ASSUME NEW v \in User, DeleteUser(v) PROVE Nothing(u)
  BY <1>12 DEF Nothing, Blocked, TokensOf, TypeOK, DeleteUser, work, history
<1>13. ASSUME NEW v \in User, NEW s \in {"active", "inactive"}, SetActive(v, s) PROVE Nothing(u)
  BY <1>13 DEF Nothing, Blocked, TokensOf, TypeOK, SetActive, table, work, history
<1>14. ASSUME NEW t \in Token, Expire(t) PROVE Nothing(u)
  BY <1>14 DEF Nothing, Blocked, TokensOf, TypeOK, Expire, users, work, history
<1>15. CASE Cleanup
  BY <1>15 DEF Nothing, Blocked, TokensOf, TypeOK, Cleanup, users, work, history
<1>16. CASE Crash
  BY <1>16 DEF Nothing, Blocked, TokensOf, TypeOK, Crash, users, table, history
<1>17. CASE UNCHANGED vars
  BY <1>17 DEF Nothing, Blocked, TokensOf, TypeOK, vars
<1>18. ASSUME NEW w \in Worker, AuditLogin(w) PROVE Nothing(u)
  BY <1>18 DEF Nothing, Blocked, TokensOf, TypeOK, AuditLogin, Goto, table, history
<1> QED
  BY <1>1, <1>2, <1>3, <1>4, <1>5, <1>6, <1>7, <1>8, <1>9, <1>10, <1>11, <1>12,
     <1>13, <1>14, <1>15, <1>16, <1>17, <1>18
     DEF Next, Step

\* A deactivated or deleted user is issued nothing and its clients receive
\* nothing, unless a request was past its check of the user.
THEOREM BlockedGainNothing == Spec => NoTokenWhileBlocked
<1>1. IInv /\ [Next]_vars => [\A u \in User : Blocked(u) => Nothing(u)]_vars
  BY BlockedStep DEF IInv
<1> QED
  BY <1>1, Invariance, PTL DEF Spec, NoTokenWhileBlocked, Nothing

-----------------------------------------------------------------------------
\* What the README promises of the whole family is true of requests that do not
\* overlap: there is at most one request handler.  The cleanup, the clock, an
\* administrator and a crash still come between any two of its statements.
Serial == \A v, w \in Worker : v = w

\* Nothing is stored of it that works, nothing will be, and it is not new.
Ended(f) == f \in Token /\ Dead(f)

\* A family that ended has ended for good.
LEMMA EndedStep ==
    ASSUME IInv, [Next]_vars, NEW f, Ended(f)
    PROVE  Ended(f)'
BY DeadStep DEF IInv, Ended, Token

\* A replay that no rotation of the family overtakes ends the family, however
\* many requests there are, if the UPDATE does not fail.
LEMMA ReplayEnds ==
    ASSUME IInv, "revoke_family" \notin Ignored, NEW w \in Worker, NEW f,
           RevokeFamily(w), fam[w] = f, ~Rotating(f)
    PROVE  Ended(f)'
<1>1. /\ pc[w] = "revoke_family" /\ revoked' = revoked \cup Members(f)
      /\ \A v \in Worker : v # w =>
            pc'[v] = pc[v] /\ old'[v] = old[v] /\ fam'[v] = fam[v]
      /\ pc'[w] = "idle"
      /\ UNCHANGED <<issued, row, family>>
  BY DEF IInv, TypeOK, RevokeFamily, Finish, Goto, users
<1>2. old[w] # NoToken
  BY <1>1 DEF IInv, Control
<1>3. f \in 1 .. issued /\ f \in Token
  BY <1>2, MaxTokensAssumption DEF IInv, TypeOK, Ownership, Token
<1>4. ~Rotating(f)' /\ Members(f)' = Members(f)
  BY <1>1 DEF Rotating, Members, Stored
<1> QED
  BY <1>1, <1>3, <1>4 DEF Ended, Dead

\* A logout that overtakes no rotation ends every family of its user.
LEMMA LogoutEnds ==
    ASSUME IInv, NEW w \in Worker, NEW u \in User, Logout(w, u),
           NEW t \in TokensOf(u), NEW f, family[t] = f, ~Rotating(f)
    PROVE  Ended(f)'
<1>1. /\ revoked' = revoked \cup TokensOf(u)
      /\ UNCHANGED <<issued, row, family, pc, old, fam>>
  BY DEF Logout, work
<1>2. t \in Token /\ Stored(t) /\ owner[t] = u
  BY DEF TokensOf
<1>3. f \in 1 .. issued /\ f \in Token /\ owner[f] = u
  BY <1>2, MaxTokensAssumption DEF IInv, TypeOK, Ownership, Token
<1>4. Members(f) \subseteq TokensOf(u)
  BY <1>3 DEF IInv, Ownership, Members, TokensOf
<1>5. ~Rotating(f)' /\ Members(f)' = Members(f)
  BY <1>1 DEF Members, Rotating, Stored
<1> QED
  BY <1>1, <1>3, <1>4, <1>5 DEF Ended, Dead

\* However requests overlap: the families of which a replay is detected and of
\* which no rotation is under way are ended by it, if the UPDATE does not fail.
ReplayIsFatal ==
    [][\A w \in Worker, f \in Token :
          RevokeFamily(w) /\ fam[w] = f /\ ~Rotating(f) => Dead(f)']_vars

\* A detected replay ends its family, unless a rotation of it is under way or
\* the UPDATE fails unnoticed.
THEOREM ReplaysAreFatal == "revoke_family" \notin Ignored => (Spec => ReplayIsFatal)
<1> SUFFICES ASSUME "revoke_family" \notin Ignored PROVE Spec => ReplayIsFatal
  OBVIOUS
<1>1. IInv => [\A w \in Worker, f \in Token :
                  RevokeFamily(w) /\ fam[w] = f /\ ~Rotating(f) => Dead(f)']_vars
  BY ReplayEnds DEF Ended
<1> QED
  BY <1>1, Invariance, PTL DEF Spec, ReplayIsFatal

\* However requests overlap: a logout ends the families of its user of which no
\* rotation is under way.
LogoutIsFatal ==
    [][\A w \in Worker, u \in User, f \in Token :
          /\ Logout(w, u) /\ ~Rotating(f)
          /\ \E t \in TokensOf(u) : family[t] = f
          => Dead(f)']_vars

\* A logout ends each of its user's families that is not being rotated.
THEOREM LogoutsAreFatal == Spec => LogoutIsFatal
<1>1. IInv => [\A w \in Worker, u \in User, f \in Token :
                  /\ Logout(w, u) /\ ~Rotating(f)
                  /\ \E t \in TokensOf(u) : family[t] = f
                  => Dead(f)']_vars
  BY LogoutEnds DEF Ended
<1> QED
  BY <1>1, Invariance, PTL DEF Spec, LogoutIsFatal

\* Without overlap a replay ends the family it is detected in.
LEMMA ReplayedStep ==
    ASSUME IInv, Serial, "revoke_family" \notin Ignored,
           \A f \in replayed : Ended(f), [Next]_vars
    PROVE  \A f \in replayed' : Ended(f)'
<1>1. ASSUME NEW f \in replayed PROVE Ended(f)'
  BY <1>1, EndedStep
<1>2. ASSUME NEW w \in Worker, RevokeFamily(w) PROVE \A f \in replayed' : Ended(f)'
  <2>1. ~Rotating(fam[w]) /\ replayed' = replayed \cup {fam[w]}
    BY <1>2 DEF Serial, Rotating, RevokeFamily
  <2>2. \A f : f = fam[w] => Ended(f)'
    BY <1>2, <2>1, ReplayEnds
  <2> QED
    BY <1>1, <2>1, <2>2
<1>3. ASSUME \A w \in Worker : ~RevokeFamily(w) PROVE replayed' = replayed
  BY <1>3 DEF Next, Step, vars, history, Login, Logout, Present, CheckUser, Issue, AuditLogin,
     Find, Inherit, Retire, Answer, Fail, DeleteUser, SetActive, Expire, Cleanup, Crash
<1> QED
  BY <1>1, <1>2, <1>3

\* Without overlap a logout ends the families of its user.
LEMMA LoggedOutStep ==
    ASSUME IInv, Serial, \A f \in loggedOut : Ended(f), [Next]_vars
    PROVE  \A f \in loggedOut' : Ended(f)'
<1>1. ASSUME NEW f \in loggedOut PROVE Ended(f)'
  BY <1>1, EndedStep
<1>2. ASSUME NEW w \in Worker, NEW u \in User, Logout(w, u)
      PROVE  \A f \in loggedOut' : Ended(f)'
  <2>1. /\ \A f : ~Rotating(f)
        /\ loggedOut' = loggedOut \cup {family[t] : t \in TokensOf(u)}
    BY <1>2 DEF Serial, Rotating, Logout
  <2>2. ASSUME NEW t \in TokensOf(u), NEW f, family[t] = f PROVE Ended(f)'
    BY <1>2, <2>1, <2>2, LogoutEnds
  <2> QED
    BY <1>1, <2>1, <2>2
<1>3. ASSUME \A w \in Worker, u \in User : ~Logout(w, u) PROVE loggedOut' = loggedOut
  BY <1>3 DEF Next, Step, vars, history, Login, Present, RevokeFamily, CheckUser, Issue, AuditLogin,
     Find, Inherit, Retire, Answer, Fail, DeleteUser, SetActive, Expire, Cleanup, Crash
<1> QED
  BY <1>1, <1>2, <1>3

\* README: on a replay all tokens in the family are revoked.  So it is, and
\* none of them is ever valid again, if requests do not overlap and the UPDATE
\* does not fail.
THEOREM ReplayRevokesTheFamily ==
    Serial /\ "revoke_family" \notin Ignored => (Spec => []ReplayEndsFamily)
<1> SUFFICES ASSUME Serial, "revoke_family" \notin Ignored PROVE Spec => []ReplayEndsFamily
  OBVIOUS
<1> DEFINE Good == \A f \in replayed : Ended(f)
<1>1. Init => Good
  BY DEF Init
<1>2. IInv /\ Good /\ [Next]_vars => Good'
  BY ReplayedStep
<1>3. Good => ReplayEndsFamily
  BY DEF ReplayEndsFamily, Ended, Dead
<1> QED
  BY <1>1, <1>2, <1>3, Invariance, PTL DEF Spec

\* README: a logout destroys all refresh tokens of the user.  It does, with
\* those of the user's sessions still to come out of them, if requests do not overlap.
THEOREM LogoutRevokesTheSessions == Serial => (Spec => []LogoutEndsSessions)
<1> SUFFICES ASSUME Serial PROVE Spec => []LogoutEndsSessions
  OBVIOUS
<1> DEFINE Good == \A f \in loggedOut : Ended(f)
<1>1. Init => Good
  BY DEF Init
<1>2. IInv /\ Good /\ [Next]_vars => Good'
  BY LoggedOutStep
<1>3. Good => LogoutEndsSessions
  BY DEF LogoutEndsSessions, Ended, Dead
<1> QED
  BY <1>1, <1>2, <1>3, Invariance, PTL DEF Spec

-----------------------------------------------------------------------------
\* The known tokens of a family of which a rotation is under way are used up,
\* but for the one it was given; when it answers, that one is too.  The token it
\* carries is in no family that a client has a token of, until it inherits one.
Single ==
    /\ \A s, t \in known :
          LiveToken(s) /\ LiveToken(t) /\ family[s] = family[t] => s = t
    /\ \A w \in Worker : pc[w] # "revoke_family" /\ old[w] # NoToken =>
          \A t \in known : LiveToken(t) /\ family[t] = fam[w] => t = old[w] /\ pc[w] # "answer"
    /\ \A w \in Worker : Carrying(w) =>
          /\ \A t \in known : Stored(t) => family[t] # new[w]
          /\ Stored(new[w]) =>
                family[new[w]] = new[w] \/ (old[w] # NoToken /\ family[new[w]] = fam[w])
    /\ \A w \in Worker : pc[w] = "audit" => old[w] = NoToken

\* Rows that go do not disturb it.
LEMMA Fewer ==
    ASSUME TypeOK, Control, Single,
           UNCHANGED <<family, revoked, expired, known, pc, old, fam, new>>,
           \A t \in Token : row'[t] = "stored" => row[t] = "stored"
    PROVE  Single'
<1>1. \A w \in Worker : Carrying(w) => new[w] \in Token
  BY MaxTokensAssumption DEF Carrying, Control, TypeOK, Token
<1>2. known \subseteq Token
  BY DEF TypeOK
<1> QED
  BY <1>1, <1>2 DEF Single, Carrying, LiveToken, Stored

\* Every step of a request that overlaps no other keeps it so.
LEMMA SingleStep ==
    ASSUME IInv, Links, Single, Serial, "retire" \notin Ignored, [Next]_vars
    PROVE  Single'
<1> USE DEF IInv, NoToken, Stored, LiveToken
<1>1. ASSUME NEW w \in Worker, NEW u \in User, Login(w, u) PROVE Single'
  BY <1>1 DEF Single, Carrying, TypeOK, Control, Login, Goto, users, table, history
<1>2. ASSUME NEW w \in Worker, NEW u \in User, Logout(w, u) PROVE Single'
  BY <1>2 DEF Single, Carrying, TypeOK, Control, Logout, users, work
<1>3. ASSUME NEW w \in Worker, NEW t \in Token, Present(w, t) PROVE Single'
  BY <1>3 DEF Single, Carrying, TypeOK, Control, Serial, Present, Goto, users, table, history
<1>4. ASSUME NEW w \in Worker, RevokeFamily(w) PROVE Single'
  BY <1>4 DEF Single, Carrying, TypeOK, Control, Serial, RevokeFamily, Finish, Goto, users
<1>5. ASSUME NEW w \in Worker, CheckUser(w) PROVE Single'
  BY <1>5 DEF Single, Carrying, TypeOK, Control, CheckUser, Goto, users, table, history
<1>6. ASSUME NEW w \in Worker, Issue(w) PROVE Single'
  <2> DEFINE n == issued + 1
  <2>1. /\ new'[w] = n /\ family'[n] = n /\ pc[w] = "issue"
        /\ pc'[w] # "answer" /\ (pc'[w] = "audit" => old[w] = NoToken)
        /\ UNCHANGED <<old, fam, known, revoked, expired>>
    BY <1>6, MaxTokensAssumption DEF TypeOK, Token, Issue, Goto, users, history
  <2>2. /\ issued \in Nat /\ known \subseteq 1 .. issued
        /\ \A t \in 1 .. issued : row'[t] = row[t] /\ family'[t] = family[t]
    BY <1>6, MaxTokensAssumption DEF TypeOK, Token, Issue, Links
  <2>3. \A t \in known : Stored(t) => family[t] # n
    BY <2>2 DEF Ownership, Links, TypeOK
  <2> QED
    BY <2>1, <2>2, <2>3 DEF Single, Serial
<1>7. ASSUME NEW w \in Worker, Find(w) PROVE Single'
  BY <1>7 DEF Single, Carrying, TypeOK, Control, Find, Goto, users, table, history
<1>8. ASSUME NEW w \in Worker, Inherit(w) PROVE Single'
  <2>1. /\ pc[w] = "inherit" /\ pc'[w] = "retire" /\ old[w] # NoToken
        /\ UNCHANGED <<row, old, fam, new, known, revoked, expired>>
        /\ \A t \in Token : t # new[w] => family'[t] = family[t]
        /\ family'[new[w]] \in {family[new[w]], fam[w]}
    BY <1>8 DEF TypeOK, Control, Inherit, Goto, users
  <2>2. \A t \in known : t \in Token /\ t # new[w]
    BY <2>1 DEF Links, Carrying, TypeOK
  <2> QED
    BY <2>1, <2>2 DEF Single, Serial, Carrying
<1>9. ASSUME NEW w \in Worker, Retire(w) PROVE Single'
  <2>1. /\ pc[w] = "retire" /\ pc'[w] = "answer" /\ revoked \subseteq revoked'
        /\ ~LiveToken(old[w])'
        /\ UNCHANGED <<row, family, old, fam, new, known, expired>>
    BY <1>9 DEF TypeOK, Retire, Goto, users
  <2> QED
    BY <2>1 DEF Single, Serial, Carrying
<1>10. ASSUME NEW w \in Worker, Answer(w) PROVE Single'
  <2>1. /\ pc[w] = "answer" /\ known' \subseteq known \cup {new[w]}
        /\ pc'[w] = "idle" /\ old'[w] = NoToken
        /\ UNCHANGED <<row, family, revoked, expired>>
    BY <1>10 DEF TypeOK, Answer, Finish, Goto, users, table
  <2>2. \A t \in known : LiveToken(t) /\ Stored(new[w]) => family[t] # family[new[w]]
    BY <2>1 DEF Single, Carrying
  <2> QED
    BY <2>1, <2>2 DEF Single, Serial, Carrying
<1>11. ASSUME NEW w \in Worker, Fail(w) PROVE Single'
  BY <1>11 DEF Single, Carrying, TypeOK, Control, Fail, Serial, Finish, Goto, users, table, history
<1>12. ASSUME NEW u \in User, DeleteUser(u) PROVE Single'
  <2>1. /\ UNCHANGED <<family, revoked, expired, known, pc, old, fam, new>>
        /\ \A t \in Token : row'[t] = "stored" => row[t] = "stored"
    BY <1>12 DEF TypeOK, DeleteUser, work
  <2> QED
    BY <2>1, Fewer
<1>13. ASSUME NEW u \in User, NEW s \in {"active", "inactive"}, SetActive(u, s) PROVE Single'
  BY <1>13 DEF Single, Carrying, SetActive, table, work, history
<1>14. ASSUME NEW t \in Token, Expire(t) PROVE Single'
  BY <1>14 DEF Single, Carrying, Expire, users, work, history
<1>15. CASE Cleanup
  <2>1. /\ UNCHANGED <<family, revoked, expired, known, pc, old, fam, new>>
        /\ \A t \in Token : row'[t] = "stored" => row[t] = "stored"
    BY <1>15 DEF TypeOK, Cleanup, work
  <2> QED
    BY <2>1, Fewer
<1>16. CASE Crash
  BY <1>16 DEF Single, Carrying, Crash, users, table, history
<1>17. CASE UNCHANGED vars
  BY <1>17 DEF Single, Carrying, vars
<1>18. ASSUME NEW w \in Worker, AuditLogin(w) PROVE Single'
  BY <1>18 DEF Single, Carrying, TypeOK, Control, AuditLogin, Goto, table, history
<1> QED
  BY <1>1, <1>2, <1>3, <1>4, <1>5, <1>6, <1>7, <1>8, <1>9, <1>10, <1>11, <1>12,
     <1>13, <1>14, <1>15, <1>16, <1>17, <1>18
     DEF Next, Step

\* README, Valid refresh: a rotation replaces the old token by the new one.  If
\* requests do not overlap and the UPDATE of the old token does not fail, the
\* clients of a session never hold two tokens that work, not even during a request.
THEOREM OneUsable ==
    Serial /\ "retire" \notin Ignored => (Spec => []OneUsablePerFamily)
<1> SUFFICES ASSUME Serial, "retire" \notin Ignored PROVE Spec => []OneUsablePerFamily
  OBVIOUS
<1>1. Init => Single
  BY DEF Init, Single, Carrying, NoToken
<1>2. IInv /\ Links /\ Single /\ [Next]_vars => Single'
  BY SingleStep
<1>3. Single => OneUsablePerFamily
  BY DEF Single, OneUsablePerFamily
<1> QED
  BY <1>1, <1>2, <1>3, LinksInvariance, PTL DEF Spec
=============================================================================
