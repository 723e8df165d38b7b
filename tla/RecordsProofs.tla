--------------------------- MODULE RecordsProofs ----------------------------
(***************************************************************************)
(* Proofs about Records and what is read of them, for any users, records,  *)
(* bodies and handlers: an e-mail address has one owner, a deletion is     *)
(* final, a caller who is told that its update took place had it take      *)
(* place, the audit trail gives back the data and the dashboard, and a     *)
(* client that turns the pages misses or repeats only what moved.          *)
(***************************************************************************)
EXTENDS RecordReads, Sums

\* What an event of the trail may look like.
Events == [row : Row, action : {"create", "update", "delete"},
           changes : Body \cup {[role |-> x] : x \in Values("role")}]

\* What a column may hold.
Kept(f) == {Column(f, v) : v \in Values(f)}

\* The types, with the trail as a sequence.
Shape ==
    /\ state \in [Row -> {"none", "live", "soft", "gone"}]
    /\ DOMAIN content = Row
    /\ \A r \in Row : \A f \in DOMAIN content[r] : content[r][f] \in Kept(f)
    /\ audit \in Seq(Events)
    /\ pc \in [Worker -> {"idle", "write", "log", "commit", "refetch"}]
    /\ op \in [Worker -> {"none", "register", "update", "delete"}]
    /\ target \in [Worker -> Row \cup {NoRow}]
    /\ changes \in [Worker -> Body]
    /\ hit \in [Worker -> SUBSET Row]
    /\ applied \subseteq Worker
    /\ reply \in [Worker -> {"none", "200", "201", "400", "404", "409", "500"}]

\* What an open transaction may have locked, and in which state the row is.
MayHold(w, r) ==
    /\ op[w] # "none"
    /\ op[w] = "register" => r = target[w] /\ state[r] = "none"
    /\ op[w] = "update" => r = target[w] /\ state[r] = "live"
    /\ op[w] = "delete" => \/ r = target[w] /\ state[r] = "live"
                           \/ target[w] \in User /\ r \in RecordsOf(target[w])

\* Locks are held by open transactions, on rows that are there, one by each.
Held ==
    \A w \in Worker :
        /\ hit[w] # {} => pc[w] \in {"log", "commit"}
        /\ \A r \in hit[w] : MayHold(w, r)
        /\ \A q \in Worker \ {w} : hit[w] \cap hit[q] = {}

\* The statement of w has found its row deleted.
Missed(w) ==
    \/ pc[w] \in {"log", "commit"} /\ hit[w] = {}
    \/ pc[w] = "refetch" /\ w \notin applied

\* What a request knows of its row.
Knows(w) ==
    /\ target[w] \in Row /\ reply[w] = "none" /\ op[w] # "none"
    /\ pc[w] = "refetch" => op[w] = "update"
    /\ op[w] = "register" =>
          /\ target[w] \in User /\ state[target[w]] = "none"
          /\ {"email", "role"} \subseteq DOMAIN changes[w]
    /\ op[w] # "register" => state[target[w]] # "none"
    /\ op[w] # "register" /\ Missed(w) => state[target[w]] \in {"soft", "gone"}

\* And a new user's id is known to no other request.
Asked ==
    \A w \in Worker : pc[w] # "idle" =>
        /\ Knows(w)
        /\ op[w] = "register" => \A q \in Worker \ {w} : target[q] # target[w]

\* A user has an address.
Addressed == \A u \in User : state[u] = "live" => "email" \in DOMAIN content[u]

\* The inductive invariant of users and records.
IInv == Shape /\ Held /\ Asked /\ Addressed /\ AddressUnique

-----------------------------------------------------------------------------
\* Bodies.

\* What a client may send, and what is recorded of it, is typed.
LEMMA Bodies ==
    /\ NoChange \in Body
    /\ \A r \in Row : Inserts[r] \subseteq Body /\ Updates[r] \subseteq Body
    /\ \A c \in Body : \A f \in DOMAIN c : c[f] \in Values(f)
BY DEF Body, Values

\* Columns laid over typed columns are typed.
LEMMA OverlayTyped ==
    ASSUME NEW c \in Body, NEW b, \A f \in DOMAIN b : b[f] \in Kept(f)
    PROVE  /\ DOMAIN Overlay(c, b) = DOMAIN c \cup DOMAIN b
           /\ \A f \in DOMAIN Overlay(c, b) : Overlay(c, b)[f] \in Kept(f)
BY Bodies DEF Overlay, Kept

\* A new record has the columns it was created with, an owner among them.
LEMMA NewRecord ==
    ASSUME NEW r \in Record, NEW c \in Inserts[r]
    PROVE  /\ r \in Row /\ c \in Body
           /\ DOMAIN Overlay(c, NoChange) = DOMAIN c
           /\ \A f \in DOMAIN c : Overlay(c, NoChange)[f] = Column(f, c[f])
           /\ "user_id" \in DOMAIN c /\ c.user_id \in User
           /\ Overlay(c, NoChange).user_id = c.user_id
<1>1. r \in Row /\ c \in Body
  BY Bodies DEF Row
<1>2. "user_id" \in DOMAIN c /\ c.user_id \in User
  BY <1>1, OwnerAssumption, Bodies
<1>3. /\ DOMAIN Overlay(c, NoChange) = DOMAIN c
      /\ \A f \in DOMAIN c : Overlay(c, NoChange)[f] = Column(f, c[f])
  BY DEF Overlay, NoChange
<1> QED
  BY <1>1, <1>2, <1>3 DEF Column

\* The trail is typed.
LEMMA ShapeTypes == Shape => TypeOK
<1> SUFFICES ASSUME Shape PROVE TypeOK
  OBVIOUS
<1>1. \A e \in Events : /\ e.row \in Row /\ e.action \in {"create", "update", "delete"}
                        /\ \A f \in DOMAIN e.changes : e.changes[f] \in Values(f)
  BY Bodies DEF Events
<1>2. \A i \in DOMAIN audit : audit[i] \in Events
  BY DEF Shape
<1> QED
  BY <1>1, <1>2 DEF Shape, TypeOK, Kept

-----------------------------------------------------------------------------
\* Types.

\* A typed event keeps the trail typed.
LEMMA AuditGrows ==
    ASSUME Shape, NEW e \in Events
    PROVE  Append(audit, e) \in Seq(Events)
<1>1. audit \in Seq(Events)
  BY DEF Shape
<1> QED
  BY <1>1

\* Each of the ways a request ends keeps the types.
LEMMA EndShape ==
    ASSUME Shape, NEW w \in Worker, NEW code \in {"200", "201", "400", "404", "409", "500"},
           End(w, code)
    PROVE  /\ pc' \in [Worker -> {"idle", "write", "log", "commit", "refetch"}]
           /\ op' \in [Worker -> {"none", "register", "update", "delete"}]
           /\ target' \in [Worker -> Row \cup {NoRow}]
           /\ changes' \in [Worker -> Body]
           /\ hit' \in [Worker -> SUBSET Row]
           /\ reply' \in [Worker -> {"none", "200", "201", "400", "404", "409", "500"}]
<1>1. NoChange \in Body
  BY Bodies
<1> QED
  BY <1>1 DEF Shape, End

\* The event that a transaction writes is typed.
LEMMA EventTyped ==
    ASSUME Shape, Asked, NEW w \in Worker, pc[w] # "idle"
    PROVE  EventOf(w) \in Events
<1>1. changes[w] \in Body /\ target[w] \in Row /\ op[w] \in {"register", "update", "delete"}
  BY DEF Shape, Asked, Knows
<1>2. CASE op[w] = "register"
  <2>1. changes[w].role \in Values("role")
    BY <1>1, <1>2, Bodies DEF Asked, Knows
  <2> QED
    BY <1>1, <1>2, <2>1 DEF EventOf, Event, Events
<1>3. CASE op[w] # "register"
  BY <1>1, <1>3 DEF EventOf, Event, Events
<1> QED
  BY <1>2, <1>3

\* Every step keeps the types.
LEMMA ShapeStep ==
    ASSUME Shape, Asked, [Next]_vars
    PROVE  Shape'
<1>1. ASSUME NEW r \in Record, NEW c \in Inserts[r], CreateRecord(r, c) PROVE Shape'
  <2>1. r \in Row /\ c \in Body
    BY NewRecord
  <2>2. Event(r, "create", c) \in Events
    BY <2>1 DEF Event, Events
  <2>3. audit' \in Seq(Events)
    BY <1>1, <2>2, AuditGrows DEF CreateRecord
  <2>4. /\ DOMAIN content' = Row
        /\ \A s \in Row : content'[s] = IF s = r THEN Overlay(c, NoChange) ELSE content[s]
    BY <1>1, <2>1 DEF Shape, CreateRecord
  <2>5. \A s \in Row : \A f \in DOMAIN content'[s] : content'[s][f] \in Kept(f)
    BY <2>1, <2>4, OverlayTyped DEF Shape, NoChange
  <2> QED
    BY <1>1, <2>3, <2>4, <2>5 DEF Shape, CreateRecord, work
<1>2. ASSUME NEW w \in Worker, NEW u \in User, NEW c \in Inserts[u], Count(w, u, c) PROVE Shape'
  <2>1. u \in Row /\ c \in Body
    BY Bodies DEF Row
  <2>2. CASE End(w, "409")
    BY <1>2, <2>2, EndShape DEF Shape, Count, tables
  <2>3. CASE ~End(w, "409")
    <3>1. /\ pc' = [pc EXCEPT ![w] = "write"] /\ op' = [op EXCEPT ![w] = "register"]
          /\ target' = [target EXCEPT ![w] = u] /\ changes' = [changes EXCEPT ![w] = c]
          /\ reply' = [reply EXCEPT ![w] = "none"] /\ applied' = applied \ {w}
          /\ UNCHANGED <<state, content, audit, hit>>
      BY <1>2, <2>3 DEF Count, tables
    <3> QED
      BY <2>1, <3>1 DEF Shape
  <2> QED
    BY <2>2, <2>3
<1>3. ASSUME NEW w \in Worker, NEW kind \in {"update", "delete"}, NEW r \in Row,
             NEW c \in Body, Find(w, kind, r, c)
      PROVE  Shape'
  BY <1>3 DEF Shape, Find, tables
<1>4. ASSUME NEW w \in Worker, NEW r \in Row, NotFound(w, r) PROVE Shape'
  BY <1>4, EndShape DEF Shape, NotFound, tables
<1>5. ASSUME NEW w \in Worker, Write(w) PROVE Shape'
  <2>1. Reach(w) \subseteq Row
    BY <1>5 DEF Asked, Knows, Reach, RecordsOf, Row, Write
  <2> QED
    BY <1>5, <2>1 DEF Shape, Write, tables
<1>6. ASSUME NEW w \in Worker, Duplicate(w) PROVE Shape'
  BY <1>6, EndShape DEF Shape, Duplicate, tables
<1>7. ASSUME NEW w \in Worker, Log(w) PROVE Shape'
  BY <1>7 DEF Shape, Log, tables
<1>8. ASSUME NEW w \in Worker, Commit(w) PROVE Shape'
  <2>1. audit' \in Seq(Events)
    BY <1>8, EventTyped, AuditGrows DEF Commit
  <2>2. state' \in [Row -> {"none", "live", "soft", "gone"}]
    BY <1>8 DEF Shape, Commit, Removed
  <2>3. /\ DOMAIN content' = Row
        /\ \A s \in Row : content'[s] = IF s \in hit[w] THEN Overlay(changes[w], content[s])
                                        ELSE content[s]
    BY <1>8 DEF Commit
  <2>4. changes[w] \in Body
    BY DEF Shape
  <2>5. \A s \in Row : \A f \in DOMAIN content'[s] : content'[s][f] \in Kept(f)
    BY <2>3, <2>4, OverlayTyped DEF Shape
  <2>6. applied' \subseteq Worker
    BY <1>8 DEF Shape, Commit
  <2>7. CASE op[w] = "update"
    BY <1>8, <2>1, <2>2, <2>3, <2>5, <2>6, <2>7 DEF Shape, Commit
  <2>8. CASE op[w] # "update"
    <3>1. PICK code \in {"200", "201"} : End(w, code)
      BY <1>8, <2>8 DEF Commit
    <3> QED
      BY <2>1, <2>2, <2>3, <2>5, <2>6, <3>1, EndShape DEF Shape
  <2> QED
    BY <2>7, <2>8
<1>9. ASSUME NEW w \in Worker, Refetch(w) PROVE Shape'
  BY <1>9, EndShape DEF Shape, Refetch, tables
<1>10. ASSUME NEW w \in Worker, Fail(w) PROVE Shape'
  BY <1>10, EndShape DEF Shape, Fail, tables
<1>11. CASE Crash
  BY <1>11, Bodies DEF Shape, Crash, tables
<1>12. CASE UNCHANGED vars
  BY <1>12 DEF Shape, vars
<1>13. \A r \in Row : \A c \in Updates[r] : c \in Body
  BY Bodies
<1>14. NoChange \in Body
  BY Bodies
<1> QED
  BY <1>1, <1>2, <1>3, <1>4, <1>5, <1>6, <1>7, <1>8, <1>9, <1>10, <1>11, <1>12, <1>13, <1>14 DEF Next

-----------------------------------------------------------------------------
\* What a COMMIT does to the rows.
LEMMA CommitRows ==
    ASSUME Shape, Held, Asked, NEW w \in Worker, Commit(w)
    PROVE  /\ \A r \in Row \ hit[w] : state'[r] = state[r] /\ content'[r] = content[r]
           /\ \A r \in hit[w] :
                 /\ r \in Row /\ op[w] \in {"register", "update", "delete"}
                 /\ content'[r] = Overlay(changes[w], content[r])
                 /\ op[w] = "register" => r = target[w] /\ state[r] = "none" /\ state'[r] = "live"
                 /\ op[w] = "update" =>
                       /\ r = target[w] /\ state[r] = "live"
                       /\ state'[r] = IF Hides(r, changes[w]) THEN "soft" ELSE "live"
                 /\ op[w] = "delete" => \/ state[r] = "live" /\ state'[r] \in {"soft", "gone"}
                                        \/ state[r] = "soft" /\ state'[r] = "gone"
<1>1. /\ \A r \in Row : state'[r] = IF r \notin hit[w] THEN state[r]
                                    ELSE IF op[w] = "delete" THEN Removed(w, r)
                                    ELSE IF Hides(r, changes[w]) THEN "soft" ELSE "live"
      /\ \A r \in Row : content'[r] = IF r \in hit[w] THEN Overlay(changes[w], content[r])
                                      ELSE content[r]
  BY DEF Commit
<1>2. ASSUME NEW r \in hit[w]
      PROVE  r \in Row /\ MayHold(w, r) /\ op[w] \in {"register", "update", "delete"}
  BY DEF Shape, Held, MayHold
<1>3. ASSUME NEW r \in hit[w], op[w] = "delete"
      PROVE  \/ state[r] = "live" /\ Removed(w, r) \in {"soft", "gone"}
             \/ state[r] = "soft" /\ Removed(w, r) = "gone"
  <2>1. CASE r = target[w] /\ state[r] = "live"
    BY <2>1 DEF Removed
  <2>2. CASE target[w] \in User /\ r \in RecordsOf(target[w])
    <3>1. r # target[w] /\ state[r] \in {"live", "soft"}
      BY <2>2, DisjointAssumption DEF RecordsOf
    <3> QED
      BY <3>1 DEF Removed
  <2> QED
    BY <1>2, <1>3, <2>1, <2>2 DEF MayHold
<1>4. ASSUME NEW r \in hit[w]
      PROVE  /\ content'[r] = Overlay(changes[w], content[r])
             /\ state'[r] = IF op[w] = "delete" THEN Removed(w, r)
                            ELSE IF Hides(r, changes[w]) THEN "soft" ELSE "live"
  BY <1>1, <1>2
<1>5. ASSUME NEW r \in hit[w], op[w] = "register" PROVE ~Hides(r, changes[w])
  <2>1. r = target[w] /\ target[w] \in User
    BY <1>2, <1>5 DEF MayHold, Commit, Asked, Knows
  <2> QED
    BY <2>1, DisjointAssumption DEF Hides
<1>6. ASSUME NEW r \in hit[w]
      PROVE  /\ op[w] = "register" => r = target[w] /\ state[r] = "none" /\ state'[r] = "live"
             /\ op[w] = "update" =>
                   /\ r = target[w] /\ state[r] = "live"
                   /\ state'[r] = IF Hides(r, changes[w]) THEN "soft" ELSE "live"
             /\ op[w] = "delete" => \/ state[r] = "live" /\ state'[r] \in {"soft", "gone"}
                                    \/ state[r] = "soft" /\ state'[r] = "gone"
  BY <1>2, <1>3, <1>4, <1>5 DEF MayHold
<1>7. \A r \in Row \ hit[w] : state'[r] = state[r] /\ content'[r] = content[r]
  BY <1>1
<1> QED
  BY <1>2, <1>4, <1>6, <1>7

\* Rows live once: the only ways of a row's state.
Moves(r) ==
    \/ state'[r] = state[r]
    \/ state[r] = "none" /\ state'[r] = "live"
    \/ state[r] = "live" /\ state'[r] \in {"soft", "gone"}
    \/ state[r] = "soft" /\ state'[r] = "gone"

\* Every step takes every row one of these ways: nothing is revived.
LEMMA RowsMove ==
    ASSUME Shape, Held, Asked, [Next]_vars
    PROVE  \A r \in Row : Moves(r)
<1>1. ASSUME NEW r \in Record, NEW c \in Inserts[r], CreateRecord(r, c)
      PROVE  \A s \in Row : Moves(s)
  BY <1>1 DEF Shape, CreateRecord, Moves
<1>2. ASSUME NEW w \in Worker, Commit(w) PROVE \A s \in Row : Moves(s)
  <2> SUFFICES ASSUME NEW s \in Row PROVE Moves(s)
    OBVIOUS
  <2>1. CASE s \in hit[w]
    BY <1>2, <2>1, CommitRows DEF Moves
  <2>2. CASE s \notin hit[w]
    BY <1>2, <2>2, CommitRows DEF Moves
  <2> QED
    BY <2>1, <2>2
<1>3. CASE UNCHANGED state
  BY <1>3 DEF Moves
<1> QED
  BY <1>1, <1>2, <1>3
     DEF Next, Count, Find, NotFound, Write, Duplicate, Log, Refetch, Fail, Crash, tables, vars

-----------------------------------------------------------------------------
\* Locks.

\* A request that holds nothing afterwards, and touches no row.
LEMMA HeldElsewhere ==
    ASSUME Held, NEW w \in Worker, UNCHANGED tables, hit'[w] = {},
           \A q \in Worker \ {w} :
              pc'[q] = pc[q] /\ op'[q] = op[q] /\ target'[q] = target[q] /\ hit'[q] = hit[q]
    PROVE  Held'
<1>1. \A q \in Worker \ {w} : \A r \in hit[q] : MayHold(q, r)'
  BY DEF Held, MayHold, RecordsOf, tables
<1> QED
  BY <1>1 DEF Held

\* The ways a request ends, on the handlers.
LEMMA EndEffect ==
    ASSUME Shape, NEW w \in Worker, NEW code, End(w, code)
    PROVE  /\ \A q \in Worker \ {w} :
                 /\ pc'[q] = pc[q] /\ op'[q] = op[q] /\ target'[q] = target[q]
                 /\ changes'[q] = changes[q] /\ hit'[q] = hit[q] /\ reply'[q] = reply[q]
           /\ pc'[w] = "idle" /\ op'[w] = "none" /\ target'[w] = NoRow
           /\ changes'[w] = NoChange /\ hit'[w] = {} /\ reply'[w] = code
BY DEF Shape, End

\* A request begins: what it asks for, and nothing else.
Begins(w, kind, r, c) ==
    /\ \A q \in Worker \ {w} :
          /\ pc'[q] = pc[q] /\ op'[q] = op[q] /\ target'[q] = target[q]
          /\ changes'[q] = changes[q] /\ reply'[q] = reply[q]
    /\ pc[w] = "idle" /\ pc'[w] = "write" /\ op'[w] = kind /\ target'[w] = r
    /\ changes'[w] = c /\ reply'[w] = "none"
    /\ hit' = hit /\ applied' = applied \ {w}
    /\ UNCHANGED tables

\* The first SELECT of an update or a deletion, on the handlers.
LEMMA FindEffect ==
    ASSUME Shape, NEW w \in Worker, NEW kind, NEW r \in Row, NEW c, Find(w, kind, r, c)
    PROVE  Begins(w, kind, r, c) /\ state[r] = "live"
BY DEF Shape, Find, Live, Begins

\* The count of a registration, on the handlers.
LEMMA CountEffect ==
    ASSUME Shape, NEW w \in Worker, NEW u \in User, NEW c \in Inserts[u], Count(w, u, c)
    PROVE  /\ \/ End(w, "409") /\ applied' = applied \ {w} /\ UNCHANGED tables
              \/ Begins(w, "register", u, c)
           /\ state[u] = "none" /\ \A q \in Worker : target[q] # u
<1>1. CASE \E v \in User : Live(v) /\ content[v].email = c.email
  BY <1>1 DEF Count
<1>2. CASE ~(\E v \in User : Live(v) /\ content[v].email = c.email)
  BY <1>2 DEF Shape, Count, Begins
<1> QED
  BY <1>1, <1>2 DEF Count

\* UPDATE, DELETE and INSERT, on the handlers.
LEMMA WriteEffect ==
    ASSUME Shape, Asked, NEW w \in Worker, Write(w)
    PROVE  /\ \A q \in Worker \ {w} : pc'[q] = pc[q] /\ hit'[q] = hit[q]
           /\ pc[w] = "write" /\ pc'[w] = "log"
           /\ UNCHANGED <<tables, op, target, changes, applied, reply>>
           /\ target[w] \in Row /\ op[w] \in {"register", "update", "delete"}
           /\ \/ hit'[w] = {} /\ op[w] # "register" /\ state[target[w]] # "live"
              \/ /\ hit'[w] = Reach(w) /\ IndexAdmits(w) /\ OwnerAdmits(w)
                 /\ op[w] = "register" \/ state[target[w]] = "live"
                 /\ \A q \in Worker \ {w} : hit[q] \cap Reach(w) = {}
<1>1. /\ hit' = [hit EXCEPT ![w] = IF Matched(w) THEN Reach(w) ELSE {}]
      /\ pc[w] = "write" /\ pc' = [pc EXCEPT ![w] = "log"]
      /\ ~HeldByOther(w, Reach(w))
      /\ Matched(w) => Admitted(w)
      /\ UNCHANGED <<tables, op, target, changes, applied, reply>>
  BY DEF Write
<1>2. target[w] \in Row /\ op[w] \in {"register", "update", "delete"}
  BY <1>1 DEF Shape, Asked, Knows
<1>3. \A q \in Worker \ {w} : hit[q] \cap Reach(w) = {}
  BY <1>1 DEF HeldByOther
<1>4. /\ \A q \in Worker \ {w} : pc'[q] = pc[q] /\ hit'[q] = hit[q]
      /\ pc'[w] = "log"
      /\ hit'[w] = IF Matched(w) THEN Reach(w) ELSE {}
  BY <1>1 DEF Shape
<1> QED
  BY <1>1, <1>2, <1>3, <1>4 DEF Live, Matched, Admitted

\* Every step keeps the locks where they may be.
LEMMA HeldStep ==
    ASSUME Shape, Held, Asked, [Next]_vars
    PROVE  Held'
<1>0. \A w \in Worker : pc[w] \notin {"log", "commit"} => hit[w] = {}
  BY DEF Held
<1>1. ASSUME NEW r \in Record, NEW c \in Inserts[r], CreateRecord(r, c) PROVE Held'
  <2>1. /\ state[r] = "none" /\ UNCHANGED work
        /\ \A s \in Row : s # r => state'[s] = state[s] /\ content'[s] = content[s]
    BY <1>1 DEF Shape, CreateRecord
  <2>2. ASSUME NEW w \in Worker, NEW s \in hit[w] PROVE s # r /\ s \in Row
    <3>1. MayHold(w, s) /\ pc[w] # "idle"
      BY DEF Held
    <3>2. op[w] = "register" => target[w] \in User
      BY <3>1 DEF Asked, Knows
    <3> QED
      BY <2>1, <3>1, <3>2, DisjointAssumption DEF Shape, MayHold, RecordsOf
  <2>3. ASSUME NEW w \in Worker, NEW s \in hit[w] PROVE MayHold(w, s)'
    <3>1. MayHold(w, s) /\ state'[s] = state[s] /\ content'[s] = content[s]
      BY <2>1, <2>2 DEF Held
    <3> QED
      BY <2>1, <3>1 DEF MayHold, RecordsOf, work
  <2> QED
    BY <2>1, <2>3 DEF Held, work
<1>2. ASSUME NEW w \in Worker, NEW u \in User, NEW c \in Inserts[u], Count(w, u, c) PROVE Held'
  <2>1. CASE End(w, "409") /\ UNCHANGED tables
    BY <2>1, EndEffect, HeldElsewhere
  <2>2. CASE Begins(w, "register", u, c)
    BY <1>0, <2>2, HeldElsewhere DEF Begins
  <2> QED
    BY <1>2, <2>1, <2>2, CountEffect
<1>3. ASSUME NEW w \in Worker, NEW kind, NEW r \in Row, NEW c, Find(w, kind, r, c) PROVE Held'
  <2>1. Begins(w, kind, r, c)
    BY <1>3, FindEffect
  <2> QED
    BY <1>0, <2>1, HeldElsewhere DEF Begins
<1>4. ASSUME NEW w \in Worker, NEW code, End(w, code), UNCHANGED tables PROVE Held'
  BY <1>4, EndEffect, HeldElsewhere
<1>5. ASSUME NEW w \in Worker, Write(w) PROVE Held'
  <2>1. ASSUME NEW s \in hit'[w] PROVE MayHold(w, s)'
    <3>1. /\ s \in Reach(w) /\ op[w] \in {"register", "update", "delete"}
          /\ op[w] = "register" \/ state[target[w]] = "live"
      BY <1>5, <2>1, WriteEffect
    <3>2. op[w] = "register" => state[target[w]] = "none"
      BY <1>5, WriteEffect DEF Asked, Knows
    <3>3. MayHold(w, s)
      BY <3>1, <3>2 DEF Reach, MayHold
    <3> QED
      BY <1>5, <3>3, WriteEffect DEF MayHold, RecordsOf, tables
  <2>2. ASSUME NEW q \in Worker \ {w}, NEW s \in hit[q] PROVE MayHold(q, s)'
    BY <1>5, WriteEffect DEF Held, MayHold, RecordsOf, tables
  <2>3. \A q \in Worker \ {w} : hit'[w] \cap hit'[q] = {}
    BY <1>5, WriteEffect
  <2> QED
    BY <1>5, <2>1, <2>2, <2>3, WriteEffect DEF Held
<1>6. ASSUME NEW w \in Worker, Log(w) PROVE Held'
  <2>1. /\ \A q \in Worker \ {w} : pc'[q] = pc[q]
        /\ pc[w] = "log" /\ pc'[w] = "commit"
        /\ UNCHANGED <<tables, op, target, hit>>
    BY <1>6 DEF Shape, Log
  <2> QED
    BY <2>1 DEF Held, MayHold, RecordsOf, tables
<1>7. ASSUME NEW w \in Worker, Commit(w) PROVE Held'
  <2>1. /\ hit'[w] = {}
        /\ \A q \in Worker \ {w} :
              pc'[q] = pc[q] /\ op'[q] = op[q] /\ target'[q] = target[q] /\ hit'[q] = hit[q]
    <3>1. CASE op[w] = "update"
      BY <1>7, <3>1 DEF Shape, Commit
    <3>2. CASE op[w] # "update"
      BY <1>7, <3>2, EndEffect DEF Commit
    <3> QED
      BY <3>1, <3>2
  <2>2. ASSUME NEW q \in Worker \ {w}, NEW s \in hit[q] PROVE MayHold(q, s)'
    <3>1. s \in Row \ hit[w] /\ MayHold(q, s)
      BY DEF Shape, Held
    <3>2. state'[s] = state[s] /\ content'[s] = content[s]
      BY <1>7, <3>1, CommitRows
    <3> QED
      BY <2>1, <3>1, <3>2 DEF MayHold, RecordsOf
  <2> QED
    BY <2>1, <2>2 DEF Held
<1>8. CASE Crash
  BY <1>8 DEF Crash, Held
<1>9. CASE UNCHANGED vars
  BY <1>9 DEF vars, Held, MayHold, RecordsOf
<1> QED
  BY <1>1, <1>2, <1>3, <1>4, <1>5, <1>6, <1>7, <1>8, <1>9
     DEF Next, NotFound, Duplicate, Refetch, Fail

-----------------------------------------------------------------------------
\* Requests.

\* Another request's COMMIT does not make the user of a registration.
LEMMA RegistrationPending ==
    ASSUME Shape, Held, Asked, NEW w \in Worker, Commit(w),
           NEW q \in Worker \ {w}, pc[q] # "idle", op[q] = "register"
    PROVE  state'[target[q]] = "none"
<1>1. /\ target[q] \in User /\ target[q] \in Row /\ state[target[q]] = "none"
      /\ target[w] # target[q]
  BY DEF Asked, Knows, Row
<1>2. target[q] \notin hit[w]
  BY <1>1, CommitRows DEF Shape
<1> QED
  BY <1>1, <1>2, CommitRows

\* A request that took no step still knows what it knew.
LEMMA KnowsElsewhere ==
    ASSUME Shape, Held, Asked, [Next]_vars, NEW q \in Worker, pc[q] # "idle",
           pc'[q] = pc[q], op'[q] = op[q], target'[q] = target[q], changes'[q] = changes[q],
           reply'[q] = reply[q], hit'[q] = hit[q], q \in applied' <=> q \in applied,
           op[q] = "register" => state'[target[q]] = "none"
    PROVE  Knows(q)'
<1>1. Knows(q)
  BY DEF Asked
<1>2. Moves(target[q])
  BY <1>1, RowsMove DEF Knows
<1>3. Missed(q)' <=> Missed(q)
  BY DEF Missed
<1> QED
  BY <1>1, <1>2, <1>3 DEF Knows, Moves

\* A request that ends, and touches no row.
LEMMA AskedEnd ==
    ASSUME Shape, Held, Asked, [Next]_vars, NEW w \in Worker, NEW code, End(w, code),
           UNCHANGED tables, \A q \in Worker \ {w} : q \in applied' <=> q \in applied
    PROVE  Asked'
<1>1. ASSUME NEW q \in Worker, pc'[q] # "idle"
      PROVE  /\ Knows(q)'
             /\ op'[q] = "register" => \A p \in Worker \ {q} : target'[p] # target'[q]
  <2>1. q # w
    BY <1>1, EndEffect
  <2>2. pc[q] # "idle"
    BY <1>1, <2>1, EndEffect
  <2>3. state' = state
    BY DEF tables
  <2>4. Knows(q) /\ (op[q] = "register" => \A p \in Worker \ {q} : target[p] # target[q])
    BY <2>2 DEF Asked
  <2>5. op[q] = "register" => state'[target[q]] = "none"
    BY <2>3, <2>4 DEF Knows
  <2>6. Knows(q)'
    BY <2>1, <2>2, <2>5, EndEffect, KnowsElsewhere
  <2>7. ASSUME NEW p \in Worker \ {q}, op[q] = "register" PROVE target'[p] # target'[q]
    BY <2>1, <2>4, <2>7, EndEffect, NoRowAssumption DEF Knows
  <2> QED
    BY <2>1, <2>6, <2>7, EndEffect
<1> QED
  BY <1>1 DEF Asked

\* A request that begins.
LEMMA AskedBegin ==
    ASSUME Shape, Held, Asked, [Next]_vars, NEW w \in Worker, NEW kind, NEW r \in Row, NEW c,
           Begins(w, kind, r, c), Knows(w)',
           \A q \in Worker : pc[q] # "idle" /\ op[q] = "register" => target[q] # r,
           kind = "register" => \A q \in Worker : target[q] # r
    PROVE  Asked'
<1>1. ASSUME NEW q \in Worker \ {w}, pc'[q] # "idle"
      PROVE  /\ Knows(q)'
             /\ op'[q] = "register" => \A p \in Worker \ {q} : target'[p] # target'[q]
  <2>1. /\ pc[q] # "idle" /\ state' = state
        /\ pc'[q] = pc[q] /\ op'[q] = op[q] /\ target'[q] = target[q]
        /\ changes'[q] = changes[q] /\ reply'[q] = reply[q] /\ hit'[q] = hit[q]
        /\ q \in applied' <=> q \in applied
    BY <1>1 DEF Begins, tables
  <2>2. Knows(q) /\ (op[q] = "register" => \A p \in Worker \ {q} : target[p] # target[q])
    BY <2>1 DEF Asked
  <2>3. op[q] = "register" => state'[target[q]] = "none"
    BY <2>1, <2>2 DEF Knows
  <2>4. Knows(q)'
    BY <2>1, <2>3, KnowsElsewhere
  <2>5. ASSUME NEW p \in Worker \ {q}, op[q] = "register" PROVE target'[p] # target'[q]
    BY <2>1, <2>2, <2>5 DEF Begins
  <2> QED
    BY <2>1, <2>4, <2>5
<1>2. op'[w] = "register" => \A p \in Worker \ {w} : target'[p] # target'[w]
  BY DEF Begins
<1> QED
  BY <1>1, <1>2 DEF Asked

\* Every step keeps true what the requests know.
LEMMA AskedStep ==
    ASSUME Shape, Held, Asked, [Next]_vars
    PROVE  Asked'
<1>1. ASSUME NEW r \in Record, NEW c \in Inserts[r], CreateRecord(r, c) PROVE Asked'
  <2>1. UNCHANGED work /\ \A s \in Row : s # r => state'[s] = state[s]
    BY <1>1 DEF Shape, CreateRecord
  <2>2. ASSUME NEW q \in Worker, pc[q] # "idle" PROVE Knows(q)'
    <3>1. op[q] = "register" => target[q] \in Row /\ target[q] # r /\ state[target[q]] = "none"
      BY <2>2, DisjointAssumption DEF Asked, Knows
    <3> QED
      BY <2>1, <2>2, <3>1, KnowsElsewhere DEF work
  <2> QED
    BY <2>1, <2>2 DEF Asked, work
<1>2. ASSUME NEW w \in Worker, NEW u \in User, NEW c \in Inserts[u], Count(w, u, c) PROVE Asked'
  <2>1. CASE End(w, "409") /\ applied' = applied \ {w} /\ UNCHANGED tables
    BY <2>1, AskedEnd
  <2>2. CASE Begins(w, "register", u, c)
    <3>1. u \in Row /\ state[u] = "none" /\ \A q \in Worker : target[q] # u
      BY <1>2, CountEffect DEF Row
    <3>2. Knows(w)'
      BY <2>2, <3>1, UserAssumption DEF Begins, Knows, tables
    <3> QED
      BY <2>2, <3>1, <3>2, AskedBegin
  <2> QED
    BY <1>2, <2>1, <2>2, CountEffect
<1>3. ASSUME NEW w \in Worker, NEW kind \in {"update", "delete"}, NEW r \in Row, NEW c,
             Find(w, kind, r, c)
      PROVE  Asked'
  <2>1. Begins(w, kind, r, c) /\ state[r] = "live"
    BY <1>3, FindEffect
  <2>2. Knows(w)'
    BY <2>1 DEF Begins, Knows, Missed, tables
  <2>3. \A q \in Worker : pc[q] # "idle" /\ op[q] = "register" => target[q] # r
    BY <2>1 DEF Asked, Knows
  <2> QED
    BY <2>1, <2>2, <2>3, AskedBegin
<1>4. ASSUME NEW w \in Worker, NEW code, End(w, code), UNCHANGED tables,
             \A q \in Worker \ {w} : q \in applied' <=> q \in applied
      PROVE  Asked'
  BY <1>4, AskedEnd
<1>5. ASSUME NEW w \in Worker, Write(w) PROVE Asked'
  <2>1. ASSUME NEW q \in Worker \ {w}, pc[q] # "idle" PROVE Knows(q)'
    <3>1. state' = state
      BY <1>5, WriteEffect DEF tables
    <3>2. op[q] = "register" => state'[target[q]] = "none"
      BY <2>1, <3>1 DEF Asked, Knows
    <3>3. pc'[q] = pc[q] /\ hit'[q] = hit[q] /\ UNCHANGED <<op, target, changes, applied, reply>>
      BY <1>5, WriteEffect
    <3> QED
      BY <2>1, <3>2, <3>3, KnowsElsewhere
  <2>2. Knows(w)'
    <3>1. Knows(w)
      BY <1>5, WriteEffect DEF Asked
    <3>2. Missed(w)' /\ op[w] # "register" => state[target[w]] \in {"soft", "gone"}
      <4>1. target[w] \in Reach(w)
        BY DEF Reach
      <4>2. Missed(w)' => hit'[w] = {}
        BY <1>5, WriteEffect DEF Missed
      <4> QED
        BY <1>5, <3>1, <4>1, <4>2, WriteEffect DEF Shape, Knows
    <3> QED
      BY <1>5, <3>1, <3>2, WriteEffect DEF Knows, tables
  <2> QED
    BY <1>5, <2>1, <2>2, WriteEffect DEF Asked
<1>6. ASSUME NEW w \in Worker, Log(w) PROVE Asked'
  <2>1. /\ \A q \in Worker \ {w} : pc'[q] = pc[q]
        /\ pc[w] = "log" /\ pc'[w] = "commit"
        /\ UNCHANGED <<tables, op, target, changes, hit, applied, reply>>
    BY <1>6 DEF Shape, Log
  <2> QED
    BY <2>1 DEF Asked, Knows, Missed, tables
<1>7. ASSUME NEW w \in Worker, Commit(w) PROVE Asked'
  <2>1. pc[w] = "commit" /\ Knows(w)
    BY <1>7 DEF Commit, Asked
  <2>2. \A q \in Worker \ {w} : q \in applied' <=> q \in applied
    BY <1>7 DEF Commit
  <2>3. CASE op[w] = "update"
    <3>1. /\ \A q \in Worker \ {w} : pc'[q] = pc[q] /\ hit'[q] = hit[q]
          /\ pc'[w] = "refetch" /\ UNCHANGED <<op, target, changes, reply>>
          /\ hit[w] # {} => w \in applied'
      BY <1>7, <2>3 DEF Shape, Commit
    <3>2. ASSUME NEW q \in Worker \ {w}, pc[q] # "idle" PROVE Knows(q)'
      <4>1. op[q] = "register" => state'[target[q]] = "none"
        BY <1>7, <3>2, RegistrationPending
      <4> QED
        BY <2>2, <3>1, <3>2, <4>1, KnowsElsewhere
    <3>3. Knows(w)'
      <4>1. Moves(target[w])
        BY <2>1, RowsMove DEF Knows
      <4>2. Missed(w)' => Missed(w)
        BY <2>1, <3>1 DEF Missed
      <4> QED
        BY <2>1, <2>3, <3>1, <4>1, <4>2 DEF Knows, Moves
    <3> QED
      BY <2>1, <3>1, <3>2, <3>3 DEF Asked
  <2>4. CASE op[w] # "update"
    <3>1. PICK code : End(w, code)
      BY <1>7, <2>4 DEF Commit
    <3>2. ASSUME NEW q \in Worker, pc'[q] # "idle"
          PROVE  /\ Knows(q)'
                 /\ op'[q] = "register" => \A p \in Worker \ {q} : target'[p] # target'[q]
      <4>1. q # w /\ pc[q] # "idle"
        BY <3>1, <3>2, EndEffect
      <4>2. Knows(q) /\ (op[q] = "register" => \A p \in Worker \ {q} : target[p] # target[q])
        BY <4>1 DEF Asked
      <4>3. op[q] = "register" => state'[target[q]] = "none"
        BY <1>7, <4>1, RegistrationPending
      <4>4. Knows(q)'
        BY <2>2, <3>1, <4>1, <4>3, EndEffect, KnowsElsewhere
      <4>5. ASSUME NEW p \in Worker \ {q}, op[q] = "register" PROVE target'[p] # target'[q]
        BY <3>1, <4>1, <4>2, <4>5, EndEffect, NoRowAssumption DEF Knows
      <4> QED
        BY <3>1, <4>1, <4>4, <4>5, EndEffect
    <3> QED
      BY <3>2 DEF Asked
  <2> QED
    BY <2>3, <2>4
<1>8. CASE Crash
  BY <1>8 DEF Crash, Asked
<1>9. CASE UNCHANGED vars
  BY <1>9 DEF vars, Asked, Knows, Missed
<1> QED
  BY <1>1, <1>2, <1>3, <1>4, <1>5, <1>6, <1>7, <1>8, <1>9
     DEF Next, NotFound, Duplicate, Refetch, Fail

-----------------------------------------------------------------------------
\* Addresses.

\* Every step leaves every user with an address.
LEMMA AddressedStep ==
    ASSUME Shape, Held, Asked, Addressed, [Next]_vars
    PROVE  Addressed'
<1>1. ASSUME NEW r \in Record, NEW c \in Inserts[r], CreateRecord(r, c) PROVE Addressed'
  <2>1. \A u \in User : u \in Row /\ u # r
    BY DisjointAssumption DEF Row
  <2>2. \A u \in User : state'[u] = state[u] /\ content'[u] = content[u]
    BY <1>1, <2>1 DEF Shape, CreateRecord
  <2> QED
    BY <2>2 DEF Addressed
<1>2. ASSUME NEW w \in Worker, Commit(w) PROVE Addressed'
  <2> SUFFICES ASSUME NEW u \in User, state'[u] = "live" PROVE "email" \in DOMAIN content'[u]
    BY DEF Addressed
  <2>1. u \in Row
    BY DEF Row
  <2>2. CASE u \notin hit[w]
    BY <1>2, <2>1, <2>2, CommitRows DEF Addressed
  <2>3. CASE u \in hit[w]
    <3>1. content'[u] = Overlay(changes[w], content[u])
      BY <1>2, <2>3, CommitRows
    <3>2. DOMAIN content'[u] = DOMAIN changes[w] \cup DOMAIN content[u]
      BY <3>1 DEF Overlay
    <3>3. op[w] = "register" \/ state[u] = "live"
      BY <1>2, <2>3, CommitRows
    <3>4. op[w] = "register" => "email" \in DOMAIN changes[w]
      BY <1>2 DEF Commit, Asked, Knows
    <3> QED
      BY <3>2, <3>3, <3>4 DEF Addressed
  <2> QED
    BY <2>2, <2>3
<1>3. CASE UNCHANGED <<state, content>>
  BY <1>3 DEF Addressed
<1> QED
  BY <1>1, <1>2, <1>3
     DEF Next, Count, Find, NotFound, Write, Duplicate, Log, Refetch, Fail, Crash, tables, vars

\* Two requests that give an address to a user, the same one.
Conflict(w, q) ==
    /\ target[w] \in User /\ target[q] \in User
    /\ "email" \in DOMAIN changes[w] /\ "email" \in DOMAIN changes[q]
    /\ changes[w].email = changes[q].email

\* What the index admits, without its helpers.
LEMMA IndexMeaning ==
    ASSUME NEW w \in Worker
    PROVE  IndexAdmits(w) <=> /\ Owners(w) = {}
                              /\ \A q \in Worker \ {w} : hit[q] # {} => ~Conflict(w, q)
<1>1. Owners(w) = {} => ~HeldByOther(w, Owners(w))
  BY DEF HeldByOther
<1> QED
  BY <1>1 DEF IndexAdmits, AddressPending, Conflict

\* The same one step later.
LEMMA IndexMeaningNext ==
    ASSUME NEW w \in Worker
    PROVE  IndexAdmits(w)' <=> /\ Owners(w)' = {}
                               /\ \A q \in Worker \ {w} : hit'[q] # {} => ~Conflict(w, q)'
<1>1. Owners(w)' = {} => ~HeldByOther(w, Owners(w))'
  BY DEF HeldByOther
<1> QED
  BY <1>1 DEF IndexAdmits, AddressPending, Conflict

\* One user per address, and every open transaction admitted by the index.
LEMMA UniqueMeaning ==
    ASSUME AddressUnique
    PROVE  /\ \A u, v \in User : state[u] = "live" /\ state[v] = "live"
                 /\ content[u].email = content[v].email => u = v
           /\ \A w \in Worker : hit[w] # {} =>
                 /\ Owners(w) = {}
                 /\ \A q \in Worker \ {w} : hit[q] # {} => ~Conflict(w, q)
BY IndexMeaning DEF AddressUnique, Live

\* A step that changes no table and gives no request a lock.
LEMMA UniqueElsewhere ==
    ASSUME AddressUnique, UNCHANGED tables,
           \A w \in Worker : hit'[w] # {} =>
              hit[w] # {} /\ target'[w] = target[w] /\ changes'[w] = changes[w]
    PROVE  AddressUnique'
<1>1. ASSUME NEW w \in Worker, hit'[w] # {} PROVE IndexAdmits(w)'
  <2>1. Owners(w)' = Owners(w)
    BY <1>1 DEF Owners, Live, tables
  <2>2. \A q \in Worker \ {w} : hit'[q] # {} => (Conflict(w, q)' <=> Conflict(w, q))
    BY <1>1 DEF Conflict
  <2> QED
    BY <1>1, <2>1, <2>2, UniqueMeaning, IndexMeaningNext
<1> QED
  BY <1>1 DEF AddressUnique, Live, tables

\* A request that ends, or begins, has no lock afterwards.
LEMMA UniqueEnd ==
    ASSUME Shape, AddressUnique, UNCHANGED tables, NEW w \in Worker, NEW code, End(w, code)
    PROVE  AddressUnique'
<1>1. \A q \in Worker : hit'[q] # {} =>
         hit[q] # {} /\ target'[q] = target[q] /\ changes'[q] = changes[q]
  BY EndEffect
<1> QED
  BY <1>1, UniqueElsewhere

\* A request that begins takes no address.
LEMMA UniqueBegin ==
    ASSUME Held, AddressUnique, NEW w \in Worker, NEW kind, NEW r, NEW c, Begins(w, kind, r, c)
    PROVE  AddressUnique'
<1>1. \A q \in Worker : hit'[q] # {} =>
         hit[q] # {} /\ target'[q] = target[q] /\ changes'[q] = changes[q]
  BY DEF Begins, Held
<1> QED
  BY <1>1, UniqueElsewhere DEF Begins

\* The statement that takes the locks is admitted, and so disturbs no other.
LEMMA UniqueWrite ==
    ASSUME Shape, Held, Asked, AddressUnique, NEW w \in Worker, Write(w)
    PROVE  AddressUnique'
<1>1. /\ UNCHANGED <<tables, target, changes>>
      /\ \A q \in Worker \ {w} : hit'[q] = hit[q]
      /\ hit'[w] # {} => IndexAdmits(w)
  BY WriteEffect
<1>2. /\ \A q \in Worker : Owners(q)' = Owners(q)
      /\ \A q, p \in Worker : Conflict(q, p)' <=> Conflict(q, p)
  BY <1>1 DEF Owners, Conflict, Live, tables
<1>3. ASSUME NEW q \in Worker, hit'[q] # {} PROVE IndexAdmits(q)'
  <2>1. CASE q = w
    BY <1>1, <1>2, <1>3, <2>1, IndexMeaning, IndexMeaningNext
  <2>2. CASE q # w
    <3>1. Owners(q) = {}
      BY <1>1, <1>3, <2>2, UniqueMeaning
    <3>2. ASSUME NEW p \in Worker \ {q}, hit'[p] # {} PROVE ~Conflict(q, p)
      <4>1. CASE p = w
        <5>1. ~Conflict(w, q)
          BY <1>1, <1>3, <2>2, <3>2, <4>1, IndexMeaning
        <5> QED
          BY <4>1, <5>1 DEF Conflict
      <4>2. CASE p # w
        BY <1>1, <1>3, <2>2, <3>2, <4>2, UniqueMeaning
      <4> QED
        BY <4>1, <4>2
    <3> QED
      BY <1>2, <3>1, <3>2, IndexMeaningNext
  <2> QED
    BY <2>1, <2>2
<1> QED
  BY <1>1, <1>3 DEF AddressUnique, Live, tables

\* A COMMIT that gives a user an address gives it one that nobody has, and
\* that no other open transaction is about to give.
LEMMA UniqueCommit ==
    ASSUME Shape, Held, Asked, Addressed, AddressUnique, NEW w \in Worker, Commit(w)
    PROVE  AddressUnique'
<1>1. /\ \A q \in Worker \ {w} : hit'[q] = hit[q] /\ target'[q] = target[q] /\ changes'[q] = changes[q]
      /\ hit'[w] = {} /\ pc[w] = "commit"
  <2>1. CASE op[w] = "update"
    BY <2>1 DEF Shape, Commit
  <2>2. CASE op[w] # "update"
    BY <2>2, EndEffect DEF Commit
  <2> QED
    BY <2>1, <2>2 DEF Commit
<1>2. ASSUME NEW u \in User, state'[u] = "live"
      PROVE  \/ state[u] = "live" /\ content'[u].email = content[u].email
             \/ /\ u = target[w] /\ hit[w] # {} /\ "email" \in DOMAIN changes[w]
                /\ content'[u].email = changes[w].email
  <2>1. u \in Row
    BY DEF Row
  <2>2. CASE u \notin hit[w]
    BY <1>2, <2>1, <2>2, CommitRows
  <2>3. CASE u \in hit[w]
    <3>1. /\ content'[u] = Overlay(changes[w], content[u])
          /\ u = target[w] /\ (op[w] = "register" \/ state[u] = "live")
      BY <1>2, <2>3, CommitRows
    <3>2. CASE "email" \in DOMAIN changes[w]
      BY <2>3, <3>1, <3>2 DEF Overlay, Column
    <3>3. CASE "email" \notin DOMAIN changes[w]
      <4>1. state[u] = "live" /\ "email" \in DOMAIN content[u]
        BY <1>1, <3>1, <3>3 DEF Asked, Knows, Addressed
      <4> QED
        BY <3>1, <3>3, <4>1 DEF Overlay
    <3> QED
      BY <3>2, <3>3
  <2> QED
    BY <2>2, <2>3
<1>3. ASSUME NEW u \in User, NEW v \in User, state'[u] = "live", state'[v] = "live",
             content'[u].email = content'[v].email
      PROVE  u = v
  <2>1. hit[w] # {} => Owners(w) = {}
    BY UniqueMeaning
  <2>2. ASSUME NEW x \in User, NEW y \in User, x = target[w], hit[w] # {},
               "email" \in DOMAIN changes[w], state[y] = "live",
               content[y].email = changes[w].email
        PROVE  y = x
    BY <2>1, <2>2 DEF Owners, Live
  <2> QED
    BY <1>2, <1>3, <2>2, UniqueMeaning
<1>4. ASSUME NEW q \in Worker, hit'[q] # {} PROVE IndexAdmits(q)'
  <2>1. q # w /\ hit[q] # {} /\ target'[q] = target[q] /\ changes'[q] = changes[q]
    BY <1>1, <1>4
  <2>2. Owners(q) = {} /\ \A p \in Worker \ {q} : hit[p] # {} => ~Conflict(q, p)
    BY <2>1, UniqueMeaning
  <2>3. ASSUME NEW u \in Owners(q)' PROVE FALSE
    <3>1. /\ u \in User \ {target[q]} /\ target[q] \in User /\ state'[u] = "live"
          /\ "email" \in DOMAIN changes[q] /\ content'[u].email = changes[q].email
      BY <2>1, <2>3 DEF Owners, Live
    <3>2. CASE state[u] = "live" /\ content'[u].email = content[u].email
      BY <2>2, <3>1, <3>2 DEF Owners, Live
    <3>3. CASE /\ u = target[w] /\ hit[w] # {} /\ "email" \in DOMAIN changes[w]
               /\ content'[u].email = changes[w].email
      BY <2>1, <2>2, <3>1, <3>3 DEF Conflict
    <3> QED
      BY <1>2, <3>1, <3>2, <3>3
  <2>4. ASSUME NEW p \in Worker \ {q}, hit'[p] # {} PROVE ~Conflict(q, p)'
    BY <1>1, <2>1, <2>2, <2>4 DEF Conflict
  <2> QED
    BY <2>3, <2>4, IndexMeaningNext
<1> QED
  BY <1>3, <1>4 DEF AddressUnique, Live

\* Every step keeps the addresses apart.
LEMMA UniqueStep ==
    ASSUME Shape, Held, Asked, Addressed, AddressUnique, [Next]_vars
    PROVE  AddressUnique'
<1>1. ASSUME NEW r \in Record, NEW c \in Inserts[r], CreateRecord(r, c) PROVE AddressUnique'
  <2>1. \A u \in User : u \in Row /\ u # r
    BY DisjointAssumption DEF Row
  <2>2. \A u \in User : state'[u] = state[u] /\ content'[u] = content[u]
    BY <1>1, <2>1 DEF Shape, CreateRecord
  <2>3. UNCHANGED <<target, changes, hit>>
    BY <1>1 DEF CreateRecord, work
  <2>4. /\ \A w \in Worker : Owners(w)' = Owners(w)
        /\ \A w, q \in Worker : Conflict(w, q)' <=> Conflict(w, q)
    BY <2>2, <2>3 DEF Owners, Conflict, Live
  <2>5. \A w \in Worker : hit'[w] # {} => IndexAdmits(w)'
    BY <2>3, <2>4, UniqueMeaning, IndexMeaningNext
  <2> QED
    BY <2>2, <2>5 DEF AddressUnique, Live
<1>2. ASSUME NEW w \in Worker, NEW u \in User, NEW c \in Inserts[u], Count(w, u, c)
      PROVE  AddressUnique'
  BY <1>2, CountEffect, UniqueEnd, UniqueBegin
<1>3. ASSUME NEW w \in Worker, NEW kind, NEW r \in Row, NEW c, Find(w, kind, r, c)
      PROVE  AddressUnique'
  BY <1>3, FindEffect, UniqueBegin
<1>4. ASSUME NEW w \in Worker, NEW code, End(w, code), UNCHANGED tables PROVE AddressUnique'
  BY <1>4, UniqueEnd
<1>5. ASSUME NEW w \in Worker, Log(w) PROVE AddressUnique'
  BY <1>5, UniqueElsewhere DEF Log
<1>6. CASE Crash
  BY <1>6, UniqueElsewhere DEF Crash
<1>7. CASE UNCHANGED vars
  BY <1>7, UniqueElsewhere DEF vars, tables
<1>8. \A w \in Worker : Write(w) \/ Commit(w) => AddressUnique'
  BY UniqueWrite, UniqueCommit
<1> QED
  BY <1>1, <1>2, <1>3, <1>4, <1>5, <1>6, <1>7, <1>8
     DEF Next, NotFound, Duplicate, Refetch, Fail

-----------------------------------------------------------------------------
\* The service starts in the invariant.
LEMMA InitInv == Init => IInv
<1> SUFFICES ASSUME Init PROVE IInv
  OBVIOUS
<1>1. Shape
  BY Bodies DEF Init, Shape, NoChange
<1>2. Held /\ Asked /\ Addressed
  BY DEF Init, Held, Asked, Addressed, Row
<1>3. AddressUnique
  BY DEF Init, AddressUnique, Live, Row
<1> QED
  BY <1>1, <1>2, <1>3 DEF IInv

\* And no step leaves it.
LEMMA StepInv == IInv /\ [Next]_vars => IInv'
BY ShapeStep, HeldStep, AskedStep, AddressedStep, UniqueStep DEF IInv

\* The inductive invariant: types, locks, what requests know, addresses apart.
THEOREM Invariance == Spec => []IInv
<1> QED
  BY InitInv, StepInv, PTL DEF Spec

\* The variables of the records have their types.
THEOREM TypeCorrect == Spec => []TypeOK
<1>1. IInv => TypeOK
  BY ShapeTypes DEF IInv
<1> QED
  BY <1>1, Invariance, PTL

\* An e-mail address belongs to one user at a time, for any number of
\* concurrent registrations and updates.
THEOREM OneUserPerAddress == Spec => []AddressUnique
<1>1. IInv => AddressUnique
  BY DEF IInv
<1> QED
  BY <1>1, Invariance, PTL

\* No interleaving of updates and deletions brings a deleted row back.
THEOREM DeletionIsFinal == Spec => DeletedStaysDeleted
<1> DEFINE Final == \A r \in Row : /\ state[r] = "soft" => state'[r] \in {"soft", "gone"}
                                   /\ state[r] = "gone" => state'[r] = "gone"
<1>1. IInv /\ [Next]_vars => [Final]_vars
  BY RowsMove DEF IInv, Moves
<1> QED
  BY <1>1, Invariance, PTL DEF Spec, DeletedStaysDeleted

-----------------------------------------------------------------------------
\* Answers.

\* A request that is about to read its row again is answered by doing so.
LEMMA AnswersCome ==
    ASSUME Shape, [Next]_vars, NEW w \in Worker,
           pc[w] = "refetch", reply[w] = "none", reply'[w] = "200"
    PROVE  Refetch(w)
<1>1. \A r \in Record : \A c \in Inserts[r] : ~CreateRecord(r, c)
  BY DEF CreateRecord, work
<1>2. ~Crash
  BY DEF Crash
<1>3. ~UNCHANGED vars
  BY DEF vars
<1>4. ASSUME NEW q \in Worker, NEW u \in User, NEW c \in Inserts[u], Count(q, u, c) PROVE FALSE
  <2>1. q # w /\ u \in Row
    BY <1>4 DEF Count, Row
  <2>2. CASE End(q, "409")
    BY <2>1, <2>2, EndEffect
  <2>3. CASE ~End(q, "409")
    <3>1. reply' = [reply EXCEPT ![q] = "none"]
      BY <1>4, <2>3 DEF Count
    <3> QED
      BY <2>1, <3>1 DEF Shape
  <2> QED
    BY <2>2, <2>3
<1>5. ASSUME NEW q \in Worker, NEW kind, NEW r, NEW c, Find(q, kind, r, c) PROVE FALSE
  <2>1. q # w /\ reply' = [reply EXCEPT ![q] = "none"]
    BY <1>5 DEF Find
  <2> QED
    BY <2>1 DEF Shape
<1>6. ASSUME NEW q \in Worker, NEW r, NotFound(q, r) PROVE FALSE
  BY <1>6, EndEffect DEF NotFound
<1>7. ASSUME NEW q \in Worker, Write(q) \/ Log(q) PROVE FALSE
  BY <1>7 DEF Write, Log
<1>8. ASSUME NEW q \in Worker, Duplicate(q) \/ Fail(q) PROVE FALSE
  <2>1. q # w
    BY <1>8 DEF Duplicate, Fail
  <2>2. PICK code : End(q, code)
    BY <1>8 DEF Duplicate, Fail
  <2> QED
    BY <2>1, <2>2, EndEffect
<1>9. ASSUME NEW q \in Worker, Commit(q) PROVE FALSE
  <2>1. q # w
    BY <1>9 DEF Commit
  <2>2. UNCHANGED reply \/ \E code : End(q, code)
    BY <1>9 DEF Commit
  <2> QED
    BY <2>1, <2>2, EndEffect
<1>10. ASSUME NEW q \in Worker, Refetch(q) PROVE Refetch(w)
  <2>1. PICK code : End(q, code)
    BY <1>10 DEF Refetch
  <2>2. CASE q # w
    BY <2>1, <2>2, EndEffect
  <2> QED
    BY <1>10, <2>2
<1> QED
  BY <1>1, <1>2, <1>3, <1>4, <1>5, <1>6, <1>7, <1>8, <1>9, <1>10 DEF Next

\* An update that is answered with 200 changed a row.
THEOREM AnswersAreTrue == Spec => UpdateAnswersTrue
<1> DEFINE Answered == \A w \in Worker : pc[w] = "refetch" /\ reply'[w] = "200" => w \in applied
<1>1. ASSUME IInv, [Next]_vars PROVE Answered
  <2> SUFFICES ASSUME NEW w \in Worker, pc[w] = "refetch", reply'[w] = "200", w \notin applied
               PROVE  FALSE
    OBVIOUS
  <2>1. Knows(w)
    BY <1>1 DEF IInv, Asked
  <2>2. reply[w] = "none" /\ op[w] = "update"
    BY <2>1 DEF Knows
  <2>3. state[target[w]] \in {"soft", "gone"}
    BY <2>1, <2>2 DEF Knows, Missed
  <2>4. Refetch(w)
    BY <1>1, <2>2, AnswersCome DEF IInv
  <2>5. End(w, "500")
    BY <2>3, <2>4 DEF Refetch, Live
  <2> QED
    BY <1>1, <2>5, EndEffect DEF IInv
<1> QED
  BY <1>1, Invariance, PTL DEF Spec, UpdateAnswersTrue

-----------------------------------------------------------------------------
\* The trail as a copy of the tables.

\* A statement that matched its row holds it, and the deletion of a user holds
\* all the user's records; only a registration always matches.
Secured ==
    \A w \in Worker : pc[w] \in {"log", "commit"} =>
        \/ hit[w] = {} /\ op[w] # "register"
        \/ /\ target[w] \in hit[w]
           /\ op[w] = "delete" =>
                 \A r \in Record :
                    state[r] = "live" /\ content[r].user_id = target[w] => r \in hit[w]

\* The user to whom an open update gives its record is there, and no other open
\* transaction deletes it.
Sponsored ==
    \A w \in Worker : hit[w] # {} /\ target[w] \in Record /\ "user_id" \in DOMAIN changes[w] =>
        /\ state[changes[w].user_id] = "live"
        /\ \A q \in Worker \ {w} : op[q] = "delete" => changes[w].user_id \notin hit[q]

\* A record has an owner, and does not outlive it.
HasOwner(r) ==
    /\ "user_id" \in DOMAIN content[r] /\ content[r].user_id \in User
    /\ state[content[r].user_id] = "live"
Owned == \A r \in Record : state[r] = "live" => HasOwner(r)

\* The trail tells the end of a row.
Erased(r) == \E i \in DOMAIN audit : Removes(i, r)

\* What the trail says of a row's life, by the state the row is in.
Told ==
    \A r \in Row :
        /\ state[r] = "none" => \A i \in DOMAIN audit : audit[i].row # r
        /\ state[r] # "none" => Recorded(r, "create")
        /\ state[r] = "live" => ~Erased(r)
        /\ state[r] \in {"soft", "gone"} => Erased(r)

\* And of its columns.
Replayed ==
    \A r \in Row : state[r] = "live" => \A f \in DOMAIN content[r] :
        IF Settings(r, f) = {} THEN r \in User /\ f # "role"
        ELSE content[r][f] = Column(f, LastSetting(r, f))

\* What the trail says of the rows, at every statement of every request.
Trail == Secured /\ Sponsored /\ Owned /\ Told /\ Replayed

\* The index that LastSetting chooses is there: a set of indices has a largest.
LEMMA Latest ==
    ASSUME NEW n \in Nat, NEW T, T \subseteq 1 .. n, T # {}
    PROVE  /\ (CHOOSE i \in T : \A j \in T : j <= i) \in T
           /\ \A j \in T : j <= (CHOOSE i \in T : \A k \in T : k <= i)
<1> DEFINE U == {n - a : a \in T}
<1>1. \A a \in T : a \in Int /\ n - a \in Nat
  OBVIOUS
<1>2. U \subseteq Nat /\ U # {}
  BY <1>1
<1> HIDE DEF U
<1>3. PICK m \in U : \A k \in U : ~(<<k, m>> \in OpToRel(<, Nat))
  BY <1>2, NatLessThanWellFounded, WFMin
<1>4. \A k \in U : ~(k < m)
  BY <1>2, <1>3 DEF OpToRel
<1>5. PICK a \in T : m = n - a
  BY DEF U
<1>6. ASSUME NEW b \in T PROVE b <= a
  <2>1. n - b \in U
    BY DEF U
  <2> QED
    BY <1>1, <1>4, <1>5, <2>1
<1>7. \E i \in T : \A j \in T : j <= i
  BY <1>6
<1> QED
  BY <1>7

\* The value of a column's last event.
LEMMA LastMeaning ==
    ASSUME Shape, NEW r, NEW f, Settings(r, f) # {}
    PROVE  \E i \in Settings(r, f) : /\ \A j \in Settings(r, f) : j <= i
                                     /\ LastSetting(r, f) = audit[i].changes[f]
<1> DEFINE T == Settings(r, f)
           i == CHOOSE i \in T : \A j \in T : j <= i
<1>1. T \subseteq 1 .. Len(audit) /\ Len(audit) \in Nat
  BY DEF Shape, Settings
<1>2. i \in T /\ \A j \in T : j <= i
  BY <1>1, Latest
<1>3. LastSetting(r, f) = audit[i].changes[f]
  BY DEF LastSetting
<1> QED
  BY <1>2, <1>3

\* The same one step later.
LEMMA LastMeaningNext ==
    ASSUME Shape', NEW r, NEW f, Settings(r, f)' # {}
    PROVE  \E i \in Settings(r, f)' : /\ \A j \in Settings(r, f)' : j <= i
                                      /\ LastSetting(r, f)' = audit'[i].changes[f]
<1> DEFINE T == Settings(r, f)'
           i == CHOOSE i \in T : \A j \in T : j <= i
<1>1. T \subseteq 1 .. Len(audit') /\ Len(audit') \in Nat
  BY DEF Shape, Settings
<1>2. i \in T /\ \A j \in T : j <= i
  BY <1>1, Latest
<1>3. LastSetting(r, f)' = audit'[i].changes[f]
  BY DEF LastSetting
<1> QED
  BY <1>2, <1>3

\* One more event.
Adds(e) == e \in Events /\ audit' = Append(audit, e)

\* It comes after the others.
LEMMA Appended ==
    ASSUME Shape, NEW e, Adds(e)
    PROVE  /\ Len(audit) \in Nat /\ DOMAIN audit = 1 .. Len(audit)
           /\ DOMAIN audit' = 1 .. Len(audit) + 1
           /\ \A i \in DOMAIN audit : audit'[i] = audit[i]
           /\ audit'[Len(audit) + 1] = e
<1>1. audit \in Seq(Events) /\ e \in Events /\ audit' = Append(audit, e)
  BY DEF Shape, Adds
<1> QED
  BY <1>1

\* What is recorded stays so, and the event's own action is.
LEMMA RecordedNext ==
    ASSUME Shape, NEW e, Adds(e), NEW r, NEW action
    PROVE  Recorded(r, action)' <=> Recorded(r, action) \/ (e.row = r /\ e.action = action)
<1>1. ASSUME Recorded(r, action) PROVE Recorded(r, action)'
  BY <1>1, Appended DEF Recorded
<1>2. ASSUME e.row = r, e.action = action PROVE Recorded(r, action)'
  <2>1. Len(audit) + 1 \in DOMAIN audit'
    BY Appended
  <2> QED
    BY <1>2, <2>1, Appended DEF Recorded
<1>3. ASSUME Recorded(r, action)' PROVE Recorded(r, action) \/ (e.row = r /\ e.action = action)
  <2>1. PICK i \in DOMAIN audit' : audit'[i].row = r /\ audit'[i].action = action
    BY <1>3 DEF Recorded
  <2>2. i \in DOMAIN audit \/ i = Len(audit) + 1
    BY <2>1, Appended
  <2> QED
    BY <2>1, <2>2, Appended DEF Recorded
<1> QED
  BY <1>1, <1>2, <1>3

\* It is the last setting of the columns it sets, and disturbs no other.
LEMMA LastSettingNext ==
    ASSUME Shape, Shape', NEW e, Adds(e), NEW r, NEW f
    PROVE  /\ e.row = r /\ f \in DOMAIN e.changes =>
                 Settings(r, f)' # {} /\ LastSetting(r, f)' = e.changes[f]
           /\ ~(e.row = r /\ f \in DOMAIN e.changes) =>
                 /\ Settings(r, f)' = Settings(r, f)
                 /\ Settings(r, f) # {} => LastSetting(r, f)' = LastSetting(r, f)
<1> DEFINE n == Len(audit) + 1
           S == Settings(r, f)
           T == Settings(r, f)'
<1>1. /\ n \in Nat \ {0} /\ DOMAIN audit = 1 .. n - 1 /\ DOMAIN audit' = 1 .. n
      /\ \A i \in DOMAIN audit : audit'[i] = audit[i]
      /\ audit'[n] = e
  BY Appended
<1>2. S = {i \in DOMAIN audit : audit[i].row = r /\ f \in DOMAIN audit[i].changes}
      /\ T = {i \in DOMAIN audit' : audit'[i].row = r /\ f \in DOMAIN audit'[i].changes}
  BY DEF Settings
<1> HIDE DEF n, S, T
<1>3. S \subseteq 1 .. n - 1 /\ T \subseteq 1 .. n
  BY <1>1, <1>2
<1>4. ASSUME e.row = r, f \in DOMAIN e.changes
      PROVE  T # {} /\ LastSetting(r, f)' = e.changes[f]
  <2>1. n \in T
    BY <1>1, <1>2, <1>4
  <2>2. PICK i \in T : (\A j \in T : j <= i) /\ LastSetting(r, f)' = audit'[i].changes[f]
    BY <2>1, LastMeaningNext DEF T
  <2>3. i = n
    BY <1>1, <1>3, <2>1, <2>2
  <2> QED
    BY <1>1, <2>1, <2>2, <2>3
<1>5. ASSUME ~(e.row = r /\ f \in DOMAIN e.changes)
      PROVE  T = S /\ (S # {} => LastSetting(r, f)' = LastSetting(r, f))
  <2>1. ASSUME NEW i \in 1 .. n PROVE i \in T <=> i \in S
    BY <1>1, <1>2, <1>5
  <2>2. T = S
    <3>1. 1 .. n - 1 \subseteq 1 .. n
      BY <1>1
    <3> QED
      BY <1>3, <2>1, <3>1
  <2>3. ASSUME S # {} PROVE LastSetting(r, f)' = LastSetting(r, f)
    <3>1. PICK i \in S : (\A j \in S : j <= i) /\ LastSetting(r, f) = audit[i].changes[f]
      BY <2>3, LastMeaning DEF S
    <3>2. PICK k \in T : (\A j \in T : j <= k) /\ LastSetting(r, f)' = audit'[k].changes[f]
      BY <2>2, <2>3, LastMeaningNext DEF T
    <3>3. i = k
      BY <1>1, <1>3, <2>2, <3>1, <3>2
    <3>4. audit'[i] = audit[i]
      BY <1>1, <1>3
    <3> QED
      BY <3>1, <3>2, <3>3, <3>4
  <2> QED
    BY <2>2, <2>3
<1> QED
  BY <1>4, <1>5 DEF S, T

\* The event e removes row r, after the events so far.
RemovedBy(e, r) ==
    \/ /\ e.row = r
       /\ e.action = "delete" \/ (e.action = "update" /\ Hides(r, e.changes))
    \/ /\ r \in Record /\ e.action = "delete"
       /\ Settings(r, "user_id") # {} /\ LastSetting(r, "user_id") = e.row

\* What has ended a row stays in the trail, and e ends it too if it removes it.
LEMMA ErasedNext ==
    ASSUME Shape, NEW e, Adds(e), NEW r
    PROVE  Erased(r)' <=> (Erased(r) \/ RemovedBy(e, r))
<1> DEFINE S == Settings(r, "user_id")
           T == Settings(r, "user_id")'
<1>1. PICK n \in Nat \ {0} :
         /\ DOMAIN audit = 1 .. n - 1 /\ DOMAIN audit' = 1 .. n
         /\ \A i \in DOMAIN audit : audit'[i] = audit[i]
         /\ audit'[n] = e
  <2>1. Len(audit) + 1 \in Nat \ {0}
    BY Appended
  <2> QED
    BY <2>1, Appended
<1>2. /\ S = {i \in DOMAIN audit : audit[i].row = r /\ "user_id" \in DOMAIN audit[i].changes}
      /\ T = {i \in DOMAIN audit' : audit'[i].row = r /\ "user_id" \in DOMAIN audit'[i].changes}
  BY DEF Settings
<1>3. /\ \A i : Removes(i, r) <=>
            \/ /\ audit[i].row = r
               /\ \/ audit[i].action = "delete"
                  \/ audit[i].action = "update" /\ Hides(r, audit[i].changes)
            \/ /\ r \in Record /\ audit[i].action = "delete"
               /\ \E j \in S : /\ j < i /\ audit[j].changes.user_id = audit[i].row
                               /\ \A k \in S : k < i => k <= j
      /\ \A i : Removes(i, r)' <=>
            \/ /\ audit'[i].row = r
               /\ \/ audit'[i].action = "delete"
                  \/ audit'[i].action = "update" /\ Hides(r, audit'[i].changes)
            \/ /\ r \in Record /\ audit'[i].action = "delete"
               /\ \E j \in T : /\ j < i /\ audit'[j].changes.user_id = audit'[i].row
                               /\ \A k \in T : k < i => k <= j
  BY DEF Removes, OwnedBefore, Hides
<1>4. S # {} => \E j \in S : /\ \A k \in S : k <= j
                             /\ LastSetting(r, "user_id") = audit[j].changes["user_id"]
  BY LastMeaning
<1>5. /\ Erased(r) <=> \E i \in 1 .. n - 1 : Removes(i, r)
      /\ Erased(r)' <=> \E i \in 1 .. n : Removes(i, r)'
  BY <1>1 DEF Erased
<1> HIDE DEF S, T
<1>6. S \subseteq 1 .. n - 1 /\ T \subseteq 1 .. n
  BY <1>1, <1>2
<1>7. \A j \in 1 .. n - 1 : /\ j \in DOMAIN audit /\ j \in DOMAIN audit' /\ audit'[j] = audit[j]
                           /\ (j \in S <=> j \in T)
  <2>1. \A j \in 1 .. n - 1 : j \in DOMAIN audit /\ j \in DOMAIN audit' /\ audit'[j] = audit[j]
    BY <1>1
  <2> QED
    BY <1>2, <2>1
<1>8. ASSUME NEW i \in 1 .. n
      PROVE  \A j : (j \in T /\ j < i) <=> (j \in S /\ j < i)
  <2>1. \A j \in T : j < i => j \in 1 .. n - 1
    BY <1>6
  <2> QED
    BY <1>6, <1>7, <2>1
<1>9. ASSUME NEW i \in 1 .. n, NEW u
      PROVE  (\E j \in T : /\ j < i /\ audit'[j].changes.user_id = u
                           /\ \A k \in T : k < i => k <= j)
             <=> (\E j \in S : /\ j < i /\ audit[j].changes.user_id = u
                               /\ \A k \in S : k < i => k <= j)
  <2>1. \A j \in S : audit'[j] = audit[j]
    BY <1>6, <1>7
  <2> QED
    BY <1>8, <2>1
<1>10. ASSUME NEW i \in 1 .. n - 1 PROVE Removes(i, r)' <=> Removes(i, r)
  <2>1. i \in 1 .. n /\ audit'[i] = audit[i]
    BY <1>1, <1>7
  <2>2. (\E j \in T : /\ j < i /\ audit'[j].changes.user_id = audit[i].row
                      /\ \A k \in T : k < i => k <= j)
        <=> (\E j \in S : /\ j < i /\ audit[j].changes.user_id = audit[i].row
                          /\ \A k \in S : k < i => k <= j)
    BY <1>9, <2>1
  <2> QED
    BY <1>3, <2>1, <2>2
<1>11. Removes(n, r)' <=> RemovedBy(e, r)
  <2>1. n \in 1 .. n /\ \A j \in S : j \in Int /\ j < n
    BY <1>1, <1>6
  <2>2. (\E j \in T : /\ j < n /\ audit'[j].changes.user_id = e.row
                      /\ \A k \in T : k < n => k <= j)
        <=> (\E j \in S : audit[j].changes.user_id = e.row /\ \A k \in S : k <= j)
    BY <1>9, <2>1
  <2>3. \A j, k \in S : j <= k /\ k <= j => j = k
    BY <2>1
  <2>4. (\E j \in S : audit[j].changes.user_id = e.row /\ \A k \in S : k <= j)
        <=> (S # {} /\ LastSetting(r, "user_id") = e.row)
    BY <1>4, <2>3
  <2> QED
    BY <1>1, <1>3, <2>2, <2>4 DEF RemovedBy, S
<1>12. \A i : i \in 1 .. n <=> (i \in 1 .. n - 1 \/ i = n)
  BY <1>1
<1> QED
  BY <1>5, <1>10, <1>11, <1>12

\* No step but CreateRecord makes a record live.
LEMMA RecordsStay ==
    ASSUME Shape, Held, Asked, NEW w \in Worker, Commit(w),
           NEW r \in Record, state'[r] = "live"
    PROVE  state[r] = "live" /\ content'[r] = (IF r \in hit[w] THEN Overlay(changes[w], content[r])
                                               ELSE content[r])
<1>1. r \in Row /\ pc[w] = "commit"
  BY DEF Row, Commit
<1>2. CASE r \notin hit[w]
  BY <1>1, <1>2, CommitRows
<1>3. CASE r \in hit[w]
  <2>1. /\ content'[r] = Overlay(changes[w], content[r]) /\ op[w] \in {"register", "update"}
        /\ r = target[w] /\ (op[w] = "register" \/ state[r] = "live")
    BY <1>3, CommitRows
  <2>2. op[w] # "register"
    BY <1>1, <2>1, DisjointAssumption DEF Asked, Knows
  <2> QED
    BY <1>3, <2>1, <2>2
<1> QED
  BY <1>2, <1>3

\* What a COMMIT does to the handlers.
LEMMA CommitEffect ==
    ASSUME Shape, NEW w \in Worker, Commit(w)
    PROVE  /\ \A q \in Worker \ {w} :
                 /\ pc'[q] = pc[q] /\ op'[q] = op[q] /\ target'[q] = target[q]
                 /\ changes'[q] = changes[q] /\ hit'[q] = hit[q]
           /\ pc[w] = "commit" /\ pc'[w] \in {"idle", "refetch"} /\ hit'[w] = {}
<1>1. CASE op[w] = "update"
  BY <1>1 DEF Shape, Commit
<1>2. CASE op[w] # "update"
  BY <1>2, EndEffect DEF Commit
<1> QED
  BY <1>1, <1>2

\* A record that is there after a COMMIT had an owner before, and has it still
\* or is given to a user that no other open transaction deletes.
LEMMA OwnerStays ==
    ASSUME Shape, Held, Asked, Sponsored, Owned, NEW w \in Worker, Commit(w),
           NEW r \in Record, state'[r] = "live"
    PROVE  /\ state[r] = "live" /\ HasOwner(r) /\ "user_id" \in DOMAIN content'[r]
           /\ \/ content'[r].user_id = content[r].user_id
              \/ /\ r = target[w] /\ op[w] = "update" /\ hit[w] = {r}
                 /\ content'[r].user_id \in User /\ state[content'[r].user_id] = "live"
                 /\ \A q \in Worker \ {w} : op[q] = "delete" => content'[r].user_id \notin hit[q]
<1>1. /\ state[r] = "live" /\ HasOwner(r)
      /\ content'[r] = (IF r \in hit[w] THEN Overlay(changes[w], content[r]) ELSE content[r])
  BY RecordsStay DEF Owned
<1>2. "user_id" \in DOMAIN content'[r]
  BY <1>1 DEF HasOwner, Overlay
<1>3. CASE r \notin hit[w] \/ "user_id" \notin DOMAIN changes[w]
  BY <1>1, <1>2, <1>3 DEF HasOwner, Overlay
<1>4. CASE r \in hit[w] /\ "user_id" \in DOMAIN changes[w]
  <2>1. r = target[w] /\ op[w] = "update"
    BY <1>1, <1>4, CommitRows
  <2>2. hit[w] = {r}
    BY <1>4, <2>1 DEF Held, MayHold
  <2>3. content'[r].user_id = changes[w].user_id
    BY <1>1, <1>4 DEF Overlay, Column
  <2>4. changes[w].user_id \in User
    BY <1>4, Bodies, OwnerAssumption DEF Shape
  <2> QED
    BY <1>1, <1>2, <1>4, <2>1, <2>2, <2>3, <2>4 DEF Sponsored
<1> QED
  BY <1>3, <1>4

\* A step that changes no row, and leaves no lock to the request it is of.
LEMMA SecuredElsewhere ==
    ASSUME Secured, NEW w \in Worker, UNCHANGED tables, pc'[w] \notin {"log", "commit"},
           \A q \in Worker \ {w} :
              pc'[q] = pc[q] /\ op'[q] = op[q] /\ target'[q] = target[q] /\ hit'[q] = hit[q]
    PROVE  Secured'
BY DEF Secured, tables

\* Every step leaves the locks where they are needed.
LEMMA SecuredStep ==
    ASSUME Shape, Held, Asked, Secured, Sponsored, Owned, [Next]_vars
    PROVE  Secured'
<1>1. ASSUME NEW r \in Record, NEW c \in Inserts[r], CreateRecord(r, c) PROVE Secured'
  <2>1. /\ UNCHANGED <<pc, op, target, hit>> /\ KeyHolders(c.user_id) = {}
        /\ \A s \in Row : s # r => state'[s] = state[s] /\ content'[s] = content[s]
        /\ content'[r].user_id = c.user_id
    BY <1>1, NewRecord DEF Shape, CreateRecord, work
  <2>2. \A s \in Record : s \in Row
    BY DEF Row
  <2>3. \A w \in Worker : op[w] = "delete" /\ target[w] \in hit[w] => target[w] # c.user_id
    BY <2>1 DEF KeyHolders, ChangesKey
  <2> QED
    BY <2>1, <2>2, <2>3 DEF Secured
<1>2. ASSUME NEW w \in Worker, NEW u \in User, NEW c \in Inserts[u], Count(w, u, c) PROVE Secured'
  <2>1. CASE End(w, "409") /\ UNCHANGED tables
    BY <2>1, EndEffect, SecuredElsewhere
  <2>2. CASE Begins(w, "register", u, c)
    BY <2>2, SecuredElsewhere DEF Begins
  <2> QED
    BY <1>2, <2>1, <2>2, CountEffect
<1>3. ASSUME NEW w \in Worker, NEW kind, NEW r \in Row, NEW c, Find(w, kind, r, c) PROVE Secured'
  <2>1. Begins(w, kind, r, c)
    BY <1>3, FindEffect
  <2> QED
    BY <2>1, SecuredElsewhere DEF Begins
<1>4. ASSUME NEW w \in Worker, NEW code, End(w, code), UNCHANGED tables PROVE Secured'
  BY <1>4, EndEffect, SecuredElsewhere
<1>5. ASSUME NEW w \in Worker, Write(w) PROVE Secured'
  <2>1. /\ \A q \in Worker \ {w} : pc'[q] = pc[q] /\ hit'[q] = hit[q]
        /\ UNCHANGED <<state, content, op, target>>
        /\ (hit'[w] = {} /\ op[w] # "register") \/ hit'[w] = Reach(w)
    BY <1>5, WriteEffect DEF tables
  <2>2. target[w] \in Reach(w)
    BY DEF Reach
  <2>3. ASSUME op[w] = "delete", NEW r \in Record, state[r] = "live", content[r].user_id = target[w]
        PROVE  r \in Reach(w)
    <3>1. target[w] \in User /\ r \in RecordsOf(target[w])
      BY <2>3 DEF RecordsOf, Owned, HasOwner
    <3> QED
      BY <2>3, <3>1 DEF Reach
  <2> QED
    BY <2>1, <2>2, <2>3 DEF Secured
<1>6. ASSUME NEW w \in Worker, Log(w) PROVE Secured'
  <2>1. /\ \A q \in Worker \ {w} : pc'[q] = pc[q]
        /\ pc[w] = "log" /\ UNCHANGED <<state, content, op, target, hit>>
    BY <1>6 DEF Shape, Log, tables
  <2> QED
    BY <2>1 DEF Secured
<1>7. ASSUME NEW w \in Worker, Commit(w) PROVE Secured'
  <2>1. ASSUME NEW q \in Worker \ {w}, op[q] = "delete", target[q] \in hit[q],
               NEW r \in Record, state'[r] = "live", content'[r].user_id = target[q]
        PROVE  state[r] = "live" /\ content[r].user_id = target[q]
    BY <1>7, <2>1, OwnerStays
  <2> QED
    BY <1>7, <2>1, CommitEffect DEF Secured
<1>8. CASE Crash
  BY <1>8 DEF Crash, Secured
<1>9. CASE UNCHANGED vars
  BY <1>9 DEF vars, Secured
<1> QED
  BY <1>1, <1>2, <1>3, <1>4, <1>5, <1>6, <1>7, <1>8, <1>9
     DEF Next, NotFound, Duplicate, Refetch, Fail

\* A request whose statement matched nothing has a row that is deleted.
LEMMA TargetsOfCommit ==
    ASSUME Shape, Held, Asked, Secured, NEW w \in Worker, Commit(w)
    PROVE  /\ target[w] \in Row /\ op[w] \in {"register", "update", "delete"}
           /\ target[w] \in hit[w] \/ (hit[w] = {} /\ op[w] # "register"
                                       /\ state[target[w]] \in {"soft", "gone"})
           /\ op[w] = "register" => target[w] \in User /\ "role" \in DOMAIN changes[w]
           /\ op[w] # "register" => state[target[w]] # "none"
<1>1. pc[w] = "commit" /\ Knows(w)
  BY DEF Commit, Asked
<1>2. op[w] \in {"register", "update", "delete"}
  BY <1>1 DEF Shape, Knows
<1>3. target[w] \in hit[w] \/ (hit[w] = {} /\ op[w] # "register")
  BY <1>1 DEF Secured
<1> QED
  BY <1>1, <1>2, <1>3 DEF Knows, Missed

\* No step leaves a record without its owner.
LEMMA OwnedStep ==
    ASSUME Shape, Held, Asked, Secured, Sponsored, Owned, [Next]_vars
    PROVE  Owned'
<1>1. ASSUME NEW r \in Record, NEW c \in Inserts[r], CreateRecord(r, c) PROVE Owned'
  <2>1. \A s \in Record : s \in Row
    BY DEF Row
  <2>2. /\ \A s \in Row : s # r => state'[s] = state[s] /\ content'[s] = content[s]
        /\ content'[r] = Overlay(c, NoChange) /\ state[c.user_id] = "live"
    BY <1>1, <2>1 DEF Shape, CreateRecord, Live
  <2>3. \A u \in User : state'[u] = state[u]
    BY <2>2, DisjointAssumption DEF Row
  <2>4. HasOwner(r)'
    BY <2>2, <2>3, NewRecord DEF HasOwner
  <2>5. ASSUME NEW s \in Record, s # r, state'[s] = "live" PROVE HasOwner(s)'
    BY <2>1, <2>2, <2>3, <2>5 DEF Owned, HasOwner
  <2> QED
    BY <2>4, <2>5 DEF Owned
<1>2. ASSUME NEW w \in Worker, Commit(w) PROVE Owned'
  <2> SUFFICES ASSUME NEW r \in Record, state'[r] = "live" PROVE HasOwner(r)'
    BY DEF Owned
  <2> DEFINE u == content'[r].user_id
  <2>1. /\ r \in Row /\ state[r] = "live" /\ "user_id" \in DOMAIN content'[r]
        /\ u \in User /\ u \in Row /\ u \notin Record /\ state[u] = "live"
    BY <1>2, OwnerStays, DisjointAssumption DEF HasOwner, Row
  <2>2. CASE u \notin hit[w]
    BY <1>2, <2>1, <2>2, CommitRows DEF HasOwner
  <2>3. CASE u \in hit[w] /\ op[w] # "delete"
    <3>1. state'[u] = "live"
      BY <1>2, <2>1, <2>3, CommitRows DEF Hides
    <3> QED
      BY <2>1, <3>1 DEF HasOwner
  <2>4. CASE u \in hit[w] /\ op[w] = "delete"
    <3>1. u = target[w]
      BY <2>1, <2>4 DEF Held, MayHold, RecordsOf
    <3>2. content[r].user_id = u
      BY <1>2, <2>4, OwnerStays
    <3>3. r \in hit[w]
      BY <1>2, <2>1, <2>4, <3>1, <3>2 DEF Secured, Commit
    <3>4. state'[r] \in {"soft", "gone"}
      BY <1>2, <2>4, <3>3, CommitRows
    <3> QED
      BY <3>4
  <2> QED
    BY <2>2, <2>3, <2>4
<1>3. CASE UNCHANGED <<state, content>>
  BY <1>3 DEF Owned, HasOwner
<1> QED
  BY <1>1, <1>2, <1>3
     DEF Next, Count, Find, NotFound, Write, Duplicate, Log, Refetch, Fail, Crash, tables, vars

\* A step that changes no row, and after which its request holds nothing.
LEMMA SponsoredElsewhere ==
    ASSUME Held, Sponsored, NEW w \in Worker, UNCHANGED tables, hit'[w] = {},
           \A q \in Worker \ {w} : op'[q] = op[q] /\ target'[q] = target[q]
                                   /\ changes'[q] = changes[q] /\ hit'[q] = hit[q]
    PROVE  Sponsored'
<1> SUFFICES ASSUME NEW q \in Worker, hit'[q] # {}, target'[q] \in Record,
                    "user_id" \in DOMAIN changes'[q]
             PROVE  /\ state'[changes'[q].user_id] = "live"
                    /\ \A p \in Worker \ {q} : op'[p] = "delete" => changes'[q].user_id \notin hit'[p]
  BY DEF Sponsored
<1>1. q # w
  OBVIOUS
<1> QED
  BY <1>1 DEF Sponsored, tables

\* Every step leaves the users to whom records are being given alone.
LEMMA SponsoredStep ==
    ASSUME Shape, Held, Asked, Secured, Sponsored, Owned, [Next]_vars
    PROVE  Sponsored'
<1>0. /\ \A w \in Worker : pc[w] \notin {"log", "commit"} => hit[w] = {}
      /\ \A w \in Worker : "user_id" \in DOMAIN changes[w] => changes[w].user_id \in User
      /\ \A u \in User : u \in Row /\ u \notin Record
  BY Bodies, OwnerAssumption, DisjointAssumption DEF Held, Shape, Row
<1>1. ASSUME NEW r \in Record, NEW c \in Inserts[r], CreateRecord(r, c) PROVE Sponsored'
  <2>1. /\ UNCHANGED <<op, target, changes, hit>>
        /\ \A s \in Row : s # r => state'[s] = state[s]
    BY <1>1 DEF Shape, CreateRecord, work
  <2> QED
    BY <1>0, <2>1 DEF Sponsored
<1>2. ASSUME NEW w \in Worker, NEW u \in User, NEW c \in Inserts[u], Count(w, u, c) PROVE Sponsored'
  <2>1. CASE End(w, "409") /\ UNCHANGED tables
    BY <2>1, EndEffect, SponsoredElsewhere
  <2>2. CASE Begins(w, "register", u, c)
    BY <1>0, <2>2, SponsoredElsewhere DEF Begins
  <2> QED
    BY <1>2, <2>1, <2>2, CountEffect
<1>3. ASSUME NEW w \in Worker, NEW kind, NEW r \in Row, NEW c, Find(w, kind, r, c) PROVE Sponsored'
  <2>1. Begins(w, kind, r, c)
    BY <1>3, FindEffect
  <2> QED
    BY <1>0, <2>1, SponsoredElsewhere DEF Begins
<1>4. ASSUME NEW w \in Worker, NEW code, End(w, code), UNCHANGED tables PROVE Sponsored'
  BY <1>4, EndEffect, SponsoredElsewhere
<1>5. ASSUME NEW w \in Worker, Write(w) PROVE Sponsored'
  <2>1. /\ UNCHANGED <<tables, op, target, changes>> /\ hit[w] = {}
        /\ \A q \in Worker \ {w} : hit'[q] = hit[q]
        /\ hit'[w] # {} => /\ hit'[w] = Reach(w) /\ OwnerAdmits(w)
                           /\ op[w] = "register" \/ state[target[w]] = "live"
                           /\ \A q \in Worker \ {w} : hit[q] \cap Reach(w) = {}
    BY <1>0, <1>5, WriteEffect
  <2>2. ASSUME NEW u \in User, NEW q \in Worker, op[q] = "delete", u \in hit[q] \/ u \in Reach(q)
        PROVE  u = target[q]
    BY <1>0, <2>2 DEF Held, MayHold, Reach, RecordsOf
  <2>3. ASSUME hit'[w] # {}, target[w] \in Record, "user_id" \in DOMAIN changes[w]
        PROVE  /\ state[changes[w].user_id] = "live"
               /\ \A q \in Worker \ {w} : op[q] = "delete" => changes[w].user_id \notin hit[q]
    <3> DEFINE u == changes[w].user_id
    <3>1. u \in User /\ Knows(w)
      BY <1>0, <1>5, <2>3 DEF Asked, Write
    <3>2. CASE Gives(w)
      <4>1. Live(u) /\ KeyHolders(u) = {}
        BY <2>1, <2>3, <3>2 DEF OwnerAdmits
      <4> QED
        BY <4>1 DEF Live, KeyHolders, ChangesKey
    <3>3. CASE ~Gives(w)
      <4>1. content[target[w]].user_id = u /\ state[target[w]] = "live"
        BY <2>1, <2>3, <3>1, <3>3, DisjointAssumption DEF Gives, Knows
      <4>2. state[u] = "live"
        BY <2>3, <4>1 DEF Owned, HasOwner
      <4>3. ASSUME NEW q \in Worker \ {w}, op[q] = "delete", u \in hit[q] PROVE FALSE
        <5>1. u = target[q] /\ pc[q] \in {"log", "commit"}
          BY <2>2, <3>1, <4>3 DEF Held
        <5>2. target[w] \in hit[q]
          BY <2>3, <4>1, <4>3, <5>1 DEF Secured
        <5>3. target[w] \in Reach(w)
          BY DEF Reach
        <5> QED
          BY <2>1, <2>3, <5>2, <5>3
      <4> QED
        BY <4>2, <4>3
    <3> QED
      BY <3>2, <3>3
  <2>4. ASSUME NEW q \in Worker \ {w}, hit[q] # {}, target[q] \in Record,
               "user_id" \in DOMAIN changes[q], op[w] = "delete", changes[q].user_id \in hit'[w]
        PROVE  FALSE
    <3> DEFINE u == changes[q].user_id
    <3>1. u \in User /\ u = target[w] /\ hit'[w] = Reach(w)
      BY <1>0, <2>1, <2>2, <2>4
    <3>2. KeySharers(u) = {}
      BY <2>1, <2>4, <3>1 DEF OwnerAdmits, ChangesKey
    <3>3. content[target[q]].user_id = u
      BY <2>4, <3>2 DEF KeySharers, Gives
    <3>4. target[q] \in hit[q] /\ MayHold(q, target[q]) /\ Knows(q)
      BY <2>4 DEF Held, Secured, Asked
    <3>5. state[target[q]] = "live"
      BY <2>4, <3>4, DisjointAssumption DEF MayHold, Knows, RecordsOf, Shape
    <3>6. target[q] \in Reach(w)
      BY <2>4, <3>1, <3>3, <3>5 DEF Reach, RecordsOf
    <3> QED
      BY <2>1, <2>4, <3>4, <3>6
  <2> QED
    BY <2>1, <2>3, <2>4 DEF Sponsored, tables
<1>6. ASSUME NEW w \in Worker, Log(w) PROVE Sponsored'
  BY <1>6 DEF Log, Sponsored, tables
<1>7. ASSUME NEW w \in Worker, Commit(w) PROVE Sponsored'
  <2> SUFFICES ASSUME NEW q \in Worker, hit'[q] # {}, target'[q] \in Record,
                      "user_id" \in DOMAIN changes'[q]
               PROVE  /\ state'[changes'[q].user_id] = "live"
                      /\ \A p \in Worker \ {q} : op'[p] = "delete" => changes'[q].user_id \notin hit'[p]
    BY DEF Sponsored
  <2>1. /\ q # w /\ hit'[w] = {}
        /\ \A p \in Worker \ {w} : op'[p] = op[p] /\ target'[p] = target[p]
                                    /\ changes'[p] = changes[p] /\ hit'[p] = hit[p]
    BY <1>7, CommitEffect
  <2> DEFINE u == changes[q].user_id
  <2>2. /\ u \in User /\ state[u] = "live"
        /\ \A p \in Worker \ {q} : op[p] = "delete" => u \notin hit[p]
    BY <1>0, <2>1 DEF Sponsored
  <2>3. state'[u] = "live"
    <3>1. CASE u \in hit[w]
      BY <1>0, <1>7, <2>1, <2>2, <3>1, CommitRows DEF Hides
    <3>2. CASE u \notin hit[w]
      BY <1>0, <1>7, <2>2, <3>2, CommitRows
    <3> QED
      BY <3>1, <3>2
  <2> QED
    BY <2>1, <2>2, <2>3
<1>8. CASE Crash
  BY <1>8 DEF Crash, Sponsored
<1>9. CASE UNCHANGED vars
  BY <1>9 DEF vars, Sponsored
<1> QED
  BY <1>1, <1>2, <1>3, <1>4, <1>5, <1>6, <1>7, <1>8, <1>9
     DEF Next, NotFound, Duplicate, Refetch, Fail

\* The event of a COMMIT: its row, its action and the columns it tells.
LEMMA CommitEvent ==
    ASSUME Shape, Asked, NEW w \in Worker, Commit(w)
    PROVE  /\ Adds(EventOf(w)) /\ EventOf(w).row = target[w]
           /\ op[w] = "register" => /\ EventOf(w).action = "create"
                                    /\ EventOf(w).changes = [role |-> changes[w].role]
           /\ op[w] # "register" => /\ EventOf(w).action = op[w]
                                    /\ EventOf(w).changes = changes[w]
<1>1. EventOf(w) \in Events
  BY EventTyped DEF Commit
<1>2. audit' = Append(audit, EventOf(w))
  BY DEF Commit
<1> QED
  BY <1>1, <1>2 DEF Adds, EventOf, Event

\* A row of which nothing is told has no column told, and no end.
LEMMA Untold ==
    ASSUME Told, NEW r \in Row, state[r] = "none"
    PROVE  /\ \A f : Settings(r, f) = {}
           /\ ~Erased(r)
<1>1. \A i \in DOMAIN audit : audit[i].row # r
  BY DEF Told
<1>2. \A f : Settings(r, f) = {}
  BY <1>1 DEF Settings
<1> QED
  BY <1>1, <1>2 DEF Erased, Removes, OwnedBefore

\* The owner of a record is in the trail.
LEMMA OwnerTold ==
    ASSUME Owned, Replayed, NEW r \in Record, state[r] = "live"
    PROVE  /\ Settings(r, "user_id") # {}
           /\ LastSetting(r, "user_id") = content[r].user_id
<1>1. r \in Row /\ r \notin User /\ "user_id" \in DOMAIN content[r]
  BY DisjointAssumption DEF Row, Owned, HasOwner
<1>2. IF Settings(r, "user_id") = {} THEN r \in User /\ "user_id" # "role"
      ELSE content[r]["user_id"] = Column("user_id", LastSetting(r, "user_id"))
  BY <1>1 DEF Replayed
<1> QED
  BY <1>1, <1>2 DEF Column

\* Every step leaves the trail true of the rows' lives.
LEMMA ToldStep ==
    ASSUME Shape, Held, Asked, Secured, Owned, Told, Replayed, [Next]_vars
    PROVE  Told'
<1>1. ASSUME NEW r \in Record, NEW c \in Inserts[r], CreateRecord(r, c) PROVE Told'
  <2> DEFINE e == Event(r, "create", c)
  <2>0. r \in Row /\ c \in Body
    BY NewRecord
  <2>1. Adds(e) /\ e.row = r /\ e.action = "create"
    BY <1>1, <2>0 DEF Adds, Event, Events, CreateRecord
  <2> HIDE DEF e
  <2>2. /\ \A s \in Row : s # r => state'[s] = state[s]
        /\ state[r] = "none" /\ state'[r] = "live"
    BY <1>1, <2>0 DEF Shape, CreateRecord
  <2>3. ASSUME NEW s \in Row, state'[s] = "none" PROVE \A i \in DOMAIN audit' : audit'[i].row # s
    <3>1. s # r /\ \A i \in DOMAIN audit : audit[i].row # s
      BY <2>2, <2>3 DEF Told
    <3>2. \A i \in DOMAIN audit' : i \in DOMAIN audit \/ i = Len(audit) + 1
      BY <2>1, Appended
    <3> QED
      BY <2>1, <3>1, <3>2, Appended
  <2>4. \A s \in Row : Recorded(s, "create")' <=> Recorded(s, "create") \/ r = s
    BY <2>1, RecordedNext
  <2>5. \A s : Erased(s)' <=> Erased(s)
    BY <2>1, ErasedNext DEF RemovedBy
  <2>6. ~Erased(r)
    BY <2>0, <2>2, Untold
  <2> QED
    BY <2>0, <2>2, <2>3, <2>4, <2>5, <2>6 DEF Told
<1>2. ASSUME NEW w \in Worker, Commit(w) PROVE Told'
  <2> DEFINE e == EventOf(w)
             kind == IF op[w] = "register" THEN "create" ELSE op[w]
  <2>1. /\ Adds(e) /\ e.row = target[w] /\ e.action = kind
        /\ op[w] # "register" => e.changes = changes[w]
    BY <1>2, CommitEvent
  <2>2. /\ target[w] \in Row /\ op[w] \in {"register", "update", "delete"}
        /\ target[w] \in hit[w] \/ (hit[w] = {} /\ op[w] # "register"
                                    /\ state[target[w]] \in {"soft", "gone"})
        /\ op[w] # "register" => state[target[w]] # "none"
    BY <1>2, TargetsOfCommit
  <2> HIDE DEF e
  <2>3. /\ \A s : Recorded(s, "create")' <=> Recorded(s, "create") \/ (target[w] = s /\ kind = "create")
        /\ \A s : Erased(s)' <=> Erased(s) \/ RemovedBy(e, s)
    BY <2>1, RecordedNext, ErasedNext
  <2>4. ASSUME NEW s \in Row PROVE Moves(s)
    BY RowsMove
  <2>5. ASSUME NEW s \in Row, state'[s] = "none" PROVE \A i \in DOMAIN audit' : audit'[i].row # s
    <3>1. state[s] = "none" /\ \A i \in DOMAIN audit : audit[i].row # s
      BY <2>4, <2>5 DEF Moves, Told
    <3>2. s # target[w]
      BY <1>2, <2>2, <2>5, <3>1, CommitRows
    <3>3. \A i \in DOMAIN audit' : i \in DOMAIN audit \/ i = Len(audit) + 1
      BY <2>1, Appended
    <3> QED
      BY <2>1, <3>1, <3>2, <3>3, Appended
  <2>6. ASSUME NEW s \in Row, state'[s] # "none" PROVE Recorded(s, "create")'
    <3>1. CASE state[s] # "none"
      BY <2>3, <3>1 DEF Told
    <3>2. CASE state[s] = "none"
      <4>1. s \in hit[w]
        BY <1>2, <2>6, <3>2, CommitRows
      <4>2. op[w] = "register" /\ s = target[w]
        BY <1>2, <3>2, <4>1, CommitRows
      <4> QED
        BY <2>3, <4>2
    <3> QED
      BY <3>1, <3>2
  <2>7. ASSUME NEW s \in Row, state'[s] = "live" PROVE ~Erased(s)'
    <3>1. CASE state[s] = "none"
      <4>1. s \in hit[w]
        BY <1>2, <2>7, <3>1, CommitRows
      <4>2. op[w] = "register"
        BY <1>2, <3>1, <4>1, CommitRows
      <4>3. ~RemovedBy(e, s)
        BY <2>1, <4>2 DEF RemovedBy
      <4> QED
        BY <2>3, <3>1, <4>3, Untold
    <3>2. CASE state[s] # "none"
      <4>1. state[s] = "live" /\ ~Erased(s)
        BY <2>4, <2>7, <3>2 DEF Moves, Told
      <4>2. s \in hit[w] => op[w] = "update" /\ ~Hides(s, changes[w])
        BY <1>2, <2>7, <4>1, CommitRows
      <4>3. s = target[w] => s \in hit[w]
        BY <2>2, <4>1
      <4>4. ASSUME s \in Record, op[w] = "delete", content[s].user_id = target[w] PROVE FALSE
        <5>1. state[target[w]] = "live"
          BY <4>1, <4>4 DEF Owned, HasOwner
        <5>2. target[w] \in hit[w]
          BY <2>2, <5>1
        <5>3. s \in hit[w]
          BY <1>2, <4>1, <4>4, <5>2 DEF Secured, Commit
        <5> QED
          BY <4>2, <4>4, <5>3
      <4>5. ~RemovedBy(e, s)
        BY <2>1, <4>1, <4>2, <4>3, <4>4, OwnerTold DEF RemovedBy
      <4> QED
        BY <2>3, <4>1, <4>5
    <3> QED
      BY <3>1, <3>2
  <2>8. ASSUME NEW s \in Row, state'[s] \in {"soft", "gone"} PROVE Erased(s)'
    <3>1. CASE state[s] \in {"soft", "gone"}
      BY <2>3, <3>1 DEF Told
    <3>2. CASE state[s] \notin {"soft", "gone"}
      <4>1. s \in hit[w]
        BY <1>2, <2>8, <3>2, CommitRows
      <4>2. state[s] = "live" /\ MayHold(w, s)
        BY <1>2, <2>8, <3>2, <4>1, CommitRows DEF Held
      <4>3. CASE op[w] = "update"
        <5>1. s = target[w] /\ Hides(s, changes[w])
          BY <1>2, <2>8, <4>1, <4>3, CommitRows
        <5> QED
          BY <2>1, <2>3, <4>3, <5>1 DEF RemovedBy
      <4>4. CASE op[w] = "delete" /\ s = target[w]
        BY <2>1, <2>3, <4>4 DEF RemovedBy
      <4>5. CASE op[w] = "delete" /\ s \in RecordsOf(target[w])
        <5>1. s \in Record /\ content[s].user_id = target[w]
          BY <4>5 DEF RecordsOf
        <5> QED
          BY <2>1, <2>3, <4>2, <4>5, <5>1, OwnerTold DEF RemovedBy
      <4> QED
        BY <2>2, <4>2, <4>3, <4>4, <4>5 DEF MayHold
    <3> QED
      BY <3>1, <3>2
  <2> QED
    BY <2>5, <2>6, <2>7, <2>8 DEF Told
<1>3. CASE UNCHANGED <<state, audit>>
  BY <1>3 DEF Told, Recorded, Erased, Removes, OwnedBefore, Settings
<1> QED
  BY <1>1, <1>2, <1>3
     DEF Next, Count, Find, NotFound, Write, Duplicate, Log, Refetch, Fail, Crash, tables, vars

\* Every step leaves the trail true of the columns.
LEMMA ReplayedStep ==
    ASSUME Shape, Shape', Held, Asked, Secured, Told, Replayed, [Next]_vars
    PROVE  Replayed'
<1>1. ASSUME NEW r \in Record, NEW c \in Inserts[r], CreateRecord(r, c) PROVE Replayed'
  <2> DEFINE e == Event(r, "create", c)
  <2>1. r \in Row /\ c \in Body
    BY NewRecord
  <2>2. Adds(e) /\ e.row = r /\ e.changes = c
    BY <1>1, <2>1 DEF Adds, Event, Events, CreateRecord
  <2> HIDE DEF e
  <2>3. /\ \A s \in Row : s # r => state'[s] = state[s] /\ content'[s] = content[s]
        /\ state[r] = "none" /\ content'[r] = Overlay(c, NoChange)
    BY <1>1, <2>1 DEF Shape, CreateRecord
  <2> SUFFICES ASSUME NEW s \in Row, state'[s] = "live", NEW f \in DOMAIN content'[s]
               PROVE  IF Settings(s, f)' = {} THEN s \in User /\ f # "role"
                      ELSE content'[s][f] = Column(f, LastSetting(s, f)')
    BY DEF Replayed
  <2>4. CASE s = r
    BY <2>2, <2>3, <2>4, NewRecord, LastSettingNext
  <2>5. CASE s # r
    <3>1. /\ Settings(s, f)' = Settings(s, f)
          /\ Settings(s, f) # {} => LastSetting(s, f)' = LastSetting(s, f)
      BY <2>2, <2>5, LastSettingNext
    <3>2. state[s] = "live" /\ f \in DOMAIN content[s] /\ content'[s] = content[s]
      BY <2>3, <2>5
    <3> QED
      BY <3>1, <3>2 DEF Replayed
  <2> QED
    BY <2>4, <2>5
<1>2. ASSUME NEW w \in Worker, Commit(w) PROVE Replayed'
  <2> DEFINE e == EventOf(w)
             r == target[w]
  <2>1. /\ Adds(e) /\ e.row = r
        /\ op[w] = "register" => e.changes = [role |-> changes[w].role]
        /\ op[w] # "register" => e.changes = changes[w]
    BY <1>2, CommitEvent
  <2>2. /\ r \in Row /\ op[w] \in {"register", "update", "delete"}
        /\ r \in hit[w] \/ (hit[w] = {} /\ state[r] \in {"soft", "gone"})
        /\ op[w] = "register" => r \in User /\ "role" \in DOMAIN changes[w]
    BY <1>2, TargetsOfCommit
  <2> HIDE DEF e, r
  <2> SUFFICES ASSUME NEW s \in Row, state'[s] = "live", NEW f \in DOMAIN content'[s]
               PROVE  IF Settings(s, f)' = {} THEN s \in User /\ f # "role"
                      ELSE content'[s][f] = Column(f, LastSetting(s, f)')
    BY DEF Replayed
  <2>3. CASE s \notin hit[w]
    <3>1. state[s] = "live" /\ content'[s] = content[s]
      BY <1>2, <2>3, CommitRows
    <3>2. s # r
      BY <2>2, <2>3, <3>1
    <3>3. /\ Settings(s, f)' = Settings(s, f)
          /\ Settings(s, f) # {} => LastSetting(s, f)' = LastSetting(s, f)
      BY <2>1, <3>2, LastSettingNext
    <3> QED
      BY <3>1, <3>3 DEF Replayed
  <2>4. CASE s \in hit[w]
    <3>1. /\ op[w] \in {"register", "update"} /\ s = r
          /\ content'[s] = Overlay(changes[w], content[s])
          /\ op[w] = "register" => state[s] = "none"
          /\ op[w] = "update" => state[s] = "live"
      BY <1>2, <2>4, CommitRows DEF r
    <3>2. CASE f \in DOMAIN e.changes
      <4>1. Settings(s, f)' # {} /\ LastSetting(s, f)' = e.changes[f]
        BY <2>1, <3>1, <3>2, LastSettingNext
      <4>2. f \in DOMAIN changes[w] /\ e.changes[f] = changes[w][f]
        BY <2>1, <2>2, <3>1, <3>2
      <4>3. content'[s][f] = Column(f, changes[w][f])
        BY <3>1, <4>2 DEF Overlay
      <4> QED
        BY <4>1, <4>2, <4>3
    <3>3. CASE f \notin DOMAIN e.changes
      <4>1. /\ Settings(s, f)' = Settings(s, f)
            /\ Settings(s, f) # {} => LastSetting(s, f)' = LastSetting(s, f)
        BY <2>1, <3>3, LastSettingNext
      <4>2. CASE op[w] = "register"
        <5>1. Settings(s, f) = {}
          BY <3>1, <4>2, Untold
        <5>2. f # "role" /\ s \in User
          BY <2>1, <2>2, <3>1, <3>3, <4>2
        <5> QED
          BY <4>1, <5>1, <5>2
      <4>3. CASE op[w] = "update"
        <5>1. f \notin DOMAIN changes[w]
          BY <2>1, <3>3, <4>3
        <5>2. f \in DOMAIN content[s] /\ content'[s][f] = content[s][f]
          BY <3>1, <5>1 DEF Overlay
        <5> QED
          BY <3>1, <4>1, <4>3, <5>2 DEF Replayed
      <4> QED
        BY <3>1, <4>2, <4>3
    <3> QED
      BY <3>2, <3>3
  <2> QED
    BY <2>3, <2>4
<1>3. CASE UNCHANGED <<state, content, audit>>
  <2>1. \A r, f : Settings(r, f)' = Settings(r, f) /\ LastSetting(r, f)' = LastSetting(r, f)
    BY <1>3 DEF Settings, LastSetting
  <2> QED
    BY <1>3, <2>1 DEF Replayed
<1> QED
  BY <1>1, <1>2, <1>3
     DEF Next, Count, Find, NotFound, Write, Duplicate, Log, Refetch, Fail, Crash, tables, vars

\* What the invariant means for a reader of the trail.
LEMMA TrailMeaning ==
    ASSUME Shape, Told, Replayed
    PROVE  TrailReplays
<1> SUFFICES ASSUME NEW r \in Row
             PROVE  /\ Live(r) <=> TrailLive(r)
                    /\ Live(r) => \A f \in DOMAIN content[r] :
                          IF Settings(r, f) = {} THEN r \in User /\ f # "role"
                          ELSE content[r][f] = Column(f, LastSetting(r, f))
  BY DEF TrailReplays
<1>1. state[r] = "live" => TrailLive(r)
  BY DEF Told, TrailLive, Erased
<1>2. TrailLive(r) => state[r] \notin {"none", "soft", "gone"}
  BY DEF Told, TrailLive, Recorded, Erased
<1>3. state[r] \in {"none", "live", "soft", "gone"}
  BY DEF Shape
<1> QED
  BY <1>1, <1>2, <1>3 DEF Live, Replayed

\* The audit trail alone gives the rows back, their amounts once rounded,
\* whatever requests ran at once: the events are in the order of the changes
\* they tell.
THEOREM TrailGivesDataBack == Spec => []TrailReplays
<1>1. Init => Trail
  <2> SUFFICES ASSUME Init PROVE Trail
    OBVIOUS
  <2>1. \A r \in Row : state[r] = "none"
    BY DEF Init
  <2>2. DOMAIN audit = {} /\ \A w \in Worker : pc[w] = "idle"
    BY DEF Init
  <2>3. \A r \in Record : r \in Row
    BY DEF Row
  <2>4. Told
    BY <2>1, <2>2 DEF Told
  <2> QED
    BY <2>1, <2>2, <2>3, <2>4 DEF Trail, Secured, Sponsored, Owned, Replayed, Init
<1>2. IInv /\ Trail /\ [Next]_vars => Trail'
  <2> SUFFICES ASSUME IInv, Trail, [Next]_vars PROVE Trail'
    OBVIOUS
  <2>1. Shape'
    BY StepInv DEF IInv
  <2> QED
    BY <2>1, SecuredStep, SponsoredStep, OwnedStep, ToldStep, ReplayedStep DEF IInv, Trail
<1>3. IInv /\ Trail => TrailReplays
  BY TrailMeaning DEF IInv, Trail
<1> QED
  BY <1>1, <1>2, <1>3, Invariance, PTL DEF Spec

-----------------------------------------------------------------------------
\* The dashboard.

\* A record that is there has all of its columns.
Filled == \A r \in Record : state[r] = "live" => Columns \subseteq DOMAIN content[r]

\* No step takes a column from a record.
LEMMA FilledStep ==
    ASSUME Shape, Held, Asked, Filled, [Next]_vars
    PROVE  Filled'
<1>0. \A r \in Record : r \in Row
  BY DEF Row
<1>1. ASSUME NEW r \in Record, NEW c \in Inserts[r], CreateRecord(r, c) PROVE Filled'
  <2>1. \A s \in Row : s # r => state'[s] = state[s] /\ content'[s] = content[s]
    BY <1>1 DEF Shape, CreateRecord
  <2>2. content'[r] = Overlay(c, NoChange)
    BY <1>0, <1>1 DEF Shape, CreateRecord
  <2>3. Columns \subseteq DOMAIN Overlay(c, NoChange)
    BY RecordAssumption, NewRecord
  <2> QED
    BY <1>0, <2>1, <2>2, <2>3 DEF Filled
<1>2. ASSUME NEW w \in Worker, Commit(w) PROVE Filled'
  <2> SUFFICES ASSUME NEW r \in Record, state'[r] = "live" PROVE Columns \subseteq DOMAIN content'[r]
    BY DEF Filled
  <2>1. state[r] = "live" /\ content'[r] = IF r \in hit[w] THEN Overlay(changes[w], content[r])
                                           ELSE content[r]
    BY <1>2, RecordsStay
  <2>2. DOMAIN content[r] \subseteq DOMAIN Overlay(changes[w], content[r])
    BY DEF Overlay
  <2> QED
    BY <2>1, <2>2 DEF Filled
<1>3. CASE UNCHANGED <<state, content>>
  BY <1>3 DEF Filled
<1> QED
  BY <1>1, <1>2, <1>3
     DEF Next, Count, Find, NotFound, Write, Duplicate, Log, Refetch, Fail, Crash, tables, vars

\* What the panels add up of one record.
In == [r \in Counted |-> IF content[r].type = "income" THEN content[r].amount ELSE 0]
Out == [r \in Counted |-> IF content[r].type = "expense" THEN content[r].amount ELSE 0]
Either == [r \in Counted |-> content[r].amount]
Net == [r \in Counted |-> Signed(content[r].type, content[r].amount)]
One == [r \in Counted |-> 1]

\* What is stored of a number is a number.
LEMMA StoredNumber == ASSUME NEW x \in Int PROVE Stored(x) \in Int
BY ScaleAssumption DEF Stored

\* What a record adds to its panels.
LEMMA OneRecord ==
    ASSUME Shape, Filled, NEW r \in Counted
    PROVE  /\ r \in Record /\ r \in Row /\ Columns \subseteq DOMAIN content[r]
           /\ {In[r], Out[r], Either[r], Net[r], One[r]} \subseteq Int
           /\ In[r] = Net[r] + Out[r] /\ One[r] = 1
<1>1. r \in Record /\ r \in Row /\ state[r] = "live"
  BY DEF Counted, Live, Row
<1>2. Columns \subseteq DOMAIN content[r]
  BY <1>1 DEF Filled
<1>3. "amount" \in DOMAIN content[r] /\ content[r].amount \in Kept("amount")
  BY <1>1, <1>2 DEF Shape, Columns
<1>4. content[r].amount \in Int
  BY <1>3, RecordAssumption, StoredNumber DEF Kept, Column
<1> QED
  BY <1>1, <1>2, <1>4 DEF In, Out, Either, Net, One, Signed

\* The totals of a panel's group are sums of these.
LEMMA Totals ==
    ASSUME Shape, Filled, NEW S \in SUBSET Counted
    PROVE  /\ IsFiniteSet(S)
           /\ \A F \in {In, Out, Either, Net, One} : IntegersOn(F, S)
           /\ Income(S) = SumFunctionOnSet(In, S)
           /\ Expense(S) = SumFunctionOnSet(Out, S)
           /\ Total(S) = SumFunctionOnSet(Either, S)
           /\ Income(S) - Expense(S) = SumFunctionOnSet(Net, S)
           /\ Cardinality(S) = SumFunctionOnSet(One, S)
<1>1. IsFiniteSet(S) /\ \A r \in S : r \in Counted
  BY RecordAssumption, FS_Subset DEF Counted
<1>2. \A F \in {In, Out, Either, Net, One} : IntegersOn(F, S)
  BY <1>1, OneRecord DEF IntegersOn
<1> DEFINE I == [r \in S |-> IF content[r].type = "income" THEN content[r].amount ELSE 0]
           E == [r \in S |-> IF content[r].type = "expense" THEN content[r].amount ELSE 0]
           A == [r \in S |-> content[r].amount]
<1>3. /\ Income(S) = SumFunctionOnSet(I, S) /\ Expense(S) = SumFunctionOnSet(E, S)
      /\ Total(S) = SumFunctionOnSet(A, S)
  BY DEF Income, Expense, Total, SumFunction
<1>4. \A r \in S : In[r] = I[r] /\ Out[r] = E[r] /\ Either[r] = A[r]
  BY <1>1 DEF In, Out, Either
<1> HIDE DEF I, E, A
<1>5. /\ Income(S) = SumFunctionOnSet(In, S) /\ Expense(S) = SumFunctionOnSet(Out, S)
      /\ Total(S) = SumFunctionOnSet(Either, S)
  BY <1>1, <1>2, <1>3, <1>4, SumSame
<1>6. \A r \in S : In[r] = Net[r] + Out[r] /\ One[r] = 1
  BY <1>1, OneRecord
<1>7. SumFunctionOnSet(In, S) = SumFunctionOnSet(Net, S) + SumFunctionOnSet(Out, S)
  BY <1>1, <1>2, <1>6, SumPlus
<1>8. /\ SumFunctionOnSet(Net, S) \in Int /\ SumFunctionOnSet(Out, S) \in Int
      /\ SumFunctionOnSet(In, S) \in Int
  BY <1>1, <1>2, SumType
<1>9. Income(S) - Expense(S) = SumFunctionOnSet(Net, S)
  BY <1>5, <1>7, <1>8
<1>10. Cardinality(S) = SumFunctionOnSet(One, S)
  BY <1>1, <1>6, SumCount
<1> QED
  BY <1>1, <1>2, <1>5, <1>9, <1>10

\* A panel whose rows are the groups of K adds up to the sum over its records.
LEMMA PanelSum ==
    ASSUME NEW S, IsFiniteSet(S), NEW F, IntegersOn(F, S), NEW K,
           NEW V, DOMAIN V = {K[r] : r \in S},
           \A r \in S : V[K[r]] = SumFunctionOnSet(F, {q \in S : K[q] = K[r]})
    PROVE  SumFunction(V) = SumFunctionOnSet(F, S)
<1>1. \A g \in {K[r] : r \in S} : V[g] = SumFunctionOnSet(F, {q \in S : K[q] = g})
  OBVIOUS
<1>2. SumFunctionOnSet(V, {K[r] : r \in S}) = SumFunctionOnSet(F, S)
  BY <1>1, SumGroups
<1> QED
  BY <1>2 DEF SumFunction

\* The records of a currency, and the groups of one of them in the two panels.
InCurrency(c) == {r \in Counted : content[r].currency = c}
SameMonth(r) == {q \in Counted : content[q].currency = content[r].currency /\ Month(q) = Month(r)}
SameCategory(r) ==
    {q \in Counted : content[q].currency = content[r].currency
                     /\ content[q].category = content[r].category}

\* The row of trends a record is in, and that of the breakdown.
TrendOf(r) ==
    [currency |-> content[r].currency, month |-> Month(r), income |-> Income(SameMonth(r)),
     expense |-> Expense(SameMonth(r)), net |-> Income(SameMonth(r)) - Expense(SameMonth(r))]
ShareOf(r) ==
    [currency |-> content[r].currency, category |-> content[r].category,
     total_income |-> Income(SameCategory(r)), total_expense |-> Expense(SameCategory(r)),
     total |-> Total(SameCategory(r)), count |-> Cardinality(SameCategory(r))]

\* The panels are made of these rows.
LEMMA PanelRows ==
    /\ GetTrends = {TrendOf(r) : r \in Counted}
    /\ GetCategoryBreakdown = {ShareOf(r) : r \in Counted}
<1> DEFINE T(g) == LET S == {r \in Counted : content[r].currency = g[1] /\ Month(r) = g[2]}
                   IN  [currency |-> g[1], month |-> g[2], income |-> Income(S),
                        expense |-> Expense(S), net |-> Income(S) - Expense(S)]
           B(g) == LET S == {r \in Counted : content[r].currency = g[1] /\ content[r].category = g[2]}
                   IN  [currency |-> g[1], category |-> g[2], total_income |-> Income(S),
                        total_expense |-> Expense(S), total |-> Total(S), count |-> Cardinality(S)]
<1>1. \A r \in Counted : T(<<content[r].currency, Month(r)>>) = TrendOf(r)
  BY DEF TrendOf, SameMonth
<1>2. \A r \in Counted : B(<<content[r].currency, content[r].category>>) = ShareOf(r)
  BY DEF ShareOf, SameCategory
<1>3. /\ GetTrends = {T(g) : g \in {<<content[r].currency, Month(r)>> : r \in Counted}}
      /\ GetCategoryBreakdown
            = {B(g) : g \in {<<content[r].currency, content[r].category>> : r \in Counted}}
  BY DEF GetTrends, GetCategoryBreakdown
<1> HIDE DEF T, B
<1> QED
  BY <1>1, <1>2, <1>3

\* The months of a currency add up to its summary.
LEMMA TrendsAddUp ==
    ASSUME Shape, Filled, NEW c
    PROVE  LET trends == {t \in GetTrends : t.currency = c}
           IN  SumFunction([t \in trends |-> t.net]) = SumFunctionOnSet(Net, InCurrency(c))
<1> DEFINE S == InCurrency(c)
           trends == {t \in GetTrends : t.currency = c}
           K == [r \in S |-> TrendOf(r)]
           V == [t \in trends |-> t.net]
<1>1. S \in SUBSET Counted /\ \A r \in S : content[r].currency = c
  BY DEF InCurrency
<1>2. \A r \in Counted : TrendOf(r).currency = content[r].currency /\ TrendOf(r).month = Month(r)
  BY DEF TrendOf
<1>3. trends = {K[r] : r \in S}
  BY <1>1, <1>2, PanelRows DEF InCurrency
<1>4. ASSUME NEW r \in S PROVE V[K[r]] = SumFunctionOnSet(Net, {q \in S : K[q] = K[r]})
  <2>1. {q \in S : K[q] = K[r]} = SameMonth(r)
    <3>1. ASSUME NEW q \in S, Month(q) = Month(r) PROVE TrendOf(q) = TrendOf(r)
      <4>1. SameMonth(q) = SameMonth(r) /\ content[q].currency = content[r].currency
        BY <1>1, <3>1 DEF SameMonth
      <4> QED
        BY <3>1, <4>1 DEF TrendOf
    <3>2. ASSUME NEW q \in S, TrendOf(q) = TrendOf(r) PROVE Month(q) = Month(r)
      BY <1>1, <1>2, <3>2
    <3> QED
      BY <1>1, <3>1, <3>2 DEF SameMonth, InCurrency
  <2>2. V[K[r]] = Income(SameMonth(r)) - Expense(SameMonth(r))
    <3>1. K[r] \in trends /\ K[r] = TrendOf(r)
      BY <1>3
    <3> QED
      BY <3>1 DEF TrendOf
  <2>3. SameMonth(r) \in SUBSET Counted
    BY DEF SameMonth
  <2> QED
    BY <2>1, <2>2, <2>3, Totals
<1>5. IsFiniteSet(S) /\ IntegersOn(Net, S)
  BY <1>1, Totals
<1>6. DOMAIN V = {K[r] : r \in S}
  BY <1>3
<1> HIDE DEF V, K, S
<1>7. SumFunction(V) = SumFunctionOnSet(Net, S)
  BY <1>4, <1>5, <1>6, PanelSum
<1> QED
  BY <1>7 DEF V, S

\* And so do its categories.
LEMMA SharesAddUp ==
    ASSUME Shape, Filled, NEW c
    PROVE  LET shares == {b \in GetCategoryBreakdown : b.currency = c}
           IN  /\ SumFunction([b \in shares |-> b.total]) = SumFunctionOnSet(Either, InCurrency(c))
               /\ SumFunction([b \in shares |-> b.total_income]) = SumFunctionOnSet(In, InCurrency(c))
               /\ SumFunction([b \in shares |-> b.total_expense]) = SumFunctionOnSet(Out, InCurrency(c))
               /\ SumFunction([b \in shares |-> b.count]) = SumFunctionOnSet(One, InCurrency(c))
<1> DEFINE S == InCurrency(c)
           shares == {b \in GetCategoryBreakdown : b.currency = c}
           K == [r \in S |-> ShareOf(r)]
           Vt == [b \in shares |-> b.total]
           Vi == [b \in shares |-> b.total_income]
           Ve == [b \in shares |-> b.total_expense]
           Vc == [b \in shares |-> b.count]
<1>1. S \in SUBSET Counted /\ \A r \in S : content[r].currency = c
  BY DEF InCurrency
<1>2. \A r \in Counted : /\ ShareOf(r).currency = content[r].currency
                         /\ ShareOf(r).category = content[r].category
  BY DEF ShareOf
<1>3. shares = {K[r] : r \in S}
  BY <1>1, <1>2, PanelRows DEF InCurrency
<1>4. ASSUME NEW r \in S
      PROVE  LET G == {q \in S : K[q] = K[r]}
             IN  /\ Vt[K[r]] = SumFunctionOnSet(Either, G)
                 /\ Vi[K[r]] = SumFunctionOnSet(In, G)
                 /\ Ve[K[r]] = SumFunctionOnSet(Out, G)
                 /\ Vc[K[r]] = SumFunctionOnSet(One, G)
  <2>1. {q \in S : K[q] = K[r]} = SameCategory(r)
    <3>1. ASSUME NEW q \in S, content[q].category = content[r].category
          PROVE  ShareOf(q) = ShareOf(r)
      <4>1. SameCategory(q) = SameCategory(r) /\ content[q].currency = content[r].currency
        BY <1>1, <3>1 DEF SameCategory
      <4> QED
        BY <3>1, <4>1 DEF ShareOf
    <3>2. ASSUME NEW q \in S, ShareOf(q) = ShareOf(r)
          PROVE  content[q].category = content[r].category
      BY <1>1, <1>2, <3>2
    <3> QED
      BY <1>1, <3>1, <3>2 DEF SameCategory, InCurrency
  <2>2. /\ Vt[K[r]] = Total(SameCategory(r)) /\ Vi[K[r]] = Income(SameCategory(r))
        /\ Ve[K[r]] = Expense(SameCategory(r)) /\ Vc[K[r]] = Cardinality(SameCategory(r))
    <3>1. K[r] \in shares /\ K[r] = ShareOf(r)
      BY <1>3
    <3> QED
      BY <3>1 DEF ShareOf
  <2>3. SameCategory(r) \in SUBSET Counted
    BY DEF SameCategory
  <2> QED
    BY <2>1, <2>2, <2>3, Totals
<1>5. IsFiniteSet(S) /\ \A F \in {Either, In, Out, One} : IntegersOn(F, S)
  BY <1>1, Totals
<1>6. /\ DOMAIN Vt = {K[r] : r \in S} /\ DOMAIN Vi = {K[r] : r \in S}
      /\ DOMAIN Ve = {K[r] : r \in S} /\ DOMAIN Vc = {K[r] : r \in S}
  BY <1>3
<1> HIDE DEF Vt, Vi, Ve, Vc, K, S
<1>7. SumFunction(Vt) = SumFunctionOnSet(Either, S)
  <2>1. \A r \in S : Vt[K[r]] = SumFunctionOnSet(Either, {q \in S : K[q] = K[r]})
    BY <1>4
  <2> QED
    BY <1>5, <1>6, <2>1, PanelSum
<1>8. SumFunction(Vi) = SumFunctionOnSet(In, S)
  <2>1. \A r \in S : Vi[K[r]] = SumFunctionOnSet(In, {q \in S : K[q] = K[r]})
    BY <1>4
  <2> QED
    BY <1>5, <1>6, <2>1, PanelSum
<1>9. SumFunction(Ve) = SumFunctionOnSet(Out, S)
  <2>1. \A r \in S : Ve[K[r]] = SumFunctionOnSet(Out, {q \in S : K[q] = K[r]})
    BY <1>4
  <2> QED
    BY <1>5, <1>6, <2>1, PanelSum
<1>10. SumFunction(Vc) = SumFunctionOnSet(One, S)
  <2>1. \A r \in S : Vc[K[r]] = SumFunctionOnSet(One, {q \in S : K[q] = K[r]})
    BY <1>4
  <2> QED
    BY <1>5, <1>6, <2>1, PanelSum
<1> QED
  BY <1>7, <1>8, <1>9, <1>10 DEF Vt, Vi, Ve, Vc, S

\* The trail tells the records that are counted, and what their columns keep.
LEMMA TrailTells ==
    ASSUME Shape, Filled, TrailReplays
    PROVE  /\ {r \in Record : TrailLive(r)} = Counted
           /\ \A r \in Counted : \A f \in Columns : content[r][f] = Column(f, LastSetting(r, f))
<1>1. \A r \in Record : r \in Row /\ r \notin User
  BY DisjointAssumption DEF Row
<1>2. {r \in Record : TrailLive(r)} = Counted
  BY <1>1 DEF Counted, TrailReplays
<1>3. ASSUME NEW r \in Counted, NEW f \in Columns PROVE content[r][f] = Column(f, LastSetting(r, f))
  <2>1. r \in Record /\ f \in DOMAIN content[r] /\ Live(r)
    BY OneRecord DEF Counted
  <2> QED
    BY <1>1, <2>1 DEF TrailReplays
<1> QED
  BY <1>2, <1>3

\* What the trail says a currency's balance is, and its turnover.
LEMMA TrailAddsUp ==
    ASSUME Shape, Filled, TrailReplays, NEW c
    PROVE  /\ TrailNet(c) = SumFunctionOnSet(Net, InCurrency(c))
           /\ TrailTotal(c) = SumFunctionOnSet(Either, InCurrency(c))
<1> DEFINE S == InCurrency(c)
           F == [r \in S |-> Signed(LastSetting(r, "type"), Stored(LastSetting(r, "amount")))]
           G == [r \in S |-> Stored(LastSetting(r, "amount"))]
<1>1. /\ {r \in Record : TrailLive(r)} = Counted
      /\ \A r \in Counted : /\ LastSetting(r, "type") = content[r].type
                            /\ Stored(LastSetting(r, "amount")) = content[r].amount
                            /\ LastSetting(r, "currency") = content[r].currency
  BY TrailTells DEF Columns, Column
<1>2. TrailRecords(c) = S
  BY <1>1 DEF TrailRecords, InCurrency
<1>3. S \in SUBSET Counted
  BY DEF InCurrency
<1>4. \A r \in S : Net[r] = F[r] /\ Either[r] = G[r]
  BY <1>1, <1>3 DEF Net, Either
<1>5. TrailNet(c) = SumFunctionOnSet(F, S) /\ TrailTotal(c) = SumFunctionOnSet(G, S)
  BY <1>2 DEF TrailNet, TrailTotal, SumFunction
<1> HIDE DEF F, G, S
<1>6. IsFiniteSet(S) /\ IntegersOn(Net, S) /\ IntegersOn(Either, S)
  BY <1>3, Totals
<1> QED
  BY <1>4, <1>5, <1>6, SumSame DEF S

\* The panels show what the trail says.
LEMMA DashboardMeaning ==
    ASSUME Shape, Filled, TrailReplays
    PROVE  DashboardFromTrail
<1>1. Currencies = {LastSetting(r, "currency") : r \in {r \in Record : TrailLive(r)}}
  <2>1. \A r \in Counted : LastSetting(r, "currency") = content[r].currency
    BY TrailTells DEF Columns, Column
  <2> QED
    BY <2>1, TrailTells DEF Currencies
<1>2. ASSUME NEW c \in Currencies
      PROVE  LET summary == GetSummary[c]
                 trends == {t \in GetTrends : t.currency = c}
                 shares == {b \in GetCategoryBreakdown : b.currency = c}
             IN  /\ summary.net_balance = TrailNet(c)
                 /\ SumFunction([t \in trends |-> t.net]) = summary.net_balance
                 /\ SumFunction([b \in shares |-> b.total]) = TrailTotal(c)
                 /\ SumFunction([b \in shares |-> b.total_income]) = summary.total_income
                 /\ SumFunction([b \in shares |-> b.total_expense]) = summary.total_expenses
                 /\ SumFunction([b \in shares |-> b.count]) = summary.total_records
  <2> DEFINE S == InCurrency(c)
  <2>1. /\ GetSummary[c].total_income = Income(S) /\ GetSummary[c].total_expenses = Expense(S)
        /\ GetSummary[c].net_balance = Income(S) - Expense(S)
        /\ GetSummary[c].total_records = Cardinality(S)
    BY DEF GetSummary, InCurrency
  <2>2. S \in SUBSET Counted
    BY DEF InCurrency
  <2>3. /\ Income(S) = SumFunctionOnSet(In, S) /\ Expense(S) = SumFunctionOnSet(Out, S)
        /\ Income(S) - Expense(S) = SumFunctionOnSet(Net, S)
        /\ Cardinality(S) = SumFunctionOnSet(One, S)
    BY <2>2, Totals
  <2> QED
    BY <2>1, <2>3, TrendsAddUp, SharesAddUp, TrailAddsUp
<1> QED
  BY <1>1, <1>2 DEF DashboardFromTrail

\* The dashboard agrees with itself and with the audit trail, its amounts
\* rounded, in every state of any number of requests.
THEOREM DashboardAgrees == Spec => []DashboardFromTrail
<1>1. Init => Filled
  BY DEF Init, Filled, Row
<1>2. IInv /\ Filled /\ [Next]_vars => Filled'
  BY FilledStep DEF IInv
<1>3. IInv /\ Filled /\ TrailReplays => DashboardFromTrail
  BY DashboardMeaning DEF IInv
<1> QED
  BY <1>1, <1>2, <1>3, Invariance, TrailGivesDataBack, PTL DEF Spec

-----------------------------------------------------------------------------
\* Pages.

\* A list of the elements of a set, each once; its first k elements and the others.
Lists(s, A) ==
    /\ s \in [1 .. Cardinality(A) -> A]
    /\ \A i, j \in 1 .. Cardinality(A) : i # j => s[i] # s[j]
FirstOf(s, k) == {s[i] : i \in {i \in DOMAIN s : i <= k}}
Beyond(s, k) == {s[i] : i \in {i \in DOMAIN s : i > k}}

\* It has all of them, and k elements before the others if it has so many.
LEMMA ListParts ==
    ASSUME NEW A, IsFiniteSet(A), NEW s, Lists(s, A), NEW k \in Nat
    PROVE  /\ Cardinality(A) \in Nat /\ DOMAIN s = 1 .. Cardinality(A)
           /\ \A x \in A : \E i \in DOMAIN s : s[i] = x
           /\ FirstOf(s, k) \cup Beyond(s, k) = A /\ FirstOf(s, k) \cap Beyond(s, k) = {}
           /\ IsFiniteSet(FirstOf(s, k)) /\ Cardinality(FirstOf(s, k)) \in Nat
           /\ Cardinality(FirstOf(s, k)) <= k
           /\ Beyond(s, k) # {} => Cardinality(FirstOf(s, k)) = k
<1> DEFINE n == Cardinality(A)
           D == 1 .. n
           I == {i \in DOMAIN s : i <= k}
           F == FirstOf(s, k)
           f == [i \in I |-> s[i]]
<1>1. n \in Nat /\ IsFiniteSet(D) /\ Cardinality(D) = n
  BY FS_CardinalityType, FS_Interval
<1>2. s \in [D -> A] /\ \A i, j \in D : i # j => s[i] # s[j]
  BY DEF Lists
<1>3. s \in Injection(D, A)
  BY <1>2, Fun_IsInj
<1>4. s \in Surjection(D, A)
  BY <1>1, <1>3, FS_Injection
<1>5. \A x \in A : \E i \in D : s[i] = x
  BY <1>4 DEF Surjection
<1>6. F \cup Beyond(s, k) = A /\ F \cap Beyond(s, k) = {}
  BY <1>1, <1>2, <1>5 DEF FirstOf, Beyond
<1>7. I \subseteq 1 .. k /\ (Beyond(s, k) # {} => I = 1 .. k)
  BY <1>1, <1>2 DEF Beyond
<1>8. /\ IsFiniteSet(1 .. k) /\ Cardinality(1 .. k) = k
      /\ IsFiniteSet(I) /\ Cardinality(I) <= k
  <2>1. IsFiniteSet(1 .. k) /\ Cardinality(1 .. k) = k
    BY FS_Interval
  <2> HIDE DEF I
  <2> QED
    BY <1>7, <2>1, FS_Subset
<1>9. f \in Surjection(I, F) /\ f \in Injection(I, F)
  <2>1. f \in [I -> F] /\ \A x \in F : \E i \in I : f[i] = x
    BY DEF FirstOf
  <2>2. \A i, j \in I : f[i] = f[j] => i = j
    BY <1>2
  <2> HIDE DEF f, I, F
  <2> QED
    BY <2>1, <2>2, Fun_IsSurj, Fun_IsInj
<1>10. IsFiniteSet(F) /\ Cardinality(F) = Cardinality(I)
  <2> HIDE DEF f, I, F
  <2> QED
    BY <1>8, <1>9, FS_Surjection
<1>11. Cardinality(F) \in Nat
  BY <1>10, FS_CardinalityType
<1>12. Beyond(s, k) # {} => Cardinality(F) = k
  BY <1>7, <1>8, <1>10
<1> HIDE DEF I, f
<1> QED
  BY <1>1, <1>2, <1>5, <1>6, <1>8, <1>10, <1>11, <1>12

\* The elements of U are in the same order in two lists.
SameOrder(s, t, U) ==
    \A i, j \in DOMAIN s, a, b \in DOMAIN t :
        s[i] \in U /\ s[j] \in U /\ t[a] = s[i] /\ t[b] = s[j] => (i < j <=> a < b)

\* One who reads the first k of a list and then the others of another one misses
\* no more elements of both than have left or changed their places: those that
\* come before what is missed do so in both lists, and there are k of them.
LEMMA PassedBy ==
    ASSUME NEW A, NEW B, IsFiniteSet(A), IsFiniteSet(B), NEW s, NEW t, Lists(s, A), Lists(t, B),
           NEW k \in Nat, NEW U \in SUBSET (A \cap B), SameOrder(s, t, U)
    PROVE  Cardinality((A \cap B) \ (FirstOf(s, k) \cup Beyond(t, k)))
              <= Cardinality((A \ B) \cup ((A \cap B) \ U))
<1> DEFINE X == (A \cap B) \ (FirstOf(s, k) \cup Beyond(t, k))
           L == (A \ B) \cup ((A \cap B) \ U)
           F == FirstOf(s, k)
           G == FirstOf(t, k)
           Z == F \cap U
<1>1. /\ IsFiniteSet(X) /\ Cardinality(X) \in Nat /\ IsFiniteSet(L) /\ Cardinality(L) \in Nat
  <2>1. X \in SUBSET A /\ L \in SUBSET A
    OBVIOUS
  <2> HIDE DEF X, L
  <2> QED
    BY <2>1, FS_Subset, FS_CardinalityType
<1>2. CASE X \cap U = {}
  <2>1. X \in SUBSET L
    BY <1>2
  <2> HIDE DEF X, L
  <2> QED
    BY <1>1, <2>1, FS_Subset DEF X, L
<1>3. CASE X \cap U # {}
  <2>1. PICK x \in X : x \in U
    BY <1>3
  <2>2. X \subseteq Beyond(s, k) \cap G
    BY ListParts
  <2>3. Beyond(s, k) # {}
    BY <2>1, <2>2
  <2>4. /\ IsFiniteSet(F) /\ Cardinality(F) = k
        /\ IsFiniteSet(G) /\ Cardinality(G) <= k /\ Cardinality(G) \in Nat
    BY <2>3, ListParts
  <2>5. PICK i \in DOMAIN s : s[i] = x /\ i > k
    BY <2>1, <2>2 DEF Beyond
  <2>6. PICK b \in DOMAIN t : t[b] = x /\ b <= k
    BY <2>1, <2>2 DEF FirstOf
  <2>7. ASSUME NEW z \in Z PROVE z \in G
    <3>1. PICK j \in DOMAIN s : s[j] = z /\ j <= k
      BY DEF FirstOf
    <3>2. PICK a \in DOMAIN t : t[a] = z
      BY ListParts
    <3>3. j < i
      BY <2>5, <3>1, ListParts
    <3>4. a < b
      BY <2>1, <2>5, <2>6, <3>1, <3>2, <3>3 DEF SameOrder
    <3>5. a <= k
      BY <2>6, <3>2, <3>4, ListParts
    <3> QED
      BY <3>2, <3>5 DEF FirstOf
  <2>8. Z \cup X \in SUBSET G /\ Z \cap X = {} /\ F \ Z \in SUBSET L
    <3>1. F \subseteq A
      BY ListParts
    <3> QED
      BY <2>2, <2>7, <3>1
  <2> HIDE DEF X, Z, F, G, L
  <2>9. /\ IsFiniteSet(Z) /\ Cardinality(Z) \in Nat
        /\ Cardinality(F \ Z) = Cardinality(F) - Cardinality(Z)
    <3>1. Z \in SUBSET F /\ F \cap Z = Z
      BY DEF Z
    <3>2. IsFiniteSet(Z)
      BY <2>4, <3>1, FS_Subset
    <3>3. Cardinality(F \ Z) = Cardinality(F) - Cardinality(F \cap Z)
      BY <2>4, FS_Difference
    <3> QED
      BY <3>1, <3>2, <3>3, FS_CardinalityType
  <2>10. Cardinality(Z \cup X) = Cardinality(Z) + Cardinality(X)
    <3>1. Cardinality(Z \cup X) = Cardinality(Z) + Cardinality(X) - Cardinality(Z \cap X)
      BY <1>1, <2>9, FS_Union
    <3>2. Cardinality(Z \cap X) = 0
      BY <2>8, FS_EmptySet
    <3> QED
      BY <1>1, <2>9, <3>1, <3>2
  <2>11. Cardinality(Z) + Cardinality(X) <= k
    <3>1. Cardinality(Z \cup X) <= Cardinality(G)
      BY <2>4, <2>8, FS_Subset
    <3> QED
      BY <1>1, <2>4, <2>9, <2>10, <3>1
  <2>12. Cardinality(F \ Z) <= Cardinality(L)
    BY <1>1, <2>8, FS_Subset
  <2>13. Cardinality(X) <= Cardinality(L)
    BY <1>1, <2>4, <2>9, <2>11, <2>12
  <2> QED
    BY <2>13 DEF X, L
<1> QED
  BY <1>2, <1>3

\* And sees no more of them twice than have come or changed their places.
LEMMA SeenTwice ==
    ASSUME NEW A, NEW B, IsFiniteSet(A), IsFiniteSet(B), NEW s, NEW t, Lists(s, A), Lists(t, B),
           NEW k \in Nat, NEW U \in SUBSET (A \cap B), SameOrder(s, t, U)
    PROVE  Cardinality(FirstOf(s, k) \cap Beyond(t, k))
              <= Cardinality((B \ A) \cup ((A \cap B) \ U))
<1>1. SameOrder(t, s, U)
  BY DEF SameOrder
<1>2. B \cap A = A \cap B
  OBVIOUS
<1>3. Cardinality((B \cap A) \ (FirstOf(t, k) \cup Beyond(s, k)))
         <= Cardinality((B \ A) \cup ((B \cap A) \ U))
  BY <1>1, <1>2, PassedBy
<1>4. (B \cap A) \ (FirstOf(t, k) \cup Beyond(s, k)) = FirstOf(s, k) \cap Beyond(t, k)
  <2>1. FirstOf(s, k) \cup Beyond(s, k) = A /\ FirstOf(s, k) \cap Beyond(s, k) = {}
    BY ListParts
  <2>2. FirstOf(t, k) \cup Beyond(t, k) = B /\ FirstOf(t, k) \cap Beyond(t, k) = {}
    BY ListParts
  <2> QED
    BY <2>1, <2>2
<1> QED
  BY <1>2, <1>3, <1>4

\* How many records a page has.
Rows(size) == IF size \in 1 .. LargestSize THEN size ELSE DefaultSize

\* Every position of a list is on one of the first pages or after them.
LEMMA PageOf ==
    ASSUME NEW n \in Nat \ {0}, NEW i \in Nat \ {0}, NEW m \in Nat, i <= m * n
    PROVE  \E a \in 1 .. m : (a - 1) * n + 1 <= i /\ i <= a * n
<1> DEFINE A == {a \in Nat : i <= a * n}
<1>1. m \in A
  OBVIOUS
<1> HIDE DEF A
<1>2. PICK a \in A : \A c \in A : ~(<<c, a>> \in OpToRel(<, Nat))
  <2>1. A \subseteq Nat /\ A # {}
    BY <1>1 DEF A
  <2> QED
    BY <2>1, NatLessThanWellFounded, WFMin
<1>3. a \in Nat /\ i <= a * n /\ \A c \in A : ~(c < a)
  BY <1>2 DEF OpToRel, A
<1>4. a <= m
  BY <1>1, <1>3
<1>5. a # 0
  BY <1>3
<1>6. a - 1 \in Nat /\ ~(i <= (a - 1) * n)
  <2>1. a - 1 \in Nat /\ a - 1 < a
    BY <1>3, <1>5
  <2> QED
    BY <1>3, <2>1 DEF A
<1>7. (a - 1) * n \in Int
  BY <1>6
<1> QED
  BY <1>3, <1>4, <1>5, <1>6, <1>7

\* Products are monotonic.
LEMMA Times == \A a, b, n \in Nat : a <= b => a * n <= b * n
<1> SUFFICES ASSUME NEW a \in Nat, NEW b \in Nat, NEW n \in Nat, a <= b PROVE a * n <= b * n
  OBVIOUS
<1>1. PICK d \in Nat : b = a + d
  <2>1. b - a \in Nat /\ b = a + (b - a)
    OBVIOUS
  <2> QED
    BY <2>1
<1>2. b * n = a * n + d * n
  BY <1>1
<1>3. a * n \in Nat /\ d * n \in Nat
  BY <1>1
<1> QED
  BY <1>2, <1>3

\* Some pages from the first show the first records, the pages after them the
\* others if there are enough.
LEMMA Pages ==
    ASSUME NEW n \in Nat, NEW s, DOMAIN s = 1 .. n, NEW size, NEW p \in Nat
    PROVE  /\ Rows(size) \in Nat \ {0} /\ p * Rows(size) \in Nat
           /\ OnPages(s, 1 .. p, size) = FirstOf(s, p * Rows(size))
           /\ \A last \in Nat : n <= last =>
                 OnPages(s, p + 1 .. last, size) = Beyond(s, p * Rows(size))
<1> DEFINE m == Rows(size)
<1>1. m \in Nat \ {0}
  BY SizeAssumption DEF Rows
<1>2. ASSUME NEW a \in Nat \ {0}
      PROVE  Page(s, a, size) = {s[i] : i \in {i \in 1 .. n : (a - 1) * m + 1 <= i /\ i <= a * m}}
  <2>1. Page(s, a, size) = {s[i] : i \in DOMAIN s \cap ((a - 1) * m + 1 .. a * m)}
    BY DEF Page, Rows
  <2>2. (a - 1) * m \in Int /\ a * m \in Int
    BY <1>1
  <2>3. DOMAIN s \cap ((a - 1) * m + 1 .. a * m)
           = {i \in 1 .. n : (a - 1) * m + 1 <= i /\ i <= a * m}
    <3> HIDE DEF m
    <3> QED
      BY <2>2
  <2> QED
    BY <2>1, <2>3
<1> HIDE DEF m
<1>3. p * m \in Nat
  BY <1>1
<1>4. \A q \in Nat : \A i \in 1 .. n : i <= q * m =>
         \E a \in 1 .. q : (a - 1) * m + 1 <= i /\ i <= a * m
  <2> SUFFICES ASSUME NEW q \in Nat, NEW i \in 1 .. n, i <= q * m
               PROVE  \E a \in 1 .. q : (a - 1) * m + 1 <= i /\ i <= a * m
    OBVIOUS
  <2>1. i \in Nat \ {0}
    OBVIOUS
  <2> QED
    BY <1>1, <2>1, PageOf
<1>5. \A a \in 1 .. p : a * m <= p * m /\ a * m \in Nat
  BY <1>1, Times
<1>6. OnPages(s, 1 .. p, size) = FirstOf(s, p * m)
  <2>1. ASSUME NEW x \in OnPages(s, 1 .. p, size) PROVE x \in FirstOf(s, p * m)
    <3>1. PICK a \in 1 .. p : x \in Page(s, a, size)
      BY DEF OnPages
    <3>2. PICK i \in 1 .. n : x = s[i] /\ i <= a * m
      BY <1>2, <3>1
    <3>3. i <= p * m
      BY <1>3, <1>5, <3>2
    <3> QED
      BY <3>2, <3>3 DEF FirstOf
  <2>2. ASSUME NEW x \in FirstOf(s, p * m) PROVE x \in OnPages(s, 1 .. p, size)
    <3>1. PICK i \in 1 .. n : x = s[i] /\ i <= p * m
      BY DEF FirstOf
    <3>2. PICK a \in 1 .. p : (a - 1) * m + 1 <= i /\ i <= a * m
      BY <1>4, <3>1
    <3>3. x \in Page(s, a, size)
      BY <1>2, <3>1, <3>2
    <3> QED
      BY <3>3 DEF OnPages
  <2> QED
    BY <2>1, <2>2
<1>7. ASSUME NEW last \in Nat, n <= last
      PROVE  OnPages(s, p + 1 .. last, size) = Beyond(s, p * m)
  <2>1. ASSUME NEW x \in OnPages(s, p + 1 .. last, size) PROVE x \in Beyond(s, p * m)
    <3>1. PICK a \in p + 1 .. last : x \in Page(s, a, size)
      BY DEF OnPages
    <3>2. PICK i \in 1 .. n : x = s[i] /\ (a - 1) * m + 1 <= i
      BY <1>2, <3>1
    <3>3. p * m <= (a - 1) * m /\ (a - 1) * m \in Nat
      <4>1. a - 1 \in Nat /\ p <= a - 1
        BY <3>1
      <4> QED
        BY <1>1, <4>1, Times
    <3>4. i > p * m
      BY <1>3, <3>2, <3>3
    <3> QED
      BY <3>2, <3>4 DEF Beyond
  <2>2. ASSUME NEW x \in Beyond(s, p * m) PROVE x \in OnPages(s, p + 1 .. last, size)
    <3>1. PICK i \in 1 .. n : x = s[i] /\ i > p * m
      BY DEF Beyond
    <3>2. i <= last * m
      <4>1. last * 1 <= last * m /\ last * m \in Nat
        <5>1. \A b \in Nat \ {0} : last <= last * b
          <6> SUFFICES ASSUME NEW b \in Nat \ {0} PROVE last <= last * b
            OBVIOUS
          <6>1. 1 * last <= b * last
            BY Times
          <6> QED
            BY <6>1
        <5> QED
          BY <1>1, <5>1
      <4> QED
        BY <1>7, <4>1
    <3>3. PICK a \in 1 .. last : (a - 1) * m + 1 <= i /\ i <= a * m
      BY <1>4, <3>2
    <3>4. a > p
      <4>1. ~(a <= p)
        <5>1. a <= p => a * m <= p * m /\ a * m \in Nat
          BY <1>1, Times
        <5> QED
          BY <1>3, <3>1, <3>3, <5>1
      <4> QED
        BY <4>1
    <3>5. x \in Page(s, a, size)
      BY <1>2, <3>1, <3>3
    <3> QED
      BY <3>4, <3>5 DEF OnPages
  <2> QED
    BY <2>1, <2>2
<1> QED
  BY <1>1, <1>3, <1>6, <1>7 DEF m

\* The dates of what is selected can be compared.
LEMMA Dated ==
    ASSUME Shape, Filled, NEW q
    PROVE  \A r \in Selected(q) : r \in Record /\ Live(r) /\ content[r].date \in Nat
<1> SUFFICES ASSUME NEW r \in Selected(q)
             PROVE  r \in Record /\ Live(r) /\ content[r].date \in Nat
  OBVIOUS
<1>1. r \in Record /\ Live(r) /\ r \in Row
  BY DEF Selected, Row
<1>2. "date" \in DOMAIN content[r]
  BY <1>1 DEF Filled, Columns, Live
<1>3. content[r].date \in Kept("date")
  BY <1>1, <1>2 DEF Shape
<1> QED
  BY <1>1, <1>3, RecordAssumption DEF Kept, Column

\* The same one step later.
LEMMA DatedNext ==
    ASSUME Shape', Filled', NEW q
    PROVE  \A r \in Selected(q)' : r \in Record /\ Live(r)' /\ content'[r].date \in Nat
<1> SUFFICES ASSUME NEW r \in Selected(q)'
             PROVE  r \in Record /\ Live(r)' /\ content'[r].date \in Nat
  OBVIOUS
<1>1. r \in Record /\ Live(r)' /\ r \in Row
  BY DEF Selected, Row
<1>2. "date" \in DOMAIN content'[r]
  BY <1>1 DEF Filled, Columns, Live
<1>3. content'[r].date \in Kept("date")
  BY <1>1, <1>2 DEF Shape
<1> QED
  BY <1>1, <1>3, RecordAssumption DEF Kept, Column

\* What is on both of two pages' lists and was not moved has one order in them.
LEMMA SortedAlike ==
    ASSUME Shape, Filled, Shape', Filled', Untied, Untied', NEW q,
           NEW s \in Orders(Selected(q)), NEW t \in Orders(Selected(q))'
    PROVE  SameOrder(s, t, {r \in Selected(q) \cap Selected(q)' :
                               content[r].date = content'[r].date})
<1> DEFINE U == {r \in Selected(q) \cap Selected(q)' : content[r].date = content'[r].date}
<1>1. DOMAIN s = 1 .. Cardinality(Selected(q)) /\ DOMAIN t = 1 .. Cardinality(Selected(q)')
  BY DEF Orders, SetToSeqs
<1>2. /\ \A i, j \in DOMAIN s : i # j => s[i] # s[j]
      /\ \A i, j \in DOMAIN s : i < j => content[s[i]].date >= content[s[j]].date
  BY DEF Orders, SetToSeqs
<1>3. /\ \A i, j \in DOMAIN t : i # j => t[i] # t[j]
      /\ \A i, j \in DOMAIN t : i < j => content'[t[i]].date >= content'[t[j]].date
  BY DEF Orders, SetToSeqs
<1>4. \A x, y \in U : x # y => /\ content[x].date \in Nat /\ content[y].date \in Nat
                              /\ content[x].date # content[y].date
                              /\ content'[x].date = content[x].date
                              /\ content'[y].date = content[y].date
  BY Dated DEF Untied
<1> SUFFICES ASSUME NEW i \in DOMAIN s, NEW j \in DOMAIN s, NEW a \in DOMAIN t, NEW b \in DOMAIN t,
                    s[i] \in U, s[j] \in U, t[a] = s[i], t[b] = s[j]
             PROVE  i < j <=> a < b
  BY DEF SameOrder
<1>5. /\ s[i] # s[j] => i # j /\ a # b
      /\ i # j => s[i] # s[j]
      /\ a # b => s[i] # s[j]
  BY <1>2, <1>3
<1>6. i \in Int /\ j \in Int /\ a \in Int /\ b \in Int
  <2>1. \A n, k : k \in 1 .. n => k \in Int
    OBVIOUS
  <2> QED
    BY <1>1, <2>1
<1> HIDE DEF U
<1> QED
  BY <1>2, <1>3, <1>4, <1>5, <1>6

\* Turning a page after one step.
LEMMA TurnStep ==
    ASSUME Shape, Filled, Shape', Filled', Untied, Untied', Cardinality(Record) <= LastPage + 1,
           NEW q, NEW s \in Orders(Selected(q)), NEW t \in Orders(Selected(q))',
           NEW size, NEW p \in 1 .. LastPage
    PROVE  LET left == Selected(q) \ Selected(q)'
               came == Selected(q)' \ Selected(q)
               stayed == Selected(q) \cap Selected(q)'
               moved == {r \in stayed : content[r].date # content'[r].date}
               before == OnPages(s, 1 .. p, size)
               after == OnPages(t, p + 1 .. LastPage + 1, size)
           IN  /\ Cardinality(stayed \ (before \cup after)) <= Cardinality(left \cup moved)
               /\ Cardinality(before \cap after) <= Cardinality(came \cup moved)
<1> DEFINE A == Selected(q)
           B == Selected(q)'
           U == {r \in A \cap B : content[r].date = content'[r].date}
           k == p * Rows(size)
<1>1. A \in SUBSET Record /\ B \in SUBSET Record
  BY DEF Selected
<1>2. Lists(s, A) /\ Lists(t, B)
  BY DEF Lists, Orders, SetToSeqs
<1>3. SameOrder(s, t, U)
  BY SortedAlike
<1>4. U \in SUBSET (A \cap B)
  OBVIOUS
<1>5. {r \in A \cap B : content[r].date # content'[r].date} = (A \cap B) \ U
  OBVIOUS
<1> HIDE DEF A, B, U
<1>6. /\ IsFiniteSet(A) /\ Cardinality(A) \in Nat
      /\ IsFiniteSet(B) /\ Cardinality(B) \in Nat /\ Cardinality(B) <= LastPage + 1
      /\ LastPage \in Nat /\ p \in Nat
  <2>1. IsFiniteSet(A) /\ IsFiniteSet(B) /\ Cardinality(B) <= Cardinality(Record)
    BY <1>1, RecordAssumption, FS_Subset
  <2>2. Cardinality(Record) \in Nat /\ Cardinality(A) \in Nat /\ Cardinality(B) \in Nat
    BY <2>1, RecordAssumption, FS_CardinalityType
  <2>3. LastPage \in Nat /\ p \in Nat
    BY LastPageAssumption
  <2> QED
    BY <2>1, <2>2, <2>3
<1>7. DOMAIN s = 1 .. Cardinality(A) /\ DOMAIN t = 1 .. Cardinality(B)
  BY <1>2 DEF Lists
<1>8. k \in Nat /\ OnPages(s, 1 .. p, size) = FirstOf(s, k)
  BY <1>6, <1>7, Pages
<1>9. OnPages(t, p + 1 .. LastPage + 1, size) = Beyond(t, k)
  <2>1. \A last \in Nat : Cardinality(B) <= last => OnPages(t, p + 1 .. last, size) = Beyond(t, k)
    BY <1>6, <1>7, Pages
  <2> HIDE DEF k
  <2> QED
    BY <1>6, <2>1
<1> HIDE DEF k
<1>10. /\ Cardinality((A \cap B) \ (FirstOf(s, k) \cup Beyond(t, k)))
             <= Cardinality((A \ B) \cup ((A \cap B) \ U))
       /\ Cardinality(FirstOf(s, k) \cap Beyond(t, k))
             <= Cardinality((B \ A) \cup ((A \cap B) \ U))
  BY <1>2, <1>3, <1>4, <1>6, <1>8, PassedBy, SeenTwice
<1> QED
  BY <1>5, <1>8, <1>9, <1>10 DEF A, B

\* A client that turns the pages to the end misses no more records that were
\* there all along than left or moved meanwhile, and sees no more of them twice
\* than came or moved: for any records, filters and page sizes.
THEOREM PageTurnsAreExplained == Cardinality(Record) <= LastPage + 1 => (Spec => PageTurns)
<1> SUFFICES ASSUME Cardinality(Record) <= LastPage + 1 PROVE Spec => PageTurns
  OBVIOUS
<1> DEFINE Turn ==
       tables' # tables /\ Untied /\ Untied' =>
           \A q \in Queries : \A s \in Orders(Selected(q)), t \in Orders(Selected(q))' :
               LET left == Selected(q) \ Selected(q)'
                   came == Selected(q)' \ Selected(q)
                   stayed == Selected(q) \cap Selected(q)'
                   moved == {r \in stayed : content[r].date # content'[r].date}
               IN  \A size \in PageSizes, p \in 1 .. LastPage :
                     LET before == OnPages(s, 1 .. p, size)
                         after == OnPages(t, p + 1 .. LastPage + 1, size)
                     IN  /\ Cardinality(stayed \ (before \cup after)) <= Cardinality(left \cup moved)
                         /\ Cardinality(before \cap after) <= Cardinality(came \cup moved)
<1>1. IInv /\ IInv' /\ Filled /\ Filled' => [Turn]_tables
  BY TurnStep DEF IInv
<1>2. Init => Filled
  BY DEF Init, Filled, Row
<1>3. IInv /\ Filled /\ [Next]_vars => Filled'
  BY FilledStep DEF IInv
<1> QED
  BY <1>1, <1>2, <1>3, Invariance, PTL DEF Spec, PageTurns
=============================================================================
