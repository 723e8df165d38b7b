------------------------------ MODULE Records ------------------------------
(***************************************************************************)
(* RecordService, UserService and AuthService.Register on the rows they    *)
(* share: registrations, partial updates, deletions and their audit        *)
(* events, run by several request handlers.                                *)
(*                                                                         *)
(* UpdateRecord and UpdateUser read the row outside the transaction that   *)
(* writes it, DeleteRecord, DeleteUser and Register inside, but without a  *)
(* lock, so any other transaction may commit between the read and the      *)
(* write.  A record is deleted softly, a user physically, and the user's   *)
(* records with it (ON DELETE CASCADE).  An update writes whatever columns *)
(* the body names: it may delete a record softly, or give it to another    *)
(* user.                                                                   *)
(*                                                                         *)
(* gorm takes the name of a column or of the Go field for it, and checks   *)
(* are made of some of the former alone: a column here stands for either   *)
(* spelling.                                                               *)
(***************************************************************************)
EXTENDS Money, Sequences

CONSTANTS
    User, Record,
    Inserts,    \* [Row -> the contents a row may be created with], a record with its user_id
    Updates,    \* [Row -> the bodies of an update: some columns, each with a value]
    Worker,     \* the request handlers
    MaxEvents   \* bound: nothing starts once there are this many audit events

Row == User \cup Record
NoRow == "no row"

\* Contents and bodies are functions from columns to values.
NoChange == [f \in {} |-> f]
Body == {NoChange} \cup UNION {Inserts[r] \cup Updates[r] : r \in Row}
Values(f) == {c[f] : c \in {c \in Body : f \in DOMAIN c}}

\* A record is created for the user in the token; an id that is no user's
\* makes the statement fail.
ASSUME OwnerAssumption ==
    /\ \A r \in Record : \A c \in Inserts[r] : "user_id" \in DOMAIN c
    /\ Values("user_id") \subseteq User
\* No body writes the primary key.
ASSUME KeyAssumption == \A r \in Row : \A c \in Updates[r] : "id" \notin DOMAIN c
ASSUME DisjointAssumption == User \cap Record = {}
ASSUME NoRowAssumption == NoRow \notin Row
ASSUME UserAssumption == \A u \in User : \A c \in Inserts[u] : {"email", "role"} \subseteq DOMAIN c
ASSUME MaxEventsAssumption == MaxEvents \in Nat

VARIABLES
    state,    \* [Row -> {"none", "live", "soft", "gone"}]; soft: deleted_at set
    content,  \* the columns of each row, a function from columns to values
    audit,    \* the audit events, in the order of their commits
    pc,       \* the next statement of each worker
    op,       \* "register", "update" or "delete"
    target,   \* the row it was asked to change
    changes,  \* the body of a registration or of an update
    hit,      \* the rows its statement matched or made, and has locked
    applied,  \* the workers whose last transaction changed a row
    reply     \* the status of the last answer

tables == <<state, content, audit>>
work == <<pc, op, target, changes, hit, applied, reply>>
vars == <<state, content, audit, pc, op, target, changes, hit, applied, reply>>

Live(r) == state[r] = "live"
RecordsOf(u) == {r \in Record : state[r] \in {"live", "soft"} /\ content[r].user_id = u}

Init ==
    /\ state = [r \in Row |-> "none"]
    /\ content = [r \in Row |-> NoChange]
    /\ audit = <<>>
    /\ pc = [w \in Worker |-> "idle"]
    /\ op = [w \in Worker |-> "none"]
    /\ target = [w \in Worker |-> NoRow]
    /\ changes = [w \in Worker |-> NoChange]
    /\ hit = [w \in Worker |-> {}]
    /\ applied = {}
    /\ reply = [w \in Worker |-> "none"]

Event(r, action, c) == [row |-> r, action |-> action, changes |-> c]

\* The event of worker w: that of a registration tells the role alone.
EventOf(w) ==
    IF op[w] = "register" THEN Event(target[w], "create", [role |-> changes[w].role])
    ELSE Event(target[w], op[w], changes[w])

\* Whether another transaction holds one of the rows.
HeldByOther(w, rs) == \E q \in Worker \ {w} : hit[q] \cap rs # {}

\* What a column keeps of the value it is given: an amount is rounded.
Column(f, v) == IF f = "amount" THEN Stored(v) ELSE v

\* The contents b after a statement that writes the columns c.
Overlay(c, b) ==
    [f \in DOMAIN c \cup DOMAIN b |-> IF f \in DOMAIN c THEN Column(f, c[f]) ELSE b[f]]

\* An amount out of the column's range makes the statement fail.
AmountFits(c) == "amount" \in DOMAIN c => Fits(c.amount)

\* An update of a record that sets deleted_at, to a time, deletes it softly.
Hides(r, c) == r \in Record /\ "deleted_at" \in DOMAIN c /\ c.deleted_at # "null"

End(w, code) ==
    /\ pc' = [pc EXCEPT ![w] = "idle"]
    /\ op' = [op EXCEPT ![w] = "none"]
    /\ target' = [target EXCEPT ![w] = NoRow]
    /\ changes' = [changes EXCEPT ![w] = NoChange]
    /\ hit' = [hit EXCEPT ![w] = {}]
    /\ reply' = [reply EXCEPT ![w] = code]

-----------------------------------------------------------------------------
\* The unique index on users.email.

\* The users, other than the row w writes, that have the address in the body of w.
Owners(w) ==
    {u \in User \ {target[w]} : /\ target[w] \in User
                                /\ Live(u)
                                /\ "email" \in DOMAIN changes[w]
                                /\ content[u].email = changes[w].email}

\* An open transaction is about to give the address to a row, or to change or
\* delete the row that has it: the index entry of w waits for its end.
AddressPending(w) ==
    \/ HeldByOther(w, Owners(w))
    \/ \E q \in Worker \ {w} :
          /\ hit[q] # {}
          /\ {target[w], target[q]} \subseteq User
          /\ "email" \in DOMAIN changes[w] \cap DOMAIN changes[q]
          /\ changes[w].email = changes[q].email

\* Mutant: the model has no uniqueIndex tag.
NoIndex(w) == TRUE

\* The index lets the statement of w through.
IndexAdmits(w) == ~AddressPending(w) /\ Owners(w) = {}

-----------------------------------------------------------------------------
\* The foreign key financial_records.user_id: a record that is given an owner
\* takes a share of the lock on the key of the owner's row.

\* The statement of w deletes its user, or changes the user's address, which
\* is a key too.
ChangesKey(w) ==
    \/ op[w] = "delete"
    \/ /\ op[w] = "update" /\ "email" \in DOMAIN changes[w]
       /\ changes[w].email # content[target[w]].email

KeyHolders(u) == {w \in Worker : u \in hit[w] /\ ChangesKey(w)}

\* The body of w gives its record to another user.
Gives(w) ==
    /\ target[w] \in Record /\ "user_id" \in DOMAIN changes[w]
    /\ changes[w].user_id # content[target[w]].user_id

KeySharers(u) == {w \in Worker : hit[w] # {} /\ Gives(w) /\ changes[w].user_id = u}

\* The key lets the statement of w through.
OwnerAdmits(w) ==
    /\ target[w] \in User /\ ChangesKey(w) => KeySharers(target[w]) = {}
    /\ Gives(w) => Live(changes[w].user_id) /\ KeyHolders(changes[w].user_id) = {}

-----------------------------------------------------------------------------
\* CreateRecord: one INSERT and its event, taken at the COMMIT.
CreateRecord(r, c) ==
    /\ r \in Record
    /\ state[r] = "none"
    /\ Live(c.user_id) /\ KeyHolders(c.user_id) = {}
    /\ AmountFits(c)
    /\ Len(audit) < MaxEvents
    /\ state' = [state EXCEPT ![r] = "live"]
    /\ content' = [content EXCEPT ![r] = Overlay(c, NoChange)]
    /\ audit' = Append(audit, Event(r, "create", c))
    /\ UNCHANGED work

\* The first SELECT of UpdateRecord, DeleteRecord, UpdateUser and DeleteUser.
Find(w, kind, r, c) ==
    /\ pc[w] = "idle"
    /\ Len(audit) < MaxEvents
    /\ kind = "delete" => c = NoChange
    /\ Live(r)
    /\ pc' = [pc EXCEPT ![w] = "write"]
    /\ op' = [op EXCEPT ![w] = kind]
    /\ target' = [target EXCEPT ![w] = r]
    /\ changes' = [changes EXCEPT ![w] = c]
    /\ applied' = applied \ {w}
    /\ reply' = [reply EXCEPT ![w] = "none"]
    /\ UNCHANGED <<tables, hit>>

NotFound(w, r) ==
    /\ pc[w] = "idle"
    /\ ~Live(r)
    /\ End(w, "404")
    /\ applied' = applied \ {w}
    /\ UNCHANGED tables

\* Register: the committed rows with this address are counted.  The id of the
\* new user is fresh.
Count(w, u, c) ==
    /\ pc[w] = "idle"
    /\ Len(audit) < MaxEvents
    /\ state[u] = "none" /\ \A q \in Worker : target[q] # u
    /\ IF \E v \in User : Live(v) /\ content[v].email = c.email
       THEN End(w, "409")
       ELSE /\ pc' = [pc EXCEPT ![w] = "write"]
            /\ op' = [op EXCEPT ![w] = "register"]
            /\ target' = [target EXCEPT ![w] = u]
            /\ changes' = [changes EXCEPT ![w] = c]
            /\ reply' = [reply EXCEPT ![w] = "none"]
            /\ UNCHANGED hit
    /\ applied' = applied \ {w}
    /\ UNCHANGED tables

\* What the UPDATE or DELETE of worker w would lock: its row, and the rows
\* the cascade of a user's deletion reaches.
Reach(w) ==
    {target[w]} \cup (IF op[w] = "delete" /\ target[w] \in User THEN RecordsOf(target[w]) ELSE {})

Matched(w) == op[w] = "register" \/ Live(target[w])

\* What else a statement that matches its row asks for.
Admitted(w) == IndexAdmits(w) /\ OwnerAdmits(w) /\ AmountFits(changes[w])

\* Mutant: the write does not wait for locks.
WriteAnyway(w) ==
    /\ pc[w] = "write"
    /\ Matched(w) => Admitted(w)
    /\ hit' = [hit EXCEPT ![w] = IF Matched(w) THEN Reach(w) ELSE {}]
    /\ pc' = [pc EXCEPT ![w] = "log"]
    /\ UNCHANGED <<tables, op, target, changes, applied, reply>>

\* An UPDATE or DELETE waits for the row's lock and then looks at the row
\* again: it matches nothing if the row has been deleted meanwhile, and no
\* error says so.  What it writes must be admitted by index, key and column.
Write(w) ==
    /\ pc[w] = "write"
    /\ ~HeldByOther(w, Reach(w))
    /\ Matched(w) => Admitted(w)
    /\ hit' = [hit EXCEPT ![w] = IF Matched(w) THEN Reach(w) ELSE {}]
    /\ pc' = [pc EXCEPT ![w] = "log"]
    /\ UNCHANGED <<tables, op, target, changes, applied, reply>>

\* Another user has the address by now: a unique violation, answered as an
\* internal error.
Duplicate(w) ==
    /\ pc[w] = "write"
    /\ ~HeldByOther(w, Reach(w)) /\ ~AddressPending(w)
    /\ Matched(w)
    /\ Owners(w) # {}
    /\ End(w, "500")
    /\ UNCHANGED <<tables, applied>>

\* Mutant: the event is written outside the transaction.
LogAtOnce(w) ==
    /\ pc[w] = "log"
    /\ pc' = [pc EXCEPT ![w] = "commit"]
    /\ audit' = Append(audit, EventOf(w))
    /\ UNCHANGED <<state, content, op, target, changes, hit, applied, reply>>

\* LogEvent, in the same transaction, whatever the statement matched.
Log(w) ==
    /\ pc[w] = "log"
    /\ pc' = [pc EXCEPT ![w] = "commit"]
    /\ UNCHANGED <<tables, op, target, changes, hit, applied, reply>>

\* Mutant: a status column in the place of deleted_at.
RemovedByName(w, r) == IF r \in Record /\ target[w] = r THEN "deleted" ELSE "gone"

\* The state of a row after the deletion by w.
Removed(w, r) == IF r \in Record /\ target[w] = r THEN "soft" ELSE "gone"

Commit(w) ==
    /\ pc[w] = "commit"
    /\ state' = [r \in Row |-> IF r \notin hit[w] THEN state[r]
                                ELSE IF op[w] = "delete" THEN Removed(w, r)
                                ELSE IF Hides(r, changes[w]) THEN "soft" ELSE "live"]
    /\ content' = [r \in Row |-> IF r \in hit[w] THEN Overlay(changes[w], content[r])
                                 ELSE content[r]]
    /\ audit' = Append(audit, EventOf(w))
    /\ applied' = IF hit[w] # {} THEN applied \cup {w} ELSE applied
    /\ IF op[w] = "update"
       THEN /\ pc' = [pc EXCEPT ![w] = "refetch"]
            /\ hit' = [hit EXCEPT ![w] = {}]
            /\ UNCHANGED <<op, target, changes, reply>>
       ELSE End(w, IF op[w] = "register" THEN "201" ELSE "200")

\* Mutant: the row in memory is returned without reading it again.
RefetchNothing(w) ==
    /\ pc[w] = "refetch"
    /\ End(w, "200")
    /\ UNCHANGED <<tables, applied>>

\* An update reads the row once more, after its COMMIT, for the answer.
Refetch(w) ==
    /\ pc[w] = "refetch"
    /\ End(w, IF Live(target[w]) THEN "200" ELSE "500")
    /\ UNCHANGED <<tables, applied>>

\* A body that is refused, or a statement that fails: nothing is written.
Fail(w) ==
    /\ pc[w] \in {"write", "log", "commit"}
    /\ \/ pc[w] = "write" /\ op[w] = "update" /\ End(w, "400")
       \/ End(w, "500")
    /\ UNCHANGED <<tables, applied>>

Crash ==
    /\ pc' = [w \in Worker |-> "idle"]
    /\ op' = [w \in Worker |-> "none"]
    /\ target' = [w \in Worker |-> NoRow]
    /\ changes' = [w \in Worker |-> NoChange]
    /\ hit' = [w \in Worker |-> {}]
    /\ applied' = {}
    /\ reply' = [w \in Worker |-> "none"]
    /\ UNCHANGED tables

Next ==
    \/ \E r \in Record : \E c \in Inserts[r] : CreateRecord(r, c)
    \/ \E w \in Worker, u \in User : \E c \in Inserts[u] : Count(w, u, c)
    \/ \E w \in Worker, r \in Row :
          \/ \E c \in Updates[r] : Find(w, "update", r, c)
          \/ Find(w, "delete", r, NoChange)
          \/ NotFound(w, r)
    \/ \E w \in Worker :
          Write(w) \/ Duplicate(w) \/ Log(w) \/ Commit(w) \/ Refetch(w) \/ Fail(w)
    \/ Crash

Spec == Init /\ [][Next]_vars

-----------------------------------------------------------------------------
\* Properties.

TypeOK ==
    /\ state \in [Row -> {"none", "live", "soft", "gone"}]
    /\ DOMAIN content = Row
    /\ \A r \in Row : \A f \in DOMAIN content[r] :
          \E v \in Values(f) : content[r][f] = Column(f, v)
    /\ \A i \in DOMAIN audit :
          /\ audit[i].row \in Row /\ audit[i].action \in {"create", "update", "delete"}
          /\ \A f \in DOMAIN audit[i].changes : audit[i].changes[f] \in Values(f)
    /\ pc \in [Worker -> {"idle", "write", "log", "commit", "refetch"}]
    /\ op \in [Worker -> {"none", "register", "update", "delete"}]
    /\ target \in [Worker -> Row \cup {NoRow}]
    /\ changes \in [Worker -> Body]
    /\ hit \in [Worker -> SUBSET Row]
    /\ applied \subseteq Worker
    /\ reply \in [Worker -> {"none", "200", "201", "400", "404", "409", "500"}]

Recorded(r, action) == \E i \in DOMAIN audit : audit[i].row = r /\ audit[i].action = action

\* The row as the trail tells it: the events that set a column of it, the last
\* value given to the column, the owner before the i-th event, and whether the
\* row exists.
Settings(r, f) == {i \in DOMAIN audit : audit[i].row = r /\ f \in DOMAIN audit[i].changes}
LastSetting(r, f) ==
    LET i == CHOOSE i \in Settings(r, f) : \A j \in Settings(r, f) : j <= i
    IN audit[i].changes[f]
OwnedBefore(r, i, u) ==
    \E j \in Settings(r, "user_id") :
        /\ j < i /\ audit[j].changes.user_id = u
        /\ \A k \in Settings(r, "user_id") : k < i => k <= j
Removes(i, r) ==
    \/ /\ audit[i].row = r
       /\ audit[i].action = "delete" \/ (audit[i].action = "update" /\ Hides(r, audit[i].changes))
    \/ /\ r \in Record
       /\ audit[i].action = "delete" /\ OwnedBefore(r, i, audit[i].row)
TrailLive(r) == Recorded(r, "create") /\ ~\E i \in DOMAIN audit : Removes(i, r)

\* The audit trail alone gives the data back, up to the rounding of the amount
\* column: a row exists exactly if it was created and neither it, nor the owner
\* it had then, was deleted, and each of its columns keeps the value of the
\* last event that set it.  No concurrent partial update is lost or recorded
\* in another order than it took effect, and a record that changes hands while
\* its owners are deleted goes with the right one.  Only what a user registered
\* with, besides the role, is in no event.
TrailReplays ==
    \A r \in Row :
        /\ Live(r) <=> TrailLive(r)
        /\ Live(r) => \A f \in DOMAIN content[r] :
              IF Settings(r, f) = {} THEN r \in User /\ f # "role"
              ELSE content[r][f] = Column(f, LastSetting(r, f))

\* Registrations count before they insert and updates of an address do not
\* even count: an address still belongs to one user at a time, and no two
\* open transactions are about to give it away.
AddressUnique ==
    /\ \A u, v \in User : Live(u) /\ Live(v) /\ content[u].email = content[v].email => u = v
    /\ \A w \in Worker : hit[w] # {} => IndexAdmits(w)

\* Deletion is final although updates use rows they read before it: a record
\* deleted softly is never revived, and a row that is gone never returns.
DeletedStaysDeleted ==
    [][\A r \in Row : /\ state[r] = "soft" => state'[r] \in {"soft", "gone"}
                      /\ state[r] = "gone" => state'[r] = "gone"]_vars

\* An update that is answered with 200 has changed a row by its own
\* transaction.  The row may vanish between the read and the write, and then
\* the second read tells.  Nothing tells the caller of a deletion: the second
\* of two that overlap changes nothing and is answered with 200.
UpdateAnswersTrue ==
    [][\A w \in Worker : pc[w] = "refetch" /\ reply'[w] = "200" => w \in applied]_vars
=============================================================================
