---------------------------- MODULE RecordReads -----------------------------
(***************************************************************************)
(* What is read of the records: the pages of GetRecords and the three      *)
(* panels of the dashboard.  Each is one or two SELECTs and changes        *)
(* nothing, so they are operators on the state of Records; a client that   *)
(* turns pages puts together what it is shown in different states.         *)
(*                                                                         *)
(* A date is a number of which the last digit is the day and the others    *)
(* are the month.                                                          *)
(***************************************************************************)
EXTENDS Records, FiniteSets, FiniteSetsExt, SequencesExt

CONSTANTS
    Queries,     \* the filters clients use: functions from names to values
    PageSizes,   \* the page sizes they ask for
    LastPage,    \* bound on the pages they turn
    DefaultSize, \* page size of a request that asks for none, or for too much
    LargestSize

ASSUME SizeAssumption ==
    LargestSize \in Nat /\ DefaultSize \in 1 .. LargestSize /\ PageSizes \subseteq Int
ASSUME LastPageAssumption == LastPage \in Nat

\* CreateRecord refuses a record without these, of another type, or not above
\* zero.  UpdateRecord checks type, amount and currency under the names of the
\* columns but not of the fields: what an update writes is any number, a type
\* of any name, a date.
Columns == {"type", "amount", "currency", "date", "category"}
ASSUME RecordAssumption ==
    /\ IsFiniteSet(Record)
    /\ \A r \in Record : \A c \in Inserts[r] :
          Columns \subseteq DOMAIN c /\ c.type \in {"income", "expense"} /\ c.amount > 0
    /\ Values("amount") \subseteq Int /\ Values("date") \subseteq Nat

-----------------------------------------------------------------------------
\* GetRecords.

\* Viewers are given user_id as a filter; the others choose.
Matches(r, q) ==
    /\ \A f \in {"type", "category"} \cap DOMAIN q : content[r][f] = q[f]
    /\ "start_date" \in DOMAIN q => content[r].date >= q.start_date
    /\ "end_date" \in DOMAIN q => content[r].date <= q.end_date
    /\ "user_id" \in DOMAIN q => content[r].user_id = q.user_id

Selected(q) == {r \in Record : Live(r) /\ Matches(r, q)}

\* ORDER BY date DESC: rows with one date come in any order, and in another
\* one the next time.
Orders(S) ==
    {s \in SetToSeqs(S) :
        \A i, j \in DOMAIN s : i < j => content[s[i]].date >= content[s[j]].date}

\* Mutant: the offset counts pages from zero.
PageFromZero(s, page, size) ==
    LET n == IF size \in 1 .. LargestSize THEN size ELSE DefaultSize
        p == IF page < 1 THEN 1 ELSE page
    IN  {s[i] : i \in DOMAIN s \cap (p * n + 1 .. (p + 1) * n)}

\* The rows of one page of a list in the order s.
Page(s, page, size) ==
    LET n == IF size \in 1 .. LargestSize THEN size ELSE DefaultSize
        p == IF page < 1 THEN 1 ELSE page
    IN  {s[i] : i \in DOMAIN s \cap ((p - 1) * n + 1 .. p * n)}

\* What is on some pages of a list in the order s.
OnPages(s, pages, size) == UNION {Page(s, p, size) : p \in pages}

-----------------------------------------------------------------------------
\* DashboardService.

Income(S) == SumFunction([r \in S |-> IF content[r].type = "income" THEN content[r].amount ELSE 0])
Expense(S) == SumFunction([r \in S |-> IF content[r].type = "expense" THEN content[r].amount ELSE 0])
Total(S) == SumFunction([r \in S |-> content[r].amount])

\* gorm adds deleted_at IS NULL to each of the queries.
Counted == {r \in Record : Live(r)}
Month(r) == content[r].date \div 10
Currencies == {content[r].currency : r \in Counted}

GetSummary ==
    [c \in Currencies |->
        LET S == {r \in Counted : content[r].currency = c}
        IN  [total_income |-> Income(S), total_expenses |-> Expense(S),
             net_balance |-> Income(S) - Expense(S), total_records |-> Cardinality(S)]]

\* Mutant: grouped by month alone, with the currency of one of the rows.
TrendsByMonth ==
    {LET S == {r \in Counted : Month(r) = m}
     IN  [currency |-> content[CHOOSE r \in S : TRUE].currency, month |-> m, income |-> Income(S),
          expense |-> Expense(S), net |-> Income(S) - Expense(S)] : m \in {Month(r) : r \in Counted}}

GetTrends ==
    {LET S == {r \in Counted : content[r].currency = g[1] /\ Month(r) = g[2]}
     IN  [currency |-> g[1], month |-> g[2], income |-> Income(S),
          expense |-> Expense(S), net |-> Income(S) - Expense(S)] :
        g \in {<<content[r].currency, Month(r)>> : r \in Counted}}

GetCategoryBreakdown ==
    {LET S == {r \in Counted : content[r].currency = g[1] /\ content[r].category = g[2]}
     IN  [currency |-> g[1], category |-> g[2], total_income |-> Income(S),
          total_expense |-> Expense(S), total |-> Total(S), count |-> Cardinality(S)] :
        g \in {<<content[r].currency, content[r].category>> : r \in Counted}}

-----------------------------------------------------------------------------
\* Properties.

Untied == \A r, s \in Record : Live(r) /\ Live(s) /\ content[r].date = content[s].date => r = s

\* A client that has read the pages up to p and reads the others after one
\* more transaction misses a record that was there all along only if a record
\* left the list or moved in it, one for each, and sees one twice only if a
\* record came or moved; a transaction that leaves the list alone costs
\* nothing.  For records of different dates: among equal dates PostgreSQL
\* promises no order.
PageTurns ==
    [][tables' # tables /\ Untied /\ Untied' =>
        \A q \in Queries : \A s \in Orders(Selected(q)), t \in Orders(Selected(q))' :
            LET left == Selected(q) \ Selected(q)'
                came == Selected(q)' \ Selected(q)
                stayed == Selected(q) \cap Selected(q)'
                moved == {r \in stayed : content[r].date # content'[r].date}
            IN  \A size \in PageSizes, p \in 1 .. LastPage :
                  LET before == OnPages(s, 1 .. p, size)
                      after == OnPages(t, p + 1 .. LastPage + 1, size)
                  IN  /\ Cardinality(stayed \ (before \cup after)) <= Cardinality(left \cup moved)
                      /\ Cardinality(before \cap after) <= Cardinality(came \cup moved)]_tables

TrailRecords(c) == {r \in Record : TrailLive(r) /\ LastSetting(r, "currency") = c}
Signed(type, x) == IF type = "income" THEN x ELSE IF type = "expense" THEN -x ELSE 0
TrailNet(c) ==
    SumFunction([r \in TrailRecords(c) |->
                    Signed(LastSetting(r, "type"), Stored(LastSetting(r, "amount")))])
TrailTotal(c) == SumFunction([r \in TrailRecords(c) |-> Stored(LastSetting(r, "amount"))])

\* The panels of the dashboard agree with each other, per currency, and with
\* what the audit trail alone yields once its amounts are rounded as the column
\* rounds them: nothing deleted is counted, nothing is counted twice or in the
\* wrong group, after any partial updates.  A record of neither type, as an
\* update may leave one, counts in the total of its category and nowhere else.
DashboardFromTrail ==
    /\ Currencies = {LastSetting(r, "currency") : r \in {r \in Record : TrailLive(r)}}
    /\ \A c \in Currencies :
          LET summary == GetSummary[c]
              trends == {t \in GetTrends : t.currency = c}
              shares == {b \in GetCategoryBreakdown : b.currency = c}
          IN  /\ summary.net_balance = TrailNet(c)
              /\ SumFunction([t \in trends |-> t.net]) = summary.net_balance
              /\ SumFunction([b \in shares |-> b.total]) = TrailTotal(c)
              /\ SumFunction([b \in shares |-> b.total_income]) = summary.total_income
              /\ SumFunction([b \in shares |-> b.total_expense]) = summary.total_expenses
              /\ SumFunction([b \in shares |-> b.count]) = summary.total_records
=============================================================================
