---------------------------- MODULE BookReports ----------------------------
(***************************************************************************)
(* The read models of persistence.py for one book: trial balances, the     *)
(* four financial statements and the working papers, as operators on a     *)
(* state s of the book:                                                    *)
(*   journals   the journals posted, by entry and period                   *)
(*   status     open, book_closed or hard_closed, of each period           *)
(*   snapshots  the trial balance stored by each hard close                *)
(* A period is its number; journals are dated at the end of their period.  *)
(***************************************************************************)
EXTENDS Integers, Sequences, SequencesExt, FiniteSetsExt

CONSTANTS Periods,     \* 1..n, in order
          Year,        \* the fiscal year of each period
          EndDay,      \* period_end_date of each period, as a day number
          Accounts,    \* chart_account_code
          Class,       \* account_class_code of each account
          RoleOf,      \* the account_role_mapping of each account
          Entries,     \* what journals book: [ref, key, lines]
          NoSnapshot   \* a model value: the period was never hard-closed

\* The commercial document that an idempotency key names, if any.
KeyKinds == {"none", "invoice_draft", "issued_invoice_void", "unapplied_cash",
             "unapplied_cash_application", "unapplied_cash_refund"}

ASSUME CalendarAssumption ==
    /\ IsFiniteSet(Periods) /\ Periods = 1..Cardinality(Periods)
    /\ \A p \in Periods : Year[p] \in Int /\ EndDay[p] \in Int
    /\ \A p, q \in Periods : p < q => Year[p] <= Year[q] /\ EndDay[p] < EndDay[q]
\* The catalog has a cash and a retained-earnings account, one account each for
\* leftover cash and for VAT, and the two income roles are those of its income
\* accounts.
ASSUME CatalogAssumption ==
    /\ IsFiniteSet(Accounts) /\ {"110200", "210100", "210200", "310100"} \subseteq Accounts
    /\ Class["110200"] = "asset" /\ Class["310100"] = "equity"
    /\ Class["210100"] = "liability" /\ Class["210200"] = "liability"
    /\ \A a \in Accounts : /\ RoleOf[a] = "tax_payable" <=> a = "210100"
                           /\ RoleOf[a] = "unapplied_cash" <=> a = "210200"
    /\ \A a \in Accounts :
         /\ Class[a] \in {"asset", "liability", "equity", "revenue", "expense"}
         /\ Class[a] \in {"revenue", "expense"} <=>
               RoleOf[a] \in {"usage_revenue", "write_off_expense"}
Line == [account : Accounts, role : {RoleOf[a] : a \in Accounts} \cup {"adjusting"},
         debit : Nat, credit : Nat]
\* A line is on the account of its role, unless it adjusts, and on one side.
Booked(x) == /\ x.role \in {RoleOf[x.account], "adjusting"}
             /\ x.debit = 0 <=> x.credit # 0
\* Documents have even numbers (ReportRequests).  Every journal balances (the
\* schema's deferred trigger), and no two of its lines are equal.
ASSUME EntriesAssumption ==
    \A e \in Entries :
        /\ e.ref \in Nat \ {0} /\ e.ref % 2 = 0
        /\ e.key \in KeyKinds
        /\ e.lines \subseteq Line /\ IsFiniteSet(e.lines)
        /\ \A x \in e.lines : Booked(x)
        /\ MapThenSumSet(LAMBDA x : x.debit - x.credit, e.lines) = 0

Zero == [debit |-> 0, credit |-> 0]
Net(sides) == sides.debit - sides.credit
Plus(a, b) == [debit |-> a.debit + b.debit, credit |-> a.credit + b.credit]
Larger(a, b) == IF a > b THEN a ELSE b
Smaller(a, b) == IF a < b THEN a ELSE b

\* The totals of one account over the lines of journals.
Sides(journals, account) ==
    LET lines == UNION {{<<j.ref, x>> : x \in {y \in j.lines : y.account = account}} :
                           j \in journals}
    IN  [debit |-> MapThenSumSet(LAMBDA l : l[2].debit, lines),
         credit |-> MapThenSumSet(LAMBDA l : l[2].credit, lines)]
Totals(journals) == [a \in Accounts |-> Sides(journals, a)]
SumNet(totals, accounts) == MapThenSumSet(LAMBDA a : Net(totals[a]), accounts)

Through(s, p) == {j \in s.journals : j.period <= p}
Within(s, periods) == {j \in s.journals : j.period \in periods}
\* journal_reference NOT LIKE _CLOSING_JOURNAL_PATTERN
Operational(journals) == {j \in journals : ~j.closing}
OfClass(classes) == {a \in Accounts : Class[a] \in classes}
Income == OfClass({"revenue", "expense"})

-----------------------------------------------------------------------------
(* Closing *)

\* MUTANT: only revenue is closed.
ClosingRolesRevenueOnly == {"usage_revenue"}
ClosingRoles == {"usage_revenue", "write_off_expense"}
\* The balances of the two income roles, moved to retained earnings.
ClosingLines(s, p) ==
    LET balance(a) == -Net(Sides(Through(s, p), a))
        closed == {a \in Accounts : RoleOf[a] \in ClosingRoles}
        parked == MapThenSumSet(balance, closed)
        line(a, amount) == [account |-> a, role |-> RoleOf[a],
                            debit |-> Larger(amount, 0), credit |-> Larger(-amount, 0)]
    IN  {line(a, balance(a)) : a \in {b \in closed : balance(b) # 0}}
        \cup {line("310100", -x) : x \in {parked} \ {0}}

\* The calendar says hard_closed once every book of the tenant is; until then a
\* book that closed is book_closed, and soft_closed periods read as open ones.
HardClosed(s, p) == s.status[p] = "hard_closed"

-----------------------------------------------------------------------------
(* Trial balances *)

Live(s, p) == Totals(Through(s, p))
Adjusted(s, p) == Totals(Operational(Through(s, p)))
\* No balance_basis_code: the calendar's status chooses the source.
TrialBalance(s, p) == IF HardClosed(s, p) THEN s.snapshots[p].totals ELSE Live(s, p)

\* _statement_period_ids
Scope(p, scope) ==
    IF scope = "period" THEN {p} ELSE {q \in 1..p : Year[q] = Year[p]}
ScopeStart(p, scope) == CHOOSE q \in Scope(p, scope) : \A r \in Scope(p, scope) : q <= r

\* MUTANT: any stored snapshot opens a scope, whichever period it closed.
OpeningAnySnapshot(s, p) ==
    LET closed == {q \in Periods : s.snapshots[q] # NoSnapshot}
    IN  IF closed = {} THEN Live(s, p - 1)
        ELSE s.snapshots[CHOOSE q \in closed : \A r \in closed : r <= q].totals
\* The balances before period p: those of the last hard close, or live ones.
Opening(s, p) ==
    LET closed == {q \in 1..(p - 1) : HardClosed(s, q)}
    IN  IF closed = {} THEN Live(s, p - 1)
        ELSE s.snapshots[CHOOSE q \in closed : \A r \in closed : r <= q].totals

-----------------------------------------------------------------------------
(* Financial statements *)

\* _load_operational_income_lines, credit-normal.
NetIncome(s, p, scope) == -SumNet(Totals(Operational(Within(s, Scope(p, scope)))), Income)

\* The balance sheet is always of the period scope.
BalanceSheet(s, p) ==
    LET tb == TrialBalance(s, p)
    IN  [assets |-> SumNet(tb, OfClass({"asset"})),
         liabilities |-> -SumNet(tb, OfClass({"liability"})),
         equity |-> -SumNet(tb, OfClass({"equity"})),
         cash |-> Net(tb["110200"]),
         income |-> IF HardClosed(s, p) THEN 0 ELSE NetIncome(s, p, "period")]

ScopeTotals(s, p, scope) == Totals(Operational(Within(s, Scope(p, scope))))

ChangesInEquity(s, p, scope) ==
    LET opening == -SumNet(Opening(s, ScopeStart(p, scope)), OfClass({"equity"}))
        income == NetIncome(s, p, scope)
        other == -SumNet(ScopeTotals(s, p, scope), OfClass({"equity"}))
    IN  [opening |-> opening, income |-> income, other |-> other,
         closing |-> opening + income + other]

CashFlow(s, p, scope) ==
    LET opening == Net(Opening(s, ScopeStart(p, scope))["110200"])
        working == -SumNet(ScopeTotals(s, p, scope),
                           OfClass({"asset", "liability"}) \ {"110200"})
        operations == NetIncome(s, p, scope) + working
        financing == -SumNet(ScopeTotals(s, p, scope), OfClass({"equity"}))
    IN  [opening |-> opening, operations |-> operations, financing |-> financing,
         closing |-> opening + operations + financing]

-----------------------------------------------------------------------------
(* Working papers *)

Rollforward(s, p, account, scope) ==
    LET opening == Opening(s, ScopeStart(p, scope))[account]
        moved == Sides(Within(s, Scope(p, scope)), account)
    IN  [opening |-> opening, period |-> moved, closing |-> Plus(opening, moved)]

Roles(j, side) == {x.role : x \in {y \in j.lines : y[side] > 0}}

\* MUTANT: the pattern of the parking key matches every leftover-cash key.
CashMovementByPrefix(j) ==
    IF j.key \in {"unapplied_cash", "unapplied_cash_application", "unapplied_cash_refund"}
    THEN "parked" ELSE "other"
\* _unapplied_cash_movement_kind: the key names a kind, or the roles do.
CashMovement(j) ==
    LET from == Roles(j, "debit")  to == Roles(j, "credit")
        pair(a, b) == a \in from /\ b \in to
    IN  IF j.key = "unapplied_cash_application"
           \/ pair("unapplied_cash", "accounts_receivable") THEN "applied"
        ELSE IF j.key = "unapplied_cash_refund"
                \/ pair("unapplied_cash", "cash_receipt") THEN "refunded"
        ELSE IF j.key = "unapplied_cash"
                \/ pair("cash_receipt", "unapplied_cash") THEN "parked"
        ELSE "other"

\* _vat_period_movement_kind: the void pattern is tried first.
VatMovement(j) ==
    LET from == Roles(j, "debit")  to == Roles(j, "credit")
        sale == {"tax_payable", "usage_revenue"}
        reversed == sale \subseteq from /\ "accounts_receivable" \in to
        sold == sale \subseteq to /\ "accounts_receivable" \in from
    IN  IF j.key = "issued_invoice_void" \/ reversed THEN "voided"
        ELSE IF j.key = "invoice_draft" \/ sold THEN "issued"
        ELSE "other"

\* The sides of an account over the journals of one kind of movement.
Moved(journals, account, Kind(_), kind) ==
    Sides({j \in Operational(journals) : Kind(j) = kind}, account)

UnappliedCash(s, p) ==
    LET moved(kind) == Moved(Within(s, {p}), "210200", CashMovement, kind)
        opening == -Net(Opening(s, p)["210200"])
        parked == moved("parked").credit
        applied == moved("applied").debit
        refunded == moved("refunded").debit
        other == -Net(moved("other"))
    IN  [opening |-> opening, parked |-> parked, applied |-> applied,
         refunded |-> refunded, other |-> other,
         closing |-> opening + parked - applied - refunded + other]

VatRegister(s, p) ==
    LET moved(kind) == Moved(Through(s, p), "210100", VatMovement, kind)
        issued == moved("issued").credit
        voided == moved("voided").debit
        other == -Net(moved("other"))
    IN  [issued |-> issued, voided |-> voided, other |-> other,
         closing |-> issued - voided + other]

-----------------------------------------------------------------------------
(* Aging: receivables grow by debits, payables by credits *)

Growth(line, growing) == IF growing = "debit" THEN line.debit ELSE line.credit
Decline(line, growing) == IF growing = "debit" THEN line.credit ELSE line.debit

AgingRows(s, p, account, growing) ==
    UNION {{[day |-> EndDay[j.period], ref |-> j.ref, role |-> x.role,
             up |-> Growth(x, growing), down |-> Decline(x, growing)] :
               x \in {y \in j.lines : y.account = account}} :
              j \in Operational(Through(s, p))}

\* MUTANT: ORDER BY accounting_date, journal_reference.
AgesBeforeByReference(a, b) == a.day < b.day \/ (a.day = b.day /\ a.ref < b.ref)
\* ORDER BY accounting_date, increases first, journal_reference.
AgesBefore(a, b) ==
    LET rank(r) == IF r.up > 0 THEN 0 ELSE 1
    IN  \/ a.day < b.day
        \/ a.day = b.day /\ rank(a) < rank(b)
        \/ a.day = b.day /\ rank(a) = rank(b) /\ a.ref < b.ref
\* Lines have no number here: those of one journal are due on one day, and either
\* order leaves the same in every bucket.
InOrderOfAge(rows) ==
    CHOOSE lines \in SetToSeqs(rows) :
        \A i, k \in DOMAIN lines : i < k => ~AgesBefore(lines[k], lines[i])

\* A decrease consumes the open items from the oldest; its excess is dropped.
\* open: what is left of the item of each line, 0 once it is settled.
Settle(open, decrease) ==
    LET left[i \in {0} \cup DOMAIN open] ==
            IF i = 0 THEN decrease ELSE left[i - 1] - Smaller(open[i], left[i - 1])
    IN  [i \in DOMAIN open |-> open[i] - Smaller(open[i], left[i - 1])]

\* _fifo_aging_open_items, over the first k of the lines.
OpenItems(lines) ==
    LET open[k \in {0} \cup DOMAIN lines] ==
            IF k = 0 THEN [i \in DOMAIN lines |-> 0]
            ELSE IF lines[k].up > 0 THEN [open[k - 1] EXCEPT ![k] = lines[k].up]
            ELSE Settle(open[k - 1], lines[k].down)
    IN  open[Len(lines)]

\* _receivable_aging_bucket
Bucket(days) == CASE days <= 30 -> "current"
                  [] days \in 31..60 -> "days_31_60"
                  [] days \in 61..90 -> "days_61_90"
                  [] OTHER -> "days_over_90"
Buckets == {"current", "days_31_60", "days_61_90", "days_over_90"}

Aging(s, p, account, growing) ==
    LET rows == AgingRows(s, p, account, growing)
        lines == InOrderOfAge(rows)
        open == OpenItems(lines)
        amount(i) == open[i]
        within(b) == {i \in DOMAIN lines : Bucket(EndDay[p] - lines[i].day) = b}
        credit == MapThenSumSet(LAMBDA r : r.down - r.up, rows)
    IN  [outstanding |-> [b \in Buckets |-> MapThenSumSet(amount, within(b))],
         unapplied |-> Larger(credit, 0)]
=============================================================================
