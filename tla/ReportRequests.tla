-------------------------- MODULE ReportRequests --------------------------
(***************************************************************************)
(* One book under change, and the requests that report on it.  Commands    *)
(* post, reverse and close in transactions of their own.  A package loads  *)
(* every document in one REPEATABLE READ transaction; a HomeTax filing     *)
(* reads the VAT register in one transaction and persists its receipt in   *)
(* a second one, and filings overlap.                                      *)
(***************************************************************************)
EXTENDS BookReports

CONSTANTS Filers,                 \* the sessions that file with HomeTax
          FilingKeys, Evidence,   \* HomeTax idempotency keys, source hashes
          ReversalKeys,           \* bound: what the keys of reversals name
          ReportedPeriods,        \* bound: the periods that requests name
          MaxJournals,            \* bound: operational journals and receipts
          MaxWrites,              \* bound: operational journals and hard closes
          MaxReported             \* bound: such journals when a request begins

ASSUME ReportedAssumption ==
    ReportedPeriods \subseteq Periods /\ ReversalKeys \subseteq KeyKinds

VARIABLES book,      \* the book: [journals, status, snapshots]
          request,   \* the package being served, or its answer
          filings,   \* the filing of each session, or its answer
          receipts   \* home_tax_submission rows, committed
vars == <<book, request, filings, receipts>>

Idle == [kind |-> "idle"]
Scopes == {"period", "year_to_date"}

Init == /\ book = [journals |-> {},
                   status |-> [p \in Periods |-> "open"],
                   snapshots |-> [p \in Periods |-> NoSnapshot]]
        /\ request = Idle
        /\ filings = [f \in Filers |-> Idle]
        /\ receipts = {}

-----------------------------------------------------------------------------
(* Commands of the posting store *)

\* journal_reference, as a number that sorts as the reference does: documents
\* have even numbers, and a reversal's reference extends its original's.
ReversalOf(ref) == ref + 1
ClosingRef(p) == -p

\* Bound: one command commits while a package is assembled, and one while a
\* filing is between its transactions.
UpToDate(r, kind) == r = Idle \/ (r.kind = kind /\ r.view = book)
Overlaps == /\ UpToDate(request, "package")
            /\ \A f \in Filers : UpToDate(filings[f], "filing")
Commit(new) == /\ Overlaps
               /\ book' = new
               /\ UNCHANGED <<request, filings, receipts>>
Journals == Cardinality(Operational(book.journals))
Closes == Cardinality({p \in Periods : book.status[p] # "open"})
Write(journal) == /\ Journals + Cardinality(receipts) < MaxJournals
                  /\ Journals + Closes < MaxWrites
                  /\ Commit([book EXCEPT !.journals = @ \cup {journal}])

PostJournal(e, p) ==
    /\ book.status[p] = "open"
    /\ \A j \in book.journals : j.ref # e.ref
    /\ Write([ref |-> e.ref, period |-> p, key |-> e.key, lines |-> e.lines,
              closing |-> FALSE, reverses |-> 0])

Swapped(lines) ==
    {[x EXCEPT !.debit = x.credit, !.credit = x.debit] : x \in lines}
\* A reversal has a key of its own, which the caller may choose.
ReverseJournal(j, p, key) ==
    /\ ~j.closing /\ j.reverses = 0
    /\ \A k \in book.journals : k.reverses # j.ref
    /\ j.period <= p /\ book.status[p] = "open"
    /\ Write([ref |-> ReversalOf(j.ref), period |-> p, key |-> key,
              lines |-> Swapped(j.lines), closing |-> FALSE, reverses |-> j.ref])

\* The closing journal and the snapshot commit together.  last: whether the
\* tenant's other books are hard-closed for the period already.
HardClose(p, last) ==
    LET lines == ClosingLines(book, p)
        closing == {[ref |-> ClosingRef(p), period |-> p, key |-> "none", lines |-> x,
                     closing |-> TRUE, reverses |-> 0] : x \in {lines} \ {{}}}
        closed == [book EXCEPT !.journals = @ \cup closing,
                               !.status[p] = IF last THEN "hard_closed" ELSE "book_closed"]
    IN  /\ book.status[p] = "open"
        /\ Journals + Closes < MaxWrites
        /\ Commit([closed EXCEPT !.snapshots[p] =
                      [totals |-> Live(closed, p),
                       before |-> {q \in Periods : book.status[q] # "open"}]])
\* The last of the other books closes: the calendar's status follows.
OthersClose(p) ==
    /\ book.status[p] = "book_closed"
    /\ Commit([book EXCEPT !.status[p] = "hard_closed"])

-----------------------------------------------------------------------------
(* Requests *)

\* The transaction of a request that reads sees the book as its first query did.
\* Bound: a package begins while no filing is under way, and a filing while no
\* package is.
Begins == request = Idle /\ Journals <= MaxReported

-----------------------------------------------------------------------------
(* Packages *)

Documents(s, p, scope) ==
    [income_statement |-> NetIncome(s, p, scope),
     balance_sheet |-> BalanceSheet(s, p),
     changes_in_equity |-> ChangesInEquity(s, p, scope),
     cash_flow |-> CashFlow(s, p, scope)]

BeginPackage(p, scope) ==
    /\ Begins /\ \A f \in Filers : filings[f] = Idle
    /\ request' = [kind |-> "package", period |-> p, scope |-> scope, view |-> book]
    /\ UNCHANGED <<book, filings, receipts>>

\* MUTANT: READ COMMITTED, the statements loaded last see later commits.
AssembledFrom(r) ==
    LET early == Documents(r.view, r.period, r.scope)
        late == Documents(book, r.period, r.scope)
    IN  [early EXCEPT !.changes_in_equity = late.changes_in_equity,
                      !.cash_flow = late.cash_flow]
Assembled(r) == Documents(r.view, r.period, r.scope)
EndPackage ==
    /\ request.kind = "package"
    /\ request' = [kind |-> "packaged", period |-> request.period,
                   scope |-> request.scope, view |-> request.view,
                   documents |-> Assembled(request)]
    /\ UNCHANGED <<book, filings, receipts>>
\* The answer is delivered, or the process dies before it is.
Respond == /\ request # Idle
           /\ request' = Idle
           /\ UNCHANGED <<book, filings, receipts>>

-----------------------------------------------------------------------------
(* HomeTax filings *)

Sets(f, r) == filings' = [filings EXCEPT ![f] = r]

\* accept_home_tax_submission: the register, then the reason of the refusal.
BeginFiling(f, k, h, p) ==
    /\ Begins /\ filings[f] = Idle
    /\ \E reason \in {"hometax_credential_missing", "hometax_transport_unavailable"} :
         Sets(f, [kind |-> "filing", key |-> k, hash |-> h, period |-> p, view |-> book,
                  register |-> VatRegister(book, p), reason |-> reason])
    /\ UNCHANGED <<book, request, receipts>>

Filed(k) == {r \in receipts : r.key = k}
Receipt(r) == [key |-> r.key, hash |-> r.hash, period |-> r.period,
               register |-> r.register, reason |-> r.reason]
SameFiling(old, r) == /\ old.register = r.register
                      /\ old.hash = r.hash
                      /\ old.period = r.period

Answer(r, reason) == [kind |-> "filed", key |-> r.key, period |-> r.period,
                       register |-> r.register, reason |-> reason]

\* MUTANT: no lock of the key, and no row of it that is waited for.
KeyHeldNever(f) == FALSE
\* Another session holds the advisory lock of the key, and has its row inserted
\* and not committed yet.
KeyHeld(f) == \E g \in Filers \ {f} :
                  filings[g].kind = "inserted" /\ filings[g].key = filings[f].key

\* persist_home_tax_submission: insert, or replay the receipt on record.
Persists(f) == filings[f].kind = "filing" /\ ~KeyHeld(f)
InsertFiling(f) ==
    /\ Persists(f) /\ Filed(filings[f].key) = {}
    /\ Sets(f, [filings[f] EXCEPT !.kind = "inserted"])
    /\ UNCHANGED <<book, request, receipts>>
CommitFiling(f) ==
    /\ filings[f].kind = "inserted"
    /\ receipts' = receipts \cup {Receipt(filings[f])}
    /\ Sets(f, Answer(filings[f], filings[f].reason))
    /\ UNCHANGED <<book, request>>
ReplayFiling(f) ==
    /\ Persists(f)
    /\ \E old \in Filed(filings[f].key) :
         SameFiling(old, filings[f]) /\ Sets(f, Answer(filings[f], old.reason))
    /\ UNCHANGED <<book, request, receipts>>
RefuseFiling(f) ==
    /\ Persists(f)
    /\ \E old \in Filed(filings[f].key) : ~SameFiling(old, filings[f])
    /\ Sets(f, Idle)
    /\ UNCHANGED <<book, request, receipts>>
\* The answer is delivered, or the process dies and its transaction is undone.
EndFiling(f) ==
    /\ filings[f] # Idle
    /\ Sets(f, Idle)
    /\ UNCHANGED <<book, request, receipts>>

Next ==
    \/ \E e \in Entries, p \in Periods : PostJournal(e, p)
    \/ \E j \in book.journals, p \in Periods, key \in ReversalKeys : ReverseJournal(j, p, key)
    \/ \E p \in Periods, last \in BOOLEAN : HardClose(p, last)
    \/ \E p \in Periods : OthersClose(p)
    \/ \E p \in ReportedPeriods, scope \in Scopes : BeginPackage(p, scope)
    \/ EndPackage \/ Respond
    \/ \E f \in Filers, k \in FilingKeys, h \in Evidence, p \in ReportedPeriods :
          BeginFiling(f, k, h, p)
    \/ \E f \in Filers : \/ InsertFiling(f) \/ CommitFiling(f) \/ ReplayFiling(f)
                         \/ RefuseFiling(f) \/ EndFiling(f)
Spec == Init /\ [][Next]_vars

-----------------------------------------------------------------------------
(* Properties *)

\* When the reports of a book are compared: serving a request changes no book,
\* so each book that is reached is reached at rest as well.
AtRest == request = Idle /\ \A f \in Filers : filings[f] = Idle

\* Every period before p closed for all books, each after those before it, and
\* p itself closed for all books or for none.
InOrder(s, p) ==
    /\ \A q \in 1..(p - 1) : HardClosed(s, q)
    /\ \A q \in 1..p : s.status[q] # "open" => 1..(q - 1) \subseteq s.snapshots[q].before
    /\ s.status[p] # "book_closed"
\* No hard close lies between the books' start and p, or they all do.
NoGap(s, p) == InOrder(s, p) \/ \A q \in 1..p : s.status[q] = "open"

\* Assets equal liabilities, equity and unparked income; closing equity and
\* closing cash are the balance sheet's.
TiesOut(d) ==
    /\ d.balance_sheet.assets =
          d.balance_sheet.liabilities + d.balance_sheet.equity + d.balance_sheet.income
    /\ d.changes_in_equity.closing = d.balance_sheet.equity + d.balance_sheet.income
    /\ d.cash_flow.closing = d.balance_sheet.cash
\* The statements of a package agree, whenever it is read, and whatever commits
\* while _assemble_financial_statement_package loads them one by one.
PackageTiesOut ==
    /\ \A p \in Periods, scope \in Scopes :
          AtRest /\ InOrder(book, p) => TiesOut(Documents(book, p, scope))
    /\ request.kind = "packaged" /\ InOrder(request.view, request.period) =>
          TiesOut(request.documents)

RollforwardTies(s, p) ==
    \A account \in Accounts, scope \in Scopes :
        Rollforward(s, p, account, scope).closing = TrialBalance(s, p)[account]
\* load_account_rollforward: opening and period sides add up to the account's
\* balance, as long as no hard close skipped an earlier period.
RollforwardTiesOutInOrder ==
    \A p \in Periods : AtRest /\ NoGap(book, p) => RollforwardTies(book, p)
\* docs/adr/0035: "Those closing sides equal GET /account-balances for that
\* account and period", of every period (the code lets a gap break it).
RollforwardTiesOut == \A p \in Periods : RollforwardTies(book, p)

\* What a document may book on the account of its paper.  Callers keep it
\* (docs/adr/0043, 0045) and nothing enforces it: one side only, a parking and an
\* invoice the credit, an application, a refund and a void the debit; an adjusting
\* journal that names no document may book both.
On(j, account, side) == \E x \in j.lines : x.account = account /\ x[side] > 0
Agrees(j, account, credits, debits) ==
    \/ j.key = "none" /\ \A x \in j.lines : x.role = "adjusting"
    \/ /\ ~On(j, account, "debit") \/ ~On(j, account, "credit")
       /\ On(j, account, "debit") => j.key \notin credits
       /\ On(j, account, "credit") => j.key \notin debits
CashAgrees(j) == Agrees(j, "210200", {"unapplied_cash"},
                        {"unapplied_cash_application", "unapplied_cash_refund"})
VatAgrees(j) == Agrees(j, "210100", {"invoice_draft"}, {"issued_invoice_void"})
\* The working papers that explain leftover cash (210200) and VAT payable (210100)
\* count every journal once, whatever keys callers gave: a paper is off its account
\* by at most what the documents that disagree with their key book there, and ties
\* when there are none.
WorkingPapersTieOut ==
    \A p \in Periods : AtRest /\ NoGap(book, p) =>
        LET cash == Sides({j \in Operational(Within(book, {p})) : ~CashAgrees(j)}, "210200")
            vat == Sides({j \in Operational(Through(book, p)) : ~VatAgrees(j)}, "210100")
            tb == TrialBalance(book, p)
        IN  /\ UnappliedCash(book, p).closing + Net(tb["210200"]) \in -cash.credit..cash.debit
            /\ VatRegister(book, p).closing + Net(tb["210100"]) \in -vat.credit..vat.debit

\* What aging must find: a decrease settles the oldest open increase, and what
\* exceeds every open increase settles nothing later.
SettledOldestFirst(s, p, account, growing) ==
    LET rows == AgingRows(s, p, account, growing)
        since(q) == {r \in rows : r.day >= EndDay[q]}
        up == [q \in 1..(p + 1) |->
                  IF q > p THEN 0 ELSE MapThenSumSet(LAMBDA r : r.up, since(q))]
        net == [q \in 1..(p + 1) |->
                  IF q > p THEN 0 ELSE MapThenSumSet(LAMBDA r : r.up - r.down, since(q))]
        open == Max({net[q] : q \in 1..(p + 1)})
        dated == [q \in 1..p |-> Smaller(open, up[q]) - Smaller(open, up[q + 1])]
        dueIn(b) == {q \in 1..p : Bucket(EndDay[p] - EndDay[q]) = b}
    IN  [b \in Buckets |-> MapThenSumSet(LAMBDA q : dated[q], dueIn(b))]
\* _fifo_aging_open_items, of receivables (110100) and payables (210100).
AgingIsOldestFirst ==
    AtRest => \A p \in Periods :
        /\ Aging(book, p, "110100", "debit").outstanding =
               SettledOldestFirst(book, p, "110100", "debit")
        /\ Aging(book, p, "210100", "credit").outstanding =
               SettledOldestFirst(book, p, "210100", "credit")

\* docs/adr/0039 and 0041: outstanding buckets, less the unapplied credit, equal
\* the net of GET /account-balances (the code drops what a decrease exceeds the
\* open items by, so a payment before its invoice breaks it).
AgingEqualsNet ==
    AtRest => \A p \in Periods :
        LET aging == Aging(book, p, "110100", "debit")
            buckets == MapThenSumSet(LAMBDA b : aging.outstanding[b], Buckets)
        IN  buckets - aging.unapplied = Net(TrialBalance(book, p)["110100"])

\* A hard close moves income to retained earnings and changes nothing else:
\* the post-close balances are the adjusted ones with income parked.
CloseParksIncomeOnly ==
    \A p \in Periods : InOrder(book, p) /\ HardClosed(book, p) =>
        LET closed == book.snapshots[p].totals
            adjusted == Adjusted(book, p)
        IN  \A a \in Accounts :
                Net(closed[a]) = CASE a \in Income -> 0
                                   [] a = "310100" -> Net(adjusted[a]) + SumNet(adjusted, Income)
                                   [] OTHER -> Net(adjusted[a])

\* persist_home_tax_submission: a key has one receipt, and every filing under it
\* is answered what that receipt says, however filings overlap and the register
\* moves between their two transactions.
FilingAnswersItsReceipt ==
    /\ \A r, s \in receipts : r.key = s.key => r = s
    /\ \A f \in Filers : filings[f].kind = "filed" =>
          \E r \in Filed(filings[f].key) : /\ r.register = filings[f].register
                                          /\ r.period = filings[f].period
                                          /\ r.reason = filings[f].reason
=============================================================================
