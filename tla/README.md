# A TLA+ development of the accounting information platform

The platform is an append-only double-entry ledger.  Upstream systems propose
journals; the platform validates them, resolves account roles under a published
policy, posts each one once under its idempotency key, reverses journals by
mirror images, opens and closes fiscal periods per accounting book, and reports
from what was posted.  The running system is a threaded HTTP service over
PostgreSQL: correctness of concurrent commands rests on SQL transactions,
advisory locks, unique keys and triggers, and not on Python.  That is where the
behaviour lies that a unit test hardly reaches, and where this development begins.

Paths below are relative to `src/`.  The package
`src/accounting_information_platform/` is abbreviated to its file names.

## 1. Inventory

### 1.1 The parts, their state and their operations

| part | code | state | operations that change it |
|---|---|---|---|
| PostgreSQL posting store | `persistence.py`, `PostgresPostingLedger` | the tables of `database/migrations` | `post`, `post_adjusting_journal`, `reverse`, `open_fiscal_period`, `close_fiscal_period`, `publish_outbox_event`, `persist_home_tax_submission` |
| Schema | `database/migrations/*.sql` | unique keys, foreign keys, the period-insert and reversal-lineage triggers, append-only triggers, the deferred balance trigger, row-level security | none of its own: it refuses INSERTs and UPDATEs |
| Command acceptance | `accept.py` | none | parses a payload, calls the store, re-reads the stored receipt in a second transaction |
| Outbox | `persistence.py`, `accept.py` | `outbox_event` | `_insert_outbox` in every command, `publish_outbox_event`; two paged look-ups |
| HomeTax submissions | `accept.py`, `persistence.py`, migration 0003 | `home_tax_submission` | `accept_home_tax_submission`: reads the VAT register, then persists a receipt |
| In-memory posting ledger | `core.py`, `PostingLedger` | journals, receipts by key, reversal receipts and command evidence | `post`, `reverse` |
| Proposal ingest | `ingest.py`, `schemas/` | none | payload to `JournalProposal`, or an error |
| Billing pull | `billing_pull.py` | cursor and receipts of one run | fetches pages, accepts each proposal in turn |
| Bank-statement registry | `bank_statement.py`, migrations 0011, 0012 | bank accounts, their assignments to books, statements with their entries; outside the database, the artifact store | `accept_bank_account_record`, `accept_bank_account_assignment`, `accept_bank_statement_evidence` |
| Reconciliation | `reconciliation.py`, `allocation.py`, `reconciliation_bridge.py`, `reconciliation_read_model.py`, migrations 0013, 0014 | none in Python; evidence tables | matching, split allocation, book-to-bank bridge, close review |
| Read models | `persistence.py` | none; they read journals, period status and the snapshots of closes | trial balance, statements and packages, rollforwards, aging, VAT register |
| HTTP API | `http_api.py` | none shared between requests | one thread per request; each calls one accept function |
| Migration runner, tooling | `migration_install.py`, `scripts/` | none at run time | none at run time |

### 1.2 How they interact

An HTTP thread decodes a request and calls one function of `accept.py`, which
opens a connection per store call.  The store runs the command as one
transaction (a reversal runs two: `load_reversal_policy` first, then `reverse`).
Two commands meet only in the database: on an advisory lock, on a unique key, on
a control row or on what one of them reads while the other has or has not
committed.  The billing pull is one more caller of `accept.py`, in a loop.  The
outbox is written inside the posting transaction and drained later by callers of
`load_unpublished_outbox_events` and `publish_outbox_event`.

### 1.3 What is hard about it

* Isolation is mixed: a close runs at REPEATABLE READ with a snapshot fixed by its first query, *before* it waits for its advisory lock; every other command is READ COMMITTED and may see another command's commit between two of its statements.
* The advisory locks form five families of scopes, and several that look alike never meet: a post locks a period by the book's identifier, a close by the book's reference, a reversal by the period code alone, and an adjusting journal locks no period.
* All commands share one idempotency-key space but lock it per kind of command, so the unique constraint decides some races.
* Period status lives twice, per book and as an aggregate in the calendar row, and different commands read different copies.
* Any step may fail: `lock_timeout`, a lost connection, a serialisation failure, a trigger, a crash.  Callers then retry, perhaps after the period has moved on.

Each of these is a row of `hazards` in `PROJECT.json`, at its line.

### 1.4 What makes each part correct

* Posting store: one journal per command; a reversal mirrors one original once; closes are all-or-nothing; the calendar agrees with its books; nothing is lost or reopened; answers stay true; commands end.
* In-memory ledger: its dictionaries agree, a reversal cancels its original from its date on, and the PostgreSQL store does what it does.
* Acceptance: a retry over any channel, after any failure, gets the receipt of the one journal of its key; every journal has its event.
* Outbox: every committed event is reached and published by a later pass, and its first timestamp is kept.
* Billing pull: a pull that completes accounts for every item it fetched; an item refused for a closed period or a taken key stays unbooked; a repeated cursor or endless pages end it.
* Bank registry: an account has one open-ended assignment to a book at most (intervals with an end may overlap: nothing forbids it); a document is one statement however often, under whatever keys and how concurrently it is delivered; answers are about what was sent; a receipt's bytes exist; commands end.
* Reconciliation: a match agrees with its evidence and is the only one that could; plans conserve the amounts, whatever list of candidates they are given; a review is suitable only when it is complete; later journals do not redirect a match.
* Read models: the statements of a package agree with each other and with the balances; opening and movement add up to the balance; the working papers count each journal once; a close moves income and nothing else; aging settles the oldest first.
* HomeTax: a key has one receipt however filings overlap, and an answer is what it says.

## 2. Modules

    PostingLedger                    the in-memory ledger: what the store promises
    LedgerStore                      the posting store and its schema
      LedgerStoreRefinement          ... implements PostingLedger
        MCLedgerStore                instances for TLC: the commands of each run
      LedgerStore_proofs             Typed, Unrivalled, Mirrored: commands and reversals;
                                     Written: commits are steps of PostingLedger
        LedgerStoreClose_proofs      Closing, Settled: closes, calendar, evidence, income
    BillingPull                      the page loop of a pull
    Intake                           PostingLedger + BillingPull + HTTP + the outbox row
      MCIntake                       proposals, pages, policies
      Intake_proofs                  Consistent, BooksMirrored: the in-memory ledger;
                                     IntakeConsistent, PullConsistent: its callers
    Outbox                           rows, pages and publications
      Outbox_proofs                  PassesAreWhole: pages and publications
      MCOutbox
    BookReports                      the read models, as operators on a book
      ReportRequests                 a book under change, packages, HomeTax filings
        MCReportRequests             three periods, the seeded catalog, eight entries
        ReportRequests_proofs        BookOK: balances, closes and scopes of a book; packages, filings
    BankStatementRegistry            the bank-statement registry and its schema
      BankStatementRegistry_proofs   Registry: locks, unique keys, answers
      MCBankStatementRegistry        documents and commands
    Reconciliation                   matching, allocation, bridge, close review
      Reconciliation_proofs          Reconciled: decisions and answers as computed
      MCReconciliation               statement entries and journals
    Sums_proofs                      sums over finite sets, for the proofs above

### 2.1 LedgerStore

`LedgerStore` models one tenant's database and any number of connections, each
serving one command at a time.

| variable | code |
|---|---|
| `db` | the committed tables: `fiscal` is `fiscal_period.status`, `control` is `accounting_book_period_control.status`, `records` is `journal_proposal_record`, `journals` is `general_journal` with its lines, receipt and lineage, `soft` is the soft-close command evidence, `snapshots` is `period_close_snapshot` with its sources, `opens` is `fiscal_period_open_command`, `outbox` is the outbox |
| `pc`, `req` | the statement a connection is about to run, and its command |
| `held` | the transaction-level advisory locks it holds |
| `view` | the REPEATABLE READ snapshot of a close |
| `pend` | its rows that are inserted and not yet committed |
| `answers` | the successes that callers were given, which a caller may rely on |
| `issued` | counts commands; it is there for the bound only |

A command runs through stages, and `pc` names the next one.  Each action is what
the code does between two points where another session can interfere: the grant
of a lock, a statement that may wait, or a COMMIT.

| command | stages |
|---|---|
| `post` | lock the key, check replay and calendar, take the period lock and re-read the status, insert the record and fire the period trigger, insert the journal, commit |
| `post_adjusting_journal` | lock the key, check replay and the book's status, insert the record, insert the journal, commit; no period lock |
| `reverse` | policy transaction (finds the journal, tests the calendar's status), lock the target and key, check replay, existing reversal, kind and date, take the period lock and re-read, insert the record, insert the journal, commit |
| `open_fiscal_period` | both locks, then replay, refuse or write; commit |
| `close_fiscal_period` | snapshot at `Begin`, lock the book period, materialise and lock control rows, decide by the snapshot (`ClosePhase`: replay, refuse, close), write, commit |

`Abort` rolls any command back between any two steps: it stands for a
`lock_timeout`, a lost connection, a raised error, a crash of the process.  The
database discards the uncommitted rows and lets the locks go, which is what
`Finish` does.  A crash after COMMIT but before the caller reads the answer is
an answer nobody retries or somebody does: both are commands issued again.

A row inserted by another open transaction makes an INSERT of the same unique
key wait (`KeyInFlight`, `RefInFlight`, `JournalWaits`, `CloseWaits`); when that
transaction commits the INSERT fails, when it rolls back it goes on.  At
REPEATABLE READ an UPDATE or `FOR UPDATE` of a row changed after the snapshot
fails (`ControlRowMoved`, `PeriodRowMoved`).

### 2.2 What LedgerStore leaves out of the data

* An accounting date is the number of the period that covers it.  Periods are disjoint here, though the schema does not demand it (a listed hazard), and a reversal before its original is told apart only across periods.
* A journal's lines are their net income, one integer.  Which accounts they touch, and that debits equal credits, is not represented; a close therefore has one income account.  `Amounts` are the totals that fit `numeric(38, 6)`: a closing journal that does not fit fails the close.
* Payload validation decides whether a command is issued at all; a command refused for its payload changes nothing.
* The set of active books is fixed.  The initial state is that after bootstrap and `open_fiscal_period`: some periods open, no control rows.
* The lock key is a hash of the scope string in the code; collisions, which only make commands wait longer, are ignored.
* A closing journal's key is the readable string the code builds; callers may use it as their own key, so it is in `Keys` of the runs.
* `accept_adjusting_journal` derives the proposal identifier from the key, and the model lets it be any.  `post` is the store's method; `accept_journal_proposal` drops its receipt and re-reads the stored one by key.
* Row-level security, the append-only triggers and the deferred balance trigger are not modelled: no action of the code updates a journal, and lines are abstract.  Accounts and lines are in `BookReports`.

### 2.3 PostingLedger and the refinement

`core.py` calls `PostingLedger` the reference whose public behaviour PostgreSQL
preserves.  `PostingLedger` has one action per change it makes, `Post` and `Reverse`, on
`journals`, `receipts` (receipts by key) and `reversals` (receipts and command
evidence of reversals).  Replay, conflict and refusal change nothing and are
predicates on commands, which composing modules use.  Lines are totalled per
account role.

`LedgerStoreRefinement` instantiates it with the store's committed tables: journals other than
closing journals, records of proposals, records of reversals.  A commit of a
post or a reversal is a step of the ledger; all else, closes and opens
included, leaves it unchanged.  A journal's income in `LedgerStore` becomes two lines.
The mapped policies admit every date, for the ledger's own policy check is only as
good as the policy it is given, and what the store's checks of periods achieve is `LateJournalsWereUnderway`.

### 2.4 BillingPull and Intake

`BillingPull` is the loop of `accept_pulled_proposals`: `pull` holds its local
variables (cursor, page, cursors seen, pages fetched, receipts, rejections).
Billing is external: it answers any page of `Pages`, or fails.  A page's next cursor is null,
one that Billing gave before, or `NewCursor`, which stands for one it never gave: the pull never has it
among the cursors it has asked for, so that only the page limit stops a Billing that answers it for ever.
A pull may start from any cursor of an earlier one.  An exception
ends the pull and loses its lists.

`Intake` puts two callers of `accept_journal_proposal` over one `PostingLedger`: the pull, and
HTTP requests `POST /journal-proposals`.  Each acceptance has three stages, because
the code has two transactions:

| stage | code |
|---|---|
| `accept` | waits for the key's lock, then replays, refuses or inserts (`InsertPosting`, `ReplayPosting`, `RefusePosting`, `IdCollides`) |
| `commit` | journal, receipt and outbox row in one COMMIT (`CommitPosting`) |
| `receipt` | `load_published_receipt` in a second transaction (`ReceivePosting`) |

`Disconnected` is a refused connection, which the code turns into an
`AccountingValidationError`: the pull then lists the item as rejected and HTTP answers 422, also when it
strikes between the two transactions and the journal is posted.  `Dies` is any other
error or the end of the process.  `IdCollides` is the one such error that the data
forces: a proposal id on record under another key violates a unique key nobody handles, so it
ends a whole pull.  `answers` is what HTTP clients were told.
A writer past its INSERT holds the lock of its key (`KeyLocked`), and its uncommitted row makes the INSERT
of the same proposal id wait (`IdInFlight`).
Meanwhile journals are reversed and periods close; both are single steps here, for
their interleavings are the subject of `LedgerStore`.  So is the key space that posts and reversals share in
`journal_proposal_record`: here, as in `PostingLedger`, the keys of proposals and those of reversals are apart.
The pull gives the code `closed_period` only to soft- or hard-closed periods (`_REJECTION_REASON_RULES`; a missing period is
`proposal_validation_failed`), and periods do not reopen: that is why such refusals can be final (`RefusalsAreFinal`).

### 2.5 Outbox

A row takes `created_at` from the clock when it is inserted and becomes visible
when its transaction commits, so rows may appear out of order.  `reader` is each consumer's
pass: the rows of the current page, the next cursor, the rows committed when it
began (`due`) and the rows it was given (`got`).  A drainer publishes each row of its
page, and may be left without an answer and publish again; an auditor only reads.  One tenant
and one event type: filters select before paging and change nothing else.

### 2.6 BookReports and ReportRequests

`BookReports` has one operator per read model, over a book `s` with journals,
statuses and snapshots; `ReportRequests` changes the book and serves requests.

* A period is its number, journals are dated at its end, and `EndDay` places the ends on the days that aging counts.
* `soft_closed` reads as `open` everywhere in these read models and is left out.  The calendar says `hard_closed` when all books are, so a book that closed while a sibling is open is `book_closed`: it has a snapshot, and reads of it are live.
* The journals are those of the seeded catalog: seven accounts with a role each, entries that balance (`EntriesAssumption`) with lines on one side each (`Booked`), reversals in the same or a later period.  An entry's lines are a set, so that two of its lines differ in account, role or side; several may be on one account.  A journal's key stands for the commercial document that the key names, which the working papers look for.  A reversal's key is its caller's choice (`ReversalKeys`), so that it too may name a document, and then one that its lines contradict.  Nothing is assumed of a document's lines: `CashAgrees` and `VatAgrees`, inside the property, say when they agree with its key.
* An aging lists the lines of an account by day, increases first, then journal (`InOrderOfAge`), and walks the list (`OpenItems`, `Settle`): `open[i]` is what is left of the increase on line `i`.  The code sorts the lines of one journal by their number, which lines have not here; as they are of one day, no bucket depends on it.
* One command commits while a package is assembled, and one while a filing is between its transactions (`Overlaps`); packages and filings are not served at the same time (`Begins`), as they share nothing but the book, which they only read.  A package reads all its documents from one snapshot (`request.view`), as REPEATABLE READ gives it.
* HomeTax filings are served by any number of sessions (`Filers`) and overlap.  Each reads the register in one transaction (`BeginFiling`); in another it takes the lock `home-tax:{key}` and inserts (`InsertFiling`, then `CommitFiling`), replays (`ReplayFiling`) or refuses (`RefuseFiling`).  A session with an uncommitted row holds the lock, and its row would make another's `ON CONFLICT` wait: both are `KeyHeld`.  Between the grant of the lock and the INSERT the session only reads rows that do not change, so that the two are one step.  The error for a receipt that neither the INSERT nor the SELECT finds is left out: rows are never deleted, so the SELECT after a conflict finds one.  `EndFiling` delivers the answer, or ends the process and undoes its transaction.  Registers are compared as values where the code compares their digests.
* The properties that compare reports of the book look at it between requests, filings included (`AtRest`).  Serving a request leaves the book alone, so every book that is reached is compared; the reports are evaluated once per book instead of once per request in flight.

### 2.7 Reconciliation

The Python modules are pure, so state is what their caller has: the book, the
population of the run, its decisions, the last answer.  `Post` lets the book grow between runs,
`BeginRun` selects the population, `Decide` decides one entry, `Ask` plans an allocation or builds a
review from any subset of the decisions, any expected population and any bridge inputs, as
nothing in the code ties them to each other but its own validation.
Candidates of a split and items of an aggregate are sequences in the caller's order (`Given`).  `allocation.py` takes any
iterable and does not look for repetitions: a journal named twice against an entry of twice its amount is planned, and allocated, twice.
`AllocationsConserve` says what plans guarantee then: an amount per mention, hence each amount once if the caller's evidence is distinct.
ADR 0054 leaves the control of double consumption to a later slice.

### 2.8 BankStatementRegistry

One tenant's registry, served by any number of connections.  It shares no table
with the posting store (a bank statement never posts), so the two are modules side by side.

| variable | code |
|---|---|
| `db` | the committed rows: `accounts` is `bank_account_record`, `bindings` is `bank_account_assignment`, `statements` is `bank_statement_record` with its artifact row, entries and details |
| `store` | the documents in the artifact store, which is in no transaction |
| `pc`, `req`, `held`, `pend`, `answers`, `issued` | as in `LedgerStore` |

The three commands have one shape: take the advisory locks in order
(`AcquireLock`), find the row that decides (`Existing`), then replay it
(`ReplayRow`), refuse (`RefuseCheck`) or go on (`GoInsert`), insert (`InsertRow`,
`RefuseInsert`), `Commit`.  What differs is in operators by kind of command.

| command | locks | row it meets | before the INSERT |
|---|---|---|---|
| `accept_bank_account_record` | the reference | same reference | nothing |
| `accept_bank_account_assignment` | account, key | same key | account registered, chart account on the book |
| `accept_bank_statement_evidence` | key, digest, then (after the account is found to fit the document) account and identity | same key, else same bytes, else same identity | the document goes to the store |

The look-ups of one check are one step of the model: each is protected by a
lock the command holds, or by rows that are never changed.  `Abort` is any failure; `Restart` ends the process with all its
sessions and, unless `StoreIsDurable`, the store.

Of the data: a document is its digest and `Parsed` is what the parser reads, so
equal bytes read equal; a currency and an identifier hash are one value; a
legal entity and its book are one book, recorded in `Catalog` with their chart accounts,
which nothing here changes; a statement's entries are its normalized payload hash, which they
determine and which holds the statement's identity.  A command refused for its form, or a document with a
foreign-currency entry, changes nothing and is not issued.

### 2.9 Definitions marked as mutants

A definition whose comment starts with `MUTANT` is a plausible defect of the
definition it stands next to (a dropped hash comparison, session-level locks, a
missing serialisation check).  Nothing uses it: it is there to be put in the place
of the right one, and the property it is paired with in `PROJECT.json` must then fail.

## 3. What is checked

`MaxCommands` bounds the commands issued to `LedgerStore`, `BankStatementRegistry` and `Intake`;
`MaxPages` is the code's page limit; `MaxTime` and `MaxPasses` bound the clock and the passes of
`Outbox`; `MaxJournals`, `MaxWrites`, `MaxReported`, `ReportedPeriods` and `ReversalKeys` bound `ReportRequests`;
`MaxCandidates` bounds the lists that `Reconciliation` plans for.  `CHECK_DEADLOCK FALSE` is set wherever callers may stop calling or a bound is
reached; that no command gets *stuck* is `CommandsFinish`, `EveryCommandEnds` and `EveryPullEnds`.

| run | instance | states | shows |
|---|---|---|---|
| `store` | 2 sessions, 2 books, 2 periods (one opened late), 4 commands out of 15 | 200 thousand | every safety property of `LedgerStore`, `CommandsFinish` with fairness, and `ImplementsPostingLedger` |
| `registry` | 2 sessions, 2 account references, 4 documents, 2 keys, 4 commands out of 13 | 330 thousand | `OnlyActiveBindingsCollide`, `OneActiveBinding`, `AnswersFitEvidence`, `SameBytesSameStatement`, `ReceiptHasBytes`, `TypeOK` and, with fairness, `EveryCommandEnds` under concurrent and repeated deliveries |
| `intake` | a pull and HTTP requests, 3 commands, 2 pages at most: one that goes on to a cursor known before, an empty one with an ever-new cursor, one that ends; 2 dates | 460 thousand | the ledger's dictionaries agree (`CachesMatchJournals`), reversals cancel (`ReversedJournalsCancel`), each journal has one event (`OneEventPerJournal`), answers agree (`AnswersAgree`), refusals stay true (`RefusalsAreFinal`), and a pull accounts for its items, asks no page twice and ends |
| `outbox` | 2 writers, 3 rows, pages of one row, 2 passes each | 420 thousand | `DrainLeavesNothingBehind`, `AuditMissesNothing`, `PublicationIsFinal` |
| `reports` | 3 periods in 2 years, 8 entries, 3 keys of reversals, 3 journals, 4 writes, 2 interchangeable filers of one key | 1.27 million | `PackageTiesOut`, `RollforwardTiesOutInOrder`, `WorkingPapersTieOut`, `AgingIsOldestFirst`, `CloseParksIncomeOnly`, `FilingAnswersItsReceipt` |
| `reconcile` | 3 entries, 6 journals, lists of up to 3, 5 bridges | 77 thousand | `MatchedEvidenceAgrees`, `AllocationsConserve`, `SuitableReviewIsComplete`, `NewEvidenceNeverRedirects` |

Why these bounds are enough to be of interest.  In `store` each race of the hazard list is
between two commands and needs at most one that committed before (a journal to reverse, an earlier
close) and one that retries after: two sessions and four commands.  The requests
share keys between kinds of command and with the closing journal; two books tell the aggregate from its parts,
two periods the order of closes, and amounts -3..3 leave room for sums to differ and for an overflowing close.
In `intake` three commands are a first delivery, its retry over the other channel and a conflicting or competing one.  A cursor
that leads to itself, or over a new one back to itself, is a circle, and new cursors for ever reach the page limit of two.  In `outbox` a page of one row makes every row a page boundary,
three rows are one before, at and behind a cursor, and a standing clock gives equal timestamps.  In `reports` the first
period lies in the year before the others, so that opening balances, year-to-date scopes and prior closes differ; three journals are a document, its
settlement or its reversal, and one in another period; its fourth write is a close.  A reversal's key names nothing, the
document that a reversal of a parking looks like, or the one that a reversal of an invoice contradicts.  Two filers of one key
meet before, at and after each other's INSERT, with a commit in between that moves the register of one of them; they are alike, which makes the symmetry sound.  In `reconcile` the journals repeat an identity with less money, carry
a weaker identity, fit the money and date twice, complete a split, and carry an identity in another currency; lists of three repeat a candidate once or twice, or take three different ones.

The documents of `registry` are one statement, the same statement in another byte form, a
changed statement of the same identity, and another statement; two references may
be registered for one account.  Two sessions race for any of the three
unique keys, and four commands leave room for a row before the race and a retry after it.
`SameBytesSameStatement` has a condition: no two references with the same
evidence.  Otherwise a statement's byte variant, delivered to the first reference, is
recognised by identity and not recorded; delivered to the second it is new by bytes and by
identity, and becomes a second statement.  `ReceiptHasBytes` assumes a durable store, which ADR 0052
asks of a host; the store that `http_api.py` binds lives in the process, so
after a restart receipts reference bytes it no longer has, and a replayed
delivery does not put them back.

### 3.1 Fairness

`FairSpec` has `WF_vars(Step(s))` for each session: PostgreSQL runs a statement
that can run, and grants a lock or ends a wait once nothing stands in its way.
Neither `Begin` nor `Abort` is fair: callers need not call, and nothing needs to
fail.  So `CommandsFinish` and `EveryCommandEnds` hold without `lock_timeout` and without PostgreSQL's
deadlock detector: the lock orders of the code have no cycle in these instances.
Weak fairness is enough as locks are granted at most `MaxCommands` times before
a waiter is alone; with unboundedly many callers a lock's FIFO queue would be the
justification, which is not modelled.

`IntakeSpec` has `SF(Pull)` and `WF(Accept("http"))`: the statements of a pull and of an
HTTP handler run, and Billing answers or fails (the client has a timeout).  The pull's fairness is strong because
HTTP requests may take the lock of its next item again and again; PostgreSQL queues
waiters for a lock in order, so the pull gets it.  Connections need not fail and processes need not die.
The other modules state no fairness: their passes and requests may stop anywhere.

### 3.2 Where code and documents disagree

Six runs have a violation as their expected result; each checks a sentence of a
document against what the code does.  `findings` quotes both.

* `late_journal`: ADR 0050 says the shared period lock serialises a close against a concurrent write.  The three lock scopes differ and the close's snapshot is older than its lock, so a hard-closed period may hold a journal its snapshot does not count.
* `out_of_order`: ADR 0024 says a hard close leaves the exact remainder in retained earnings.  Closing an earlier period after a later one transfers the earlier income again.  `IncomeParkedOnceInOrder` is the condition under which it is exact.
* `reversal_replay`: OPERABILITY.md says the same reversal command replays its receipt.  The policy transaction refuses it first once the period is hard-closed.
* `key_reuse`: ADR 0052 says that an ingestion key reused with a changed artifact fails closed.  A key whose delivery was recognised by its bytes or identity is not recorded, and the next delivery under it may be any document.
* `rollforward_gap`: ADR 0035 says that a rollforward closes on the account's balance.  Its opening is the snapshot of the latest hard-closed period before, though an earlier period was open then and got journals later.  `RollforwardTiesOutInOrder` is the condition under which it does.

* `aging_net`: ADR 0039 says that outstanding receivables, less the unapplied credit, are the account's net, and ADR 0041 says it of payables.  A payment dated before its invoice finds no open item and is dropped, so the buckets hold the whole invoice and exceed the net.  `AgingIsOldestFirst` is what the code does: what exceeds the items open by then settles nothing later.

Three more were met and have no run of their own.

* The docstring of `post`, README.md:159 and ARCHITECTURE.md:77 promise the original receipt on exact replay.  `post` names the journal after the retried proposal's id (`persistence.py:5797`), which is not part of the comparison, so a key and hash that come back under another id get the reference of a journal that was never written.  `accept_journal_proposal` discards that receipt and reads the stored one by key, so only direct callers of `PostgresPostingLedger.post` would see it.
* ADR 0011 says that a validation failure of one proposal does not abort the page; a proposal whose id is on record under another key is no validation failure to the code, and ends the pull (`IdCollides`).
* ADR 0044 and ADR 0045 say that the leftover-cash rollforward and the VAT register close on the account.  A document that books its account on both sides, or on the side its key does not imply, is counted by one side: a reversal of an invoice whose caller gave it an invoice's key is one.  `WorkingPapersTieOut` bounds the difference by what such documents book.

`LateJournalsWereUnderway` says what does hold of the first: a journal misses a close only if its
transaction had inserted its record when the close committed; none joins later.

## 4. What is proved

Of `LedgerStore`, for every set of sessions, books, periods, keys and commands, and any
`MaxCommands`, TLAPS proves `Spec => []P`, or `Spec => P` of an action property:

| theorem | property | invariant |
|---|---|---|
| `TypeCorrect` | `TypeOK` | `Typed` |
| `OneJournalPerCommandHolds` | `OneJournalPerCommand` | `Unrivalled` |
| `ReversalMirrorsOneOriginalHolds` | `ReversalMirrorsOneOriginal` | `Mirrored` |
| `AggregateMatchesBooksHolds` | `AggregateMatchesBooks` | `Closing` |
| `CloseIsAllOrNothingHolds` | `CloseIsAllOrNothing` | `Closing` |
| `LedgerOnlyGrowsHolds` | `LedgerOnlyGrows` | `Closing` |
| `AnswersAreDurableHolds` | `AnswersAreDurable` | `Closing` |
| `LateJournalsWereUnderwayHolds` | `LateJournalsWereUnderway` | `Closing`, `Written` |
| `IncomeParkedOnceInOrderHolds` | `IncomeParkedOnceInOrder` | `Closing`, `Unrivalled`, `Settled` |
| `ImplementsPostingLedgerHolds` | `ImplementsPostingLedger` | `Written` |

Of `PostingLedger`, for any proposals, reversal commands and policies; of `Intake`, for any
pages of Billing besides and any bounds; of `Outbox`, for any writers, events, row numbers,
page size and bounds; of `BankStatementRegistry`, for any sessions, documents, keys, accounts and commands;
of `Reconciliation`, for any statement, journals, bridges and scopes; and of `ReportRequests`, for any number of
periods in any years, any catalog, entries, filers, filing keys and bounds, TLAPS proves:

| theorem | property | of | invariant |
|---|---|---|---|
| `CachesMatchJournalsHolds` | `CachesMatchJournals` | `Spec` | `Consistent` |
| `ReversedJournalsCancelHolds` | `ReversedJournalsCancel` | `Spec` | `BooksMirrored` |
| `ReversedJournalsCancelInIntake` | `ReversedJournalsCancel` | `IntakeSpec` | `BooksMirrored` |
| `CachesMatchInIntake` | `CachesMatchJournals` | `IntakeSpec` | `IntakeConsistent` |
| `OneEventPerJournalHolds` | `OneEventPerJournal` | `IntakeSpec` | `IntakeConsistent` |
| `AnswersAgreeHolds` | `AnswersAgree` | `IntakeSpec` | `IntakeConsistent` |
| `NoPageTwiceHolds` | `NoPageTwice` | `IntakeSpec` | `PullConsistent` |
| `PullAccountsForEveryItemHolds` | `PullAccountsForEveryItem` | `IntakeSpec` | `PullConsistent` |
| `RefusalsAreFinalHolds` | `RefusalsAreFinal` | `IntakeSpec` | `PullConsistent`, `FinalRefusals` |
| `AuditMissesNothingHolds` | `AuditMissesNothing` | `Outbox!Spec` | `PassesAreWhole` |
| `DrainLeavesNothingBehindHolds` | `DrainLeavesNothingBehind` | `Outbox!Spec` | `PassesAreWhole` |
| `PublicationIsFinalHolds` | `PublicationIsFinal` | `Outbox!Spec` | `PassesAreWhole` |
| `RegistryTyped` | `TypeOK` | `BankStatementRegistry!Spec` | `Registry` |
| `OnlyActiveBindingsCollideHolds` | `OnlyActiveBindingsCollide` | `BankStatementRegistry!Spec` | `Registry` |
| `OneActiveBindingHolds` | `OneActiveBinding` | `BankStatementRegistry!Spec` | `Registry` |
| `AnswersFitEvidenceHolds` | `AnswersFitEvidence` | `BankStatementRegistry!Spec` | `Registry` |
| `SameBytesSameStatementHolds` | `SameBytesSameStatement` | `BankStatementRegistry!Spec` | `Registry` |
| `ReceiptHasBytesHolds` | `ReceiptHasBytes` | `BankStatementRegistry!Spec` | `Registry` |
| `MatchedEvidenceAgreesHolds` | `MatchedEvidenceAgrees` | `Reconciliation!Spec` | `Reconciled` |
| `NewEvidenceNeverRedirectsHolds` | `NewEvidenceNeverRedirects` | `Reconciliation!Spec` | `Reconciled` |
| `AllocationsConserveHolds` | `AllocationsConserve` | `Reconciliation!Spec` | `Reconciled` |
| `SuitableReviewIsCompleteHolds` | `SuitableReviewIsComplete` | `Reconciliation!Spec` | `Reconciled` |
| `PackageTiesOutHolds` | `PackageTiesOut` | `ReportRequests!Spec` | `BookOK`, `PackageOK` |
| `RollforwardTiesOutInOrderHolds` | `RollforwardTiesOutInOrder` | `ReportRequests!Spec` | `BookOK` |
| `CloseParksIncomeOnlyHolds` | `CloseParksIncomeOnly` | `ReportRequests!Spec` | `BookOK` |
| `WorkingPapersTieOutHolds` | `WorkingPapersTieOut` | `ReportRequests!Spec` | `BookOK` |
| `AgingIsOldestFirstHolds` | `AgingIsOldestFirst` | `ReportRequests!Spec` | `BookOK` |
| `FilingAnswersItsReceiptHolds` | `FilingAnswersItsReceipt` | `ReportRequests!Spec` | `FilingsOK` |

The assumptions of `LedgerStore` are those it states of its constants: commands have
the fields of their kind, periods are numbers, `Amounts` is closed under negation (a
reversal of what fits fits), mapped books are books, `ClosingWriter` is a Boolean,
the bound is a number, and the two null values are no commands and no references.
Those of `PostingLedger` and `BillingPull` are that dates and amounts are numbers, the null reference is no
reference (`RefAssumption`), commands have fields of their sets (`CommandsAssumption`), and a page of Billing
is a sequence of items with a next cursor (`PagesAssumption`), which `_parse_billing_object` enforces.
Proposals and page items are well-formed (`ItemsAssumption`): their lines balance, which the constructors of
`JournalProposal` and `JournalLineProposal` require of whatever reaches `post`.
Those of `Outbox` are that row numbers are numbers, a page holds at least one row, and the null row is no row and no cursor.
Those of `BankStatementRegistry` are that commands have their fields, catalog and registered accounts are of their
kinds, an account is registered once at the start, what the parser normalises holds the statement's identity
(`ParsedAssumption`: the payload hash covers it), and the bounds and null values.
Those of `Reconciliation` are that references identify entries and journals, a statement is finite, amounts are
integers, in minor units, and the bound is a number.
Those of `ReportRequests` are that periods are numbered in the order of their end dates and their years do not
decrease (`CalendarAssumption`; `fiscal_period` is read ordered by its end date); that each account has one of the five
classes, cash is an asset, retained earnings are equity, leftover cash and VAT are liabilities on one account each, and the income accounts are those with the two income
roles, as in the seeded catalog (`CatalogAssumption`); that entries balance, which the schema's deferred trigger checks
at every commit, have lines that are a debit or a credit and never both (the CHECK of `journal_entry_line`), on the account of their role
unless they adjust, and are numbered apart from reversals (`EntriesAssumption`); and that the reported periods are
periods and the keys of reversals keys (`ReportedAssumption`).  The catalog matters where periods close: the closing journal
names the roles `usage_revenue` and `write_off_expense`, and income under any other role would stay.
Nothing is assumed of the documents that callers propose or of the keys they give: `WorkingPapersTieOut` tells those that agree with
their key from those that do not.

None of the properties is inductive.  The argument of each invariant:

* `Typed` ties every uncommitted row to the stage and the command that inserted it (`StagedAs`), keeps the target of a reversal in view (`TargetReady`), and says that exactly closes write closing journals.  Without it a commit could add anything.
* `Unrivalled` adds that an uncommitted key or reference has no rival, committed or uncommitted.  INSERT establishes it, by waiting for or failing on the rival; it makes COMMIT preserve uniqueness although the advisory locks of different commands never meet.
* `Mirrored` adds that a pending reversal is the mirror image of a committed original, as its checks found it.  Journals never change, so what was true at the check is true at the commit; two reversals of one journal would have the same reference.
* `Closing` adds that calendar and evidence agree in the database and in every snapshot, that a snapshot is a past of the database, and that a close about to commit is alone in its period and read its current control rows (`InFlight`).  The control rows of a period change only at the commit of a close of it, so the aggregate the close computed is still right when it commits.
* `LateJournalsWereUnderway` follows step by step: close evidence bars its book period in the control row (`Barred`), the copy of the status that the trigger at the record's INSERT reads, so no INSERT adds to the late ones (`InsertRecordNotLate`); a COMMIT moves a journal from the transactions under way to the journals (`CommitJournalNotLate`), and a hard close is the last of its period while one that follows a soft close books no billing journal (`CommitCloseNotLate`).
* `Written` adds to `Mirrored` that an uncommitted journal is the one its command asks for, and that posted journals reverse nothing.  INSERT and COMMIT are different steps of the store and one step of `PostingLedger`; what the commit makes visible must still be what that step would write.
* `Consistent` adds to `CachesMatchJournals` that a journal reverses something exactly when its reference is a reversal's, and then the journal of the same identifier: so a reversal's evidence is unique although `reverse` looks for an occupant of its reference, not for evidence.
* `IntakeConsistent` adds that a writer that goes on to read its receipt has one on record under its key and hash (`Backed`): by its own COMMIT, or by the delivery it replays.  Receipts are never removed and a key has one, so the receipt read in the second transaction, whatever came between, is the right one.
* `PullConsistent` ties the pull's local variables together: the cursors seen are those fetched but for the current one (`PageOrder`), what was fetched is answered or still on the page (`PageItems`), what is being accepted is the item the pull is at (`Coupled`), and each receipt names a journal of its item (`ReceiptRight`), which stays true as the ledger only grows.
* `FinalRefusals` says of a refused proposal that its key is on record with another hash, or that it is closed to it (`ClosedToIt`): its date is not open, it is not on record, and no delivery of it past the check is uncommitted.  The last is what the key lock gives when the refusal is raised, and what lets the other parts last: whoever comes later meets the closed period, whoever was there before has ended.  Keys and closed periods stay.
* `PassesAreWhole` says of each row that a running pass owes: it is answered or published, or it lies beyond the pass's cursor.  A page keeps this because of a fact about the queries themselves (`PageSkipsNothing`): of the rows beyond a cursor, those not on its page follow the page's last row, so they lie beyond the cursor it returns.  That fact counts the rows before a row; that a page has a last row needs the least element of a set of numbers (`WFMin`).
* `BooksMirrored` adds to `Consistent` that journals are finitely many, that their lines are amounts, and that a reversal is its original with the sides exchanged, not dated before it.  A trial balance is a sum over all journals; the two terms of a reversed pair exchange debit and credit, so an exchange of the pair leaves the sum as it is (`SumRenamed`) and the role's two sides are equal.
* `Settled` says of every snapshot that its sources are journals of its book and, the closing journal of that close included, book no income together: `ClosingJournals` takes off what the close's own snapshot of the database adds up to (`ClosingZeroes`), and sources once committed stay (`SourcesStay`).  `ReadsCommitted` says that a close in flight reads journals that are committed.  Under `ClosedInOrder` one snapshot of a book has the sources of all the others (`WidestSnapshot`), and its sources are the closing journals and what they parked: two disjoint sets whose sums cancel.
* `Registry` says that a command past its lock stage holds its locks and no two sessions hold one (`LocksExclude`), that what its checks found is still so (`Checked`), and that committed and uncommitted rows are unique under each key (`RowsAreUnique`).  The three locks of an ingest cover the three unique keys of a statement, so its INSERT never meets a rival; an assignment's two locks leave out the active binding, and there the INSERT waits for the rival row or fails on it.
* `Reconciled` says that every decision is what the matching rules give for its entry and the population at hand, and every answer what the planner or the review gives for its inputs.  The properties then are facts about those rules: a match has exactly one candidate, so a larger population keeps it or adds a rival.
* `BookOK` says that journals fit (finitely many, numbered apart, each balanced), that a closing journal carries the number of its period and that period is no longer open, and of each hard close what its snapshot keeps (`Kept`): no income, and, unless an earlier period was open then, no open period before it and exactly the live balances up to it.  Later commands book in open periods only, so those balances stand still; that is why a stored snapshot may open a later scope.  A close keeps it because the lines of its journal take each income account's balance and park their sum (`ClosingParks`), so that the journal balances and nothing else moves.  Statements tie since every journal, and so every set of journals, sums to zero over all accounts (`JournalsBalance`), an account's total is the sum over its lines (`SumByParts`), the periods of a scope are a run without a hole that ends at its period (`ScopeIsARun`), and opening and scope add up to the period's balances (`ScopeAddsUp`).  `PackageOK` says a package was assembled from one book for which all this holds; `FilingsOK` that a filing key has one receipt, that an uncommitted row is alone under its key (`Alone`), as INSERT found none on record and `KeyHeld` keeps a second session from inserting, and that each answer is its receipt's.
* The working papers need one more part of `BookOK`: a closing journal touches income and retained earnings only.  The journals that agree with their key book 210200, or 210100, in one kind of movement and on the side that the paper reads for it (`MovementsAreOneSided`).  Of the others a paper reads one side, and what it leaves out is at most what they book on the other (`SideIsAmong`).  The kinds are disjoint and exhaust the account, so opening and movements differ from its total by what was left out (`CashMovementsAddUp`, `VatMovementsAddUp`).
* Aging needs only that lines are amounts on one side.  The code's loop over the lines is compared with a formula that has no loop: what is left of the newest lines is the lesser of the total left and what those lines added (`NewestRemain`), where the total left is the largest net of any run of lines (the empty one too) up to the last.  `SettleConsumes` says it of one decrease and `OldestSettleFirst` of the whole list, line by line.  A list in the order of the query exists, as a finite set of rows has a newest one (`NewestRow`, `RowsCanBeListed`).  On one day increases come first, so the largest net starts where a period does (`MostAtAPeriod`), and the sum by lines is the sum by periods that `SettledOldestFirst` states (`ItemsByPeriod`).

The sums of the models are folds that take a set's members in an order that only
`CHOOSE` knows.  `Sums_proofs` shows what a sum does not owe to that order: it is
additive over disjoint sets and unchanged by renaming the members.  The folds are
recursive functions on the subsets of a finite set; the induction over them is an argument from a smallest counterexample
in a concrete family of subsets (`SmallestMember`, from `WFMin`), which needs no theorem
with an operator as parameter.  The recursive functions of aging are handled alike: `Settle` and `OpenItems` are shown to
have values by extending partial ones, and the induction over the lines is one over numbers up to the length of the list.

## 5. What is only model-checked

* `CommandsFinish`, `EveryCommandEnds` and `EveryPullEnds`: liveness is out of the prover's reach.

Every safety invariant and action property of a run that passes has a theorem in section 4.  The six runs that end in a violation
show by an instance that a sentence is false, and have nothing to prove.

## 6. Plan

The system's state-changing parts are modelled, and every safety property that a passing run checks is proved.  What is left:

1. A model of lines in `LedgerStore`, so that `BookReports` could be instantiated on its committed tables instead of on a book of its own.
2. Statement comparison columns and paged listings, if their code comes to depend on more than selection.

## 7. Not modelled, and why

* The ISO 20022 parser and proposal ingest: pure functions of a document; their outcome is a command or none.
* Of the read models: comparison columns, paged listings (journals, account ledger, receipts, catalog), the worksheet's unadjusted column.  They select and lay out what the modelled operators compute.
* Of the HTTP API: routing, status codes and the parameters of GETs.  POSTs other than the two of `Intake` call one accept function each, and their concurrency is the store's sessions.
* Row-level security, and several tenants in one database: every statement of the code filters by tenant.
* The evidence tables of migrations 0013 and 0014: nothing in the repository writes them.
* The migration runner and `scripts/`: they do not run while the service does.

## 8. Running it

In this directory, `tlc -config MCLedgerStore.cfg MCLedgerStore` and so on
for each `.cfg` with the MC module its name starts with, and `tlapm` on each `*_proofs` module.
