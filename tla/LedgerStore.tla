---------------------------- MODULE LedgerStore ----------------------------
(***************************************************************************)
(* The PostgreSQL posting store: PostgresPostingLedger and the triggers of *)
(* database/migrations, for one tenant.  Each session serves one command   *)
(* at a time as a database transaction: post, post_adjusting_journal,      *)
(* reverse, open_fiscal_period and close_fiscal_period.  The committed     *)
(* database is the variable db; a session's uncommitted rows are pend[s];  *)
(* a close reads the REPEATABLE READ snapshot view[s], every other command *)
(* reads the latest committed rows (READ COMMITTED).                       *)
(*                                                                         *)
(* An accounting date is abstracted to the fiscal period that covers it,   *)
(* a journal's lines to the net income they book.                          *)
(***************************************************************************)
EXTENDS Integers, FiniteSets, FiniteSetsExt

CONSTANTS Sessions,        \* concurrent database connections
          Books,           \* accounting books with valid_to IS NULL
          Periods,         \* fiscal periods, numbered in date order
          Ids,             \* proposal identifiers
          Keys,            \* idempotency keys a caller may supply
          Hashes,          \* source payload hashes a caller may supply
          Amounts,         \* net incomes that fit numeric(38, 6)
          Requests,        \* the commands callers issue
          InitiallyOpen,   \* fiscal periods present from the start
          MappedBooks,     \* books whose catalog maps retained_earnings
          ClosingWriter,   \* the login is a member of accounting_closing_writer
          MaxCommands,     \* bound on the commands issued in a behaviour
          NoRequest, NoRef \* model values: nothing

Statuses == {"open", "soft_closed", "hard_closed"}
Roles == {"billing", "adjusting", "reversal", "period_closing"}

JournalRef == {"journal"} \X Ids
ReversalRef == {"reversal"} \X Ids
ClosingRef == {"closing"} \X (Books \X Periods)
Ref == JournalRef \cup ReversalRef \cup ClosingRef

PostRequest == [op : {"post", "adjust"}, key : Keys, hash : Hashes, id : Ids,
                book : Books, period : Periods, net : Amounts]
ReverseRequest == [op : {"reverse"}, key : Keys, target : Ref, period : Periods]
CloseRequest == [op : {"soft_close", "hard_close"}, key : Keys, book : Books,
                 period : Periods]
OpenRequest == [op : {"open"}, key : Keys, period : Periods, dated : BOOLEAN]

ASSUME RequestsAssumption ==
    Requests \subseteq PostRequest \cup ReverseRequest \cup CloseRequest \cup OpenRequest
ASSUME PeriodsAssumption == Periods \subseteq Nat /\ InitiallyOpen \subseteq Periods
ASSUME AmountsAssumption == Amounts \subseteq Int /\ \A a \in Amounts : -a \in Amounts
ASSUME BookAssumption == MappedBooks \subseteq Books /\ ClosingWriter \in BOOLEAN
ASSUME BoundAssumption == MaxCommands \in Nat
ASSUME NothingAssumption == NoRequest \notin Requests /\ NoRef \notin Ref

Journal == [ref : Ref, book : Books, period : Periods, role : Roles,
            net : Amounts, reverses : Ref \cup {NoRef}]
\* journal_proposal_record: one per command key, naming the journal it produced.
Record == [key : Keys \cup ClosingRef, hash : Hashes \cup (Ref \X Periods) \cup ClosingRef,
           ref : Ref]
Evidence == [book : Books, period : Periods, key : Keys, sources : SUBSET Ref]
OpenCommand == [key : Keys, period : Periods, dated : BOOLEAN]
Event == {"posting_receipt", "journal_reversal"} \X Ref
         \cup {"period_close"} \X (Books \X Periods \X Statuses)
Database == [fiscal : [Periods -> Statuses \cup {"absent"}],
             control : [Books -> [Periods -> Statuses \cup {"none"}]],
             records : SUBSET Record, journals : SUBSET Journal,
             soft : SUBSET Evidence, snapshots : SUBSET Evidence,
             opens : SUBSET OpenCommand, outbox : SUBSET Event]
CloseEffect == [book : Books, period : Periods, status : Statuses, key : Keys,
                sources : SUBSET Ref, others : Statuses, aggregate : Statuses]
Writes == [records : SUBSET Record, journals : SUBSET Journal,
           opens : SUBSET OpenCommand, closes : SUBSET CloseEffect]
Answer == [req : Requests, journal : Ref \cup {NoRef}, sources : SUBSET Ref]
Lock == {"proposal", "adjusting", "period-open"} \X Keys
        \cup {"period"} \X Periods
        \cup {"reversal"} \X (Ref \X Keys)
        \cup {"period-by-book-id", "period-by-book-reference"} \X (Books \X Periods)
Stages == {"idle", "policy", "lock", "check", "period", "record", "journal", "commit"}

VARIABLES db,       \* the committed database
          pc,       \* what each session does next
          req,      \* the command each session serves
          held,     \* the advisory locks each session holds
          view,     \* the snapshot a close reads
          pend,     \* each session's uncommitted rows
          answers,  \* the successful responses given so far
          issued    \* the number of commands issued
vars == <<db, pc, req, held, view, pend, answers, issued>>

-----------------------------------------------------------------------------
(* Reading the database *)

EmptyDatabase ==
    [fiscal |-> [p \in Periods |-> IF p \in InitiallyOpen THEN "open" ELSE "absent"],
     control |-> [b \in Books |-> [p \in Periods |-> "none"]],
     records |-> {}, journals |-> {}, soft |-> {}, snapshots |-> {},
     opens |-> {}, outbox |-> {}]
NoWrites == [records |-> {}, journals |-> {}, opens |-> {}, closes |-> {}]

\* COALESCE(accounting_book_period_control.status, fiscal_period.status)
BookStatus(d, b, p) == IF d.control[b][p] = "none" THEN d.fiscal[p] ELSE d.control[b][p]

Prior(d, key) == {r \in d.records : r.key = key}
Reversals(d, ref) == {j \in d.journals : j.reverses = ref}

\* Journals of a book dated up to the end of a period.
Booked(d, b, p) == {j \in d.journals : j.book = b /\ j.period <= p}
Refs(J) == {j.ref : j \in J}
NetIncome(J) == MapThenSumSet(LAMBDA j : j.net, J)

\* The calendar's compatibility status over all active books.
Aggregate(status) ==
    IF \A b \in Books : status[b] = "hard_closed" THEN "hard_closed"
    ELSE IF \A b \in Books : status[b] # "open" THEN "soft_closed"
    ELSE "open"

\* MUTANT: the trigger reads the calendar's status instead of the book's.
GuardPeriodInsertByCalendar(d, b, p, role) ==
    \/ d.fiscal[p] = "open"
    \/ /\ d.fiscal[p] = "soft_closed"
       /\ role \in {"period_closing", "adjusting", "reversal"}
       /\ ClosingWriter
\* The BEFORE INSERT trigger on general_journal.
GuardPeriodInsert(d, b, p, role) ==
    \/ BookStatus(d, b, p) = "open"
    \/ /\ BookStatus(d, b, p) = "soft_closed"
       /\ role \in {"period_closing", "adjusting", "reversal"}
       /\ ClosingWriter

IsClose(r) == r.op \in {"soft_close", "hard_close"}
HashOf(r) == IF r.op = "reverse" THEN <<r.target, r.period>> ELSE r.hash
RefOf(r) == IF r.op = "reverse" THEN <<"reversal", r.target[2]>> ELSE <<"journal", r.id>>
RoleOf(r) == [post |-> "billing", adjust |-> "adjusting", reverse |-> "reversal"][r.op]

-----------------------------------------------------------------------------
(* Sessions, locks and the ends of a transaction *)

CommandLock(r) ==
    CASE r.op = "post" -> <<"proposal", r.key>>
      [] r.op = "adjust" -> <<"adjusting", r.key>>
      [] r.op = "reverse" -> <<"reversal", <<r.target, r.key>>>>
      [] r.op = "open" -> <<"period-open", r.key>>
      [] IsClose(r) -> <<"period-by-book-reference", <<r.book, r.period>>>>
PeriodLock(r) ==
    IF r.op = "post" THEN <<"period-by-book-id", <<r.book, r.period>>>>
                     ELSE <<"period", r.period>>
Free(s, lock) == \A t \in Sessions \ {s} : lock \notin held[t]

\* MUTANT: an uncommitted row of the same key is not waited for.
KeyInFlightNever(s, key) == FALSE
\* Rows that another transaction has inserted and not yet committed make an
\* INSERT of the same unique key wait for that transaction's end.
KeyInFlight(s, key) == \E t \in Sessions \ {s} : \E r \in pend[t].records : r.key = key
RefInFlight(s, ref) ==
    \E t \in Sessions \ {s} : \/ \E r \in pend[t].records : r.ref = ref
                              \/ \E j \in pend[t].journals : j.ref = ref
CloseInFlight(s, p) == \E t \in Sessions \ {s} : \E c \in pend[t].closes : c.period = p
CloseKeyInFlight(s, r) ==
    \E t \in Sessions \ {s} : \E c \in pend[t].closes :
        c.key = r.key /\ (c.status = "soft_closed") = (r.op = "soft_close")

\* MUTANT: session-level advisory locks, which outlive their transaction.
FinishHoldingLocks(s) ==
    /\ pc' = [pc EXCEPT ![s] = "idle"]
    /\ req' = [req EXCEPT ![s] = NoRequest]
    /\ view' = [view EXCEPT ![s] = EmptyDatabase]
    /\ pend' = [pend EXCEPT ![s] = NoWrites]
    /\ UNCHANGED <<held, issued>>
Finish(s) ==
    /\ pc' = [pc EXCEPT ![s] = "idle"]
    /\ req' = [req EXCEPT ![s] = NoRequest]
    /\ held' = [held EXCEPT ![s] = {}]
    /\ view' = [view EXCEPT ![s] = EmptyDatabase]
    /\ pend' = [pend EXCEPT ![s] = NoWrites]
    /\ UNCHANGED issued
Rollback(s) == Finish(s) /\ UNCHANGED <<db, answers>>
Reply(s, ref, sources) ==
    /\ answers' = answers \cup {[req |-> req[s], journal |-> ref, sources |-> sources]}
    /\ Finish(s)
Replay(s, ref, sources) == Reply(s, ref, sources) /\ UNCHANGED db
Advance(s, stage) ==
    /\ pc' = [pc EXCEPT ![s] = stage]
    /\ UNCHANGED <<db, req, view, answers, issued>>
Goto(s, stage) == Advance(s, stage) /\ UNCHANGED <<held, pend>>
Grant(s, lock) == held' = [held EXCEPT ![s] = @ \cup {lock}] /\ UNCHANGED pend

\* A caller issues a command.  A close takes its snapshot with its first
\* query, before it asks for any lock; a reversal first loads its policy.
Begin(s) ==
    /\ pc[s] = "idle"
    /\ issued < MaxCommands
    /\ \E r \in Requests :
         /\ req' = [req EXCEPT ![s] = r]
         /\ pc' = [pc EXCEPT ![s] = IF r.op = "reverse" THEN "policy" ELSE "lock"]
         /\ view' = [view EXCEPT ![s] = IF IsClose(r) THEN db ELSE @]
    /\ issued' = issued + 1
    /\ UNCHANGED <<db, held, pend, answers>>

\* lock_timeout, a lost connection, a process crash or any other raised error.
Abort(s) == pc[s] # "idle" /\ Rollback(s)

AcquireCommandLock(s) ==
    /\ pc[s] = "lock"
    /\ Free(s, CommandLock(req[s]))
    /\ Grant(s, CommandLock(req[s]))
    /\ Advance(s, "check")

-----------------------------------------------------------------------------
(* post and post_adjusting_journal *)

IsProposal(r) == r.op \in {"post", "adjust"}

\* MUTANT: the payload hash is not compared.
ReplayProposalByKey(s) ==
    /\ pc[s] = "check" /\ IsProposal(req[s])
    /\ \E rec \in Prior(db, req[s].key) : Replay(s, rec.ref, {})

\* Exact replay of the key and hash.  post names the journal after the
\* caller's proposal id; the adjusting path looks the stored receipt up.
ReplayProposal(s) ==
    /\ pc[s] = "check" /\ IsProposal(req[s])
    /\ \E rec \in Prior(db, req[s].key) :
         /\ rec.hash = HashOf(req[s])
         /\ Replay(s, IF req[s].op = "post" THEN RefOf(req[s]) ELSE rec.ref, {})

\* An adjusting journal reads its book's status once and takes no period lock.
CheckProposal(s) ==
    LET r == req[s] IN
    /\ pc[s] = "check" /\ IsProposal(r)
    /\ Prior(db, r.key) = {}
    /\ db.fiscal[r.period] # "absent"
    /\ r.op = "adjust" => BookStatus(db, r.book, r.period) # "hard_closed"
    /\ Goto(s, IF r.op = "post" THEN "period" ELSE "record")

RefuseProposal(s) ==
    LET r == req[s] IN
    /\ pc[s] = "check" /\ IsProposal(r)
    /\ IF Prior(db, r.key) # {}
         THEN \A rec \in Prior(db, r.key) : rec.hash # HashOf(r)
         ELSE \/ db.fiscal[r.period] = "absent"
              \/ r.op = "adjust" /\ BookStatus(db, r.book, r.period) = "hard_closed"
    /\ Rollback(s)

-----------------------------------------------------------------------------
(* reverse *)

\* The period test of a reversal reads the calendar's status, not the book's.
ReversalPeriodOpen(p) == db.fiscal[p] \in {"open", "soft_closed"}

\* load_reversal_policy is a transaction of its own: it finds the journal,
\* takes the period lock, tests the period, and lets the lock go.
LoadReversalPolicy(s) ==
    /\ pc[s] = "policy"
    /\ Free(s, PeriodLock(req[s]))
    /\ \E j \in db.journals : j.ref = req[s].target
    /\ ReversalPeriodOpen(req[s].period)
    /\ Goto(s, "lock")
RefusePolicy(s) ==
    /\ pc[s] = "policy"
    /\ Free(s, PeriodLock(req[s]))
    /\ \/ \A j \in db.journals : j.ref # req[s].target
       \/ ~ReversalPeriodOpen(req[s].period)
    /\ Rollback(s)

\* A reversal already recorded for the target, under the same command.
SameCommand(j, r) ==
    \E rec \in db.records : rec.ref = j.ref /\ rec.key = r.key /\ rec.hash = HashOf(r)
Reversible(r) ==
    /\ Reversals(db, r.target) = {}
    /\ Prior(db, r.key) = {}
    /\ \E j \in db.journals : /\ j.ref = r.target
                              /\ j.role # "reversal"
                              /\ j.period <= r.period

ReplayReversal(s) ==
    /\ pc[s] = "check" /\ req[s].op = "reverse"
    /\ \E j \in Reversals(db, req[s].target) :
         SameCommand(j, req[s]) /\ Replay(s, j.ref, {})
CheckReversal(s) ==
    /\ pc[s] = "check" /\ req[s].op = "reverse"
    /\ Reversible(req[s])
    /\ Goto(s, "period")
RefuseReversal(s) ==
    /\ pc[s] = "check" /\ req[s].op = "reverse"
    /\ ~Reversible(req[s])
    /\ \A j \in Reversals(db, req[s].target) : ~SameCommand(j, req[s])
    /\ Rollback(s)

-----------------------------------------------------------------------------
(* Period admission, the INSERTs and their COMMIT *)

\* Take the period's advisory lock, then read its status again.
PeriodAdmits(r) == IF r.op = "post" THEN BookStatus(db, r.book, r.period) = "open"
                                    ELSE ReversalPeriodOpen(r.period)
AdmitToPeriod(s) ==
    /\ pc[s] = "period"
    /\ Free(s, PeriodLock(req[s]))
    /\ PeriodAdmits(req[s])
    /\ Grant(s, PeriodLock(req[s]))
    /\ Advance(s, "record")
RefusePeriod(s) ==
    /\ pc[s] = "period"
    /\ Free(s, PeriodLock(req[s]))
    /\ ~PeriodAdmits(req[s])
    /\ Rollback(s)

Target(r) == CHOOSE j \in db.journals : j.ref = r.target
BookOf(r) == IF r.op = "reverse" THEN Target(r).book ELSE r.book
NewRecord(r) == [key |-> r.key, hash |-> HashOf(r), ref |-> RefOf(r)]
\* MUTANT: a reversal keeps the sides of its original's lines.
NewJournalSameSides(r) ==
    [ref |-> RefOf(r), book |-> BookOf(r), period |-> r.period, role |-> RoleOf(r),
     net |-> IF r.op = "reverse" THEN Target(r).net ELSE r.net,
     reverses |-> IF r.op = "reverse" THEN r.target ELSE NoRef]
NewJournal(r) ==
    [ref |-> RefOf(r), book |-> BookOf(r), period |-> r.period, role |-> RoleOf(r),
     net |-> IF r.op = "reverse" THEN -Target(r).net ELSE r.net,
     reverses |-> IF r.op = "reverse" THEN r.target ELSE NoRef]

\* Insert journal_proposal_record, whose key and proposal id are unique, then
\* fire the period trigger of general_journal.  A reversal also needs the
\* posting receipt that a period-closing journal does not have.
RecordFits(r) ==
    /\ \A rec \in db.records : rec.key # r.key /\ rec.ref # RefOf(r)
    /\ GuardPeriodInsert(db, BookOf(r), r.period, RoleOf(r))
    /\ r.op = "reverse" => Target(r).role # "period_closing"
RecordWaits(s) ==
    \/ KeyInFlight(s, req[s].key)
    \/ IsProposal(req[s]) /\ RefInFlight(s, RefOf(req[s]))
InsertRecord(s) ==
    /\ pc[s] = "record"
    /\ ~RecordWaits(s)
    /\ RecordFits(req[s])
    /\ pend' = [pend EXCEPT ![s].records = {NewRecord(req[s])}]
    /\ Advance(s, "journal") /\ UNCHANGED held
RefuseRecord(s) ==
    /\ pc[s] = "record"
    /\ ~RecordWaits(s)
    /\ ~RecordFits(req[s])
    /\ Rollback(s)

\* The trigger has passed; the journal row itself may still wait for another
\* transaction that inserted the same journal_reference.
JournalWaits(s) ==
    \E t \in Sessions \ {s} : \E j \in pend[t].journals : j.ref = RefOf(req[s])
JournalFits(r) == \A j \in db.journals : j.ref # RefOf(r)
InsertJournal(s) ==
    /\ pc[s] = "journal"
    /\ ~JournalWaits(s)
    /\ JournalFits(req[s])
    /\ pend' = [pend EXCEPT ![s].journals = {NewJournal(req[s])}]
    /\ Advance(s, "commit") /\ UNCHANGED held
RefuseJournal(s) ==
    /\ pc[s] = "journal"
    /\ ~JournalWaits(s)
    /\ ~JournalFits(req[s])
    /\ Rollback(s)

EventOf(j) == IF j.role = "reversal" THEN <<"journal_reversal", j.ref>>
                                     ELSE <<"posting_receipt", j.ref>>
CommitJournal(s) ==
    /\ pc[s] = "commit" /\ (IsProposal(req[s]) \/ req[s].op = "reverse")
    /\ db' = [db EXCEPT !.records = @ \cup pend[s].records,
                        !.journals = @ \cup pend[s].journals,
                        !.outbox = @ \cup {EventOf(j) : j \in pend[s].journals}]
    /\ Reply(s, RefOf(req[s]), {})

-----------------------------------------------------------------------------
(* open_fiscal_period *)

PriorOpen(r) == {o \in db.opens : o.key = r.key}
OpenOf(r) == [key |-> r.key, period |-> r.period, dated |-> r.dated]
\* A period that exists must be open; a new one needs both dates.
OpenAllowed(r) ==
    IF db.fiscal[r.period] = "absent" THEN r.dated ELSE db.fiscal[r.period] = "open"

\* Both advisory locks are held before anything is read.
ReplayOpen(s) ==
    /\ pc[s] = "check" /\ req[s].op = "open"
    /\ Free(s, PeriodLock(req[s]))
    /\ OpenOf(req[s]) \in PriorOpen(req[s])
    /\ Replay(s, NoRef, {})
OpenPeriod(s) ==
    /\ pc[s] = "check" /\ req[s].op = "open"
    /\ Free(s, PeriodLock(req[s]))
    /\ PriorOpen(req[s]) = {}
    /\ OpenAllowed(req[s])
    /\ pend' = [pend EXCEPT ![s].opens = {OpenOf(req[s])}]
    /\ held' = [held EXCEPT ![s] = @ \cup {PeriodLock(req[s])}]
    /\ Advance(s, "commit")
RefuseOpen(s) ==
    /\ pc[s] = "check" /\ req[s].op = "open"
    /\ Free(s, PeriodLock(req[s]))
    /\ IF PriorOpen(req[s]) = {} THEN ~OpenAllowed(req[s])
                                 ELSE OpenOf(req[s]) \notin PriorOpen(req[s])
    /\ Rollback(s)
CommitOpen(s) ==
    /\ pc[s] = "commit" /\ req[s].op = "open"
    /\ db' = [db EXCEPT !.opens = @ \cup pend[s].opens,
                        !.fiscal[req[s].period] = IF @ = "absent" THEN "open" ELSE @]
    /\ Reply(s, NoRef, {})

-----------------------------------------------------------------------------
(* close_fiscal_period, at REPEATABLE READ *)

\* The close first materialises the control rows of every book and locks its
\* own with FOR UPDATE.  Either fails when a row changed after the snapshot.
ControlRowMoved(s, b, p) ==
    \/ db.control[b][p] # view[s].control[b][p]
    \/ \E c \in Books : view[s].control[c][p] = "none" /\ db.control[c][p] # "none"
\* MUTANT: the calendar row is overwritten without a serialisation check.
PeriodRowMovedNever(s, p) == FALSE
\* UPDATE fiscal_period fails when any book's close of the period committed
\* after the snapshot: each one updates that row.
PeriodRowMoved(s, p) == \E c \in Books : db.control[c][p] # view[s].control[c][p]
MaterialisingWaits(s, p) ==
    CloseInFlight(s, p) /\ \E c \in Books : view[s].control[c][p] = "none"

TargetStatus(r) == IF r.op = "soft_close" THEN "soft_closed" ELSE "hard_closed"
EvidenceOf(d, r) == {e \in IF r.op = "soft_close" THEN d.soft ELSE d.snapshots :
                       e.book = r.book /\ e.period = r.period}

\* MUTANT: a second key may hard-close a closed book period again.
ClosePhaseAgain(s) ==
    LET r == req[s]
        status == BookStatus(view[s], r.book, r.period)
    IN  IF view[s].fiscal[r.period] = "absent" THEN "refuse"
        ELSE IF ControlRowMoved(s, r.book, r.period) THEN "refuse"
        ELSE IF \E e \in EvidenceOf(view[s], r) : e.key = r.key THEN "replay" ELSE "close"
\* MUTANT: a soft close of a hard-closed book period is not refused.
ClosePhaseDemotes(s) ==
    LET r == req[s]
        status == BookStatus(view[s], r.book, r.period)
    IN  IF view[s].fiscal[r.period] = "absent" THEN "refuse"
        ELSE IF ControlRowMoved(s, r.book, r.period) THEN "refuse"
        ELSE IF status # TargetStatus(r) THEN "close"
        ELSE IF \E e \in EvidenceOf(view[s], r) : e.key = r.key THEN "replay" ELSE "refuse"

\* What the close may do, decided by its book's status in the snapshot.
ClosePhase(s) ==
    LET r == req[s]
        status == BookStatus(view[s], r.book, r.period)
    IN  IF view[s].fiscal[r.period] = "absent" THEN "refuse"
        ELSE IF ControlRowMoved(s, r.book, r.period) THEN "refuse"
        ELSE IF status = TargetStatus(r)
          THEN IF \E e \in EvidenceOf(view[s], r) : e.key = r.key THEN "replay" ELSE "refuse"
        ELSE IF status = "hard_closed" THEN "refuse" ELSE "close"

\* MUTANT: earlier closing journals are left out of the income.
ClosingJournalsTwice(d, r) ==
    LET income == NetIncome({j \in Booked(d, r.book, r.period) : j.role # "period_closing"})
    IN  IF r.op = "soft_close" \/ income = 0 THEN {}
        ELSE {[ref |-> <<"closing", <<r.book, r.period>>>>, book |-> r.book,
               period |-> r.period, role |-> "period_closing",
               net |-> -income, reverses |-> NoRef]}
\* The closing journal that transfers a book's income to retained earnings; its
\* reference stands for its idempotency key as well, which a caller may guess.
ClosingJournals(d, r) ==
    LET income == NetIncome(Booked(d, r.book, r.period))
    IN  IF r.op = "soft_close" \/ income = 0 THEN {}
        ELSE {[ref |-> <<"closing", <<r.book, r.period>>>>, book |-> r.book,
               period |-> r.period, role |-> "period_closing",
               net |-> -income, reverses |-> NoRef]}
ClosingRecords(J) == {[key |-> j.ref, hash |-> j.ref, ref |-> j.ref] : j \in J}

CloseFits(s) ==
    LET r == req[s]
        J == ClosingJournals(view[s], r)
    IN  /\ ~PeriodRowMoved(s, r.period)
        /\ \A e \in (IF r.op = "soft_close" THEN db.soft ELSE db.snapshots) : e.key # r.key
        /\ \A j \in J : /\ r.book \in MappedBooks
                        /\ j.net \in Amounts
                        /\ Prior(db, j.ref) = {}
                        /\ GuardPeriodInsert(view[s], r.book, r.period, j.role)

\* MUTANT: a new control row does not fall back to the calendar's status.
EffectOfNoFallback(d, r) ==
    LET status == [c \in Books |-> IF c = r.book THEN TargetStatus(r)
                                   ELSE BookStatus(d, c, r.period)]
    IN  [book |-> r.book, period |-> r.period, status |-> TargetStatus(r), key |-> r.key,
         sources |-> Refs(Booked(d, r.book, r.period) \cup ClosingJournals(d, r)),
         others |-> d.control[r.book][r.period], aggregate |-> Aggregate(status)]
\* What a close that reads d will write, the status of the other books'
\* control rows included when they are new.
EffectOf(d, r) ==
    LET status == [c \in Books |-> IF c = r.book THEN TargetStatus(r)
                                   ELSE BookStatus(d, c, r.period)]
    IN  [book |-> r.book, period |-> r.period, status |-> TargetStatus(r), key |-> r.key,
         sources |-> Refs(Booked(d, r.book, r.period) \cup ClosingJournals(d, r)),
         others |-> d.fiscal[r.period], aggregate |-> Aggregate(status)]

CloseReady(s) == /\ pc[s] = "check" /\ IsClose(req[s])
                 /\ ~MaterialisingWaits(s, req[s].period)
CloseWaits(s) ==
    \/ CloseInFlight(s, req[s].period)
    \/ CloseKeyInFlight(s, req[s])
    \/ \E j \in ClosingJournals(view[s], req[s]) : KeyInFlight(s, j.ref)
ReplayClose(s) ==
    /\ CloseReady(s)
    /\ ClosePhase(s) = "replay"
    /\ \E e \in EvidenceOf(view[s], req[s]) : Replay(s, NoRef, e.sources)
WriteClose(s) ==
    LET J == ClosingJournals(view[s], req[s]) IN
    /\ CloseReady(s)
    /\ ClosePhase(s) = "close"
    /\ ~CloseWaits(s)
    /\ CloseFits(s)
    /\ pend' = [pend EXCEPT ![s] =
                   [records |-> ClosingRecords(J), journals |-> J, opens |-> {},
                    closes |-> {EffectOf(view[s], req[s])}]]
    /\ Advance(s, "commit") /\ UNCHANGED held
RefuseClose(s) ==
    /\ CloseReady(s)
    /\ \/ ClosePhase(s) = "refuse"
       \/ ClosePhase(s) = "close" /\ ~CloseWaits(s) /\ ~CloseFits(s)
    /\ Rollback(s)

\* The status of each book's control row once close c of its period commits.
ControlAfter(d, c) ==
    [b \in Books |-> IF b = c.book THEN c.status
                    ELSE IF d.control[b][c.period] = "none" THEN c.others
                    ELSE d.control[b][c.period]]
EvidenceIf(c, status) ==
    IF c.status # status THEN {}
    ELSE {[book |-> c.book, period |-> c.period, key |-> c.key, sources |-> c.sources]}
AfterClose(d, c, rows) ==
    [fiscal |-> [d.fiscal EXCEPT ![c.period] = c.aggregate],
     control |-> [b \in Books |-> [d.control[b] EXCEPT ![c.period] = ControlAfter(d, c)[b]]],
     records |-> d.records \cup rows.records,
     journals |-> d.journals \cup rows.journals,
     soft |-> d.soft \cup EvidenceIf(c, "soft_closed"),
     snapshots |-> d.snapshots \cup EvidenceIf(c, "hard_closed"),
     opens |-> d.opens,
     outbox |-> d.outbox \cup {<<"period_close", <<c.book, c.period, c.status>>>>}]
CommitClose(s) ==
    /\ pc[s] = "commit" /\ IsClose(req[s])
    /\ \E c \in pend[s].closes : /\ db' = AfterClose(db, c, pend[s])
                               /\ Reply(s, NoRef, c.sources)

-----------------------------------------------------------------------------
Init ==
    /\ db = EmptyDatabase
    /\ pc = [s \in Sessions |-> "idle"]
    /\ req = [s \in Sessions |-> NoRequest]
    /\ held = [s \in Sessions |-> {}]
    /\ view = [s \in Sessions |-> EmptyDatabase]
    /\ pend = [s \in Sessions |-> NoWrites]
    /\ answers = {}
    /\ issued = 0

Step(s) ==
    \/ AcquireCommandLock(s)
    \/ ReplayProposal(s) \/ CheckProposal(s) \/ RefuseProposal(s)
    \/ LoadReversalPolicy(s) \/ RefusePolicy(s)
    \/ ReplayReversal(s) \/ CheckReversal(s) \/ RefuseReversal(s)
    \/ AdmitToPeriod(s) \/ RefusePeriod(s)
    \/ InsertRecord(s) \/ RefuseRecord(s) \/ InsertJournal(s) \/ RefuseJournal(s)
    \/ CommitJournal(s)
    \/ ReplayOpen(s) \/ OpenPeriod(s) \/ RefuseOpen(s) \/ CommitOpen(s)
    \/ ReplayClose(s) \/ WriteClose(s) \/ RefuseClose(s) \/ CommitClose(s)

Next == \E s \in Sessions : Begin(s) \/ Step(s) \/ Abort(s)

Spec == Init /\ [][Next]_vars
\* A session whose next statement can run does run it; callers need not call,
\* and nothing needs to fail.
FairSpec == Spec /\ \A s \in Sessions : WF_vars(Step(s))

-----------------------------------------------------------------------------
(* Properties *)

\* Every variable holds what its table or session slot can hold.
TypeOK ==
    /\ db \in Database
    /\ pc \in [Sessions -> Stages]
    /\ req \in [Sessions -> Requests \cup {NoRequest}]
    /\ held \in [Sessions -> SUBSET Lock]
    /\ view \in [Sessions -> Database]
    /\ pend \in [Sessions -> Writes]
    /\ answers \subseteq Answer
    /\ issued \in 0..MaxCommands

\* Whatever the interleaving of retries, of different command kinds that share
\* a key, and of closes, a key produced at most one journal and every journal
\* has exactly one command behind it.
OneJournalPerCommand ==
    /\ \A r1, r2 \in db.records : r1.key = r2.key \/ r1.ref = r2.ref => r1 = r2
    /\ \A j1, j2 \in db.journals : j1.ref = j2.ref => j1 = j2
    /\ Refs(db.records) = Refs(db.journals)

\* A reversal mirrors one original of the same book that is no reversal and no
\* closing journal, is not dated before it, and is its only reversal, although
\* two commands with different keys may try to reverse the same journal.
ReversalMirrorsOneOriginal ==
    \A j \in db.journals : j.reverses # NoRef =>
        /\ Reversals(db, j.reverses) = {j}
        /\ \E o \in db.journals :
             /\ o.ref = j.reverses
             /\ o.role \in {"billing", "adjusting"}
             /\ o.book = j.book /\ o.period <= j.period /\ o.net = -j.net

\* The calendar's status, which reversals, opens and reports read, is the
\* aggregate of the books' statuses even when closes of two books overlap.
AggregateMatchesBooks ==
    \A p \in Periods : (\E b \in Books : db.control[b][p] # "none") =>
        /\ \A b \in Books : db.control[b][p] # "none"
        /\ db.fiscal[p] = Aggregate([b \in Books |-> db.control[b][p]])

\* A book period is hard-closed exactly when its one snapshot exists, and its
\* closing journal exists only as one of that snapshot's sources; a soft-closed
\* one has its one piece of command evidence.
CloseIsAllOrNothing ==
    \A b \in Books, p \in Periods :
        LET snapshots == {e \in db.snapshots : e.book = b /\ e.period = p}
            soft == {e \in db.soft : e.book = b /\ e.period = p}
        IN  /\ Cardinality(snapshots) = IF db.control[b][p] = "hard_closed" THEN 1 ELSE 0
            /\ Cardinality(soft) <= 1
            /\ db.control[b][p] = "soft_closed" => soft # {}
            /\ \A j \in db.journals : j.ref = <<"closing", <<b, p>>>> =>
                   \E e \in snapshots : j.ref \in e.sources

\* A success given to a caller stays true: the key is recorded with that hash,
\* and every answer to a close of one book period reports the same sources.
AnswersAreDurable ==
    \A a \in answers :
        /\ IsProposal(a.req) \/ a.req.op = "reverse" =>
             \E r \in db.records : r.key = a.req.key /\ r.hash = HashOf(a.req)
        /\ IsClose(a.req) =>
             \E e \in EvidenceOf(db, a.req) : e.key = a.req.key /\ e.sources = a.sources

Rank == [none |-> 0, absent |-> 0, open |-> 1, soft_closed |-> 2, hard_closed |-> 3]

\* Journals, receipts, close evidence and events are never changed or lost, and
\* no book period and no calendar period ever reopens, whatever rolls back.
LedgerOnlyGrows ==
    [][/\ db.records \subseteq db'.records /\ db.journals \subseteq db'.journals
       /\ db.soft \subseteq db'.soft /\ db.snapshots \subseteq db'.snapshots
       /\ db.opens \subseteq db'.opens /\ db.outbox \subseteq db'.outbox
       /\ \A p \in Periods :
            /\ Rank[db.fiscal[p]] <= Rank[db'.fiscal[p]]
            /\ \A b \in Books : Rank[BookStatus(db, b, p)] <= Rank[BookStatus(db', b, p)]]_db

\* The journals of the given roles in the book period of close evidence e that
\* e does not count: the committed ones and those of transactions under way.
Late(e, roles) ==
    {j.ref : j \in {k \in db.journals : /\ k.book = e.book /\ k.period = e.period
                                        /\ k.role \in roles /\ k.ref \notin e.sources}}
    \cup {RefOf(req[s]) : s \in {t \in Sessions : /\ pend[t].records # {} /\ ~IsClose(req[t])
                                                  /\ BookOf(req[t]) = e.book
                                                  /\ req[t].period = e.period
                                                  /\ RoleOf(req[t]) \in roles}}

\* A journal can miss a close only if its transaction was under way when the
\* close committed: from then on no journal joins the late ones of a hard close,
\* and no billing journal those of a soft close, although reversals test the
\* calendar's status, which lags behind the book's while another book is open,
\* and adjusting journals take no period lock.
LateJournalsWereUnderway ==
    [][/\ \A e \in db.snapshots : Late(e, Roles)' \subseteq Late(e, Roles)
       /\ \A e \in db.soft : Late(e, {"billing"})' \subseteq Late(e, {"billing"})]_vars

\* The snapshot of a hard-closed book period counts every journal of it.
\* docs/adr/0050 says the shared period lock serializes close against a
\* concurrent write; one session at a time it is so.
SnapshotIsComplete ==
    \A e \in db.snapshots :
        \A j \in Booked(db, e.book, e.period) : j.period = e.period => j.ref \in e.sources

Snapshots(b) == {e \in db.snapshots : e.book = b}
ParkedIncome(b) ==
    -NetIncome({j \in db.journals : j.book = b /\ j.role = "period_closing"})
SnapshotIncome(b) ==
    NetIncome({j \in db.journals : /\ j.role # "period_closing"
                                  /\ \E e \in Snapshots(b) : j.ref \in e.sources})
ClosedInOrder(b) ==
    \A e, f \in Snapshots(b) : e.period < f.period => e.sources \subseteq f.sources

\* The closing journals move each income amount they saw to retained earnings
\* exactly once, if each close saw everything an earlier period's close saw.
IncomeParkedOnceInOrder ==
    \A b \in Books : ClosedInOrder(b) => ParkedIncome(b) = SnapshotIncome(b)
\* docs/adr/0024 promises it of every close.
IncomeParkedOnce == \A b \in Books : ParkedIncome(b) = SnapshotIncome(b)

\* docs/OPERABILITY.md: the same reversal command replays the original receipt.
\* So no such command is refused for its period's status.
ReversalReplayIsNotRefused ==
    [][\A s \in Sessions : RefusePolicy(s) =>
        ~\E j \in Reversals(db, req[s].target) : SameCommand(j, req[s])]_vars

\* Every command ends although five lock families, row waits and closes that
\* fail to serialise meet: no session waits for ever, without any timeout.
CommandsFinish == \A s \in Sessions : pc[s] # "idle" ~> pc[s] = "idle"
============================================================================
