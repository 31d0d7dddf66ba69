------------------------------- MODULE Intake -------------------------------
(***************************************************************************)
(* Proposals on their way in and events on their way out: a Billing pull   *)
(* and an HTTP request POST /journal-proposals accept proposals into the   *)
(* posting ledger, each in two transactions, controllers reverse journals  *)
(* and close periods, and every journal commits with its outbox event.     *)
(* The store is the PostingLedger that LedgerStore implements.             *)
(***************************************************************************)
EXTENDS PostingLedger, BillingPull

CONSTANT NoProposal  \* a model value: nothing is being accepted

\* An item of a page reaches post only as a JournalProposal.
ASSUME ItemsAssumption ==
    \A page \in Pages : \A n \in DOMAIN page.items : WellFormed(page.items[n])

Writers == {"pull", "http"}

VARIABLES events,   \* accounting_integration.outbox_event, in commit order
          catalog,  \* the accounting policy the catalog resolves to
          posting,  \* what each writer is accepting, and how far it is
          answers   \* what the clients of the HTTP requests were answered
intakeVars == <<ledger, pullVars, events, catalog, posting, answers>>

-----------------------------------------------------------------------------
(* accept_journal_proposal *)

At(w, stage) == posting[w] # NoProposal /\ posting[w].stage = stage
Accepting(w, p) == posting' = [posting EXCEPT ![w] = [item |-> p, stage |-> "accept"]]
Inserted(w) == posting' = [posting EXCEPT ![w] = [item |-> @.item, stage |-> "commit",
                                                  policy |-> catalog]]
Fetching(w) == posting' = [posting EXCEPT ![w] = [item |-> @.item, stage |-> "receipt"]]
Done(w) == posting' = [posting EXCEPT ![w] = NoProposal]

\* MUTANT: no command lock.
KeyLockedNever(w, p) == FALSE
\* _acquire_command_lock: who has inserted under a key holds its lock until COMMIT.
KeyLocked(w, p) == \E v \in Writers \ {w} : At(v, "commit") /\ posting[v].item.key = p.key
\* An uncommitted row with the same unique proposal id: the INSERT waits.
IdInFlight(w, p) == \E v \in Writers \ {w} : At(v, "commit") /\ posting[v].item.id = p.id
Entering(w) == At(w, "accept") /\ ~KeyLocked(w, posting[w].item)

\* retained_earnings is reserved for the close.
Reserved(p) == "retained_earnings" \in Used(p.lines)
IdTaken(p) == Journals(p.tenant, <<"journal", p.id>>) # {}

\* The transaction of post_proposal up to its last INSERT.
InsertPosting(w) ==
    /\ Entering(w)
    /\ CanPost(posting[w].item, catalog) /\ ~Reserved(posting[w].item)
    /\ ~IdInFlight(w, posting[w].item)
    /\ Inserted(w)
    /\ UNCHANGED <<ledger, pullVars, events, catalog, answers>>
Event(tenant, ref) == [tenant |-> tenant, ref |-> ref]
EventOf(p) == Event(p.tenant, <<"journal", p.id>>)
\* MUTANT: the event is written in a transaction of its own, which may fail.
CommitPostingFirst(w) ==
    /\ At(w, "commit")
    /\ Post(posting[w].item, posting[w].policy)
    /\ \E written \in {<<>>, <<EventOf(posting[w].item)>>} : events' = events \o written
    /\ Fetching(w)
    /\ UNCHANGED <<pullVars, catalog, answers>>
\* Journal, receipt and event in one COMMIT.
CommitPosting(w) ==
    /\ At(w, "commit")
    /\ Post(posting[w].item, posting[w].policy)
    /\ events' = Append(events, EventOf(posting[w].item))
    /\ Fetching(w)
    /\ UNCHANGED <<pullVars, catalog, answers>>
ReplayPosting(w) ==
    /\ Entering(w)
    /\ Replays(posting[w].item)
    /\ Fetching(w)
    /\ UNCHANGED <<ledger, pullVars, events, catalog, answers>>

\* What accept_journal_proposal returns or raises: the pull lists it, the HTTP
\* handler answers it.
Outcome(w, code, ref) ==
    /\ Done(w)
    /\ IF w = "pull"
       THEN /\ IF code = "posted" THEN Received(ref) ELSE Refused(code)
            /\ UNCHANGED answers
       ELSE /\ answers' = answers \cup {[item |-> posting[w].item, code |-> code, ref |-> ref]}
            /\ UNCHANGED pullVars
    /\ UNCHANGED <<ledger, events, catalog>>

\* The AccountingValidationError that a posting attempt raises, if any.
Refusal(p) ==
    IF Replays(p) THEN "none"
    ELSE IF Conflicts(p) THEN "idempotency_conflict"
    ELSE IF Reserved(p) THEN "proposal_validation_failed"
    ELSE IF p.date \notin catalog.open THEN "closed_period"
    ELSE IF ~(Used(p.lines) \subseteq catalog.mapped) THEN "unknown_account_role"
    ELSE "none"
RefusePosting(w) ==
    /\ Entering(w)
    /\ Refusal(posting[w].item) # "none"
    /\ Outcome(w, Refusal(posting[w].item), NoRef)
\* MUTANT: the receipt that post returns, named after the retried proposal.
PublishedOfRetry(p) == {<<"journal", p.id>>}
\* load_published_receipt looks the key up, in a transaction of its own.
Published(p) == {c.ref : c \in Cached(p)}
ReceivePosting(w) ==
    /\ At(w, "receipt")
    /\ \E ref \in Published(posting[w].item) : Outcome(w, "posted", ref)
\* A refused connection is an AccountingValidationError, before the posting
\* transaction or between it and the receipt's.
Disconnected(w) ==
    /\ At(w, "accept") \/ At(w, "receipt")
    /\ Outcome(w, "proposal_validation_failed", NoRef)
\* Any other error, or the end of the process: nothing uncommitted remains, the
\* pull's lists and the HTTP client's answer are lost.
Busy(w) == IF w = "pull" THEN pull.stage # "idle" ELSE posting[w] # NoProposal
Dies(w) ==
    /\ Busy(w)
    /\ Done(w)
    /\ IF w = "pull" THEN Fail ELSE UNCHANGED pullVars
    /\ UNCHANGED <<ledger, events, catalog, answers>>
\* The id is on record under another key: nobody catches the UniqueViolation.
IdCollides(w) ==
    /\ Entering(w)
    /\ Cached(posting[w].item) = {} /\ Refusal(posting[w].item) = "none"
    /\ IdTaken(posting[w].item)
    /\ Dies(w)

Accept(w) == \/ InsertPosting(w) \/ CommitPosting(w) \/ ReplayPosting(w)
             \/ RefusePosting(w) \/ ReceivePosting(w) \/ IdCollides(w)

-----------------------------------------------------------------------------
(* The actors *)

StoreUnchanged == UNCHANGED <<ledger, events, catalog, answers>>

PullTakesItem == TakeItem /\ Accepting("pull", Item) /\ StoreUnchanged
PullPages == Paging /\ UNCHANGED posting /\ StoreUnchanged
Pull == PullPages \/ PullTakesItem \/ Accept("pull")

\* do_POST, once the body is read and tenant, path and JSON are right; what is
\* wrong is answered 400, 403, 404, 405 or 413 and goes no further.
HttpReceives ==
    /\ posting["http"] = NoProposal
    /\ issued < MaxCommands /\ issued' = issued + 1
    /\ \E p \in Proposals : Accepting("http", p)
    /\ UNCHANGED pull /\ StoreUnchanged

\* A reversal, with its event, in one step.
Reversal ==
    /\ \E c \in ReversalCommands :
         /\ Reverse(c, catalog)
         /\ events' = Append(events, Event(catalog.tenant, <<"reversal", c.original[2]>>))
    /\ UNCHANGED <<pullVars, catalog, posting, answers>>

ClosePeriod ==
    /\ \E date \in catalog.open : catalog' = [catalog EXCEPT !.open = @ \ {date}]
    /\ UNCHANGED <<ledger, pullVars, events, posting, answers>>

IntakeInit == /\ Init /\ PullInit /\ events = <<>> /\ answers = {}
              /\ catalog \in Policies
              /\ posting = [w \in Writers |-> NoProposal]
IntakeNext == \/ BeginPull /\ UNCHANGED posting /\ StoreUnchanged
              \/ Pull \/ HttpReceives \/ Accept("http")
              \/ \E w \in Writers : Disconnected(w) \/ Dies(w)
              \/ Reversal \/ ClosePeriod
\* The pull's own statements run, Billing answers or fails, the HTTP handler's
\* statements run, and a lock is granted in the order it was asked for (hence SF).
IntakeSpec == IntakeInit /\ [][IntakeNext]_intakeVars /\ SF_intakeVars(Pull)
                         /\ WF_intakeVars(Accept("http"))

-----------------------------------------------------------------------------
(* Properties *)

\* docs/adr/0017: the outbox row is written in the same commit as post or
\* reverse.  No retry, abort or replay leaves a journal without its event or
\* writes a second one.
OneEventPerJournal ==
    /\ {events[n] : n \in 1..Len(events)} = {Event(j.tenant, j.ref) : j \in journals}
    /\ \A m, n \in 1..Len(events) : events[m] = events[n] => m = n

Answered == {r.item : r \in pull.receipts} \cup {r.item : r \in pull.rejected}
Asked == UNION {{f.page.items[n] : n \in 1..Len(f.page.items)} :
                  f \in {pull.fetched[n] : n \in 1..Len(pull.fetched)}}

\* A pull that completes answers every item of every page it fetched, and its
\* receipts name journals that exist and were posted under that key and hash,
\* although others posted, reversed and closed between its transactions.
PullAccountsForEveryItem ==
    pull.stage = "done" =>
        /\ Answered = Asked
        /\ \A r \in pull.receipts :
             /\ Journals(r.item.tenant, r.ref) # {}
             /\ \E c \in Cached(r.item) : c.hash = r.item.hash /\ c.ref = r.ref

\* The proposal is on record: its key with its hash, and a journal of its date.
OnRecord(p) == \E c \in Cached(p) : /\ c.hash = p.hash
                                    /\ \E j \in Journals(p.tenant, c.ref) : j.date = p.date

\* A pull's list and an HTTP 4xx may say that a proposal was not booked because
\* its period is closed or its key is taken.  Whoever acts on that, by booking
\* it in another period, does not book it twice: the proposal is not on record
\* and never will be, although another delivery of it may have passed the period
\* check before the period closed and have yet to commit.
RefusalsAreFinal ==
    \A r \in pull.rejected \cup answers :
        r.code \in {"closed_period", "idempotency_conflict"} => ~OnRecord(r.item)

\* Retries may change channel, meet a lost answer or a 422 after their commit,
\* and come back under another proposal id: every receipt a client was ever
\* given for a key names the one journal of that key and its evidence, and a
\* conflict is never the answer to the evidence the key is recorded for.
AnswersAgree ==
    \A a \in answers :
        /\ a.code = "posted" =>
              \E c \in Cached(a.item) :
                  /\ c.ref = a.ref /\ c.hash = a.item.hash
                  /\ Journals(a.item.tenant, a.ref) # {}
        /\ a.code = "idempotency_conflict" =>
              \E c \in Cached(a.item) : c.hash # a.item.hash

\* A pull ends, although Billing may answer cursors in a circle, or a page with a
\* new cursor for ever, and an HTTP request may hold the lock of its next item.
EveryPullEnds == pull.stage # "idle" ~> pull.stage = "idle"
============================================================================
