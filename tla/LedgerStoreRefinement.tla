----------------------- MODULE LedgerStoreRefinement -----------------------
(***************************************************************************)
(* The PostgreSQL store does what the in-memory PostingLedger promises:    *)
(* its commits of journals, whatever their interleaving, are steps of that *)
(* sequential ledger, and its other steps leave it unchanged.              *)
(***************************************************************************)
EXTENDS LedgerStore

\* The store keeps a journal's net income; its lines here are that income and
\* the other side of the entry.
LinesOf(net) ==
    LET d == IF net < 0 THEN -net ELSE 0
        c == IF net > 0 THEN net ELSE 0
    IN  [income |-> [debit |-> d, credit |-> c], other |-> [debit |-> c, credit |-> d]]

\* PostingLedger has no period close: closing journals are not its journals.
Ordinary == {j \in db.journals : j.role # "period_closing"}
LedgerJournals ==
    {[tenant |-> "tenant", ref |-> j.ref, book |-> j.book, date |-> j.period,
      lines |-> LinesOf(j.net), reverses |-> j.reverses] : j \in Ordinary}
LedgerReceipts ==
    {[tenant |-> "tenant", key |-> r.key, hash |-> r.hash, ref |-> r.ref] :
        r \in {q \in db.records : q.ref \in JournalRef}}
LedgerReversals ==
    {[tenant |-> "tenant", original |-> r.hash[1], key |-> r.key, date |-> r.hash[2]] :
        r \in {q \in db.records : q.ref \in ReversalRef}}

Ledger == INSTANCE PostingLedger WITH
    Tenants <- {"tenant"},
    Dates <- Periods,
    Roles <- {"income", "other"},
    Amounts <- {IF a < 0 THEN -a ELSE a : a \in Amounts} \cup {0},
    Proposals <- {[tenant |-> "tenant", id |-> r.id, key |-> r.key, hash |-> r.hash,
                   book |-> r.book, date |-> r.period, lines |-> LinesOf(r.net)] :
                      r \in {q \in Requests : IsProposal(q)}},
    ReversalCommands <- {[original |-> r.target, key |-> r.key, date |-> r.period] :
                      r \in {q \in Requests : q.op = "reverse"}},
    Policies <- {[tenant |-> "tenant", book |-> b, open |-> Periods,
                  mapped |-> {"income", "other"}] : b \in Books},
    journals <- LedgerJournals,
    receipts <- LedgerReceipts,
    reversals <- LedgerReversals

\* The class comment of PostingLedger: deployments replace persistence with
\* PostgreSQL while preserving this public behaviour.  Concurrent sessions,
\* aborts and closes post and reverse as one session of that ledger would.
ImplementsPostingLedger == Ledger!Spec
============================================================================
