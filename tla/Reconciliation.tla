-------------------------- MODULE Reconciliation --------------------------
(***************************************************************************)
(* Bank-to-book reconciliation: reconciliation.py decides one statement    *)
(* entry at a time against the journals of a run, allocation.py plans      *)
(* splits and aggregates, reconciliation_bridge.py proves the balances and *)
(* reconciliation_read_model.py joins both in a close review.  Nothing is  *)
(* stored: the caller keeps what a run has decided, and the book grows     *)
(* between runs.                                                           *)
(***************************************************************************)
EXTENDS Integers, FiniteSets, FiniteSetsExt, SequencesExt

CONSTANTS Statement,      \* the entries of the bank's statements, as evidence
          Populations,    \* the entries that reviews expect, by statement
          Journals,       \* the journals the book may hold, as evidence
          NoReference,    \* an identity that the evidence does not carry
          Window,         \* date_window_days
          Bridges,        \* the bridge inputs callers supply
          Preceding,      \* sets of at most one preceding bridge
          Scopes,         \* tenant, entity, book and bank assignment
          MaxCandidates   \* bound on the evidence that a plan is asked for

\* References identify the evidence, and amounts are exact, in minor units.
ASSUME StatementAssumption ==
    /\ IsFiniteSet(Statement)
    /\ \A e, f \in Statement : e.amount \in Int /\ (e.ref = f.ref => e = f)
ASSUME JournalsAssumption ==
    \A j, k \in Journals : j.amount \in Int /\ (j.ref = k.ref => j = k)
ASSUME CandidatesAssumption == MaxCandidates \in Nat
ASSUME BridgesAssumption ==
    Bridges \subseteq
        [bank_opening : Int, bank_moved : Int, bank_closing : Int,
         book_opening : Int, book_moved : Int, book_closing : Int,
         reconciled : Int, outstanding_book : Int, outstanding_bank : Int, scope : Scopes]

VARIABLES book,           \* journals posted
          population,     \* the posted-book population of the run
          decisions,      \* the run's decisions, one record per decision
          answer          \* what the last call returned
vars == <<book, population, decisions, answer>>

Identities == {"provider", "end_to_end", "servicer"}
Sum(items, amount(_)) == MapThenSumSet(amount, items)

-----------------------------------------------------------------------------
(* propose_deterministic_match *)

\* MUTANT: an identity that no journal carries yields to the next one.
StrongestCarried(e, candidates) ==
    LET carried(i) == e[i] # NoReference /\ \E j \in candidates : j[i] = e[i]
    IN  IF carried("provider") THEN "provider"
        ELSE IF carried("end_to_end") THEN "end_to_end"
        ELSE IF carried("servicer") THEN "servicer" ELSE "none"
\* _strong_reference: the first identity of the entry, in order.
Strongest(e, candidates) ==
    IF e.provider # NoReference THEN "provider"
    ELSE IF e.end_to_end # NoReference THEN "end_to_end"
    ELSE IF e.servicer # NoReference THEN "servicer" ELSE "none"

Abstain(e, exception) == [entry |-> e.ref, code |-> "abstain", rule |-> "none",
                          journals |-> {}, amount |-> 0, exception |-> exception]
Match(e, j, rule) == [entry |-> e.ref, code |-> "match", rule |-> rule,
                      journals |-> {j.ref}, amount |-> e.amount, exception |-> "none"]

\* The candidates that carry the identity; only one may, and all must agree.
ByIdentity(e, identity, candidates) ==
    LET named == {j \in candidates : j[identity] = e[identity]}
        j == CHOOSE x \in named : TRUE
    IN  IF named = {} THEN Abstain(e, "no_candidate")
        ELSE IF Cardinality(named) > 1 THEN Abstain(e, "ambiguous_reference")
        ELSE IF j.currency # e.currency THEN Abstain(e, "currency_mismatch")
        ELSE IF j.amount # e.amount THEN Abstain(e, "amount_mismatch")
        ELSE IF j.side # e.side THEN Abstain(e, "direction_mismatch")
        ELSE Match(e, j, identity)

Near(e, j) == j.day - e.day \in -Window..Window
\* MUTANT: of several candidates in the window the nearest is proposed.
ByMoneyNearest(e, candidates) ==
    LET near == {j \in candidates : /\ j.currency = e.currency /\ j.amount = e.amount
                                    /\ j.side = e.side /\ Near(e, j)}
        distance(j) == IF j.day > e.day THEN j.day - e.day ELSE e.day - j.day
    IN  IF near = {} THEN Abstain(e, "no_candidate")
        ELSE Match(e, CHOOSE j \in near : \A k \in near : distance(j) <= distance(k),
                   "exact_money_bounded_date")
\* The weak rule: exact money, direction and date, and one candidate only.
ByMoney(e, candidates) ==
    LET exact == {j \in candidates : j.currency = e.currency /\ j.amount = e.amount}
        same == {j \in exact : j.side = e.side}
        near == {j \in same : Near(e, j)}
    IN  IF Cardinality(near) = 1
        THEN Match(e, CHOOSE j \in near : TRUE, "exact_money_bounded_date")
        ELSE IF near # {} THEN Abstain(e, "ambiguous_reference")
        ELSE IF same # {} THEN Abstain(e, "date_window_mismatch")
        ELSE IF exact # {} THEN Abstain(e, "direction_mismatch")
        ELSE Abstain(e, "no_candidate")

Propose(e, candidates) ==
    LET identity == Strongest(e, candidates)
    IN  IF identity = "none" THEN ByMoney(e, candidates)
                             ELSE ByIdentity(e, identity, candidates)

-----------------------------------------------------------------------------
(* Allocation plans *)

\* Candidates and statement items come in the caller's order, and nothing
\* keeps the caller from naming one twice.
Given(evidence) == SeqOf(evidence, MaxCandidates)
Total(items) == Sum(DOMAIN items, LAMBDA n : items[n].amount)
\* _require_exact_positive, and at least one candidate or item.
Positive(items) == items # <<>> /\ \A n \in DOMAIN items : items[n].amount > 0

Allocation(e, j, amount) == [entry |-> e, journal |-> j, amount |-> amount]
\* MUTANT: a plan may leave part of the statement amount open.
SplitFitsBelow(e, chosen) ==
    /\ e.amount > 0 /\ Positive(chosen)
    /\ \A n \in DOMAIN chosen : chosen[n].currency = chosen[1].currency
    /\ Total(chosen) <= e.amount
\* propose_split_allocations raises unless the candidates add up exactly.
SplitFits(e, chosen) ==
    /\ e.amount > 0 /\ Positive(chosen)
    /\ \A n \in DOMAIN chosen : chosen[n].currency = chosen[1].currency
    /\ Total(chosen) = e.amount
Split(e, chosen) ==
    [n \in DOMAIN chosen |-> Allocation(e.ref, chosen[n].ref, chosen[n].amount)]
\* aggregate_allocations: the statement items add up to the journal's total.
AggregateFits(items, j) == j.amount > 0 /\ Positive(items) /\ Total(items) = j.amount
Aggregate(items, j) ==
    [n \in DOMAIN items |-> Allocation(items[n].ref, j.ref, items[n].amount)]

-----------------------------------------------------------------------------
(* The bridge and the close review *)

BridgeBalance(b) == b.reconciled + b.outstanding_book - b.outstanding_bank
\* compute_book_to_bank_bridge: the first equation that fails names the result.
BridgeStatus(b) ==
    IF b.bank_opening + b.bank_moved # b.bank_closing THEN "statement_balance_mismatch"
    ELSE IF b.book_opening + b.book_moved # b.book_closing THEN "book_balance_mismatch"
    ELSE IF BridgeBalance(b) # b.bank_closing THEN "bridge_difference" ELSE "reconciled"
Unexplained(b) ==
    CASE BridgeStatus(b) = "statement_balance_mismatch" ->
            b.bank_opening + b.bank_moved - b.bank_closing
      [] BridgeStatus(b) = "book_balance_mismatch" ->
            b.book_opening + b.book_moved - b.book_closing
      [] OTHER -> BridgeBalance(b) - b.bank_closing

\* MUTANT: as many decisions as entries are expected.
CoversByCount(given, expected) == Cardinality(given) = Cardinality(expected)
\* _validate_statement_population: one decision for every expected entry.
Covers(given, expected) ==
    /\ Cardinality(given) = Cardinality(expected)
    /\ {d.entry : d \in given} = expected
\* _validate_scope of the current bridge and of the preceding one.
ScopesAgree(scope, bridge, preceding) ==
    /\ bridge.scope = scope
    /\ preceding # {} => \A b \in preceding : b.scope = scope
Exceptions(given) == {d.entry : d \in {x \in given : x.code # "match"}}
Changes(bridge, preceding) ==
    {[unexplained |-> Unexplained(bridge) - Unexplained(b),
      bank |-> bridge.outstanding_bank - b.outstanding_bank,
      book |-> bridge.outstanding_book - b.outstanding_book] : b \in preceding}

\* build_reconciliation_close_review
Review(given, expected, scope, bridge, preceding) ==
    [kind |-> "review", given |-> given, expected |-> expected, scope |-> scope,
     bridge |-> bridge, exceptions |-> Exceptions(given),
     changes |-> Changes(bridge, preceding),
     suitable |-> BridgeStatus(bridge) = "reconciled" /\ Exceptions(given) = {}]

-----------------------------------------------------------------------------

NoAnswer == [kind |-> "none"]
Refused == [kind |-> "refused"]

Init == /\ book = {} /\ population = {} /\ decisions = {}
        /\ answer = NoAnswer

Post(j) == /\ j \notin book /\ book' = book \cup {j}
           /\ answer' = NoAnswer
           /\ UNCHANGED <<population, decisions>>
\* A new run selects the journals posted so far.
BeginRun == /\ population' = book /\ decisions' = {}
            /\ answer' = NoAnswer
            /\ UNCHANGED book
Decide(e) ==
    /\ \A d \in decisions : d.entry # e.ref
    /\ decisions' = decisions \cup {Propose(e, population)}
    /\ answer' = NoAnswer
    /\ UNCHANGED <<book, population>>

PlanSplit(e, chosen) ==
    /\ answer' = IF SplitFits(e, chosen)
                 THEN [kind |-> "split", entries |-> <<e>>, journals |-> chosen,
                       plan |-> Split(e, chosen)]
                 ELSE Refused
    /\ UNCHANGED <<book, population, decisions>>
PlanAggregate(items, j) ==
    /\ answer' = IF AggregateFits(items, j)
                 THEN [kind |-> "aggregate", entries |-> items, journals |-> <<j>>,
                       plan |-> Aggregate(items, j)]
                 ELSE Refused
    /\ UNCHANGED <<book, population, decisions>>

\* The caller supplies the decisions it kept and the entries it expects.
BuildReview(given, expected, scope, bridge, preceding) ==
    /\ answer' = IF Covers(given, expected) /\ ScopesAgree(scope, bridge, preceding)
                 THEN Review(given, expected, scope, bridge, preceding)
                 ELSE Refused
    /\ UNCHANGED <<book, population, decisions>>

\* Planning and reviewing are pure: the caller takes each answer before it
\* asks for the next.
Ask ==
    \/ \E e \in Statement, chosen \in Given(population) : PlanSplit(e, chosen)
    \/ \E items \in Given(Statement), j \in population : PlanAggregate(items, j)
    \/ \E given \in SUBSET decisions, expected \in Populations, scope \in Scopes,
          bridge \in Bridges, preceding \in Preceding :
             BuildReview(given, expected, scope, bridge, preceding)
Next ==
    \/ \E j \in Journals : Post(j)
    \/ BeginRun
    \/ \E e \in Statement : Decide(e)
    \/ answer = NoAnswer /\ Ask
Spec == Init /\ [][Next]_vars

-----------------------------------------------------------------------------
(* Properties *)

\* A match proposed by propose_deterministic_match agrees with its entry in
\* money and direction, carries the entry's first identity, if it has one, and
\* no other journal of the run would have fitted as well.
MatchedEvidenceAgrees ==
    \A e \in Statement, d \in decisions : d.entry = e.ref /\ d.code = "match" =>
        LET identified == \E i \in Identities : e[i] # NoReference
            fits(j) == IF e.provider # NoReference THEN j.provider = e.provider
                       ELSE IF e.end_to_end # NoReference THEN j.end_to_end = e.end_to_end
                       ELSE j.servicer = e.servicer
            agrees(j) == /\ j.currency = e.currency /\ j.amount = e.amount
                         /\ j.side = e.side
        IN  \E j \in population :
                /\ d.journals = {j.ref} /\ d.amount = j.amount /\ agrees(j)
                /\ IF identified THEN fits(j) ELSE Near(e, j)
                /\ \A k \in population \ {j} :
                       IF identified THEN ~fits(k) ELSE ~(agrees(k) /\ Near(e, k))

\* Journals posted later may make an entry ambiguous, and never move a match
\* from one journal to another: reruns do not contradict earlier proposals.
NewEvidenceNeverRedirects ==
    [][\A e \in Statement :
          LET before == Propose(e, book)  after == Propose(e, book')
          IN  before.code = "match" =>
                  after = before \/ after.exception = "ambiguous_reference"]_vars

\* docs/adr/0054: a plan conserves both sides exactly.  Whatever candidates the
\* caller names, in any order, a plan allocates to each statement entry and to
\* each journal its whole amount as often as it was named: once when the
\* evidence is distinct, so that nothing is left open and nothing is allocated
\* twice.  allocation.py does not look for repetitions: a journal named twice
\* against an entry of twice its amount is planned, and counted, twice.
Mentions(items, x) == Cardinality({n \in DOMAIN items : items[n] = x})
Allocated(side, ref) ==
    Sum({n \in DOMAIN answer.plan : answer.plan[n][side] = ref},
        LAMBDA n : answer.plan[n].amount)
AllocationsConserve ==
    answer.kind \in {"split", "aggregate"} =>
        /\ \A e \in Range(answer.entries) :
              Allocated("entry", e.ref) = Mentions(answer.entries, e) * e.amount
        /\ \A j \in Range(answer.journals) :
              Allocated("journal", j.ref) = Mentions(answer.journals, j) * j.amount

\* A review is suitable for period close only if every expected entry has one
\* decision, a match, and statement, book and bridge balances all tie, in the
\* scope the bridge was computed for (docs/adr/0054).
SuitableReviewIsComplete ==
    answer.kind = "review" /\ answer.suitable =>
        LET b == answer.bridge
        IN  /\ \A d \in answer.given : d.entry \in answer.expected
            /\ \A x \in answer.expected :
                  \E d \in answer.given : d.entry = x /\ d.code = "match"
            /\ b.bank_opening + b.bank_moved = b.bank_closing
            /\ b.book_opening + b.book_moved = b.book_closing
            /\ b.reconciled + b.outstanding_book = b.bank_closing + b.outstanding_bank
            /\ b.scope = answer.scope
=============================================================================
