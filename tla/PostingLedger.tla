--------------------------- MODULE PostingLedger ---------------------------
(***************************************************************************)
(* The in-memory PostingLedger of core.py: the public behaviour that       *)
(* PostgresPostingLedger must preserve.  A step posts one journal proposal *)
(* or reverses one journal; a replay or a refusal changes nothing and is a *)
(* predicate on commands (Replays, Conflicts, Cached, NotYetReversed).      *)
(*                                                                         *)
(* A book stands for a legal entity, its book, its role and its currency;  *)
(* the lines of a journal are totalled per account role.                   *)
(***************************************************************************)
EXTENDS Integers, FiniteSets, FiniteSetsExt

CONSTANTS Tenants, Books,
          Dates,      \* accounting dates, in order
          Ids,        \* proposal identifiers
          Roles,      \* account roles of journal lines
          Amounts,    \* line amounts
          Proposals,  \* the journal proposals callers post
          ReversalCommands,  \* the reversal commands callers send
          Policies,   \* the accounting policies callers resolve
          NoRef       \* a model value: reverses nothing

Ref == {"journal", "reversal"} \X Ids
Lines == [Roles -> [debit : Amounts, credit : Amounts]]

Total(lines, side) == MapThenSumSet(LAMBDA r : lines[r][side], DOMAIN lines)
Used(lines) == {r \in DOMAIN lines : lines[r].debit # 0 \/ lines[r].credit # 0}
Balanced(lines) == Total(lines, "debit") = Total(lines, "credit")
\* A ledger keeps one side per line, and a reversal exchanges the two.
Swapped(lines) == [r \in DOMAIN lines |-> [debit |-> lines[r].credit, credit |-> lines[r].debit]]

ASSUME DatesAssumption == Dates \subseteq Int /\ Amounts \subseteq Nat
ASSUME RefAssumption == NoRef \notin Ref
\* What the dataclasses of core.py let through.
WellFormed(p) ==
    /\ p.tenant \in Tenants /\ p.book \in Books /\ p.id \in Ids
    /\ p.date \in Dates /\ p.lines \in Lines /\ Balanced(p.lines)
ASSUME CommandsAssumption ==
    /\ \A p \in Proposals : WellFormed(p)
    /\ \A c \in ReversalCommands : c.original \in Ref /\ c.date \in Dates
    /\ \A y \in Policies : /\ y.tenant \in Tenants /\ y.book \in Books
                           /\ y.open \subseteq Dates /\ y.mapped \subseteq Roles

VARIABLES journals,   \* _journals
          receipts,   \* _receipts_by_idempotency
          reversals   \* _reversal_receipts and _reversal_command_evidence
ledger == <<journals, receipts, reversals>>

-----------------------------------------------------------------------------
(* post *)

Cached(p) == {c \in receipts : c.tenant = p.tenant /\ c.key = p.key}
\* MUTANT: the payload hash of a known key is not compared.
ReplaysAnyPayload(p) == Cached(p) # {}
Replays(p) == \E c \in Cached(p) : c.hash = p.hash
Conflicts(p) == \E c \in Cached(p) : c.hash # p.hash

\* _validate_policy_scope and _resolve_line.
InScope(p, policy) ==
    /\ p.tenant = policy.tenant /\ p.book = policy.book
    /\ p.date \in policy.open
    /\ Used(p.lines) \subseteq policy.mapped
Journals(tenant, ref) == {j \in journals : j.tenant = tenant /\ j.ref = ref}

\* MUTANT: a key is taken for new when its cached hash differs.
CanPostChangedPayload(p, policy) ==
    ~Replays(p) /\ InScope(p, policy) /\ Journals(p.tenant, <<"journal", p.id>>) = {}
CanPost(p, policy) ==
    Cached(p) = {} /\ InScope(p, policy) /\ Journals(p.tenant, <<"journal", p.id>>) = {}

Post(p, policy) ==
    /\ CanPost(p, policy)
    /\ journals' = journals \cup
         {[tenant |-> p.tenant, ref |-> <<"journal", p.id>>, book |-> p.book,
           date |-> p.date, lines |-> p.lines, reverses |-> NoRef]}
    /\ receipts' = receipts \cup
         {[tenant |-> p.tenant, key |-> p.key, hash |-> p.hash, ref |-> <<"journal", p.id>>]}
    /\ UNCHANGED reversals

-----------------------------------------------------------------------------
(* reverse *)

\* MUTANT: the reversal may precede its original.
ReversibleAnyDate(o, c, policy) ==
    /\ o.tenant = policy.tenant /\ o.ref = c.original /\ o.reverses = NoRef
    /\ o.book = policy.book
    /\ c.date \in policy.open
Reversible(o, c, policy) ==
    /\ o.tenant = policy.tenant /\ o.ref = c.original /\ o.reverses = NoRef
    /\ o.book = policy.book
    /\ o.date <= c.date /\ c.date \in policy.open
\* Neither the cached receipt nor an occupant of the reversal's reference.
NotYetReversed(c, policy) ==
    Journals(policy.tenant, <<"reversal", c.original[2]>>) = {}

Reverse(c, policy) ==
    /\ NotYetReversed(c, policy)
    /\ \E o \in journals :
         /\ Reversible(o, c, policy)
         /\ journals' = journals \cup
              {[tenant |-> o.tenant, ref |-> <<"reversal", c.original[2]>>, book |-> o.book,
                date |-> c.date, lines |-> Swapped(o.lines), reverses |-> o.ref]}
    /\ reversals' = reversals \cup
         {[tenant |-> policy.tenant, original |-> c.original, key |-> c.key, date |-> c.date]}
    /\ UNCHANGED receipts

-----------------------------------------------------------------------------
Init == journals = {} /\ receipts = {} /\ reversals = {}
Next == \E policy \in Policies : \/ \E p \in Proposals : Post(p, policy)
                                 \/ \E c \in ReversalCommands : Reverse(c, policy)
Spec == Init /\ [][Next]_ledger

-----------------------------------------------------------------------------
(* trial_balance *)

InBalance(tenant, book, date) ==
    {j \in journals : j.tenant = tenant /\ j.book = book /\ j.date <= date}
TrialBalance(tenant, book, date) ==
    [r \in Roles |->
       [side \in {"debit", "credit"} |->
          MapThenSumSet(LAMBDA j : j.lines[r][side], InBalance(tenant, book, date))]]

-----------------------------------------------------------------------------
(* Properties *)

\* The three dictionaries agree: every journal has one receipt or is one
\* reversal of one original, and no key of a tenant names two journals.  A
\* replay reads one dictionary and trusts it to stand for the others.
CachesMatchJournals ==
    /\ \A j1, j2 \in journals : j1.tenant = j2.tenant /\ j1.ref = j2.ref => j1 = j2
    /\ \A c1, c2 \in receipts : c1.tenant = c2.tenant /\ c1.key = c2.key => c1 = c2
    /\ \A e1, e2 \in reversals : e1.tenant = e2.tenant /\ e1.original = e2.original => e1 = e2
    /\ {<<c.tenant, c.ref>> : c \in receipts}
          = {<<j.tenant, j.ref>> : j \in {k \in journals : k.reverses = NoRef}}
    /\ {<<e.tenant, e.original, e.date>> : e \in reversals}
          = {<<j.tenant, j.reverses, j.date>> : j \in {k \in journals : k.reverses # NoRef}}

\* A reversal cancels its original in every account from its date on and
\* changes no balance before: a trial balance through any date is what the
\* originals not yet reversed on that date book.
ReversedJournalsCancel ==
    \A tenant \in Tenants, book \in Books, date \in Dates :
        LET in == InBalance(tenant, book, date)
            standing == {j \in in : /\ j.reverses = NoRef
                                    /\ ~\E k \in in : k.reverses = j.ref}
            balance == TrialBalance(tenant, book, date)
        IN  \A r \in Roles : balance[r].debit - balance[r].credit
                = MapThenSumSet(LAMBDA j : j.lines[r].debit - j.lines[r].credit, standing)
============================================================================
