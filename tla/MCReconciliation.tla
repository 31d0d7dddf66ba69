------------------------- MODULE MCReconciliation -------------------------
EXTENDS Reconciliation, TLC

CONSTANTS p1, x1, a1, s1, s2

Evidence(ref, provider, endToEnd, servicer, amount, currency, side, day) ==
    [ref |-> ref, provider |-> provider, end_to_end |-> endToEnd,
     servicer |-> servicer, amount |-> amount, currency |-> currency,
     side |-> side, day |-> day]

\* e1 carries two identities, e2 its end-to-end identity, e3 none.
MCStatement ==
    {Evidence("e1", p1, NoReference, a1, 6, "KRW", "CRDT", 4),
     Evidence("e2", NoReference, x1, NoReference, 4, "KRW", "DBIT", 4),
     Evidence("e3", NoReference, NoReference, NoReference, 6, "KRW", "CRDT", 5)}
MCPopulations == {{"e1", "e2", "e3"}, {"e1", "e2"}}
\* j2 repeats j1's identity with less money, j3 has e1's weaker identity and is
\* for e3 as good as j1 is and a day later, j4 has the money of two entries, or
\* of one named twice, j5 has e2's identity in another currency and j6 completes
\* j2 to e1's amount and, named twice, has e2's.
MCJournals ==
    {Evidence("j1", p1, NoReference, NoReference, 6, "KRW", "CRDT", 5),
     Evidence("j2", p1, x1, NoReference, 4, "KRW", "DBIT", 4),
     Evidence("j3", NoReference, NoReference, a1, 6, "KRW", "CRDT", 6),
     Evidence("j4", NoReference, NoReference, NoReference, 12, "KRW", "CRDT", 9),
     Evidence("j5", NoReference, x1, NoReference, 2, "USD", "DBIT", 4),
     Evidence("j6", NoReference, NoReference, NoReference, 2, "KRW", "CRDT", 4)}

Tied == [bank_opening |-> 1, bank_moved |-> 4, bank_closing |-> 5,
         book_opening |-> 1, book_moved |-> 2, book_closing |-> 3,
         reconciled |-> 3, outstanding_book |-> 3, outstanding_bank |-> 1, scope |-> s1]
MCBridges == {Tied, [Tied EXCEPT !.scope = s2], [Tied EXCEPT !.bank_moved = 3],
              [Tied EXCEPT !.book_closing = 4], [Tied EXCEPT !.outstanding_bank = 0]}
MCPreceding == {{}, {[Tied EXCEPT !.outstanding_bank = 0]}, {[Tied EXCEPT !.scope = s2]}}
===========================================================================
