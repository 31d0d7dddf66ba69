--------------------------- MODULE MCLedgerStore ---------------------------
(* Instances of LedgerStore for TLC: the commands of each run. *)
EXTENDS LedgerStoreRefinement, TLC

CONSTANTS b1, b2, i1, i2, k1, k2, k3, k4, h1, h2, s1, s2, s3

post(k, h, i, b, p, n) == [op |-> "post", key |-> k, hash |-> h, id |-> i, book |-> b,
                           period |-> p, net |-> n]
adjust(k, h, i, b, p, n) == [post(k, h, i, b, p, n) EXCEPT !.op = "adjust"]
reverse(k, i, p) == [op |-> "reverse", key |-> k, target |-> <<"journal", i>>, period |-> p]
close(o, k, b, p) == [op |-> o, key |-> k, book |-> b, period |-> p]
open(k, p, d) == [op |-> "open", key |-> k, period |-> p, dated |-> d]

SmallAmounts == -3..3

\* The key and the reference of a book period's closing journal.
closing(b, p) == <<"closing", <<b, p>>>>
SomeKeys == {k1, k2, k3, k4, closing(b1, 1)}
reverseRef(k, ref, p) == [reverse(k, i1, p) EXCEPT !.target = ref]

SessionSymmetry == Permutations(Sessions)

\* Two books and two periods, the second opened late: retries and keys shared
\* by kinds of command, competing reversals, reversals of a closing journal and
\* of a reversal, closes under two keys, in either order and of both books.
StoreRequests ==
    {post(k1, h1, i1, b1, 1, 2), post(k1, h2, i1, b1, 1, 2),
     adjust(k1, h1, i2, b1, 2, 1), adjust(closing(b1, 1), h1, i2, b1, 1, 1),
     reverse(k2, i1, 2), reverse(k3, i1, 1),
     reverseRef(k4, closing(b1, 1), 1), reverseRef(k4, <<"reversal", i1>>, 1),
     open(k1, 2, TRUE), open(k1, 2, FALSE),
     close("soft_close", k4, b1, 1), close("hard_close", k4, b1, 1),
     close("hard_close", k3, b1, 1), close("hard_close", k4, b1, 2),
     close("hard_close", k2, b2, 1)}

\* One book and one period: a reversal retried around a hard close.
ReversalRequests == {post(k1, h1, i1, b1, 1, 1), reverse(k2, i1, 1), reverse(k3, i1, 1),
                     close("hard_close", k4, b1, 1)}

\* A post and the hard close of its period, and of another book's.
LateRequests == {post(k1, h1, i1, b1, 1, 1), close("hard_close", k4, b1, 1),
                 close("hard_close", k2, b2, 1)}

\* One book and two periods, closed in either order.
PeriodRequests == {post(k1, h1, i1, b1, 1, 2), post(k2, h1, i2, b1, 2, 1),
                   close("hard_close", k3, b1, 1), close("hard_close", k4, b1, 2)}
============================================================================
