----------------------- MODULE MCBankStatementRegistry -----------------------
(* Instances of BankStatementRegistry for TLC: the documents and commands. *)
EXTENDS BankStatementRegistry, TLC

CONSTANTS a1, a2, e1, e2, b1, c1, c2, k1, k2, n1, n2, p1, p2, p3,
          first, again, changed, other, s1, s2

\* One statement, its bytes delivered in another form, a changed statement of
\* the same identity, and a statement of its own.
SomeParsed ==
    [d \in {first, again, changed, other} |->
       [identity |-> IF d = other THEN n2 ELSE n1,
        payload |-> CASE d = changed -> p2 [] d = other -> p3 [] OTHER -> p1,
        evidence |-> e1]]

register(a, e) == [op |-> "register", account |-> a, evidence |-> e]
assign(a, c, from, to, k) ==
    [op |-> "assign", account |-> a, book |-> b1, chart |-> c, from |-> from, to |-> to, key |-> k]
ingest(a, d, k) == [op |-> "ingest", account |-> a, artifact |-> d, key |-> k]

SomeCatalog == {<<b1, c1>>}
FirstAccount == {[account |-> a1, evidence |-> e1]}

\* Deliveries under shared keys, of shared bytes and of shared identities, to
\* the right account, to a second reference of it, and to another account.
SomeRequests ==
    {register(a2, e1), register(a2, e2),
     assign(a1, c1, 1, NoEnd, k1), assign(a1, c1, 2, NoEnd, k2),
     assign(a1, c1, 1, 2, k1), assign(a1, c1, 2, 1, k2), assign(a1, c2, 1, 2, k2),
     ingest(a1, first, k1), ingest(a1, first, k2), ingest(a1, again, k2),
     ingest(a1, changed, k2), ingest(a1, other, k1), ingest(a2, first, k2)}

\* Deliveries to one account.
DeliveryRequests ==
    {ingest(a1, first, k1), ingest(a1, again, k2), ingest(a1, other, k2),
     ingest(a1, changed, k1)}
============================================================================
