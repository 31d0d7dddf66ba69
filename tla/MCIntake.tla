------------------------------ MODULE MCIntake ------------------------------
(***************************************************************************)
(* Small instances of Intake: two proposals, the first with its payload,   *)
(* its id or its key changed, one on the reserved role, and pages that end *)
(* or go on: to a cursor asked for before, or to ever new ones.            *)
(***************************************************************************)
EXTENDS Intake, TLC

CONSTANTS t1, b1, k1, k2, c1

SomeLines(debited, credited) ==
    [r \in Roles |-> [debit |-> IF r = debited THEN 1 ELSE 0,
                      credit |-> IF r = credited THEN 1 ELSE 0]]
Proposal(id, key, hash, date, lines) ==
    [tenant |-> t1, id |-> id, key |-> key, hash |-> hash, book |-> b1,
     date |-> date, lines |-> lines]

MCRoles == {"cash", "income", "retained_earnings"}
P1 == Proposal("p1", k1, "h1", 1, SomeLines("cash", "income"))
P1Changed == Proposal("p3", k1, "h2", 1, SomeLines("income", "cash"))
P1Renamed == [P1 EXCEPT !.id = "p3"]
P1Rekeyed == [P1 EXCEPT !.key = k2]
P2 == Proposal("p2", k2, "h3", 2, SomeLines("cash", "income"))
P4 == Proposal("p4", k2, "h4", 2, SomeLines("cash", "retained_earnings"))
MCProposals == {P1, P1Changed, P1Renamed, P1Rekeyed}

Command(original, key, date) == [original |-> <<"journal", original>>, key |-> key, date |-> date]
MCReversals == {Command("p1", k2, 2), Command("p2", k1, 1)}
MCPolicies == {[tenant |-> t1, book |-> b1, open |-> {1, 2}, mapped |-> {"cash", "income"}]}

MCPages == {[items |-> <<P1>>, next |-> c1], [items |-> <<P2, P4>>, next |-> NoCursor],
            [items |-> <<>>, next |-> NewCursor]}
=============================================================================
