------------------------ MODULE MCReportRequests ------------------------
EXTENDS ReportRequests

\* Three month ends, the first of them in the year before.
MCPeriods == 1..3
MCYear == <<2025, 2026, 2026>>
MCEndDay == <<0, 31, 61>>

\* The seeded catalog.
MCRoleOf == ("110100" :> "accounts_receivable") @@ ("110200" :> "cash_receipt")
            @@ ("210100" :> "tax_payable") @@ ("210200" :> "unapplied_cash")
            @@ ("310100" :> "retained_earnings") @@ ("410100" :> "usage_revenue")
            @@ ("510100" :> "write_off_expense")
MCAccounts == DOMAIN MCRoleOf
MCClass == ("110100" :> "asset") @@ ("110200" :> "asset") @@ ("210100" :> "liability")
           @@ ("210200" :> "liability") @@ ("310100" :> "equity")
           @@ ("410100" :> "revenue") @@ ("510100" :> "expense")

Dr(account, amount) ==
    [account |-> account, role |-> MCRoleOf[account], debit |-> amount, credit |-> 0]
Cr(account, amount) ==
    [account |-> account, role |-> MCRoleOf[account], debit |-> 0, credit |-> amount]
Adjusting(line) == [line EXCEPT !.role = "adjusting"]
Entry(ref, key, lines) == [ref |-> ref, key |-> key, lines |-> lines]

Payment == Entry(2, "none", {Dr("110200", 2), Cr("110100", 2)})
Invoice == Entry(4, "invoice_draft", {Dr("110100", 3), Cr("410100", 2), Cr("210100", 1)})
Parking == Entry(6, "unapplied_cash", {Dr("110200", 2), Cr("210200", 2)})
Application == Entry(8, "unapplied_cash_application", {Dr("210200", 1), Cr("110100", 1)})
Refund == Entry(10, "unapplied_cash_refund", {Dr("210200", 1), Cr("110200", 1)})
WriteOff == Entry(12, "none", {Dr("510100", 1), Cr("110100", 1)})
Contribution == Entry(14, "none", {Adjusting(Dr("110200", 5)), Adjusting(Cr("310100", 5))})
Reclass == Entry(16, "none", {Adjusting(Dr("210200", 1)), Adjusting(Cr("210100", 1))})
MCEntries == {Payment, Invoice, Parking, Application, Refund, WriteOff, Contribution, Reclass}

Symmetry == Permutations(Filers)
=========================================================================
