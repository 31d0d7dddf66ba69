---------------------------- MODULE BillingPull ----------------------------
(***************************************************************************)
(* accept_pulled_proposals of billing_pull.py: GET Billing's validated     *)
(* proposals page by page and accept each item before the next.  Billing   *)
(* is external: a page is one of Pages, or the GET fails.  How an item is  *)
(* accepted is the composing module's: it calls Received, Refused or Fail. *)
(***************************************************************************)
EXTENDS Integers, Sequences, FiniteSets

CONSTANTS Pages,     \* the pages Billing may answer: [items, next]
          NoCursor,  \* a model value: next_cursor is null
          NewCursor, \* a model value: a next_cursor that Billing never gave before
          MaxPages,  \* MAX_PULL_PAGES
          MaxCommands \* bound on the commands issued

ASSUME PullAssumption == MaxPages \in Nat \ {0} /\ MaxCommands \in Nat
\* What _parse_billing_object and the closed list contract let through.
ASSUME PagesAssumption ==
    \A page \in Pages : /\ DOMAIN page = {"items", "next"}
                         /\ page.items \in Seq({page.items[n] : n \in DOMAIN page.items})

VARIABLES pull,   \* the local variables of the running pull
          issued  \* the number of commands issued
pullVars == <<pull, issued>>

\* The outcome of an item names it and its journal or its rejection code.
Codes == {"idempotency_conflict", "closed_period", "unknown_account_role",
          "proposal_validation_failed"}

Fresh == [stage |-> "idle", cursor |-> NoCursor, page |-> [items |-> <<>>, next |-> NoCursor],
          seen |-> {}, fetched |-> <<>>, receipts |-> {}, rejected |-> {}]
Item == Head(pull.page.items)
Continue(stage) == pull' = [pull EXCEPT !.stage = stage] /\ UNCHANGED issued

\* The command may name the cursor to start from, one that Billing gave before.
BeginPull ==
    /\ pull.stage = "idle"
    /\ issued < MaxCommands
    /\ \E cursor \in ({page.next : page \in Pages} \ {NewCursor}) \cup {NoCursor} :
         pull' = [Fresh EXCEPT !.stage = "fetch", !.cursor = cursor]
    /\ issued' = issued + 1

\* An exception leaves accept_pulled_proposals: its lists are lost.
Fail == pull.stage # "idle" /\ pull' = Fresh /\ UNCHANGED issued

\* pages_fetched is counted before the GET.
MayFetch == pull.stage = "fetch" /\ Len(pull.fetched) < MaxPages
\* MUTANT: pages_fetched starts again with every page.
FetchPageUncounted ==
    /\ MayFetch
    /\ \E page \in Pages :
         pull' = [pull EXCEPT !.stage = "page", !.page = page,
                              !.fetched = <<[cursor |-> pull.cursor, page |-> page]>>]
    /\ UNCHANGED issued
FetchPage ==
    /\ MayFetch
    /\ \E page \in Pages :
         pull' = [pull EXCEPT !.stage = "page", !.page = page,
                              !.fetched = Append(@, [cursor |-> pull.cursor, page |-> page])]
    /\ UNCHANGED issued
\* Billing is unreachable, answers an error, or breaks the closed list contract.
FetchFails == MayFetch /\ Fail
TooManyPages == pull.stage = "fetch" /\ Len(pull.fetched) >= MaxPages /\ Fail

TakeItem == pull.stage = "page" /\ pull.page.items # <<>> /\ Continue("item")

Consumed == [pull EXCEPT !.page.items = Tail(@), !.stage = "page"]
Received(ref) ==
    /\ pull' = [Consumed EXCEPT !.receipts = @ \cup {[item |-> Item, ref |-> ref]}]
    /\ UNCHANGED issued
Refused(code) ==
    /\ pull' = [Consumed EXCEPT !.rejected = @ \cup {[item |-> Item, code |-> code]}]
    /\ UNCHANGED issued

\* MUTANT: the page's own cursor is not yet counted as seen.
SeenBefore == pull.seen
\* The cursors asked for so far, this page's included.
SeenCursors == pull.seen \cup ({pull.cursor} \ {NoCursor, NewCursor})

PageDone == pull.stage = "page" /\ pull.page.items = <<>>
NextPage ==
    /\ PageDone
    /\ pull.page.next # NoCursor
    /\ pull.page.next \notin SeenCursors
    /\ pull' = [pull EXCEPT !.stage = "fetch", !.cursor = pull.page.next, !.seen = SeenCursors]
    /\ UNCHANGED issued
CursorDidNotAdvance == PageDone /\ pull.page.next \in SeenCursors /\ Fail
\* The command completes; the lists are its answer.
Complete == PageDone /\ pull.page.next = NoCursor /\ Continue("done")
Deliver == pull.stage = "done" /\ Fail

PullInit == pull = Fresh /\ issued = 0

Paging == \/ FetchPage \/ FetchFails \/ TooManyPages
          \/ NextPage \/ CursorDidNotAdvance \/ Complete \/ Deliver

-----------------------------------------------------------------------------
(* Properties *)

\* docs/adr/0011: a repeated cursor stops the pull.  Whatever Billing answers,
\* no page is asked for twice in one pull, by a self-loop or by a longer cycle;
\* what a new cursor leads to was not asked for before.
NoPageTwice ==
    \A m, n \in 1..Len(pull.fetched) :
        /\ pull.fetched[m].cursor # NewCursor
        /\ pull.fetched[m].cursor = pull.fetched[n].cursor
        => m = n
============================================================================
