------------------------------- MODULE Outbox -------------------------------
(***************************************************************************)
(* accounting_integration.outbox_event for one tenant and event type.      *)
(* A transaction inserts a row, which takes its created_at from the clock, *)
(* and commits later: rows become visible in another order than they are   *)
(* created.  Consumers page by (created_at, outbox_event_id): a drainer    *)
(* loads unpublished rows and publishes them, an auditor reads all rows.   *)
(***************************************************************************)
EXTENDS Integers, FiniteSets

CONSTANTS Writers,     \* transactions that insert events
          Events,      \* what they announce: a journal or a reversal
          RowIds,      \* outbox_event_id, numbered in uuid order
          PageLimit,   \* rows per page
          MaxTime,     \* bound on the clock
          MaxPasses,   \* bound on the passes of each consumer
          NoRow        \* a model value: nothing

ASSUME OutboxAssumption ==
    RowIds \subseteq Nat /\ PageLimit \in Nat \ {0} /\ MaxTime \in Nat /\ MaxPasses \in Nat
ASSUME NoRowAssumption ==
    /\ NoRow \notin [created : Nat, id : RowIds]
    /\ NoRow \notin [id : RowIds, event : Events, created : Nat, published : Nat]

Consumers == {"drainer", "auditor"}

VARIABLES clock,     \* clock_timestamp()
          inserted,  \* each writer's uncommitted row
          outbox,    \* the committed rows; published = 0 is NULL
          reader     \* each consumer's pass
outboxVars == <<clock, inserted, outbox, reader>>

Start == [created |-> 0, id |-> 0]
Idle == [stage |-> "idle", page |-> {}, next |-> NoRow,
         due |-> {}, got |-> {}, passes |-> 0]

-----------------------------------------------------------------------------
(* Writing: _insert_outbox and its COMMIT *)

Tick == \E t \in {clock, clock + 1} : t <= MaxTime /\ clock' = t

UsedIds == {row.id : row \in (outbox \cup {inserted[w] : w \in Writers}) \ {NoRow}}
InsertEvent(w) ==
    /\ inserted[w] = NoRow
    /\ \E id \in RowIds \ UsedIds, event \in Events :
         inserted' = [inserted EXCEPT ![w] =
                        [id |-> id, event |-> event, created |-> clock, published |-> 0]]
    /\ Tick
    /\ UNCHANGED <<outbox, reader>>
CommitEvent(w) ==
    /\ inserted[w] # NoRow
    /\ outbox' = outbox \cup {inserted[w]}
    /\ inserted' = [inserted EXCEPT ![w] = NoRow]
    /\ UNCHANGED <<clock, reader>>
RollBackEvent(w) ==
    /\ inserted[w] # NoRow
    /\ inserted' = [inserted EXCEPT ![w] = NoRow]
    /\ UNCHANGED <<clock, outbox, reader>>

-----------------------------------------------------------------------------
(* load_unpublished_outbox_events and load_audit_events *)

\* MUTANT: the cursor compares the timestamp alone.
BeyondByTime(row, cursor) == row.created > cursor.created
\* (created_at, outbox_event_id) > cursor
Beyond(row, cursor) ==
    \/ row.created > cursor.created
    \/ row.created = cursor.created /\ row.id > cursor.id

\* ORDER BY created_at, outbox_event_id
Precedes(row, q) ==
    row.created < q.created \/ (row.created = q.created /\ row.id < q.id)

\* The first PageLimit of the rows beyond a cursor.
PageOf(rows, cursor) ==
    LET rest == {row \in rows : Beyond(row, cursor)}
    IN  {row \in rest : Cardinality({q \in rest : Precedes(q, row)}) < PageLimit}
HasMore(rows, cursor) == Cardinality({row \in rows : Beyond(row, cursor)}) > PageLimit
LastOf(page) == CHOOSE row \in page : \A q \in page : row = q \/ Precedes(q, row)
NextCursor(rows, cursor) ==
    LET last == LastOf(PageOf(rows, cursor))
    IN  IF HasMore(rows, cursor) THEN [created |-> last.created, id |-> last.id] ELSE NoRow

\* MUTANT: published rows leave the audit too.
OfferedUnpublished(c) == {row \in outbox : row.published = 0}
Offered(c) == IF c = "drainer" THEN {row \in outbox : row.published = 0} ELSE outbox

\* A pass starts at the first page and owes every row committed by then.
LoadPage(c) ==
    LET r == reader[c] IN
    /\ \/ r.stage = "idle" /\ r.passes < MaxPasses
       \/ r.stage = "paging" /\ r.page = {} /\ r.next # NoRow
    /\ LET cursor == IF r.stage = "idle" THEN Start ELSE r.next
           page == {row.id : row \in PageOf(Offered(c), cursor)}
       IN  reader' = [reader EXCEPT ![c] =
             [stage |-> "paging",
              page |-> IF c = "drainer" THEN page ELSE {},
              next |-> NextCursor(Offered(c), cursor),
              due |-> IF r.stage = "idle" THEN {row.id : row \in outbox} ELSE r.due,
              got |-> r.got \cup page,
              passes |-> IF r.stage = "idle" THEN r.passes + 1 ELSE r.passes]]
    /\ UNCHANGED <<clock, inserted, outbox>>
\* next_cursor is null and the page is used up.
EndPass(c) ==
    /\ reader[c].stage = "paging" /\ reader[c].page = {} /\ reader[c].next = NoRow
    /\ reader' = [reader EXCEPT ![c] = [Idle EXCEPT !.passes = reader[c].passes]]
    /\ UNCHANGED <<clock, inserted, outbox>>

-----------------------------------------------------------------------------
(* publish_outbox_event *)

\* MUTANT: the update is not restricted to unpublished rows.
PublishedAgain(row) == [row EXCEPT !.published = clock]
\* UPDATE ... WHERE published_at IS NULL, else the row as it is.
Published(row) == IF row.published = 0 THEN [row EXCEPT !.published = clock] ELSE row

\* The answer may be lost: the drainer then publishes the row again.
Publish(id) ==
    /\ id \in reader["drainer"].page
    /\ outbox' = {IF row.id = id THEN Published(row) ELSE row : row \in outbox}
    /\ \E answered \in BOOLEAN :
         reader' = IF answered THEN [reader EXCEPT !["drainer"].page = @ \ {id}] ELSE reader
    /\ Tick
    /\ UNCHANGED inserted

-----------------------------------------------------------------------------
Init ==
    /\ clock = 1
    /\ inserted = [w \in Writers |-> NoRow]
    /\ outbox = {}
    /\ reader = [c \in Consumers |-> Idle]

Write(w) == InsertEvent(w) \/ CommitEvent(w) \/ RollBackEvent(w)
Consume == \/ \E c \in Consumers : LoadPage(c) \/ EndPass(c)
           \/ \E id \in RowIds : Publish(id)
Next == (\E w \in Writers : Write(w)) \/ Consume
Spec == Init /\ [][Next]_outboxVars

-----------------------------------------------------------------------------
(* Properties *)

AtEnd(c) == reader[c].stage = "paging" /\ reader[c].page = {} /\ reader[c].next = NoRow

\* A drain pass publishes every event that was committed when it began,
\* although each row it publishes leaves the list it is paging through, and
\* rows with older timestamps are committed behind its cursor meanwhile.
DrainLeavesNothingBehind ==
    AtEnd("drainer") => \A row \in outbox : row.id \in reader["drainer"].due => row.published # 0

\* An audit pass returns every event that was committed when it began, however
\* rows share timestamps and commit out of their order.
AuditMissesNothing == AtEnd("auditor") => reader["auditor"].due \subseteq reader["auditor"].got

\* Events are never lost and keep their first publication time, when a
\* publisher repeats itself after a lost answer or publishes what another did.
PublicationIsFinal ==
    [][\A row \in outbox : \E next \in outbox' :
          /\ next.id = row.id /\ next.event = row.event /\ next.created = row.created
          /\ row.published # 0 => next.published = row.published]_outbox
============================================================================
