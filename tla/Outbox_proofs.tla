---------------------------- MODULE Outbox_proofs ----------------------------
(***************************************************************************)
(* Pages and publications of Outbox, for any writers, events, row numbers  *)
(* and page size: a pass reaches every event committed when it began, and  *)
(* a published event is neither lost nor published anew.                   *)
(***************************************************************************)
EXTENDS Outbox, FiniteSetTheorems, WellFoundedInduction, TLAPS

Rows == [id : RowIds, event : Events, created : Nat, published : Nat]
Cursors == [created : Nat, id : RowIds]

-----------------------------------------------------------------------------
(* A page and the cursor after it *)

\* A set of numbers that is not empty has a least element.
LEMMA LeastNumber ==
    ASSUME NEW T \in SUBSET Nat, T # {}
    PROVE  \E n \in T : \A m \in T : n <= m
<1>1. \E n \in T : \A m \in T : ~(<<m, n>> \in OpToRel(<, Nat))
  BY NatLessThanWellFounded, WFMin, Zenon
<1>2. PICK n \in T : \A m \in T : ~(<<m, n>> \in OpToRel(<, Nat))
  BY <1>1
<1>3. \A m \in T : <<m, n>> \in OpToRel(<, Nat) <=> m < n
  BY DEF OpToRel
<1>4. \A m \in T : ~(m < n)
  BY <1>2, <1>3
<1>5. QED BY <1>4

\* A proper part of a finite set has fewer elements.
LEMMA FewerElements ==
    ASSUME NEW S, IsFiniteSet(S), NEW T \in SUBSET S, NEW x \in S \ T
    PROVE  Cardinality(T) < Cardinality(S)
<1>1. Cardinality(T) \in Nat /\ Cardinality(S) \in Nat
  BY FS_Subset, FS_CardinalityType
<1>2. Cardinality(T) <= Cardinality(S) /\ Cardinality(T) # Cardinality(S)
  BY FS_Subset
<1>3. QED BY <1>1, <1>2

Before(rows, row) == {q \in rows : Precedes(q, row)}
After(rows, row) == {q \in rows : Precedes(row, q)}

\* Rows are ordered by creation and number, which is unique.
LEMMA RowOrder ==
    ASSUME NEW rows \in SUBSET Rows, \A r, q \in rows : r.id = q.id => r = q,
           NEW x \in rows, NEW y \in rows, NEW z \in rows
    PROVE  /\ ~Precedes(x, x)
           /\ Precedes(x, y) \/ Precedes(y, x) \/ x = y
           /\ Precedes(x, y) /\ Precedes(y, z) => Precedes(x, z)
<1>1. /\ x.created \in Nat /\ y.created \in Nat /\ z.created \in Nat
      /\ x.id \in Nat /\ y.id \in Nat /\ z.id \in Nat
  BY OutboxAssumption DEF Rows
<1>2. QED BY <1>1 DEF Precedes

\* A finite set of rows has a first one: that with the fewest rows before it.
LEMMA FirstRow ==
    ASSUME NEW rows \in SUBSET Rows, IsFiniteSet(rows), rows # {},
           \A r, q \in rows : r.id = q.id => r = q
    PROVE  \E row \in rows : Before(rows, row) = {}
<1> DEFINE counts == {Cardinality(Before(rows, row)) : row \in rows}
<1>1. \A row \in rows : IsFiniteSet(Before(rows, row)) /\ Cardinality(Before(rows, row)) \in Nat
  BY FS_Subset, FS_CardinalityType DEF Before
<1>2. counts \in SUBSET Nat /\ counts # {}
  BY <1>1
<1>3. PICK n \in counts : \A m \in counts : n <= m
  <2> HIDE DEF counts
  <2> QED BY <1>2, LeastNumber
<1>4. PICK row \in rows : n = Cardinality(Before(rows, row))
  BY <1>3
<1>5. ASSUME NEW q \in Before(rows, row)
      PROVE  FALSE
  <2>1. q \in rows /\ Before(rows, q) \in SUBSET Before(rows, row) /\ q \notin Before(rows, q)
    BY <1>5, RowOrder DEF Before
  <2>2. Cardinality(Before(rows, q)) < Cardinality(Before(rows, row))
    BY <2>1, <1>1, <1>5, FewerElements
  <2>3. n <= Cardinality(Before(rows, q))
    BY <2>1, <1>3
  <2> HIDE DEF counts
  <2>4. Cardinality(Before(rows, q)) \in Nat /\ n = Cardinality(Before(rows, row)) /\ n \in Nat
    BY <2>1, <1>1, <1>4
  <2>5. QED BY <2>2, <2>3, <2>4
<1>6. QED BY <1>5

\* It has a last one: that with the fewest rows after it.
LEMMA LastRow ==
    ASSUME NEW rows \in SUBSET Rows, IsFiniteSet(rows), rows # {},
           \A r, q \in rows : r.id = q.id => r = q
    PROVE  \E row \in rows : After(rows, row) = {}
<1> DEFINE counts == {Cardinality(After(rows, row)) : row \in rows}
<1>1. \A row \in rows : IsFiniteSet(After(rows, row)) /\ Cardinality(After(rows, row)) \in Nat
  BY FS_Subset, FS_CardinalityType DEF After
<1>2. counts \in SUBSET Nat /\ counts # {}
  BY <1>1
<1>3. PICK n \in counts : \A m \in counts : n <= m
  <2> HIDE DEF counts
  <2> QED BY <1>2, LeastNumber
<1>4. PICK row \in rows : n = Cardinality(After(rows, row))
  BY <1>3
<1>5. ASSUME NEW q \in After(rows, row)
      PROVE  FALSE
  <2>1. q \in rows /\ After(rows, q) \in SUBSET After(rows, row) /\ q \notin After(rows, q)
    BY <1>5, RowOrder DEF After
  <2>2. Cardinality(After(rows, q)) < Cardinality(After(rows, row))
    BY <2>1, <1>1, <1>5, FewerElements
  <2>3. n <= Cardinality(After(rows, q))
    BY <2>1, <1>3
  <2> HIDE DEF counts
  <2>4. Cardinality(After(rows, q)) \in Nat /\ n = Cardinality(After(rows, row)) /\ n \in Nat
    BY <2>1, <1>1, <1>4
  <2>5. QED BY <2>2, <2>3, <2>4
<1>6. QED BY <1>5

\* The rows of a page end in one that none of them follows.
LEMMA PageHasLast ==
    ASSUME NEW rows \in SUBSET Rows, IsFiniteSet(rows),
           \A r, q \in rows : r.id = q.id => r = q,
           NEW cursor, NEW some \in rows, Beyond(some, cursor)
    PROVE  LET page == PageOf(rows, cursor)
           IN  LastOf(page) \in page /\ \A q \in page : ~Precedes(LastOf(page), q)
<1> DEFINE rest == {r \in rows : Beyond(r, cursor)}
           page == PageOf(rows, cursor)
<1>1. page = {r \in rest : Cardinality(Before(rest, r)) < PageLimit}
  BY DEF PageOf, Before
<1>2. rest \in SUBSET rows /\ rest # {} /\ IsFiniteSet(rest)
  BY FS_Subset
<1>3. PICK first \in rest : Before(rest, first) = {}
  <2> HIDE DEF rest
  <2> QED BY <1>2, FirstRow
<1>4. Cardinality(Before(rest, first)) < PageLimit
  BY <1>3, FS_EmptySet, OutboxAssumption
<1>5. page # {} /\ page \in SUBSET rows /\ IsFiniteSet(page)
  <2> HIDE DEF rest, page
  <2> QED BY <1>1, <1>2, <1>4, FS_Subset
<1> HIDE DEF page
<1>6. PICK last \in page : After(page, last) = {}
  BY <1>5, LastRow
<1>7. \A q \in page : last = q \/ Precedes(q, last)
  BY <1>5, <1>6, RowOrder DEF After
<1>8. LastOf(page) \in page /\ \A q \in page : LastOf(page) = q \/ Precedes(q, LastOf(page))
  BY <1>7 DEF LastOf
<1>9. \A q \in page : ~Precedes(LastOf(page), q)
  BY <1>5, <1>8, RowOrder
<1>10. QED BY <1>8, <1>9 DEF page

\* A page returns no cursor, or that of a row.
LEMMA CursorType ==
    ASSUME NEW rows \in SUBSET Rows, IsFiniteSet(rows),
           \A r, q \in rows : r.id = q.id => r = q,
           NEW cursor
    PROVE  NextCursor(rows, cursor) \in Cursors \cup {NoRow}
<1>1. CASE ~HasMore(rows, cursor)
  BY <1>1 DEF NextCursor
<1>2. CASE HasMore(rows, cursor)
  <2> DEFINE last == LastOf(PageOf(rows, cursor))
  <2>1. {row \in rows : Beyond(row, cursor)} # {}
    BY <1>2, FS_EmptySet, OutboxAssumption DEF HasMore
  <2>2. last \in rows
    BY <2>1, PageHasLast DEF PageOf
  <2>3. last.created \in Nat /\ last.id \in RowIds
    BY <2>2 DEF Rows
  <2>4. QED BY <1>2, <2>3 DEF NextCursor, Cursors
<1>3. QED BY <1>1, <1>2

\* No row is skipped: of the rows beyond a cursor, each is on its page or
\* beyond the cursor the page returns.
LEMMA PageSkipsNothing ==
    ASSUME NEW rows \in SUBSET Rows, IsFiniteSet(rows),
           \A r, q \in rows : r.id = q.id => r = q,
           NEW cursor, NEW row \in rows, Beyond(row, cursor),
           row \notin PageOf(rows, cursor)
    PROVE  /\ NextCursor(rows, cursor) # NoRow
           /\ Beyond(row, NextCursor(rows, cursor))
<1> DEFINE rest == {r \in rows : Beyond(r, cursor)}
           page == {r \in rest : Cardinality(Before(rest, r)) < PageLimit}
           last == LastOf(page)
<1>1. page = PageOf(rows, cursor) /\ rest \in SUBSET rows /\ row \in rest
  BY DEF PageOf, Before
<1>2. IsFiniteSet(rest) /\ Cardinality(rest) \in Nat
  BY <1>1, FS_Subset, FS_CardinalityType
<1>3. \A r \in rest : Cardinality(Before(rest, r)) \in Nat /\ IsFiniteSet(Before(rest, r))
  BY <1>2, FS_Subset, FS_CardinalityType DEF Before
<1>4. Cardinality(Before(rest, row)) < Cardinality(rest)
  <2>1. Before(rest, row) \in SUBSET rest /\ row \in rest \ Before(rest, row)
    BY <1>1, RowOrder DEF Before
  <2>2. QED BY <2>1, <1>2, FewerElements
<1>5. Cardinality(Before(rest, row)) >= PageLimit
  BY <1>1, <1>3, OutboxAssumption
<1>6. HasMore(rows, cursor)
  BY <1>1, <1>2, <1>3, <1>4, <1>5, OutboxAssumption DEF HasMore
<1>7. last \in rest /\ Cardinality(Before(rest, last)) < PageLimit /\ last # row
  <2>1. last \in page
    BY <1>1, PageHasLast
  <2>2. QED BY <2>1, <1>1
<1>8. ~Precedes(row, last)
  <2> SUFFICES ASSUME Precedes(row, last) PROVE FALSE
    OBVIOUS
  <2>1. \A q \in rest : Precedes(q, row) => Precedes(q, last)
    <3> HIDE DEF rest, page, last
    <3> QED BY <1>1, <1>7, RowOrder
  <2>2. Before(rest, row) \in SUBSET Before(rest, last)
    BY <2>1 DEF Before
  <2>3. Cardinality(Before(rest, row)) <= Cardinality(Before(rest, last))
    BY <2>2, <1>3, <1>7, FS_Subset
  <2>4. QED BY <2>3, <1>1, <1>3, <1>5, <1>7, OutboxAssumption
<1>9. Precedes(last, row)
  BY <1>1, <1>7, <1>8, RowOrder
<1>10. NextCursor(rows, cursor) = [created |-> last.created, id |-> last.id]
  BY <1>1, <1>6 DEF NextCursor
<1>11. NextCursor(rows, cursor) \in Cursors
  BY <1>1, <1>7, <1>10 DEF Rows, Cursors
<1>12. QED BY <1>9, <1>10, <1>11, NoRowAssumption DEF Beyond, Precedes, Cursors

-----------------------------------------------------------------------------
(* The invariant *)

Readers == [stage : {"idle", "paging"}, page : SUBSET RowIds, next : Cursors \cup {NoRow},
            due : SUBSET RowIds, got : SUBSET RowIds, passes : Nat]
Typed ==
    /\ clock \in Nat \ {0}
    /\ outbox \in SUBSET Rows /\ IsFiniteSet(outbox)
    /\ inserted \in [Writers -> Rows \cup {NoRow}]
    /\ reader \in [Consumers -> Readers]

\* A number is that of one row, committed or not.
NumbersAreUnique ==
    /\ \A row, q \in outbox : row.id = q.id => row = q
    /\ \A w \in Writers : inserted[w] # NoRow =>
         /\ \A row \in outbox : row.id # inserted[w].id
         /\ \A v \in Writers : inserted[v] # NoRow /\ inserted[v].id = inserted[w].id => v = w

Numbers == {row.id : row \in outbox}
\* Rows are created after the start of time, where each pass begins.
RowsAreLater == /\ \A row \in outbox : row.created # 0
                /\ \A w \in Writers : inserted[w] # NoRow => inserted[w].created # 0

\* What the rest of a pass will reach.
Ahead(c, row) == reader[c].next # NoRow /\ Beyond(row, reader[c].next)
Settled(c, row) ==
    \/ Ahead(c, row)
    \/ c = "drainer" /\ (row.published # 0 \/ row.id \in reader[c].page)
    \/ c = "auditor" /\ row.id \in reader[c].got
Owes(c) == /\ reader[c].due \subseteq Numbers
           /\ c = "auditor" => reader[c].page = {}
           /\ reader[c].stage = "paging" =>
                \A row \in outbox : row.id \in reader[c].due => Settled(c, row)
PassesAreWhole ==
    /\ Typed
    /\ NumbersAreUnique
    /\ RowsAreLater
    /\ \A c \in Consumers : Owes(c)

\* At first nothing is written and no pass runs.
LEMMA InitWhole == Init => PassesAreWhole
<1> SUFFICES ASSUME Init
             PROVE  PassesAreWhole
  OBVIOUS
<1> USE DEF Init
<1>1. Idle \in Readers
  BY DEF Idle, Readers
<1>2. Typed
  BY <1>1, FS_EmptySet DEF Typed
<1>3. NumbersAreUnique /\ RowsAreLater
  BY DEF NumbersAreUnique, RowsAreLater
<1>4. \A c \in Consumers : Owes(c)
  BY DEF Owes, Idle
<1>5. QED BY <1>2, <1>3, <1>4 DEF PassesAreWhole

-----------------------------------------------------------------------------
(* Writers: a row committed during a pass is not due in it *)

\* An insert takes a fresh number.
LEMMA InsertWhole ==
    ASSUME PassesAreWhole, NEW w \in Writers, InsertEvent(w)
    PROVE  PassesAreWhole'
<1>1. PICK id \in RowIds \ UsedIds, event \in Events :
        inserted' = [inserted EXCEPT ![w] =
                       [id |-> id, event |-> event, created |-> clock, published |-> 0]]
  BY DEF InsertEvent
<1> DEFINE new == inserted'[w]
<1>2. /\ UNCHANGED <<outbox, reader>> /\ inserted[w] = NoRow
      /\ clock' \in Nat \ {0}
  BY DEF InsertEvent, Tick, PassesAreWhole, Typed
<1>3. /\ new = [id |-> id, event |-> event, created |-> clock, published |-> 0]
      /\ new \in Rows /\ new.id = id /\ new.created # 0
      /\ \A v \in Writers \ {w} : inserted'[v] = inserted[v]
  BY <1>1 DEF PassesAreWhole, Typed, Rows
<1>4. /\ \A row \in outbox : row.id # id
      /\ \A v \in Writers : inserted[v] # NoRow => inserted[v].id # id
  <2>1. NoRow \notin Rows
    BY NoRowAssumption DEF Rows
  <2>2. QED BY <2>1, <1>1 DEF UsedIds, PassesAreWhole, Typed
<1>5. Typed'
  BY <1>1, <1>2, <1>3 DEF PassesAreWhole, Typed
<1>6. NumbersAreUnique' /\ RowsAreLater'
  BY <1>2, <1>3, <1>4 DEF PassesAreWhole, NumbersAreUnique, RowsAreLater
<1>7. \A c \in Consumers : Owes(c)'
  BY <1>2 DEF PassesAreWhole, Owes, Settled, Ahead, Numbers
<1>8. QED BY <1>5, <1>6, <1>7 DEF PassesAreWhole

\* A commit adds a row whose number no running pass owes.
LEMMA CommitWhole ==
    ASSUME PassesAreWhole, NEW w \in Writers, CommitEvent(w)
    PROVE  PassesAreWhole'
<1> DEFINE new == inserted[w]
<1>1. /\ new # NoRow /\ outbox' = outbox \cup {new} /\ new \in Rows
      /\ inserted' = [inserted EXCEPT ![w] = NoRow]
      /\ UNCHANGED <<clock, reader>>
  BY DEF CommitEvent, PassesAreWhole, Typed
<1>2. /\ inserted'[w] = NoRow
      /\ \A v \in Writers \ {w} : inserted'[v] = inserted[v]
  BY <1>1 DEF PassesAreWhole, Typed
<1>3. Typed'
  BY <1>1, FS_AddElement DEF PassesAreWhole, Typed
<1>4. NumbersAreUnique' /\ RowsAreLater'
  BY <1>1, <1>2 DEF PassesAreWhole, NumbersAreUnique, RowsAreLater
<1>5. new.id \notin Numbers
  BY <1>1 DEF PassesAreWhole, NumbersAreUnique, Numbers
<1>6. \A c \in Consumers : Owes(c)'
  BY <1>1, <1>5 DEF PassesAreWhole, Owes, Settled, Ahead, Numbers
<1>7. QED BY <1>3, <1>4, <1>6 DEF PassesAreWhole

\* A rollback forgets an uncommitted row.
LEMMA RollBackWhole ==
    ASSUME PassesAreWhole, NEW w \in Writers, RollBackEvent(w)
    PROVE  PassesAreWhole'
<1>1. /\ inserted'[w] = NoRow /\ inserted' \in [Writers -> Rows \cup {NoRow}]
      /\ \A v \in Writers \ {w} : inserted'[v] = inserted[v]
      /\ UNCHANGED <<clock, outbox, reader>>
  BY DEF RollBackEvent, PassesAreWhole, Typed
<1>2. Typed'
  BY <1>1 DEF PassesAreWhole, Typed
<1>3. NumbersAreUnique' /\ RowsAreLater'
  BY <1>1 DEF PassesAreWhole, NumbersAreUnique, RowsAreLater
<1>4. \A c \in Consumers : Owes(c)'
  BY <1>1 DEF PassesAreWhole, Owes, Settled, Ahead, Numbers
<1>5. QED BY <1>2, <1>3, <1>4 DEF PassesAreWhole

-----------------------------------------------------------------------------
(* Consumers: a page moves rows from ahead of the cursor into its answer *)

\* What a page does not answer stays ahead of the cursor it returns.
LEMMA LoadWhole ==
    ASSUME PassesAreWhole, NEW c \in Consumers, LoadPage(c)
    PROVE  PassesAreWhole'
<1> DEFINE r == reader[c]
           cursor == IF r.stage = "idle" THEN Start ELSE r.next
           page == {row.id : row \in PageOf(Offered(c), cursor)}
           next == NextCursor(Offered(c), cursor)
<1>1. /\ UNCHANGED <<clock, inserted, outbox>>
      /\ r \in Readers
      /\ r.stage = "idle" \/ (r.stage = "paging" /\ r.page = {} /\ r.next # NoRow)
  BY DEF LoadPage, PassesAreWhole, Typed
<1>2. /\ \A d \in Consumers \ {c} : reader'[d] = reader[d]
      /\ reader'[c] = [stage |-> "paging",
                       page |-> IF c = "drainer" THEN page ELSE {},
                       next |-> next,
                       due |-> IF r.stage = "idle" THEN Numbers ELSE r.due,
                       got |-> r.got \cup page,
                       passes |-> IF r.stage = "idle" THEN r.passes + 1 ELSE r.passes]
      /\ reader' = [d \in Consumers |-> reader'[d]]
  BY DEF LoadPage, PassesAreWhole, Typed, Numbers
<1>3. /\ Offered(c) \in SUBSET outbox /\ Offered(c) \in SUBSET Rows
      /\ IsFiniteSet(Offered(c))
      /\ \A x, y \in Offered(c) : x.id = y.id => x = y
  <2>1. Offered(c) \in SUBSET outbox
    BY DEF Offered
  <2>2. QED BY <2>1, FS_Subset DEF PassesAreWhole, Typed, NumbersAreUnique
<1>4. /\ page \in SUBSET RowIds /\ Numbers \in SUBSET RowIds
  BY <1>3 DEF PageOf, Numbers, Rows, PassesAreWhole, Typed
<1>5. next \in Cursors \cup {NoRow}
  BY <1>3, CursorType
<1>6. reader'[c] \in Readers
  <2> HIDE DEF page, next
  <2>1. r.got \cup page \in SUBSET RowIds /\ r.passes + 1 \in Nat
    BY <1>1, <1>4 DEF Readers
  <2>2. QED BY <1>1, <1>2, <1>4, <1>5, <2>1 DEF Readers
<1>7. Typed'
  BY <1>1, <1>2, <1>6 DEF PassesAreWhole, Typed
<1>8. NumbersAreUnique' /\ RowsAreLater'
  BY <1>1 DEF PassesAreWhole, NumbersAreUnique, RowsAreLater
<1>9. Numbers' = Numbers
  BY <1>1 DEF Numbers
<1>10. \A d \in Consumers \ {c} : Owes(d)'
  BY <1>1, <1>2, <1>9 DEF PassesAreWhole, Owes, Settled, Ahead
<1>11. ASSUME NEW row \in outbox, row.id \in reader'[c].due
       PROVE  Settled(c, row)'
  <2>1. CASE row \notin Offered(c)
    <3>1. c = "drainer" /\ row.published # 0
      BY <2>1, <1>11 DEF Offered
    <3>2. QED BY <3>1 DEF Settled
  <2>2. CASE row \in Offered(c)
    <3>1. CASE Beyond(row, cursor)
      <4>1. CASE row \in PageOf(Offered(c), cursor)
        <5>1. row.id \in page
          BY <4>1
        <5>2. QED BY <5>1, <1>2 DEF Settled, Consumers
      <4>2. CASE row \notin PageOf(Offered(c), cursor)
        <5>1. next # NoRow /\ Beyond(row, next)
          BY <1>3, <2>2, <3>1, <4>2, PageSkipsNothing
        <5> HIDE DEF next, page, cursor
        <5>2. QED BY <5>1, <1>2 DEF Settled, Ahead
      <4>3. QED BY <4>1, <4>2
    <3>2. CASE ~Beyond(row, cursor)
      <4>1. r.stage # "idle"
        <5>1. row.created \in Nat \ {0}
          BY DEF PassesAreWhole, Typed, RowsAreLater, Rows
        <5>2. QED BY <3>2, <5>1 DEF Beyond, Start
      <4>2. row.id \in r.due /\ ~Ahead(c, row) /\ r.page = {}
        BY <4>1, <3>2, <1>1, <1>2, <1>11 DEF Ahead
      <4>3. Settled(c, row)
        BY <4>1, <4>2, <1>1 DEF PassesAreWhole, Owes
      <4>4. c = "auditor" /\ row.id \in r.got
        BY <4>2, <4>3, <2>2 DEF Settled, Offered
      <4>5. QED BY <4>4, <1>2 DEF Settled
    <3>3. QED BY <3>1, <3>2
  <2>3. QED BY <2>1, <2>2
<1>12. Owes(c)'
  <2>1. reader'[c].due \subseteq Numbers
    BY <1>2 DEF PassesAreWhole, Owes
  <2>2. c = "auditor" => reader'[c].page = {}
    BY <1>2
  <2>3. QED BY <1>1, <1>9, <1>11, <2>1, <2>2 DEF Owes
<1>13. QED BY <1>7, <1>8, <1>10, <1>12 DEF PassesAreWhole

\* An ended pass owes nothing.
LEMMA EndWhole ==
    ASSUME PassesAreWhole, NEW c \in Consumers, EndPass(c)
    PROVE  PassesAreWhole'
<1>1. /\ UNCHANGED <<clock, inserted, outbox>>
      /\ reader'[c] = [Idle EXCEPT !.passes = reader[c].passes]
      /\ \A d \in Consumers \ {c} : reader'[d] = reader[d]
      /\ reader' = [d \in Consumers |-> reader'[d]]
  BY DEF EndPass, PassesAreWhole, Typed
<1>2. /\ reader'[c] \in Readers
      /\ reader'[c].stage = "idle" /\ reader'[c].page = {} /\ reader'[c].due = {}
  BY <1>1 DEF Idle, Readers, PassesAreWhole, Typed
<1>3. Typed'
  BY <1>1, <1>2 DEF PassesAreWhole, Typed
<1>4. NumbersAreUnique' /\ RowsAreLater'
  BY <1>1 DEF PassesAreWhole, NumbersAreUnique, RowsAreLater
<1>5. \A d \in Consumers \ {c} : Owes(d)'
  BY <1>1 DEF PassesAreWhole, Owes, Settled, Ahead, Numbers
<1>6. Owes(c)'
  BY <1>2 DEF Owes
<1>7. QED BY <1>3, <1>4, <1>5, <1>6 DEF PassesAreWhole

-----------------------------------------------------------------------------
(* Publication: one row gets its time, all keep the rest *)

\* What publishing makes of a row.
Publishing(row, id) == IF row.id = id THEN Published(row) ELSE row

\* It changes a publication time only, and that only once.
LEMMA PublishedRow ==
    ASSUME Typed, NEW row \in outbox, NEW id
    PROVE  LET next == Publishing(row, id) IN
           /\ next \in Rows
           /\ next.id = row.id /\ next.event = row.event /\ next.created = row.created
           /\ row.published # 0 => next = row
           /\ row.id = id => next.published # 0
BY DEF Typed, Publishing, Published, Rows

\* The row that leaves the drainer's page is published.
LEMMA PublishWhole ==
    ASSUME PassesAreWhole, NEW id \in RowIds, Publish(id)
    PROVE  PassesAreWhole'
<1>1. /\ outbox' = {Publishing(row, id) : row \in outbox}
      /\ inserted' = inserted /\ clock' \in Nat \ {0}
  BY DEF Publish, Tick, Publishing, PassesAreWhole, Typed
<1>2. /\ reader'["auditor"] = reader["auditor"]
      /\ \/ reader'["drainer"] = reader["drainer"]
         \/ reader'["drainer"] = [reader["drainer"] EXCEPT !.page = @ \ {id}]
      /\ reader' = [d \in Consumers |-> reader'[d]]
  BY DEF Publish, PassesAreWhole, Typed, Consumers
<1>3. IsFiniteSet(outbox')
  <2> DEFINE f == [row \in outbox |-> Publishing(row, id)]
  <2>1. f \in Surjection(outbox, outbox')
    BY <1>1 DEF Surjection
  <2>2. QED BY <2>1, FS_Surjection DEF PassesAreWhole, Typed
<1>4. \A next \in outbox' : \E row \in outbox :
        /\ next = Publishing(row, id) /\ next \in Rows
        /\ next.id = row.id /\ next.event = row.event /\ next.created = row.created
        /\ row.published # 0 => next = row
        /\ row.id = id => next.published # 0
  BY <1>1, PublishedRow DEF PassesAreWhole
<1>5. \A c \in Consumers : reader'[c] \in Readers
  BY <1>2 DEF Consumers, Readers, PassesAreWhole, Typed
<1>6. Typed'
  BY <1>1, <1>2, <1>3, <1>4, <1>5 DEF PassesAreWhole, Typed
<1>7. NumbersAreUnique' /\ RowsAreLater'
  BY <1>1, <1>4 DEF PassesAreWhole, NumbersAreUnique, RowsAreLater
<1>8. Numbers' = Numbers
  BY <1>1, <1>4, PublishedRow DEF Numbers, PassesAreWhole
<1>9. ASSUME NEW c \in Consumers, NEW next \in outbox', reader'[c].stage = "paging",
             next.id \in reader'[c].due
      PROVE  Settled(c, next)'
  <2>1. PICK row \in outbox :
          /\ next.id = row.id /\ next.created = row.created
          /\ row.published # 0 => next = row
          /\ row.id = id => next.published # 0
    BY <1>4
  <2>2. /\ reader'[c].stage = reader[c].stage /\ reader'[c].due = reader[c].due
        /\ reader'[c].next = reader[c].next /\ reader'[c].got = reader[c].got
        /\ \A n \in reader[c].page : n \in reader'[c].page \/ n = id
    BY <1>2 DEF Consumers, Readers, PassesAreWhole, Typed
  <2>3. Settled(c, row)
    BY <1>9, <2>1, <2>2 DEF PassesAreWhole, Owes
  <2>4. QED BY <2>1, <2>2, <2>3 DEF Settled, Ahead, Beyond
<1>10. \A c \in Consumers : Owes(c)'
  <2>1. \A c \in Consumers : reader'[c].due = reader[c].due
    BY <1>2 DEF Consumers, Readers, PassesAreWhole, Typed
  <2>2. QED BY <1>2, <1>8, <1>9, <2>1 DEF PassesAreWhole, Owes, Consumers
<1>11. QED BY <1>6, <1>7, <1>10 DEF PassesAreWhole

-----------------------------------------------------------------------------
\* Whatever writers and consumers do, the invariant is kept.
LEMMA StepWhole == PassesAreWhole /\ [Next]_outboxVars => PassesAreWhole'
<1> SUFFICES ASSUME PassesAreWhole, [Next]_outboxVars
             PROVE  PassesAreWhole'
  OBVIOUS
<1>1. CASE \E w \in Writers : Write(w)
  BY <1>1, InsertWhole, CommitWhole, RollBackWhole DEF Write
<1>2. CASE Consume
  BY <1>2, LoadWhole, EndWhole, PublishWhole DEF Consume
<1>3. CASE UNCHANGED outboxVars
  BY <1>3 DEF outboxVars, PassesAreWhole, Typed, NumbersAreUnique, RowsAreLater,
              Owes, Settled, Ahead, Numbers
<1>4. QED BY <1>1, <1>2, <1>3 DEF Next

\* In every state each row that a running pass owes is answered, published or
\* ahead of its cursor, and no number is given to two rows.
THEOREM PassesStayWhole == Spec => []PassesAreWhole
BY InitWhole, StepWhole, PTL DEF Spec

\* load_audit_events: a pass returns every event committed when it began, for
\* any writers, page size and order of commits.
THEOREM AuditMissesNothingHolds == Spec => []AuditMissesNothing
<1>1. PassesAreWhole => AuditMissesNothing
  BY DEF PassesAreWhole, Owes, Settled, Ahead, AuditMissesNothing, AtEnd, Numbers, Consumers
<1>2. QED BY <1>1, PassesStayWhole, PTL

\* load_unpublished_outbox_events and publish_outbox_event: a drain pass leaves
\* no event unpublished that was committed when it began.
THEOREM DrainLeavesNothingBehindHolds == Spec => []DrainLeavesNothingBehind
<1>1. PassesAreWhole => DrainLeavesNothingBehind
  BY DEF PassesAreWhole, Owes, Settled, Ahead, DrainLeavesNothingBehind, AtEnd, Consumers
<1>2. QED BY <1>1, PassesStayWhole, PTL

\* Each row is still there, with its content and its publication time if any.
KeptIn(rows, later) ==
    \A row \in rows : \E next \in later :
      /\ next.id = row.id /\ next.event = row.event /\ next.created = row.created
      /\ row.published # 0 => next.published = row.published

\* publish_outbox_event, repeated or raced: an event keeps its content and the
\* time of its first publication.
THEOREM PublicationIsFinalHolds == Spec => PublicationIsFinal
<1>1. PassesAreWhole /\ [Next]_outboxVars => [KeptIn(outbox, outbox')]_outbox
  <2> SUFFICES ASSUME PassesAreWhole, [Next]_outboxVars
               PROVE  KeptIn(outbox, outbox') \/ outbox' = outbox
    OBVIOUS
  <2>1. ASSUME NEW w \in Writers, Write(w)
        PROVE  outbox \subseteq outbox'
    BY <2>1 DEF Write, InsertEvent, CommitEvent, RollBackEvent
  <2>2. ASSUME NEW c \in Consumers, LoadPage(c) \/ EndPass(c)
        PROVE  outbox' = outbox
    BY <2>2 DEF LoadPage, EndPass
  <2>3. ASSUME NEW id \in RowIds, Publish(id)
        PROVE  KeptIn(outbox, outbox')
    <3>1. \A row \in outbox : Publishing(row, id) \in outbox'
      BY <2>3 DEF Publish, Publishing
    <3>2. QED BY <3>1, PublishedRow DEF PassesAreWhole, KeptIn
  <2>4. outbox \subseteq outbox' => KeptIn(outbox, outbox')
    BY DEF KeptIn
  <2>5. Next => KeptIn(outbox, outbox') \/ outbox' = outbox
    BY <2>1, <2>2, <2>3, <2>4 DEF Next, Consume
  <2>6. UNCHANGED outboxVars => outbox' = outbox
    BY DEF outboxVars
  <2>7. QED BY <2>5, <2>6
<1>2. Spec => [][KeptIn(outbox, outbox')]_outbox
  BY <1>1, PassesStayWhole, PTL DEF Spec
<1>3. QED BY <1>2 DEF PublicationIsFinal, KeptIn
=============================================================================
