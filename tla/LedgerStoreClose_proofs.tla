---------------------- MODULE LedgerStoreClose_proofs ----------------------
(* Period closes of LedgerStore, for every value of its constants. *)
EXTENDS LedgerStore_proofs, Sums_proofs

-----------------------------------------------------------------------------
(* The invariant *)

\* The calendar and the books agree on a period: no book has a control row and
\* the period is at most open, or every book has one and the calendar shows
\* their aggregate.
CalendarFits(d) ==
    \A p \in Periods :
        \/ /\ \A b \in Books : d.control[b][p] = "none"
           /\ d.fiscal[p] \in {"absent", "open"}
        \/ /\ \A b \in Books : d.control[b][p] # "none"
           /\ d.fiscal[p] = Aggregate([b \in Books |-> d.control[b][p]])

\* The evidence of closes and the books' control rows agree.
EvidenceFits(d) ==
    /\ \A e \in d.snapshots : d.control[e.book][e.period] = "hard_closed"
    /\ \A e \in d.soft : d.control[e.book][e.period] \in {"soft_closed", "hard_closed"}
    /\ \A e, f \in d.snapshots : e.book = f.book /\ e.period = f.period => e = f
    /\ \A e, f \in d.soft : e.book = f.book /\ e.period = f.period => e = f
    /\ \A b \in Books, p \in Periods :
         /\ d.control[b][p] = "hard_closed" =>
              \E e \in d.snapshots : e.book = b /\ e.period = p
         /\ d.control[b][p] = "soft_closed" =>
              \E e \in d.soft : e.book = b /\ e.period = p
    /\ \A j \in d.journals : \A b \in Books, p \in Periods :
         j.ref = <<"closing", <<b, p>>>> =>
           \E e \in d.snapshots : e.book = b /\ e.period = p /\ j.ref \in e.sources

\* Database d was the database once and e is it now.
IsPast(d, e) ==
    /\ \A p \in Periods : d.fiscal[p] # "absent" => e.fiscal[p] # "absent"
    /\ d.soft \subseteq e.soft /\ d.snapshots \subseteq e.snapshots

ClosingAtCommit(s) == pc[s] = "commit" /\ IsClose(req[s])

\* A close that is about to commit is the only one of its period, and the
\* period's control rows are still those it read.
InFlight(s) ==
    LET r == req[s]
    IN  /\ \A b \in Books : db.control[b][r.period] = view[s].control[b][r.period]
        /\ view[s].fiscal[r.period] # "absent"
        /\ BookStatus(view[s], r.book, r.period) \notin {"hard_closed", TargetStatus(r)}
        /\ \A t \in Sessions \ {s} : ClosingAtCommit(t) => req[t].period # r.period

Closing ==
    /\ Typed
    /\ CalendarFits(db) /\ EvidenceFits(db)
    /\ \A s \in Sessions :
         /\ CalendarFits(view[s]) /\ EvidenceFits(view[s])
         /\ pc[s] # "idle" /\ IsClose(req[s]) => IsPast(view[s], db)
         /\ ClosingAtCommit(s) => InFlight(s)

-----------------------------------------------------------------------------
(* Statuses and their ranks *)

\* The order of the statuses.
LEMMA RankValues ==
    /\ Rank["none"] = 0 /\ Rank["absent"] = 0 /\ Rank["open"] = 1
    /\ Rank["soft_closed"] = 2 /\ Rank["hard_closed"] = 3
  BY DEF Rank

\* The aggregate of higher statuses is no lower.
LEMMA AggregateGrows ==
    ASSUME NEW f \in [Books -> Statuses], NEW g \in [Books -> Statuses],
           \A b \in Books : Rank[f[b]] <= Rank[g[b]]
    PROVE  Rank[Aggregate(f)] <= Rank[Aggregate(g)]
  <1>1. \A b \in Books : /\ f[b] = "hard_closed" => g[b] = "hard_closed"
                         /\ f[b] # "open" => g[b] # "open"
    BY RankValues DEF Statuses
  <1>2. QED BY <1>1, RankValues DEF Aggregate

\* A close in flight reads the calendar's status as it is.
LEMMA CalendarUnmoved ==
    ASSUME Closing, NEW s \in Sessions, ClosingAtCommit(s)
    PROVE  db.fiscal[req[s].period] = view[s].fiscal[req[s].period]
  <1> DEFINE p == req[s].period
  <1>1. req[s] \in Requests
    BY CloseToCommit DEF Closing, ClosingAtCommit
  <1>2. p \in Periods /\ req[s].book \in Books
    BY <1>1, RequestFields DEF ClosingAtCommit
  <1>3. /\ \A b \in Books : db.control[b][p] = view[s].control[b][p]
        /\ view[s].fiscal[p] # "absent"
    BY DEF Closing, InFlight
  <1>4. db.fiscal[p] # "absent"
    BY <1>2, <1>3 DEF Closing, IsPast, ClosingAtCommit
  <1>5. [b \in Books |-> db.control[b][p]] = [b \in Books |-> view[s].control[b][p]]
    BY <1>3
  <1>6. CalendarFits(db) /\ CalendarFits(view[s])
    BY DEF Closing
  <1> HIDE DEF p
  <1>7. CASE db.control[req[s].book][p] = "none"
    <2>1. db.fiscal[p] = "open"
      BY <1>2, <1>4, <1>6, <1>7 DEF CalendarFits
    <2>2. view[s].fiscal[p] = "open"
      BY <1>2, <1>3, <1>6, <1>7 DEF CalendarFits
    <2>3. QED BY <2>1, <2>2 DEF p
  <1>8. CASE db.control[req[s].book][p] # "none"
    <2>1. db.fiscal[p] = Aggregate([b \in Books |-> db.control[b][p]])
      BY <1>2, <1>6, <1>8 DEF CalendarFits
    <2>2. view[s].fiscal[p] = Aggregate([b \in Books |-> view[s].control[b][p]])
      BY <1>2, <1>3, <1>6, <1>8 DEF CalendarFits
    <2>3. QED BY <1>5, <2>1, <2>2 DEF p
  <1>9. QED BY <1>7, <1>8

-----------------------------------------------------------------------------
(* What the commit of a close changes *)

\* The rows of a close in flight.
LEMMA EffectRead ==
    ASSUME Closing, NEW s \in Sessions, ClosingAtCommit(s), NEW c \in pend[s].closes
    PROVE  LET r == req[s]
               d == view[s]
               J == ClosingJournals(d, r)
           IN  /\ r \in Requests /\ r.key \in Keys /\ r.book \in Books /\ r.period \in Periods
               /\ pend[s].journals = J /\ pend[s].records = ClosingRecords(J)
               /\ c = EffectOf(d, r)
               /\ c.book = r.book /\ c.period = r.period /\ c.key = r.key
               /\ c.status = TargetStatus(r) /\ c.others = d.fiscal[r.period]
               /\ c.sources = Refs(Booked(d, r.book, r.period) \cup J)
               /\ c.aggregate = Aggregate([b \in Books |->
                    IF b = r.book THEN TargetStatus(r) ELSE BookStatus(d, b, r.period)])
  <1> DEFINE r == req[s]
             J == ClosingJournals(view[s], r)
  <1>1. r \in Requests /\ pend[s] = Rows(ClosingRecords(J), J, {}, {EffectOf(view[s], r)})
    BY CloseToCommit DEF Closing, ClosingAtCommit
  <1>2. /\ pend[s].journals = J /\ pend[s].records = ClosingRecords(J)
        /\ pend[s].closes = {EffectOf(view[s], r)}
    BY <1>1 DEF Rows
  <1>3. r.key \in Keys /\ r.book \in Books /\ r.period \in Periods
    BY <1>1, RequestFields DEF ClosingAtCommit
  <1>4. c = EffectOf(view[s], r)
    BY <1>2
  <1>5. QED BY <1>1, <1>2, <1>3, <1>4 DEF EffectOf

\* The statuses before and after the commit of a close of the period p of book b0.
LEMMA StatusAfterClose ==
    ASSUME Closing, NEW s \in Sessions, ClosingAtCommit(s), NEW c \in pend[s].closes,
           db' = AfterClose(db, c, pend[s])
    PROVE  LET p == req[s].period
               b0 == req[s].book
           IN  /\ \A b \in Books : BookStatus(db, b, p) \in Statuses
               /\ \A b \in Books : db'.control[b][p] =
                    IF b = b0 THEN TargetStatus(req[s]) ELSE BookStatus(db, b, p)
               /\ \A b \in Books, q \in Periods : q # p => db'.control[b][q] = db.control[b][q]
               /\ \A q \in Periods : q # p => db'.fiscal[q] = db.fiscal[q]
               /\ db'.fiscal[p] = Aggregate([b \in Books |-> db'.control[b][p]])
               /\ BookStatus(db, b0, p) \notin {"hard_closed", TargetStatus(req[s])}
  <1> DEFINE r == req[s]
             p == r.period
             b0 == r.book
  <1>1. /\ r \in Requests /\ b0 \in Books /\ p \in Periods
        /\ c.book = b0 /\ c.period = p /\ c.status = TargetStatus(r)
        /\ c.others = view[s].fiscal[p]
        /\ c.aggregate = Aggregate([b \in Books |->
             IF b = b0 THEN TargetStatus(r) ELSE BookStatus(view[s], b, p)])
    BY EffectRead
  <1>2. /\ \A b \in Books : db.control[b][p] = view[s].control[b][p]
        /\ db.fiscal[p] = view[s].fiscal[p] /\ db.fiscal[p] # "absent"
        /\ BookStatus(view[s], b0, p) \notin {"hard_closed", TargetStatus(r)}
    BY CalendarUnmoved DEF Closing, InFlight
  <1>3. db \in Database
    BY DEF Closing, Typed, TypeOK
  <1>4. \A b \in Books : BookStatus(db, b, p) = BookStatus(view[s], b, p)
    BY <1>2 DEF BookStatus
  <1>5. \A b \in Books : BookStatus(db, b, p) \in Statuses
    <2>1. \A b \in Books : db.control[b][p] \in Statuses \cup {"none"}
      BY <1>1, <1>3 DEF Database
    <2>2. db.fiscal[p] \in Statuses
      BY <1>1, <1>2, <1>3 DEF Database
    <2>3. QED BY <2>1, <2>2 DEF BookStatus
  <1>6. \A b \in Books : db'.control[b] = [db.control[b] EXCEPT ![p] = ControlAfter(db, c)[b]]
    BY <1>1 DEF AfterClose
  <1>7. \A b \in Books : ControlAfter(db, c)[b] =
          IF b = b0 THEN TargetStatus(r) ELSE BookStatus(db, b, p)
    BY <1>1, <1>2 DEF ControlAfter, BookStatus
  <1>8. ASSUME NEW b \in Books, NEW q \in Periods
        PROVE  db'.control[b][q] = IF q = p THEN ControlAfter(db, c)[b] ELSE db.control[b][q]
    <2>1. db.control[b] \in [Periods -> Statuses \cup {"none"}]
      BY <1>3 DEF Database
    <2>2. db'.control[b] = [db.control[b] EXCEPT ![p] = ControlAfter(db, c)[b]]
      BY <1>6
    <2> HIDE DEF p
    <2>3. QED BY <2>1, <2>2
  <1>9. \A b \in Books : db'.control[b][p] =
          IF b = b0 THEN TargetStatus(r) ELSE BookStatus(db, b, p)
    BY <1>1, <1>7, <1>8
  <1>10. \A b \in Books, q \in Periods : q # p => db'.control[b][q] = db.control[b][q]
    BY <1>8
  <1>11. db'.fiscal = [db.fiscal EXCEPT ![p] = c.aggregate]
    BY <1>1 DEF AfterClose
  <1>12. [b \in Books |-> IF b = b0 THEN TargetStatus(r) ELSE BookStatus(view[s], b, p)]
           = [b \in Books |-> db'.control[b][p]]
    BY <1>4, <1>9
  <1>13. db'.fiscal[p] = Aggregate([b \in Books |-> db'.control[b][p]])
    BY <1>1, <1>3, <1>11, <1>12 DEF Database
  <1>14. \A q \in Periods : q # p => db'.fiscal[q] = db.fiscal[q]
    BY <1>1, <1>3, <1>11 DEF Database
  <1>15. QED BY <1>1, <1>2, <1>4, <1>5, <1>9, <1>10, <1>13, <1>14

\* A close gives every book of its period a control row, and the calendar their aggregate.
LEMMA CalendarAfterClose ==
    ASSUME Closing, NEW s \in Sessions, ClosingAtCommit(s), NEW c \in pend[s].closes,
           db' = AfterClose(db, c, pend[s])
    PROVE  /\ CalendarFits(db')
           /\ \A q \in Periods : db.fiscal[q] # "absent" => db'.fiscal[q] # "absent"
  <1> DEFINE p == req[s].period
  <1>1. /\ \A b \in Books : db'.control[b][p] # "none"
        /\ db'.fiscal[p] = Aggregate([b \in Books |-> db'.control[b][p]])
    BY StatusAfterClose DEF Statuses, TargetStatus
  <1>2. \A q \in Periods : q # p => /\ db'.fiscal[q] = db.fiscal[q]
                                   /\ \A b \in Books : db'.control[b][q] = db.control[b][q]
    BY StatusAfterClose
  <1> HIDE DEF p
  <1>3. ASSUME NEW q \in Periods, q # p
        PROVE  [b \in Books |-> db'.control[b][q]] = [b \in Books |-> db.control[b][q]]
    BY <1>2, <1>3
  <1>4. CalendarFits(db')
    <2> SUFFICES ASSUME NEW q \in Periods
                 PROVE  \/ /\ \A b \in Books : db'.control[b][q] = "none"
                           /\ db'.fiscal[q] \in {"absent", "open"}
                        \/ /\ \A b \in Books : db'.control[b][q] # "none"
                           /\ db'.fiscal[q] = Aggregate([b \in Books |-> db'.control[b][q]])
      BY DEF CalendarFits
    <2>1. CASE q = p
      BY <1>1, <2>1
    <2>2. CASE q # p
      <3>1. CalendarFits(db)
        BY DEF Closing
      <3>2. CASE \A b \in Books : db.control[b][q] = "none"
        BY <1>2, <2>2, <3>1, <3>2, <1>3 DEF CalendarFits
      <3>3. CASE ~\A b \in Books : db.control[b][q] = "none"
        <4>1. /\ \A b \in Books : db.control[b][q] # "none"
              /\ db.fiscal[q] = Aggregate([b \in Books |-> db.control[b][q]])
          BY <3>1, <3>3 DEF CalendarFits
        <4>2. QED BY <1>2, <1>3, <2>2, <4>1
      <3>4. QED BY <3>2, <3>3
    <2>3. QED BY <2>1, <2>2
  <1>5. \A status : Aggregate(status) # "absent"
    BY DEF Aggregate
  <1>6. QED BY <1>1, <1>2, <1>4, <1>5

\* A close leaves its own evidence and nobody else's: its snapshot read no earlier one.
LEMMA EvidenceAfterClose ==
    ASSUME Closing, NEW s \in Sessions, ClosingAtCommit(s), NEW c \in pend[s].closes,
           db' = AfterClose(db, c, pend[s])
    PROVE  EvidenceFits(db')
  <1> DEFINE r == req[s]
             p == r.period
             b0 == r.book
             J == ClosingJournals(view[s], r)
             new == [book |-> b0, period |-> p, key |-> c.key, sources |-> c.sources]
  <1>1. /\ b0 \in Books /\ p \in Periods
        /\ pend[s].journals = J
        /\ c.book = b0 /\ c.period = p /\ c.status = TargetStatus(r)
        /\ c.sources = Refs(Booked(view[s], b0, p) \cup J)
    BY EffectRead
  <1>2. /\ db'.snapshots = db.snapshots \cup (IF c.status = "hard_closed" THEN {new} ELSE {})
        /\ db'.soft = db.soft \cup (IF c.status = "soft_closed" THEN {new} ELSE {})
        /\ db'.journals = db.journals \cup J
    BY <1>1 DEF AfterClose, EvidenceIf
  <1>3. /\ \A b \in Books : BookStatus(db, b, p) \in Statuses
        /\ \A b \in Books : db'.control[b][p] = IF b = b0 THEN c.status ELSE BookStatus(db, b, p)
        /\ \A b \in Books, q \in Periods : q # p => db'.control[b][q] = db.control[b][q]
        /\ BookStatus(db, b0, p) \notin {"hard_closed", c.status}
    BY <1>1, StatusAfterClose
  <1>4. EvidenceFits(db) /\ CalendarFits(db) /\ db \in Database
    BY DEF Closing, Typed, TypeOK
  <1>5. /\ \A e \in db.snapshots \cup db.soft : e.book \in Books /\ e.period \in Periods
        /\ new.book = b0 /\ new.period = p /\ new.sources = c.sources
    BY <1>4 DEF Database, Evidence
  <1>6. c.status \in {"soft_closed", "hard_closed"}
    BY <1>1 DEF TargetStatus
  <1>7. J # {} => c.status = "hard_closed"
    BY <1>1 DEF ClosingJournals, TargetStatus
  <1>8. \A j \in J : j.ref = <<"closing", <<b0, p>>>> /\ j.ref \in c.sources
    BY <1>1 DEF ClosingJournals, Refs
  <1>9. \A b \in Books : /\ db.control[b][p] # "none" => BookStatus(db, b, p) = db.control[b][p]
                         /\ db.control[b][p] = "none" => BookStatus(db, b, p) = "open"
    <2>1. ASSUME NEW b \in Books, db.control[b][p] = "none"
          PROVE  db.fiscal[p] \in {"absent", "open"}
      BY <1>1, <1>4, <2>1 DEF CalendarFits
    <2>2. QED BY <1>1, <1>3, <2>1 DEF BookStatus, Statuses
  <1> HIDE DEF r, p, b0, J, new
  <1>10. \A b \in Books, q \in Periods :
           IF b = b0 /\ q = p
             THEN /\ db'.control[b][q] = c.status
                  /\ db.control[b][q] \notin {"hard_closed", c.status}
             ELSE \/ db'.control[b][q] = db.control[b][q]
                  \/ db.control[b][q] = "none" /\ db'.control[b][q] = "open"
    BY <1>1, <1>3, <1>6, <1>9
  <1>11. \A e \in db'.snapshots : db'.control[e.book][e.period] = "hard_closed"
    BY <1>1, <1>2, <1>4, <1>5, <1>10 DEF EvidenceFits
  <1>12. \A e \in db'.soft : db'.control[e.book][e.period] \in {"soft_closed", "hard_closed"}
    BY <1>1, <1>2, <1>4, <1>5, <1>6, <1>10 DEF EvidenceFits
  <1>13. \A e, f \in db'.snapshots : e.book = f.book /\ e.period = f.period => e = f
    BY <1>1, <1>2, <1>4, <1>5, <1>10 DEF EvidenceFits
  <1>14. \A e, f \in db'.soft : e.book = f.book /\ e.period = f.period => e = f
    BY <1>1, <1>2, <1>4, <1>5, <1>10 DEF EvidenceFits
  <1>15. ASSUME NEW b \in Books, NEW q \in Periods, db'.control[b][q] = "hard_closed"
         PROVE  \E e \in db'.snapshots : e.book = b /\ e.period = q
    <2>1. CASE b = b0 /\ q = p
      BY <1>2, <1>5, <1>10, <1>15, <2>1
    <2>2. CASE ~(b = b0 /\ q = p)
      BY <1>2, <1>4, <1>10, <1>15, <2>2 DEF EvidenceFits
    <2>3. QED BY <2>1, <2>2
  <1>16. ASSUME NEW b \in Books, NEW q \in Periods, db'.control[b][q] = "soft_closed"
         PROVE  \E e \in db'.soft : e.book = b /\ e.period = q
    <2>1. CASE b = b0 /\ q = p
      BY <1>2, <1>5, <1>10, <1>16, <2>1
    <2>2. CASE ~(b = b0 /\ q = p)
      BY <1>2, <1>4, <1>10, <1>16, <2>2 DEF EvidenceFits
    <2>3. QED BY <2>1, <2>2
  <1>17. ASSUME NEW j \in db'.journals, NEW b \in Books, NEW q \in Periods,
                j.ref = <<"closing", <<b, q>>>>
         PROVE  \E e \in db'.snapshots : e.book = b /\ e.period = q /\ j.ref \in e.sources
    <2>1. CASE j \in db.journals
      BY <1>2, <1>4, <1>17, <2>1 DEF EvidenceFits
    <2>2. CASE j \in J
      <3>1. b = b0 /\ q = p
        BY <1>8, <1>17, <2>2
      <3>2. new \in db'.snapshots
        BY <1>2, <1>7, <2>2
      <3>3. QED BY <1>5, <1>8, <2>2, <3>1, <3>2
    <2>3. QED BY <1>2, <1>17, <2>1, <2>2
  <1>18. QED BY <1>11, <1>12, <1>13, <1>14, <1>15, <1>16, <1>17 DEF EvidenceFits

-----------------------------------------------------------------------------
(* Every step keeps the invariant *)

\* The initial database has no close.
LEMMA EmptyFits == CalendarFits(EmptyDatabase) /\ EvidenceFits(EmptyDatabase)
  BY DEF CalendarFits, EvidenceFits, EmptyDatabase

\* A past of a past of a database is a past of it.
LEMMA PastTransitive ==
    ASSUME NEW d, NEW e, NEW f, IsPast(d, e), IsPast(e, f)
    PROVE  IsPast(d, f)
  BY DEF IsPast

\* A step of session s keeps the invariant of the others if it leaves the
\* control rows alone that a close in flight of another session has read.
LEMMA OthersStayClosing ==
    ASSUME Closing, Typed', NEW s \in Sessions,
           CalendarFits(db'), EvidenceFits(db'), IsPast(db, db'),
           CalendarFits(view'[s]), EvidenceFits(view'[s]),
           pc'[s] # "idle" /\ IsClose(req'[s]) => IsPast(view'[s], db'),
           ClosingAtCommit(s)' => InFlight(s)',
           \A t \in Sessions \ {s} :
             /\ pc'[t] = pc[t] /\ req'[t] = req[t] /\ view'[t] = view[t]
             /\ ClosingAtCommit(t) =>
                  \A b \in Books : db'.control[b][req[t].period] = db.control[b][req[t].period]
    PROVE  Closing'
  <1> SUFFICES ASSUME NEW t \in Sessions, t # s
               PROVE  /\ CalendarFits(view'[t]) /\ EvidenceFits(view'[t])
                      /\ pc'[t] # "idle" /\ IsClose(req'[t]) => IsPast(view'[t], db')
                      /\ ClosingAtCommit(t)' => InFlight(t)'
    BY DEF Closing
  <1>1. CalendarFits(view'[t]) /\ EvidenceFits(view'[t])
    BY DEF Closing
  <1>2. pc'[t] # "idle" /\ IsClose(req'[t]) => IsPast(view'[t], db')
    BY PastTransitive DEF Closing
  <1>3. ASSUME ClosingAtCommit(t)'
        PROVE  InFlight(t)'
    <2>1. ClosingAtCommit(t) /\ InFlight(t)
      BY <1>3 DEF ClosingAtCommit, Closing
    <2>2. \A u \in Sessions \ {t} : ClosingAtCommit(u)' => req'[u].period # req'[t].period
      BY <1>3, <2>1 DEF ClosingAtCommit, InFlight
    <2>3. QED BY <2>1, <2>2 DEF InFlight
  <1>4. QED BY <1>1, <1>2, <1>3

\* The transaction of session s ends.
LEMMA FinishClosing ==
    ASSUME Closing, Typed', NEW s \in Sessions, Finish(s),
           CalendarFits(db'), EvidenceFits(db'), IsPast(db, db'),
           \A t \in Sessions \ {s} : ClosingAtCommit(t) =>
             \A b \in Books : db'.control[b][req[t].period] = db.control[b][req[t].period]
    PROVE  Closing'
  <1>1. pc'[s] = "idle" /\ view'[s] = EmptyDatabase
    BY DEF Finish, Closing, Typed, TypeOK
  <1>2. \A t \in Sessions \ {s} : pc'[t] = pc[t] /\ req'[t] = req[t] /\ view'[t] = view[t]
    BY DEF Finish, Closing, Typed, TypeOK
  <1>3. ~ClosingAtCommit(s)'
    BY <1>1 DEF ClosingAtCommit
  <1>4. QED BY <1>1, <1>2, <1>3, EmptyFits, OthersStayClosing

\* Session s moves within its transaction, with no close to commit.
LEMMA MoveClosing ==
    ASSUME Closing, Typed', NEW s \in Sessions, db' = db, req' = req, view' = view,
           pc[s] # "idle", ~ClosingAtCommit(s)',
           \A t \in Sessions \ {s} : pc'[t] = pc[t]
    PROVE  Closing'
  <1>1. IsPast(db, db')
    BY DEF IsPast
  <1>2. CalendarFits(db') /\ EvidenceFits(db') /\ CalendarFits(view'[s]) /\ EvidenceFits(view'[s])
    BY DEF Closing
  <1>3. IsClose(req'[s]) => IsPast(view'[s], db')
    <2>1. IsClose(req[s]) => IsPast(view[s], db)
      BY DEF Closing
    <2>2. QED BY <2>1 DEF IsClose, IsPast
  <1>4. QED BY <1>1, <1>2, <1>3, OthersStayClosing

\* A close's snapshot is the database it begins with.
LEMMA BeginClosing ==
    ASSUME Closing, Typed', NEW s \in Sessions, Begin(s)
    PROVE  Closing'
  <1> PICK r \in Requests :
        /\ req' = [req EXCEPT ![s] = r]
        /\ pc' = [pc EXCEPT ![s] = IF r.op = "reverse" THEN "policy" ELSE "lock"]
        /\ view' = [view EXCEPT ![s] = IF IsClose(r) THEN db ELSE @]
    BY DEF Begin
  <1>1. \A t \in Sessions \ {s} : pc'[t] = pc[t] /\ req'[t] = req[t] /\ view'[t] = view[t]
    BY DEF Closing, Typed, TypeOK
  <1>2. /\ req'[s] = r /\ view'[s] \in {db, view[s]} /\ pc'[s] # "commit"
        /\ IsClose(r) => view'[s] = db
    BY DEF Closing, Typed, TypeOK
  <1>3. db' = db
    BY DEF Begin
  <1>4. IsPast(db, db)
    BY DEF IsPast
  <1>5. CalendarFits(view'[s]) /\ EvidenceFits(view'[s])
    BY <1>2 DEF Closing
  <1>6. CalendarFits(db') /\ EvidenceFits(db') /\ IsPast(db, db')
    BY <1>3, <1>4 DEF Closing
  <1>7. IsClose(req'[s]) => IsPast(view'[s], db')
    BY <1>2, <1>3, <1>4
  <1>8. ~ClosingAtCommit(s)'
    BY <1>2 DEF ClosingAtCommit
  <1>9. QED BY <1>1, <1>3, <1>5, <1>6, <1>7, <1>8, OthersStayClosing

\* A close that inserts its rows finds no rival in flight and its period's
\* control rows as it read them.
LEMMA WriteCloseClosing ==
    ASSUME Closing, Typed', NEW s \in Sessions, WriteClose(s)
    PROVE  Closing'
  <1> DEFINE r == req[s]
  <1>1. /\ db' = db /\ req' = req /\ view' = view /\ pc[s] = "check" /\ IsClose(r)
        /\ \A t \in Sessions \ {s} : pc'[t] = pc[t]
    BY DEF WriteClose, CloseReady, Advance, Closing, Typed, TypeOK
  <1>2. \A b \in Books : db.control[b][r.period] = view[s].control[b][r.period]
    BY DEF WriteClose, CloseFits, PeriodRowMoved
  <1>3. /\ view[s].fiscal[r.period] # "absent"
        /\ BookStatus(view[s], r.book, r.period) \notin {"hard_closed", TargetStatus(r)}
    BY DEF WriteClose, ClosePhase
  <1>4. ASSUME NEW t \in Sessions \ {s}, ClosingAtCommit(t)
        PROVE  req[t].period # r.period
    <2> DEFINE c == EffectOf(view[t], req[t])
               J == ClosingJournals(view[t], req[t])
    <2>1. pend[t] = Rows(ClosingRecords(J), J, {}, {c})
      BY <1>4, CloseToCommit DEF Closing, ClosingAtCommit
    <2>2. c \in pend[t].closes
      BY <2>1 DEF Rows
    <2>3. c.period = req[t].period
      BY DEF EffectOf
    <2>4. QED BY <2>2, <2>3 DEF WriteClose, CloseWaits, CloseInFlight
  <1>5. InFlight(s)'
    BY <1>1, <1>2, <1>3, <1>4 DEF InFlight, ClosingAtCommit
  <1>6. IsPast(db, db')
    BY <1>1 DEF IsPast
  <1>7. CalendarFits(db') /\ EvidenceFits(db') /\ CalendarFits(view'[s]) /\ EvidenceFits(view'[s])
    BY <1>1 DEF Closing
  <1>8. IsPast(view'[s], db')
    BY <1>1 DEF Closing
  <1>9. QED BY <1>1, <1>5, <1>6, <1>7, <1>8, OthersStayClosing

\* The invariant holds initially.
LEMMA ClosingInitially == Init => Closing
  <1> SUFFICES ASSUME Init PROVE Closing
    OBVIOUS
  <1>1. /\ db = EmptyDatabase /\ \A s \in Sessions : pc[s] = "idle" /\ view[s] = EmptyDatabase
    BY DEF Init
  <1>2. QED BY <1>1, EmptyFits, TypedInitially DEF Closing, ClosingAtCommit

\* The commit of a journal changes neither status nor evidence of a close; its
\* journal is no closing journal.
LEMMA CommitJournalClosing ==
    ASSUME Closing, Typed', NEW s \in Sessions, CommitJournal(s)
    PROVE  Closing'
  <1>1. pc[s] = "commit" /\ WritesJournal(req[s]) /\ Finish(s)
    BY DEF CommitJournal, WritesJournal, Reply
  <1>2. PICK j \in Journal : /\ pend[s] = Rows({NewRecord(req[s])}, {j}, {}, {})
                             /\ j.ref \notin ClosingRef
    BY <1>1, JournalToCommit DEF Closing
  <1>3. pend[s].journals = {j}
    BY <1>2 DEF Rows
  <1>4. /\ db'.journals = db.journals \cup {j}
        /\ db'.fiscal = db.fiscal /\ db'.control = db.control
        /\ db'.soft = db.soft /\ db'.snapshots = db.snapshots
    BY <1>3 DEF CommitJournal, Closing, Typed, TypeOK, Database
  <1>5. CalendarFits(db')
    BY <1>4 DEF Closing, CalendarFits
  <1>6. EvidenceFits(db')
    <2>1. \A b \in Books, p \in Periods : j.ref # <<"closing", <<b, p>>>>
      BY <1>2 DEF ClosingRef
    <2>2. QED BY <1>4, <2>1 DEF Closing, EvidenceFits
  <1>7. IsPast(db, db')
    BY <1>4 DEF IsPast
  <1>8. QED BY <1>1, <1>4, <1>5, <1>6, <1>7, FinishClosing

\* The commit of an open turns an absent period into an open one.
LEMMA CommitOpenClosing ==
    ASSUME Closing, Typed', NEW s \in Sessions, CommitOpen(s)
    PROVE  Closing'
  <1> DEFINE p == req[s].period
  <1>1. Finish(s) /\ p \in Periods
    <2>1. req[s] \in Requests
      BY DEF CommitOpen, Closing, Typed, StagedAs
    <2>2. QED BY <2>1, RequestFields DEF CommitOpen, Reply
  <1>2. /\ db'.journals = db.journals /\ db'.control = db.control
        /\ db'.soft = db.soft /\ db'.snapshots = db.snapshots
        /\ db'.fiscal = [db.fiscal EXCEPT ![p] = IF @ = "absent" THEN "open" ELSE @]
    BY DEF CommitOpen, Closing, Typed, TypeOK, Database
  <1>3. \A q \in Periods : \/ db'.fiscal[q] = db.fiscal[q]
                          \/ (db.fiscal[q] = "absent" /\ db'.fiscal[q] = "open")
    BY <1>1, <1>2 DEF Closing, Typed, TypeOK, Database
  <1>4. \A status : Aggregate(status) # "absent"
    BY DEF Aggregate
  <1>5. CalendarFits(db')
    BY <1>2, <1>3, <1>4 DEF Closing, CalendarFits
  <1>6. EvidenceFits(db')
    BY <1>2 DEF Closing, EvidenceFits
  <1>7. IsPast(db, db')
    BY <1>2, <1>3 DEF IsPast
  <1>8. QED BY <1>1, <1>2, <1>5, <1>6, <1>7, FinishClosing

\* The commit of a close: no other close of its period is then in flight.
LEMMA CommitCloseClosing ==
    ASSUME Closing, Typed', NEW s \in Sessions, CommitClose(s)
    PROVE  Closing'
  <1>1. ClosingAtCommit(s)
    BY DEF CommitClose, ClosingAtCommit
  <1>2. PICK c \in pend[s].closes : db' = AfterClose(db, c, pend[s]) /\ Reply(s, NoRef, c.sources)
    BY DEF CommitClose
  <1>3. CalendarFits(db') /\ EvidenceFits(db')
    BY <1>1, <1>2, CalendarAfterClose, EvidenceAfterClose
  <1>4. IsPast(db, db')
    <2>1. db.soft \subseteq db'.soft /\ db.snapshots \subseteq db'.snapshots
      BY <1>2 DEF AfterClose
    <2>2. QED BY <1>1, <1>2, <2>1, CalendarAfterClose DEF IsPast
  <1>5. ASSUME NEW t \in Sessions \ {s}, ClosingAtCommit(t), NEW b \in Books
        PROVE  db'.control[b][req[t].period] = db.control[b][req[t].period]
    <2>1. req[t].period # req[s].period
      BY <1>1, <1>5 DEF Closing, InFlight
    <2>2. req[t].period \in Periods
      BY <1>5, CloseToCommit, RequestFields DEF Closing, ClosingAtCommit
    <2>3. QED BY <1>1, <1>2, <2>1, <2>2, StatusAfterClose
  <1>6. Finish(s)
    BY <1>2 DEF Reply
  <1>7. QED BY <1>3, <1>4, <1>5, <1>6, FinishClosing

\* Every step keeps the invariant of closes.
LEMMA ClosingStep ==
    ASSUME Closing, [Next]_vars
    PROVE  Closing'
  <1>1. Typed'
    BY TypedStep DEF Closing
  <1>2. CASE UNCHANGED vars
    <2>1. db' = db /\ pc' = pc /\ req' = req /\ view' = view
      BY <1>2 DEF vars
    <2>2. QED BY <1>1, <2>1 DEF Closing, ClosingAtCommit, InFlight
  <1>3. ASSUME NEW s \in Sessions,
               \/ AcquireCommandLock(s) \/ CheckProposal(s) \/ LoadReversalPolicy(s)
               \/ CheckReversal(s) \/ AdmitToPeriod(s) \/ InsertRecord(s)
               \/ InsertJournal(s) \/ OpenPeriod(s)
        PROVE  Closing'
    <2>1. db' = db /\ req' = req /\ view' = view /\ pc[s] # "idle"
      BY <1>3 DEF AcquireCommandLock, CheckProposal, LoadReversalPolicy, CheckReversal,
                  AdmitToPeriod, InsertRecord, InsertJournal, OpenPeriod, Goto, Advance
    <2>2. \A t \in Sessions \ {s} : pc'[t] = pc[t]
      BY <1>3 DEF AcquireCommandLock, CheckProposal, LoadReversalPolicy, CheckReversal,
                  AdmitToPeriod, InsertRecord, InsertJournal, OpenPeriod, Goto, Advance,
                  Closing, Typed, TypeOK
    <2>3. ~ClosingAtCommit(s)'
      <3>1. CASE InsertJournal(s)
        <4>1. WritesJournal(req[s])
          BY <3>1 DEF InsertJournal, Closing, Typed, StagedAs
        <4>2. QED BY <2>1, <4>1 DEF ClosingAtCommit, WritesJournal, IsProposal, IsClose
      <3>2. CASE OpenPeriod(s)
        BY <2>1, <3>2 DEF OpenPeriod, ClosingAtCommit, IsClose
      <3>3. CASE ~InsertJournal(s) /\ ~OpenPeriod(s)
        BY <1>3, <3>3 DEF AcquireCommandLock, CheckProposal, LoadReversalPolicy, CheckReversal,
                  AdmitToPeriod, InsertRecord, Goto, Advance,
                  Closing, Typed, TypeOK, ClosingAtCommit
      <3>4. QED BY <3>1, <3>2, <3>3
    <2>4. QED BY <1>1, <2>1, <2>2, <2>3, MoveClosing
  <1>4. ASSUME NEW s \in Sessions,
               \/ Abort(s) \/ RefuseProposal(s) \/ RefusePolicy(s) \/ RefuseReversal(s)
               \/ RefusePeriod(s) \/ RefuseRecord(s) \/ RefuseJournal(s) \/ RefuseOpen(s)
               \/ RefuseClose(s) \/ ReplayProposal(s) \/ ReplayReversal(s)
               \/ ReplayOpen(s) \/ ReplayClose(s)
        PROVE  Closing'
    <2>1. Finish(s) /\ db' = db
      BY <1>4 DEF Abort, RefuseProposal, RefusePolicy, RefuseReversal, RefusePeriod,
                  RefuseRecord, RefuseJournal, RefuseOpen, RefuseClose, ReplayProposal,
                  ReplayReversal, ReplayOpen, ReplayClose, Replay, Reply, Rollback
    <2>2. CalendarFits(db') /\ EvidenceFits(db') /\ IsPast(db, db')
      BY <2>1 DEF Closing, IsPast
    <2>3. QED BY <1>1, <2>1, <2>2, FinishClosing
  <1>5. QED
    BY <1>1, <1>2, <1>3, <1>4, BeginClosing, WriteCloseClosing, CommitJournalClosing,
       CommitOpenClosing, CommitCloseClosing DEF Next, Step

-----------------------------------------------------------------------------
(* The theorems *)

\* The invariant of closes holds in every reachable state.
LEMMA ClosingAlways == Spec => []Closing
  BY ClosingInitially, ClosingStep, PTL DEF Spec

\* The calendar's status of a period is the aggregate of its books' statuses,
\* however the closes of its books overlap.
THEOREM AggregateMatchesBooksHolds == Spec => []AggregateMatchesBooks
  <1>1. Closing => AggregateMatchesBooks
    BY DEF Closing, CalendarFits, AggregateMatchesBooks
  <1>2. QED BY <1>1, ClosingAlways, PTL

\* At most one element: one or none to count.
LEMMA CountOfAtMostOne ==
    ASSUME NEW S, \A x, y \in S : x = y
    PROVE  Cardinality(S) = IF S = {} THEN 0 ELSE 1
  <1>1. CASE S = {}
    BY <1>1, FS_EmptySet
  <1>2. CASE S # {}
    <2>1. PICK x : S = {x}
      BY <1>2
    <2>2. QED BY <2>1, FS_Singleton
  <1>3. QED BY <1>1, <1>2

\* A hard close leaves its status, its one snapshot and its closing journal
\* together or nothing at all, and a soft close its status and its evidence.
THEOREM CloseIsAllOrNothingHolds == Spec => []CloseIsAllOrNothing
  <1>1. ASSUME Closing, NEW b \in Books, NEW p \in Periods
        PROVE  LET snapshots == {e \in db.snapshots : e.book = b /\ e.period = p}
                   soft == {e \in db.soft : e.book = b /\ e.period = p}
               IN  /\ Cardinality(snapshots) = IF db.control[b][p] = "hard_closed" THEN 1 ELSE 0
                   /\ Cardinality(soft) <= 1
                   /\ db.control[b][p] = "soft_closed" => soft # {}
                   /\ \A j \in db.journals : j.ref = <<"closing", <<b, p>>>> =>
                          \E e \in snapshots : j.ref \in e.sources
    <2> DEFINE snapshots == {e \in db.snapshots : e.book = b /\ e.period = p}
               soft == {e \in db.soft : e.book = b /\ e.period = p}
    <2>1. EvidenceFits(db)
      BY <1>1 DEF Closing
    <2>2. (snapshots # {}) = (db.control[b][p] = "hard_closed")
      BY <2>1 DEF EvidenceFits
    <2>3. Cardinality(snapshots) = IF snapshots = {} THEN 0 ELSE 1
      <3>1. \A x, y \in snapshots : x = y
        BY <2>1 DEF EvidenceFits
      <3>2. QED BY <3>1, CountOfAtMostOne
    <2>4. Cardinality(soft) = IF soft = {} THEN 0 ELSE 1
      <3>1. \A x, y \in soft : x = y
        BY <2>1 DEF EvidenceFits
      <3>2. QED BY <3>1, CountOfAtMostOne
    <2>5. db.control[b][p] = "soft_closed" => soft # {}
      BY <2>1 DEF EvidenceFits
    <2>6. \A j \in db.journals : j.ref = <<"closing", <<b, p>>>> =>
            \E e \in snapshots : j.ref \in e.sources
      BY <2>1 DEF EvidenceFits
    <2>7. Cardinality(soft) <= 1
      BY <2>4
    <2>8. QED BY <2>2, <2>3, <2>5, <2>6, <2>7
  <1>2. Closing => CloseIsAllOrNothing
    BY <1>1 DEF CloseIsAllOrNothing
  <1>3. QED BY <1>2, ClosingAlways, PTL

\* The ranks of a database's statuses can be compared.
LEMMA RanksAreNumbers ==
    ASSUME NEW d \in Database, NEW p \in Periods
    PROVE  /\ Rank[d.fiscal[p]] \in Nat
           /\ \A b \in Books : Rank[BookStatus(d, b, p)] \in Nat
  <1>1. d.fiscal[p] \in Statuses \cup {"absent"}
    BY DEF Database
  <1>2. \A b \in Books : BookStatus(d, b, p) \in Statuses \cup {"absent"}
    BY BookStatusTyped
  <1>3. QED BY <1>1, <1>2, RankValues DEF Statuses

\* The commit of a close raises statuses only.
LEMMA CloseRaises ==
    ASSUME Closing, NEW s \in Sessions, ClosingAtCommit(s), NEW c \in pend[s].closes,
           db' = AfterClose(db, c, pend[s]), NEW q \in Periods
    PROVE  /\ Rank[db.fiscal[q]] <= Rank[db'.fiscal[q]]
           /\ \A b \in Books : Rank[BookStatus(db, b, q)] <= Rank[BookStatus(db', b, q)]
  <1> DEFINE p == req[s].period
             b0 == req[s].book
             target == TargetStatus(req[s])
  <1>1. /\ \A b \in Books : BookStatus(db, b, p) \in Statuses
        /\ \A b \in Books : db'.control[b][p] = IF b = b0 THEN target ELSE BookStatus(db, b, p)
        /\ \A b \in Books, r \in Periods : r # p => db'.control[b][r] = db.control[b][r]
        /\ \A r \in Periods : r # p => db'.fiscal[r] = db.fiscal[r]
        /\ db'.fiscal[p] = Aggregate([b \in Books |-> db'.control[b][p]])
        /\ BookStatus(db, b0, p) \notin {"hard_closed", target}
    BY StatusAfterClose
  <1>2. target \in {"soft_closed", "hard_closed"}
    BY DEF TargetStatus
  <1>3. CalendarFits(db)
    BY DEF Closing
  <1> HIDE DEF p, b0, target
  <1>4. CASE q # p
    <2>1. db \in Database
      BY DEF Closing, Typed, TypeOK
    <2>2. /\ db'.fiscal[q] = db.fiscal[q]
          /\ \A b \in Books : BookStatus(db', b, q) = BookStatus(db, b, q)
      BY <1>1, <1>4 DEF BookStatus
    <2>3. QED BY <2>1, <2>2, RanksAreNumbers
  <1>5. CASE q = p
    <2>1. \A b \in Books : BookStatus(db', b, p) = db'.control[b][p]
      BY <1>1, <1>2 DEF BookStatus, Statuses
    <2>2. \A b \in Books : Rank[BookStatus(db, b, p)] <= Rank[db'.control[b][p]]
      BY <1>1, <1>2, RankValues DEF Statuses
    <2>3. Rank[db.fiscal[p]] <= Rank[db'.fiscal[p]]
      <3>1. CASE \A b \in Books : db.control[b][p] = "none"
        <4>1. db.fiscal[p] \in {"absent", "open"} \/ Books = {}
          BY <1>3, <1>5, <3>1 DEF CalendarFits
        <4>2. \A status : Rank[Aggregate(status)] \in {1, 2, 3}
          BY RankValues DEF Aggregate
        <4>3. CASE db.fiscal[p] \in {"absent", "open"}
          BY <1>1, <4>2, <4>3, RankValues
        <4>4. CASE Books = {}
          BY <1>1, <1>3, <1>5, <4>2, <4>3, <4>4, RankValues DEF CalendarFits
        <4>5. QED BY <4>1, <4>3, <4>4
      <3>2. CASE ~\A b \in Books : db.control[b][p] = "none"
        <4> DEFINE f == [b \in Books |-> db.control[b][p]]
                   g == [b \in Books |-> db'.control[b][p]]
        <4>1. /\ db.fiscal[p] = Aggregate(f)
              /\ \A b \in Books : f[b] = BookStatus(db, b, p)
          BY <1>3, <1>5, <3>2 DEF CalendarFits, BookStatus
        <4>2. f \in [Books -> Statuses] /\ g \in [Books -> Statuses]
          BY <1>1, <1>2, <4>1 DEF Statuses
        <4>3. \A b \in Books : Rank[f[b]] <= Rank[g[b]]
          BY <2>2, <4>1
        <4>4. Rank[Aggregate(f)] <= Rank[Aggregate(g)]
          BY <4>2, <4>3, AggregateGrows
        <4>5. QED BY <1>1, <4>1, <4>4
      <3>3. QED BY <3>1, <3>2
    <2>4. QED BY <1>5, <2>1, <2>2, <2>3
  <1>6. QED BY <1>4, <1>5

GrowsTo(d, e) ==
    /\ d.records \subseteq e.records /\ d.journals \subseteq e.journals
    /\ d.soft \subseteq e.soft /\ d.snapshots \subseteq e.snapshots
    /\ d.opens \subseteq e.opens /\ d.outbox \subseteq e.outbox
    /\ \A p \in Periods :
         /\ Rank[d.fiscal[p]] <= Rank[e.fiscal[p]]
         /\ \A b \in Books : Rank[BookStatus(d, b, p)] <= Rank[BookStatus(e, b, p)]

\* A step that changes the database only adds rows and raises statuses.
LEMMA DatabaseGrows ==
    ASSUME Closing, [Next]_vars
    PROVE  db' = db \/ GrowsTo(db, db')
  <1>1. db \in Database
    BY DEF Closing, Typed, TypeOK
  <1>2. ASSUME NEW s \in Sessions, CommitJournal(s)
        PROVE  GrowsTo(db, db')
    <2>1. /\ db'.fiscal = db.fiscal /\ db'.control = db.control
          /\ db'.soft = db.soft /\ db'.snapshots = db.snapshots /\ db'.opens = db.opens
          /\ db.records \subseteq db'.records /\ db.journals \subseteq db'.journals
          /\ db.outbox \subseteq db'.outbox
      BY <1>1, <1>2 DEF CommitJournal, Database
    <2>2. QED BY <1>1, <2>1, RanksAreNumbers DEF GrowsTo, BookStatus
  <1>3. ASSUME NEW s \in Sessions, CommitOpen(s)
        PROVE  GrowsTo(db, db')
    <2> DEFINE p == req[s].period
    <2>1. /\ db'.control = db.control /\ db'.records = db.records
          /\ db'.journals = db.journals /\ db'.soft = db.soft
          /\ db'.snapshots = db.snapshots /\ db'.outbox = db.outbox
          /\ db.opens \subseteq db'.opens
          /\ db'.fiscal = [db.fiscal EXCEPT ![p] = IF @ = "absent" THEN "open" ELSE @]
      BY <1>1, <1>3 DEF CommitOpen, Database
    <2>2. p \in Periods
      <3>1. req[s] \in Requests
        BY <1>3 DEF CommitOpen, Closing, Typed, StagedAs
      <3>2. QED BY <3>1, RequestFields
    <2> HIDE DEF p
    <2>3. \A q \in Periods : \/ db'.fiscal[q] = db.fiscal[q]
                            \/ (db.fiscal[q] = "absent" /\ db'.fiscal[q] = "open")
      BY <1>1, <2>1, <2>2 DEF Database
    <2>4. \A q \in Periods : Rank[db.fiscal[q]] <= Rank[db'.fiscal[q]]
      BY <1>1, <2>3, RankValues, RanksAreNumbers
    <2>5. \A q \in Periods, b \in Books : Rank[BookStatus(db, b, q)] <= Rank[BookStatus(db', b, q)]
      BY <1>1, <2>1, <2>3, RankValues, RanksAreNumbers DEF BookStatus
    <2>6. QED BY <2>1, <2>4, <2>5 DEF GrowsTo
  <1>4. ASSUME NEW s \in Sessions, CommitClose(s)
        PROVE  GrowsTo(db, db')
    <2>1. PICK c \in pend[s].closes : db' = AfterClose(db, c, pend[s])
      BY <1>4 DEF CommitClose
    <2>2. ClosingAtCommit(s)
      BY <1>4 DEF CommitClose, ClosingAtCommit
    <2>3. \A q \in Periods :
            /\ Rank[db.fiscal[q]] <= Rank[db'.fiscal[q]]
            /\ \A b \in Books : Rank[BookStatus(db, b, q)] <= Rank[BookStatus(db', b, q)]
      BY <2>1, <2>2, CloseRaises
    <2>4. QED BY <2>1, <2>3 DEF AfterClose, GrowsTo
  <1>5. ASSUME NEW s \in Sessions, Begin(s) \/ Abort(s) \/ Step(s),
               ~CommitJournal(s), ~CommitOpen(s), ~CommitClose(s)
        PROVE  db' = db
    BY <1>5 DEF Begin, Abort, Step, AcquireCommandLock, ReplayProposal, CheckProposal,
       RefuseProposal, LoadReversalPolicy, RefusePolicy, ReplayReversal, CheckReversal,
       RefuseReversal, AdmitToPeriod, RefusePeriod, InsertRecord, RefuseRecord,
       InsertJournal, RefuseJournal, ReplayOpen, OpenPeriod, RefuseOpen, ReplayClose,
       WriteClose, RefuseClose, Goto, Advance, Rollback, Replay
  <1>6. CASE UNCHANGED vars
    BY <1>6 DEF vars
  <1>7. QED BY <1>2, <1>3, <1>4, <1>5, <1>6 DEF Next

\* No record, journal, evidence, command or event is ever changed or lost, and
\* no period of a book or of the calendar reopens, whatever rolls back.
THEOREM LedgerOnlyGrowsHolds == Spec => LedgerOnlyGrows
  <1>1. Closing /\ [Next]_vars => [GrowsTo(db, db')]_db
    BY DatabaseGrows
  <1>2. Spec => [][GrowsTo(db, db')]_db
    BY <1>1, ClosingAlways, PTL DEF Spec
  <1>3. QED BY <1>2 DEF LedgerOnlyGrows, GrowsTo

-----------------------------------------------------------------------------
(* Journals that miss a close *)

\* Session t has inserted the record of a command that is no close.
Inserted(t) == pend[t].records # {} /\ ~IsClose(req[t])

\* Such a command reads the same book however many journals are added.
LEMMA BookStays ==
    ASSUME Written, Unrivalled', db.journals \subseteq db'.journals,
           NEW t \in Sessions, Inserted(t), req'[t] = req[t]
    PROVE  BookOf(req[t])' = BookOf(req[t])
  <1> USE DEF Mirrored, Unrivalled, Typed
  <1>1. CASE req[t].op # "reverse"
    BY <1>1 DEF BookOf
  <1>2. CASE req[t].op = "reverse"
    <2>1. req[t] \in Requests /\ pc[t] \in {"journal", "commit"} /\ WritesJournal(req[t])
      <3>1. StagedAs(pc[t], req[t], view[t], pend[t])
        BY DEF Written
      <3>2. QED BY <1>2, <3>1 DEF Inserted, StagedAs, NoWrites, WritesJournal
    <2>2. \E o \in db.journals : o.ref = req[t].target
      <3>1. CASE pc[t] = "journal"
        BY <1>2, <2>1, <3>1 DEF Written, TargetReady
      <3>2. CASE pc[t] = "commit"
        <4>1. PICK j \in Journal : pend[t] = Rows({NewRecord(req[t])}, {j}, {}, {})
          BY <2>1, <3>2, JournalToCommit DEF Written
        <4>2. j \in pend[t].journals
          BY <4>1 DEF Rows
        <4>3. Mirrors(j) /\ Faithful(req[t], j)
          BY <2>1, <3>2, <4>2 DEF Written, AsAsked
        <4>4. j.reverses = req[t].target /\ req[t].target # NoRef
          BY <1>2, <2>1, <4>3, RequestFields, NothingAssumption DEF Faithful
        <4>5. QED BY <4>3, <4>4 DEF Mirrors
      <3>3. QED BY <2>1, <3>1, <3>2
    <2>3. Target(req[t]) \in db'.journals /\ Target(req[t]).ref = req[t].target
      BY <2>2, TargetFound
    <2>4. Target(req[t])' \in db'.journals /\ Target(req[t])'.ref = req[t].target
      BY <2>3 DEF Target
    <2>5. Target(req[t])' = Target(req[t])
      BY <2>3, <2>4 DEF OneJournalPerCommand
    <2>6. QED BY <1>2, <2>5 DEF BookOf
  <1>3. QED BY <1>1, <1>2

\* A step by which no session inserts a record and no journal is committed that
\* was not late already.
LEMMA LateStays ==
    ASSUME Written, Unrivalled', db.journals \subseteq db'.journals,
           NEW e, NEW roles,
           \A t \in Sessions : Inserted(t)' => Inserted(t) /\ req'[t] = req[t],
           \A j \in db'.journals : \/ j \in db.journals
                                   \/ j.ref \in Late(e, roles)
                                   \/ ~(/\ j.book = e.book /\ j.period = e.period
                                        /\ j.role \in roles)
    PROVE  Late(e, roles)' \subseteq Late(e, roles)
  <1> SUFFICES ASSUME NEW x \in Late(e, roles)'
               PROVE  x \in Late(e, roles)
    OBVIOUS
  <1>1. ASSUME NEW j \in db'.journals, x = j.ref, j.book = e.book, j.period = e.period,
               j.role \in roles, j.ref \notin e.sources
        PROVE  x \in Late(e, roles)
    BY <1>1 DEF Late
  <1>2. ASSUME NEW t \in Sessions, x = RefOf(req'[t]), Inserted(t)',
               BookOf(req[t])' = e.book, req'[t].period = e.period, RoleOf(req'[t]) \in roles
        PROVE  x \in Late(e, roles)
    <2>1. Inserted(t) /\ req'[t] = req[t]
      BY <1>2
    <2>2. BookOf(req[t]) = e.book
      BY <1>2, <2>1, BookStays
    <2>3. QED BY <1>2, <2>1, <2>2 DEF Late, Inserted
  <1>3. QED BY <1>1, <1>2 DEF Late, Inserted

\* The journals of the roles can no longer be inserted into e's book period.
Barred(e, roles) ==
    /\ e.book \in Books /\ e.period \in Periods
    /\ \/ db.control[e.book][e.period] = "hard_closed"
       \/ roles = {"billing"} /\ db.control[e.book][e.period] = "soft_closed"

\* INSERT INTO journal_proposal_record: the trigger that fires with it reads the
\* committed status of the book's own period, whatever the command read before.
LEMMA InsertRecordNotLate ==
    ASSUME Written, Unrivalled', NEW e, NEW roles, Barred(e, roles),
           NEW s \in Sessions, InsertRecord(s)
    PROVE  Late(e, roles)' \subseteq Late(e, roles)
  <1> USE DEF Mirrored, Unrivalled, Typed
  <1>1. /\ db' = db /\ req' = req
        /\ \A t \in Sessions \ {s} : pend'[t] = pend[t]
    BY DEF InsertRecord, Advance, Written, TypeOK
  <1>2. req[s].op \in {"post", "adjust", "reverse"}
    BY DEF InsertRecord, Written, StagedAs, WritesJournal, IsProposal
  <1>3. ~(/\ BookOf(req[s]) = e.book /\ req[s].period = e.period
          /\ RoleOf(req[s]) \in roles)
    <2> SUFFICES ASSUME BookOf(req[s]) = e.book, req[s].period = e.period,
                        RoleOf(req[s]) \in roles
                 PROVE  FALSE
      OBVIOUS
    <2>1. GuardPeriodInsert(db, e.book, e.period, RoleOf(req[s]))
      BY DEF InsertRecord, RecordFits
    <2>2. QED BY <2>1 DEF GuardPeriodInsert, BookStatus, Barred
  <1>4. \A t \in Sessions : Target(req[t])' = Target(req[t])
    BY <1>1 DEF Target
  <1>5. \A t \in Sessions : BookOf(req[t])' = BookOf(req[t])
    BY <1>1, <1>4 DEF BookOf
  <1>6. QED BY <1>1, <1>3, <1>5 DEF Late

\* The commit of a journal: one that is late was under way.
LEMMA CommitJournalNotLate ==
    ASSUME Written, Unrivalled', NEW e, NEW roles, NEW s \in Sessions, CommitJournal(s)
    PROVE  Late(e, roles)' \subseteq Late(e, roles)
  <1> USE DEF Mirrored, Unrivalled, Typed
  <1>1. pc[s] = "commit" /\ WritesJournal(req[s])
    BY DEF CommitJournal, WritesJournal
  <1>2. PICK j \in Journal : /\ pend[s] = Rows({NewRecord(req[s])}, {j}, {}, {})
                             /\ j.ref = RefOf(req[s]) /\ j.role = RoleOf(req[s])
    BY <1>1, JournalToCommit DEF Written
  <1>3. pend[s].journals = {j} /\ pend[s].records # {}
    BY <1>2 DEF Rows
  <1>4. db'.journals = db.journals \cup {j}
    BY <1>3 DEF CommitJournal, Written, TypeOK, Database
  <1>5. Inserted(s)
    BY <1>1, <1>3 DEF Inserted, WritesJournal, IsProposal, IsClose
  <1>6. req[s] \in Requests /\ Faithful(req[s], j) /\ Mirrors(j)
    BY <1>1, <1>3, JournalToCommit DEF Written, AsAsked
  <1>7. j.book = BookOf(req[s])
    <2>1. CASE req[s].op # "reverse"
      BY <1>1, <1>6, <2>1 DEF Faithful, BookOf, WritesJournal
    <2>2. CASE req[s].op = "reverse"
      <3>1. j.reverses = req[s].target /\ req[s].target # NoRef
        BY <1>6, <2>2, RequestFields, NothingAssumption DEF Faithful
      <3>2. PICK o \in db.journals : o.ref = req[s].target /\ o.book = j.book
        BY <1>6, <3>1 DEF Mirrors
      <3>3. Target(req[s]) = o
        BY <3>2, TargetFound DEF Written, OneJournalPerCommand
      <3>4. QED BY <2>2, <3>2, <3>3 DEF BookOf
    <2>3. QED BY <2>1, <2>2
  <1>8. /\ j.book = e.book /\ j.period = e.period /\ j.role \in roles
           => j.ref \in Late(e, roles)
    BY <1>2, <1>3, <1>5, <1>6, <1>7 DEF Late, Inserted, Faithful
  <1>9. \A t \in Sessions : Inserted(t)' => Inserted(t) /\ req'[t] = req[t]
    BY DEF CommitJournal, Reply, Finish, Inserted, NoWrites, Written, TypeOK
  <1>10. QED BY <1>4, <1>8, <1>9, LateStays

\* The commit of a close: it closes no book period a second time.
LEMMA CommitCloseNotLate ==
    ASSUME Closing, Written, Unrivalled', NEW e, NEW roles, Barred(e, roles),
           NEW s \in Sessions, CommitClose(s)
    PROVE  Late(e, roles)' \subseteq Late(e, roles)
  <1>1. ClosingAtCommit(s)
    BY DEF CommitClose, ClosingAtCommit
  <1>2. PICK c \in pend[s].closes : db' = AfterClose(db, c, pend[s])
    BY DEF CommitClose
  <1>3. pend[s].journals = ClosingJournals(view[s], req[s])
    BY <1>1, EffectRead
  <1>4. db'.journals = db.journals \cup ClosingJournals(view[s], req[s])
    BY <1>2, <1>3 DEF AfterClose
  <1>5. BookStatus(db, req[s].book, req[s].period) # "hard_closed"
    BY <1>1, <1>2, StatusAfterClose
  <1>6. \A j \in ClosingJournals(view[s], req[s]) :
          /\ j.role = "period_closing" /\ j.book = req[s].book /\ j.period = req[s].period
    BY DEF ClosingJournals
  <1>7. \A j \in ClosingJournals(view[s], req[s]) :
          ~(j.book = e.book /\ j.period = e.period /\ j.role \in roles)
    BY <1>5, <1>6 DEF Barred, BookStatus
  <1>8. \A t \in Sessions : Inserted(t)' => Inserted(t) /\ req'[t] = req[t]
    BY DEF CommitClose, Reply, Finish, Inserted, NoWrites, Closing, Typed, TypeOK
  <1>9. QED BY <1>4, <1>7, <1>8, LateStays

\* Every other step commits no journal and inserts no command's record.
LEMMA OthersNotLate ==
    ASSUME Closing, Written, Unrivalled', NEW e, NEW roles,
           NEW s \in Sessions, Begin(s) \/ Step(s) \/ Abort(s),
           ~InsertRecord(s), ~CommitJournal(s), ~CommitClose(s)
    PROVE  Late(e, roles)' \subseteq Late(e, roles)
  <1>1. ASSUME db'.journals = db.journals,
               \A t \in Sessions : Inserted(t)' => Inserted(t) /\ req'[t] = req[t]
        PROVE  Late(e, roles)' \subseteq Late(e, roles)
    BY <1>1, LateStays
  <1>2. CASE Begin(s)
    <2>1. /\ db' = db /\ pend' = pend /\ pc[s] = "idle"
          /\ \A t \in Sessions \ {s} : req'[t] = req[t]
      BY <1>2 DEF Begin, Closing, Typed, TypeOK
    <2>2. pend[s] = NoWrites
      <3>1. StagedAs(pc[s], req[s], view[s], pend[s])
        BY DEF Closing, Typed
      <3>2. QED BY <2>1, <3>1 DEF StagedAs
    <2>3. QED BY <1>1, <2>1, <2>2 DEF Inserted, NoWrites
  <1>3. CASE \/ AcquireCommandLock(s) \/ CheckProposal(s) \/ LoadReversalPolicy(s)
             \/ CheckReversal(s) \/ AdmitToPeriod(s)
    BY <1>1, <1>3 DEF AcquireCommandLock, CheckProposal, LoadReversalPolicy,
                      CheckReversal, AdmitToPeriod, Goto, Grant, Advance, Inserted
  <1>4. CASE OpenPeriod(s) \/ InsertJournal(s)
    <2>1. db' = db /\ req' = req /\ \A t \in Sessions : pend'[t].records = pend[t].records
      BY <1>4 DEF OpenPeriod, InsertJournal, Advance, Closing, Typed, TypeOK, Writes
    <2>2. QED BY <1>1, <2>1 DEF Inserted
  <1>5. CASE WriteClose(s)
    <2>1. /\ db' = db /\ req' = req /\ IsClose(req[s])
          /\ \A t \in Sessions \ {s} : pend'[t] = pend[t]
      BY <1>5 DEF WriteClose, CloseReady, Advance, Closing, Typed, TypeOK
    <2>2. QED BY <1>1, <2>1 DEF Inserted
  <1>6. ASSUME Finish(s), db'.journals = db.journals
        PROVE  Late(e, roles)' \subseteq Late(e, roles)
    <2>1. /\ pend'[s] = NoWrites
          /\ \A t \in Sessions \ {s} : pend'[t] = pend[t] /\ req'[t] = req[t]
      BY <1>6 DEF Finish, Closing, Typed, TypeOK
    <2>2. QED BY <1>1, <1>6, <2>1 DEF Inserted, NoWrites
  <1>7. CASE \/ Abort(s) \/ RefuseProposal(s) \/ RefusePolicy(s) \/ RefuseReversal(s)
             \/ RefusePeriod(s) \/ RefuseRecord(s) \/ RefuseJournal(s) \/ RefuseOpen(s)
             \/ RefuseClose(s) \/ ReplayProposal(s) \/ ReplayReversal(s)
             \/ ReplayOpen(s) \/ ReplayClose(s)
    <2>1. Finish(s) /\ db' = db
      BY <1>7 DEF Abort, RefuseProposal, RefusePolicy, RefuseReversal, RefusePeriod,
                  RefuseRecord, RefuseJournal, RefuseOpen, RefuseClose, ReplayProposal,
                  ReplayReversal, ReplayOpen, ReplayClose, Replay, Reply, Rollback
    <2>2. QED BY <1>6, <2>1
  <1>8. CASE CommitOpen(s)
    <2>1. Finish(s) /\ db'.journals = db.journals
      BY <1>8 DEF CommitOpen, Reply, Closing, Typed, TypeOK, Database
    <2>2. QED BY <1>6, <2>1
  <1>9. QED BY <1>2, <1>3, <1>4, <1>5, <1>7, <1>8 DEF Step

\* LateJournalsWereUnderway: close evidence bars its book period, so only a
\* transaction that had passed the trigger before can still add a journal.
THEOREM LateJournalsWereUnderwayHolds == Spec => LateJournalsWereUnderway
  <1> DEFINE Holds(e, roles) == Late(e, roles)' \subseteq Late(e, roles)
  <1>1. ASSUME Closing, Written, Unrivalled', [Next]_vars, NEW e, NEW roles, Barred(e, roles)
        PROVE  Holds(e, roles)
    <2>1. CASE UNCHANGED vars
      <3>1. /\ db' = db /\ req' = req /\ pend' = pend
        BY <2>1 DEF vars
      <3>2. QED BY <1>1, <3>1, LateStays DEF Inserted
    <2>2. ASSUME NEW s \in Sessions, Begin(s) \/ Step(s) \/ Abort(s)
          PROVE  Holds(e, roles)
      BY <1>1, <2>2, InsertRecordNotLate, CommitJournalNotLate, CommitCloseNotLate,
         OthersNotLate
    <2>3. QED BY <1>1, <2>1, <2>2 DEF Next
  <1>2. ASSUME Closing
        PROVE  /\ \A e \in db.snapshots : Barred(e, Roles)
               /\ \A e \in db.soft : Barred(e, {"billing"})
    <2>1. /\ \A e \in db.snapshots \cup db.soft : e.book \in Books /\ e.period \in Periods
          /\ EvidenceFits(db)
      BY <1>2 DEF Closing, Typed, TypeOK, Database, Evidence
    <2>2. QED BY <2>1 DEF EvidenceFits, Barred
  <1>3. Closing /\ Written /\ Unrivalled' /\ [Next]_vars
          => [/\ \A e \in db.snapshots : Holds(e, Roles)
              /\ \A e \in db.soft : Holds(e, {"billing"})]_vars
    BY <1>1, <1>2
  <1>4. Spec => []Written
    BY WrittenInitially, WrittenStep, PTL DEF Spec
  <1>5. Written => Unrivalled
    BY DEF Written, Mirrored
  <1>6. QED BY <1>3, <1>4, <1>5, ClosingAlways, PTL DEF Spec, LateJournalsWereUnderway

-----------------------------------------------------------------------------
(* Answers *)

\* What an answer promises of the database.
Kept(a) ==
    /\ IsProposal(a.req) \/ a.req.op = "reverse" =>
         \E r \in db.records : r.key = a.req.key /\ r.hash = HashOf(a.req)
    /\ IsClose(a.req) =>
         \E e \in EvidenceOf(db, a.req) : e.key = a.req.key /\ e.sources = a.sources

\* The database only grows, so a promise is kept for ever.
LEMMA KeptForEver ==
    ASSUME Closing, [Next]_vars, NEW a, Kept(a)
    PROVE  Kept(a)'
  <1>1. /\ db.records \subseteq db'.records
        /\ db.soft \subseteq db'.soft /\ db.snapshots \subseteq db'.snapshots
    BY DatabaseGrows DEF GrowsTo
  <1>2. QED BY <1>1 DEF Kept, EvidenceOf

\* The evidence a replayed close reports is that of its own key, as a book
\* period has one, and is still there after the snapshot the close reads.
LEMMA ReplayCloseKept ==
    ASSUME Closing, NEW s \in Sessions, NEW e \in EvidenceOf(view[s], req[s]),
           CloseReady(s), ClosePhase(s) = "replay"
    PROVE  \E f \in EvidenceOf(db, req[s]) : f.key = req[s].key /\ f.sources = e.sources
  <1>1. PICK f \in EvidenceOf(view[s], req[s]) : f.key = req[s].key
    BY DEF ClosePhase
  <1>2. EvidenceFits(view[s]) /\ IsPast(view[s], db)
    BY DEF Closing, CloseReady
  <1>3. f = e
    BY <1>2 DEF EvidenceFits, EvidenceOf
  <1>4. f \in EvidenceOf(db, req[s])
    BY <1>2 DEF IsPast, EvidenceOf
  <1>5. QED BY <1>1, <1>3, <1>4

\* A close commits the evidence that its answer reports.
LEMMA CommitCloseKept ==
    ASSUME Closing, NEW s \in Sessions, pc[s] = "commit", IsClose(req[s]),
           NEW c \in pend[s].closes, db' = AfterClose(db, c, pend[s])
    PROVE  \E e \in EvidenceOf(db', req[s]) : e.key = req[s].key /\ e.sources = c.sources
  <1> DEFINE r == req[s]
             e == [book |-> c.book, period |-> c.period, key |-> c.key, sources |-> c.sources]
  <1>1. pend[s].closes = {EffectOf(view[s], r)}
    <2>1. LET J == ClosingJournals(view[s], r)
          IN  pend[s] = Rows(ClosingRecords(J), J, {}, {EffectOf(view[s], r)})
      BY CloseToCommit DEF Closing
    <2>2. QED BY <2>1 DEF Rows
  <1>2. /\ c.book = r.book /\ c.period = r.period /\ c.key = r.key
        /\ c.status = TargetStatus(r)
    BY <1>1 DEF EffectOf
  <1>3. e.book = r.book /\ e.period = r.period /\ e.key = r.key /\ e.sources = c.sources
    BY <1>2
  <1>4. IF r.op = "soft_close" THEN e \in db'.soft ELSE e \in db'.snapshots
    BY <1>2 DEF AfterClose, EvidenceIf, TargetStatus
  <1> HIDE DEF e
  <1>5. QED BY <1>3, <1>4 DEF EvidenceOf

LEMMA AnswersStep ==
    ASSUME Closing, \A a \in answers : Kept(a), [Next]_vars
    PROVE  \A a \in answers' : Kept(a)'
  <1>1. ASSUME answers' = answers
        PROVE  \A a \in answers' : Kept(a)'
    BY <1>1, KeptForEver
  <1>2. ASSUME NEW s \in Sessions, NEW ref, NEW sources, Reply(s, ref, sources),
               IsProposal(req[s]) \/ req[s].op = "reverse" =>
                 \E r \in db'.records : r.key = req[s].key /\ r.hash = HashOf(req[s]),
               IsClose(req[s]) =>
                 \E e \in EvidenceOf(db', req[s]) : e.key = req[s].key /\ e.sources = sources
        PROVE  \A a \in answers' : Kept(a)'
    <2> SUFFICES ASSUME NEW a \in answers' PROVE Kept(a)'
      OBVIOUS
    <2>1. a \in answers \/ a = [req |-> req[s], journal |-> ref, sources |-> sources]
      BY <1>2 DEF Reply
    <2>2. CASE a \in answers
      BY <2>2, KeptForEver
    <2>3. CASE a = [req |-> req[s], journal |-> ref, sources |-> sources]
      <3>1. a.req = req[s] /\ a.sources = sources
        BY <2>3
      <3>2. QED BY <1>2, <3>1 DEF Kept
    <2>4. QED BY <2>1, <2>2, <2>3
  <1>3. ASSUME NEW s \in Sessions, ReplayProposal(s)
        PROVE  \A a \in answers' : Kept(a)'
    <2>1. ~IsClose(req[s]) /\ db' = db
      BY <1>3 DEF ReplayProposal, Replay, IsProposal, IsClose
    <2>2. PICK rec \in Prior(db, req[s].key) :
            /\ rec.hash = HashOf(req[s])
            /\ Reply(s, IF req[s].op = "post" THEN RefOf(req[s]) ELSE rec.ref, {})
      BY <1>3 DEF ReplayProposal, Replay
    <2>3. rec \in db'.records /\ rec.key = req[s].key
      BY <2>1 DEF Prior
    <2>4. QED BY <1>2, <2>1, <2>2, <2>3
  <1>4. ASSUME NEW s \in Sessions, ReplayReversal(s)
        PROVE  \A a \in answers' : Kept(a)'
    <2>1. ~IsClose(req[s]) /\ db' = db
      BY <1>4 DEF ReplayReversal, Replay, IsClose
    <2>2. PICK j \in Reversals(db, req[s].target) :
            SameCommand(j, req[s]) /\ Reply(s, j.ref, {})
      BY <1>4 DEF ReplayReversal, Replay
    <2>3. QED BY <1>2, <2>1, <2>2 DEF SameCommand
  <1>5. ASSUME NEW s \in Sessions, CommitJournal(s)
        PROVE  \A a \in answers' : Kept(a)'
    <2>1. /\ ~IsClose(req[s]) /\ Reply(s, RefOf(req[s]), {})
          /\ pc[s] = "commit" /\ WritesJournal(req[s])
      BY <1>5 DEF CommitJournal, IsProposal, IsClose, WritesJournal
    <2>2. NewRecord(req[s]) \in pend[s].records
      <3>1. PICK j \in Journal : pend[s] = Rows({NewRecord(req[s])}, {j}, {}, {})
        BY <2>1, JournalToCommit DEF Closing
      <3>2. QED BY <3>1 DEF Rows
    <2>3. NewRecord(req[s]) \in db'.records
      BY <1>5, <2>2 DEF CommitJournal, Closing, Typed, TypeOK, Database
    <2>4. QED BY <1>2, <2>1, <2>3 DEF NewRecord
  <1>6. ASSUME NEW s \in Sessions, ReplayOpen(s) \/ CommitOpen(s)
        PROVE  \A a \in answers' : Kept(a)'
    <2>1. Reply(s, NoRef, {}) /\ req[s].op = "open"
      BY <1>6 DEF ReplayOpen, CommitOpen, Replay
    <2>2. QED BY <1>2, <2>1 DEF IsProposal, IsClose
  <1>7. ASSUME NEW s \in Sessions, ReplayClose(s)
        PROVE  \A a \in answers' : Kept(a)'
    <2>1. CloseReady(s) /\ ClosePhase(s) = "replay" /\ db' = db
      BY <1>7 DEF ReplayClose, Replay
    <2>2. PICK e \in EvidenceOf(view[s], req[s]) : Reply(s, NoRef, e.sources)
      BY <1>7 DEF ReplayClose, Replay
    <2>3. \E f \in EvidenceOf(db', req[s]) : f.key = req[s].key /\ f.sources = e.sources
      BY <2>1, ReplayCloseKept
    <2>4. QED BY <1>2, <2>1, <2>2, <2>3 DEF CloseReady, IsProposal, IsClose
  <1>8. ASSUME NEW s \in Sessions, CommitClose(s)
        PROVE  \A a \in answers' : Kept(a)'
    <2>1. pc[s] = "commit" /\ IsClose(req[s])
      BY <1>8 DEF CommitClose
    <2>2. PICK c \in pend[s].closes : db' = AfterClose(db, c, pend[s]) /\ Reply(s, NoRef, c.sources)
      BY <1>8 DEF CommitClose
    <2>3. QED BY <1>2, <2>1, <2>2, CommitCloseKept DEF IsProposal, IsClose
  <1>9. ASSUME NEW s \in Sessions, Begin(s) \/ Step(s) \/ Abort(s),
               ~ReplayProposal(s), ~ReplayReversal(s), ~ReplayOpen(s), ~ReplayClose(s),
               ~CommitJournal(s), ~CommitOpen(s), ~CommitClose(s)
        PROVE  answers' = answers
    BY <1>9 DEF Step, Begin, Abort, AcquireCommandLock, CheckProposal, LoadReversalPolicy,
                CheckReversal, AdmitToPeriod, InsertRecord, InsertJournal, OpenPeriod, WriteClose,
                RefuseProposal, RefusePolicy, RefuseReversal, RefusePeriod, RefuseRecord,
                RefuseJournal, RefuseOpen, RefuseClose, Goto, Grant, Advance, Rollback
  <1>10. CASE UNCHANGED vars
    BY <1>1, <1>10 DEF vars
  <1>11. QED
    BY <1>1, <1>3, <1>4, <1>5, <1>6, <1>7, <1>8, <1>9, <1>10 DEF Next

\* AnswersAreDurable: what post, reverse and the closes return stays on record,
\* and all answers to a close of one book period report the same evidence.
THEOREM AnswersAreDurableHolds == Spec => []AnswersAreDurable
  <1> DEFINE AllKept == \A a \in answers : Kept(a)
  <1>1. Init => AllKept
    BY DEF Init
  <1>2. Closing /\ AllKept /\ [Next]_vars => AllKept'
    BY AnswersStep
  <1>3. AllKept => AnswersAreDurable
    BY DEF Kept, AnswersAreDurable
  <1> HIDE DEF AllKept
  <1>4. QED BY <1>1, <1>2, <1>3, ClosingAlways, PTL DEF Spec
-----------------------------------------------------------------------------
(* Income is parked once *)

Sourced(J, e) == {j \in J : j.ref \in e.sources}
\* The sources of a close are journals of its book, its own closing journal
\* included, and book no income together.
Zeroed(J, e) ==
    /\ \A x \in e.sources : \E j \in J : j.ref = x /\ j.book = e.book
    /\ NetIncome(Sourced(J, e)) = 0

\* NetIncome is a sum of weights.
LEMMA NetAdds ==
    ASSUME NEW S, IsFiniteSet(S)
    PROVE  NetIncome(S) = SumOver([j \in S |-> j.net], S)
  <1> DEFINE w == [j \in S |-> j.net]
             Folds(g) == g = [s \in SUBSET S |->
                            IF s = {} THEN 0 ELSE First(s).net + g[s \ {First(s)}]]
             fold == CHOOSE g : Folds(g)
  <1>1. NetIncome(S) = fold[S]
    BY DEF NetIncome, MapThenSumSet, MapThenFoldSet, First
  <1>2. \A s \in SUBSET S : s # {} => w[First(s)] = First(s).net
    BY FirstIsMember
  <1>3. ASSUME NEW g
        PROVE  Folds(g) <=> Sums(g, w, S)
    <2>1. [s \in SUBSET S |-> IF s = {} THEN 0 ELSE First(s).net + g[s \ {First(s)}]]
            = [s \in SUBSET S |-> IF s = {} THEN 0 ELSE w[First(s)] + g[s \ {First(s)}]]
      BY <1>2
    <2> HIDE DEF w
    <2>2. QED BY <2>1 DEF Sums
  <1>4. \E g : Folds(g)
    BY <1>3, SumsExist
  <1> HIDE DEF Folds
  <1>5. Folds(fold)
    BY <1>4
  <1> HIDE DEF fold, w
  <1>6. Sums(fold, w, S)
    BY <1>3, <1>5
  <1>7. SumOver(w, S) = fold[S]
    BY <1>6, SumsGive
  <1>8. QED BY <1>1, <1>7 DEF w

\* Journals of two disjoint sets book the incomes of both.
LEMMA NetOfUnion ==
    ASSUME NEW S, IsFiniteSet(S), NEW T, IsFiniteSet(T), S \cap T = {},
           \A j \in S \cup T : j.net \in Int
    PROVE  /\ NetIncome(S \cup T) = NetIncome(S) + NetIncome(T)
           /\ NetIncome(S) \in Int /\ NetIncome(T) \in Int
  <1> DEFINE w(R) == [j \in R |-> j.net]
  <1>1. IsFiniteSet(S \cup T)
    BY FS_Union
  <1>2. /\ NetIncome(S) = SumOver(w(S), S) /\ NetIncome(T) = SumOver(w(T), T)
        /\ NetIncome(S \cup T) = SumOver(w(S \cup T), S \cup T)
    BY <1>1, NetAdds
  <1>3. /\ \A j \in S : w(S)[j] = w(S \cup T)[j] /\ w(S)[j] \in Int
        /\ \A j \in T : w(T)[j] = w(S \cup T)[j] /\ w(T)[j] \in Int
        /\ \A j \in S \cup T : w(S \cup T)[j] \in Int
    OBVIOUS
  <1> HIDE DEF w
  <1>4. /\ SumOver(w(S), S) = SumOver(w(S \cup T), S)
        /\ SumOver(w(T), T) = SumOver(w(S \cup T), T)
    BY <1>3, SumEqual
  <1>5. SumOver(w(S \cup T), S \cup T) = SumOver(w(S \cup T), S) + SumOver(w(S \cup T), T)
    BY <1>3, SumUnion
  <1>6. SumOver(w(S), S) \in Int /\ SumOver(w(T), T) \in Int
    BY <1>3, SumInt
  <1>7. QED BY <1>2, <1>4, <1>5, <1>6

LEMMA NetOfOne ==
    ASSUME NEW j, j.net \in Int
    PROVE  IsFiniteSet({j}) /\ NetIncome({j}) = j.net
  <1> DEFINE w == [k \in {j} |-> k.net]
  <1>1. IsFiniteSet({j})
    BY FS_Singleton
  <1>2. NetIncome({j}) = SumOver(w, {j})
    BY <1>1, NetAdds
  <1>3. w[j] = j.net
    OBVIOUS
  <1> HIDE DEF w
  <1>4. QED BY <1>1, <1>2, <1>3, SumSingle
LEMMA NetOfNone == NetIncome({}) = 0
  BY FS_EmptySet, NetAdds, SumEmpty

\* Journals committed later are no sources of a close.
LEMMA SourcesStay ==
    ASSUME NEW J, NEW K, J \subseteq K, \A j, k \in K : j.ref = k.ref => j = k,
           NEW e, Zeroed(J, e)
    PROVE  Zeroed(K, e)
  <1>1. Sourced(K, e) = Sourced(J, e)
    BY DEF Zeroed, Sourced
  <1>2. QED BY <1>1 DEF Zeroed

\* The closing journal takes off what its close saw.
LEMMA ClosingZeroes ==
    ASSUME NEW d, NEW r, r.op # "soft_close", IsFiniteSet(Booked(d, r.book, r.period)),
           \A j \in Booked(d, r.book, r.period) : j.net \in Int,
           ClosingJournals(d, r) \cap Booked(d, r.book, r.period) = {}
    PROVE  NetIncome(Booked(d, r.book, r.period) \cup ClosingJournals(d, r)) = 0
  <1> DEFINE B == Booked(d, r.book, r.period)
             J == ClosingJournals(d, r)
             j0 == [ref |-> <<"closing", <<r.book, r.period>>>>, book |-> r.book,
                    period |-> r.period, role |-> "period_closing",
                    net |-> -NetIncome(B), reverses |-> NoRef]
  <1>1. J = IF NetIncome(B) = 0 THEN {} ELSE {j0}
    BY DEF ClosingJournals
  <1>2. j0.net = -NetIncome(B)
    OBVIOUS
  <1>3. NetIncome(B) \in Int
    BY FS_EmptySet, NetOfUnion
  <1> HIDE DEF B, J, j0
  <1>4. CASE NetIncome(B) = 0
    <2>1. B \cup J = B
      BY <1>1, <1>4
    <2>2. QED BY <1>4, <2>1 DEF B, J
  <1>5. CASE NetIncome(B) # 0
    <2>1. J = {j0} /\ IsFiniteSet(J) /\ NetIncome(J) = -NetIncome(B)
      BY <1>1, <1>2, <1>3, <1>5, NetOfOne
    <2>2. \A j \in B \cup J : j.net \in Int
      BY <1>2, <1>3, <2>1 DEF B
    <2>3. IsFiniteSet(B) /\ B \cap J = {}
      BY DEF B, J
    <2>4. NetIncome(B \cup J) = NetIncome(B) + NetIncome(J)
      BY <2>1, <2>2, <2>3, NetOfUnion
    <2>5. QED BY <1>3, <2>1, <2>4 DEF B, J
  <1>6. QED BY <1>4, <1>5

\* A close in progress goes on reading what is committed.
ReadsCommitted ==
    \A s \in Sessions : pc[s] # "idle" /\ IsClose(req[s]) => view[s].journals \subseteq db.journals
LEMMA ReadsLast ==
    ASSUME ReadsCommitted, db.journals \subseteq db'.journals,
           \A s \in Sessions :
             \/ pc'[s] = "idle"
             \/ pc[s] # "idle" /\ req'[s] = req[s] /\ view'[s] = view[s]
             \/ IsClose(req'[s]) => view'[s] = db
    PROVE  ReadsCommitted'
  BY DEF ReadsCommitted, IsClose
LEMMA ReadsStep ==
    ASSUME Typed, ReadsCommitted, db.journals \subseteq db'.journals,
           NEW s \in Sessions, Begin(s) \/ Step(s) \/ Abort(s)
    PROVE  ReadsCommitted'
  <1>1. CASE Begin(s)
    <2> PICK r \in Requests :
          /\ req' = [req EXCEPT ![s] = r]
          /\ pc' = [pc EXCEPT ![s] = IF r.op = "reverse" THEN "policy" ELSE "lock"]
          /\ view' = [view EXCEPT ![s] = IF IsClose(r) THEN db ELSE @]
      BY <1>1 DEF Begin
    <2>1. \A t \in Sessions \ {s} : pc'[t] = pc[t] /\ req'[t] = req[t] /\ view'[t] = view[t]
      BY DEF Typed, TypeOK
    <2>2. req'[s] = r /\ (IsClose(r) => view'[s] = db)
      BY DEF Typed, TypeOK
    <2>3. db' = db
      BY <1>1 DEF Begin
    <2>4. ASSUME NEW t \in Sessions, pc'[t] # "idle", IsClose(req'[t])
          PROVE  view'[t].journals \subseteq db'.journals
      <3>1. CASE t = s
        BY <2>2, <2>3, <2>4, <3>1
      <3>2. CASE t # s
        BY <2>1, <2>3, <2>4, <3>2 DEF ReadsCommitted, IsClose
      <3>3. QED BY <3>1, <3>2
    <2>5. QED BY <2>4 DEF ReadsCommitted, IsClose
  <1>2. CASE Finish(s)
    <2>1. pc'[s] = "idle"
      BY <1>2 DEF Finish, Typed, TypeOK
    <2>2. \A t \in Sessions \ {s} : pc'[t] = pc[t] /\ req'[t] = req[t] /\ view'[t] = view[t]
      BY <1>2 DEF Finish, Typed, TypeOK
    <2>3. \A t \in Sessions : \/ pc'[t] = "idle"
                              \/ pc[t] # "idle" /\ req'[t] = req[t] /\ view'[t] = view[t]
      BY <2>1, <2>2
    <2>4. QED BY <2>3, ReadsLast
  <1>3. ASSUME NEW stage, Advance(s, stage), pc[s] # "idle"
        PROVE  ReadsCommitted'
    <2>1. /\ req' = req /\ view' = view
          /\ \A t \in Sessions \ {s} : pc'[t] = pc[t]
      BY <1>3 DEF Advance, Typed, TypeOK
    <2>2. \A t \in Sessions : \/ pc'[t] = "idle"
                              \/ pc[t] # "idle" /\ req'[t] = req[t] /\ view'[t] = view[t]
      BY <1>3, <2>1
    <2>3. QED BY <2>2, ReadsLast
  <1>4. ASSUME Step(s) \/ Abort(s)
        PROVE  Finish(s) \/ \E stage : Advance(s, stage) /\ pc[s] # "idle"
    BY <1>4 DEF Step, Abort, AcquireCommandLock, CheckProposal, LoadReversalPolicy,
                CheckReversal, AdmitToPeriod, InsertRecord, InsertJournal, OpenPeriod, WriteClose,
                RefuseProposal, RefusePolicy, RefuseReversal, RefusePeriod, RefuseRecord,
                RefuseJournal, RefuseOpen, RefuseClose, ReplayProposal, ReplayReversal,
                ReplayOpen, ReplayClose, CommitJournal, CommitOpen, CommitClose, CloseReady,
                Replay, Reply, Goto, Rollback
  <1>5. QED BY <1>1, <1>2, <1>3, <1>4

\* What the snapshots and closing journals owe to each other.
Settled ==
    /\ IsFiniteSet(db.journals) /\ IsFiniteSet(db.snapshots)
    /\ \A j \in db.journals : j.ref \in ClosingRef => j.ref = <<"closing", <<j.book, j.period>>>>
    /\ \A e \in db.snapshots : Zeroed(db.journals, e)

LEMMA OneMoreAtMost ==
    ASSUME NEW S, IsFiniteSet(S), NEW X, X = {} \/ \E x : X = {x}
    PROVE  IsFiniteSet(S \cup X)
  <1>1. CASE X = {}
    <2>1. S \cup X = S
      BY <1>1
    <2>2. QED BY <2>1
  <1>2. ASSUME NEW x, X = {x}
        PROVE  IsFiniteSet(S \cup X)
    BY <1>2, FS_AddElement
  <1>3. QED BY <1>1, <1>2

\* The commit of a journal.
LEMMA CommitJournalSettled ==
    ASSUME Closing, Unrivalled', Settled, NEW s \in Sessions, CommitJournal(s)
    PROVE  Settled'
  <1>1. pc[s] = "commit" /\ WritesJournal(req[s])
    BY DEF CommitJournal, WritesJournal
  <1>2. PICK j \in Journal : /\ pend[s] = Rows({NewRecord(req[s])}, {j}, {}, {})
                             /\ j.ref \notin ClosingRef
    BY <1>1, JournalToCommit DEF Closing
  <1>3. pend[s].journals = {j}
    BY <1>2 DEF Rows
  <1>4. db'.journals = db.journals \cup {j} /\ db'.snapshots = db.snapshots
    BY <1>3 DEF CommitJournal, Closing, Typed, TypeOK, Database
  <1>5. IsFiniteSet(db'.journals)
    BY <1>4, FS_AddElement DEF Settled
  <1>6. \A j1, j2 \in db'.journals : j1.ref = j2.ref => j1 = j2
    BY DEF Unrivalled, OneJournalPerCommand
  <1>7. \A e \in db'.snapshots : Zeroed(db'.journals, e)
    BY <1>4, <1>6, SourcesStay DEF Settled
  <1>8. QED BY <1>2, <1>4, <1>5, <1>7 DEF Settled

\* The commit of a close.
LEMMA CommitCloseSettled ==
    ASSUME Closing, Unrivalled, Unrivalled', Settled, ReadsCommitted,
           NEW s \in Sessions, CommitClose(s)
    PROVE  Settled'
  <1> DEFINE r == req[s]
             d == view[s]
             J == ClosingJournals(d, r)
             B == Booked(d, r.book, r.period)
  <1>1. ClosingAtCommit(s)
    BY DEF CommitClose, ClosingAtCommit
  <1>2. PICK c \in pend[s].closes : db' = AfterClose(db, c, pend[s])
    BY DEF CommitClose
  <1>3. /\ pend[s].journals = J
        /\ c.book = r.book /\ c.period = r.period /\ c.status = TargetStatus(r)
        /\ c.sources = Refs(B \cup J)
    BY <1>1, EffectRead
  <1>4. /\ db'.journals = db.journals \cup J
        /\ db'.snapshots = db.snapshots \cup EvidenceIf(c, "hard_closed")
    BY <1>2, <1>3 DEF AfterClose
  <1>5. J = {} \/ \E j : J = {j} /\ j.book = r.book /\ j.period = r.period
                         /\ j.ref = <<"closing", <<r.book, r.period>>>>
    BY DEF ClosingJournals
  <1>6. d.journals \subseteq db.journals
    BY <1>1 DEF ReadsCommitted, ClosingAtCommit
  <1>7. B \subseteq db.journals /\ B \cup J \subseteq db'.journals
        /\ \A j \in B \cup J : j.book = r.book
    BY <1>4, <1>5, <1>6 DEF Booked
  <1>8. J \cap B = {}
    <2>1. \A j \in J : j.ref \notin Refs(db.journals)
      BY <1>3 DEF Unrivalled, RefHasNoRival
    <2>2. QED BY <1>7, <2>1 DEF Refs
  <1>9. \A j, k \in db'.journals : j.ref = k.ref => j = k
    BY DEF Unrivalled, OneJournalPerCommand
  <1> HIDE DEF J, B
  <1>10. IsFiniteSet(db'.journals) /\ IsFiniteSet(db'.snapshots) /\ IsFiniteSet(B)
    <2>1. IsFiniteSet(db'.journals)
      <3>1. J = {} \/ \E x : J = {x}
        BY <1>5
      <3>2. IsFiniteSet(db.journals)
        BY DEF Settled
      <3>3. IsFiniteSet(db.journals \cup J)
        BY <3>1, <3>2, OneMoreAtMost
      <3>4. QED BY <1>4, <3>3
    <2>2. EvidenceIf(c, "hard_closed") = {} \/ \E x : EvidenceIf(c, "hard_closed") = {x}
      BY DEF EvidenceIf
    <2>3. IsFiniteSet(db'.snapshots)
      <3>1. IsFiniteSet(db.snapshots)
        BY DEF Settled
      <3>2. IsFiniteSet(db.snapshots \cup EvidenceIf(c, "hard_closed"))
        BY <2>2, <3>1, OneMoreAtMost
      <3>3. QED BY <1>4, <3>2
    <2>4. IsFiniteSet(B)
      BY <1>7, FS_Subset DEF Settled
    <2>5. QED BY <2>1, <2>3, <2>4
  <1>11. \A j \in db'.journals : j.ref \in ClosingRef => j.ref = <<"closing", <<j.book, j.period>>>>
    BY <1>4, <1>5 DEF Settled
  <1>12. ASSUME NEW e \in EvidenceIf(c, "hard_closed")
         PROVE  Zeroed(db'.journals, e)
    <2>1. e.book = r.book /\ e.sources = Refs(B \cup J) /\ r.op # "soft_close"
      BY <1>3 DEF EvidenceIf, TargetStatus
    <2>2. Sourced(db'.journals, e) = B \cup J
      BY <1>7, <1>9, <2>1 DEF Sourced, Refs
    <2>3. \A j \in B : j.net \in Int
      BY <1>7, AmountsAssumption DEF Closing, Typed, TypeOK, Database, Journal
    <2>4. NetIncome(B \cup J) = 0
      BY <1>8, <1>10, <2>1, <2>3, ClosingZeroes DEF B, J
    <2>5. \A x \in e.sources : \E j \in db'.journals : j.ref = x /\ j.book = e.book
      BY <1>7, <2>1 DEF Refs
    <2>6. QED BY <2>2, <2>4, <2>5 DEF Zeroed
  <1>13. \A e \in db.snapshots : Zeroed(db'.journals, e)
    BY <1>4, <1>9, SourcesStay DEF Settled
  <1>14. QED BY <1>4, <1>10, <1>11, <1>12, <1>13 DEF Settled

LEMMA SettledStep ==
    ASSUME Closing, Unrivalled, Unrivalled', Settled, ReadsCommitted, [Next]_vars
    PROVE  Settled' /\ ReadsCommitted'
  <1>1. CASE UNCHANGED vars
    BY <1>1 DEF vars, Settled, ReadsCommitted
  <1>2. ASSUME NEW s \in Sessions, Begin(s) \/ Step(s) \/ Abort(s)
        PROVE  Settled' /\ ReadsCommitted'
    <2>1. db.journals \subseteq db'.journals
      BY DatabaseGrows DEF GrowsTo
    <2>2. ReadsCommitted'
      BY <1>2, <2>1, ReadsStep DEF Closing
    <2>3. Settled'
      <3>1. CASE db'.journals = db.journals /\ db'.snapshots = db.snapshots
        BY <3>1 DEF Settled
      <3>2. CASE CommitOpen(s)
        BY <3>1, <3>2 DEF CommitOpen, Closing, Typed, TypeOK, Database
      <3>3. CASE ~CommitOpen(s) /\ ~CommitJournal(s) /\ ~CommitClose(s)
        <4>1. db' = db
          BY <1>2, <3>3 DEF Step, Begin, Abort, AcquireCommandLock, CheckProposal,
               LoadReversalPolicy, CheckReversal, AdmitToPeriod, InsertRecord, InsertJournal,
               OpenPeriod, WriteClose, RefuseProposal, RefusePolicy, RefuseReversal,
               RefusePeriod, RefuseRecord, RefuseJournal, RefuseOpen, RefuseClose,
               ReplayProposal, ReplayReversal, ReplayOpen, ReplayClose, Replay,
               Goto, Advance, Rollback
        <4>2. QED BY <3>1, <4>1
      <3>4. QED BY <3>2, <3>3, CommitJournalSettled, CommitCloseSettled
    <2>4. QED BY <2>2, <2>3
  <1>3. QED BY <1>1, <1>2 DEF Next

\* Among closes that each see what the earlier periods' saw, one saw all.
LEMMA WidestSnapshot ==
    ASSUME NEW S, IsFiniteSet(S), S # {}, \A e \in S : e.period \in Nat,
           \A e, f \in S : e.period = f.period => e = f,
           \A e, f \in S : e.period < f.period => e.sources \subseteq f.sources
    PROVE  \E m \in S : \A e \in S : e.sources \subseteq m.sources
  <1> DEFINE Widest(s, m) == \A e \in s : e.sources \subseteq m.sources
             C == {s \in SUBSET S : s = {} \/ \E m \in s : Widest(s, m)}
  <1>1. {} \in C
    OBVIOUS
  <1>2. ASSUME NEW s \in C, NEW x \in S \ s
        PROVE  s \cup {x} \in C
    <2>1. CASE s = {}
      <3>1. Widest(s \cup {x}, x)
        BY <2>1
      <3>2. QED BY <3>1
    <2>2. CASE s # {}
      <3>1. PICK m \in s : Widest(s, m)
        BY <2>2
      <3>2. m \in S /\ x \in S /\ m # x /\ m.period \in Nat /\ x.period \in Nat
        OBVIOUS
      <3>3. m.period < x.period \/ x.period < m.period
        BY <3>2
      <3>4. CASE m.period < x.period
        <4>1. m.sources \subseteq x.sources
          BY <3>2, <3>4
        <4>2. Widest(s \cup {x}, x)
          BY <3>1, <4>1
        <4>3. QED BY <4>2
      <3>5. CASE x.period < m.period
        <4>1. x.sources \subseteq m.sources
          BY <3>2, <3>5
        <4>2. Widest(s \cup {x}, m)
          BY <3>1, <4>1
        <4>3. QED BY <4>2
      <3>6. QED BY <3>3, <3>4, <3>5
    <2>3. QED BY <2>1, <2>2
  <1>3. C \in SUBSET (SUBSET S)
    OBVIOUS
  <1> HIDE DEF C
  <1>4. S \in C
    BY <1>1, <1>2, <1>3, SetInduction
  <1>5. QED BY <1>4 DEF C

\* The widest snapshot of a book has the sources of all the others, with the
\* closing journals among them, and books no income: so the closing journals
\* take off what the other sources booked.
LEMMA IncomeParked ==
    ASSUME Closing, Unrivalled, Settled
    PROVE  IncomeParkedOnceInOrder
  <1> SUFFICES ASSUME NEW b \in Books, ClosedInOrder(b)
               PROVE  ParkedIncome(b) = SnapshotIncome(b)
    BY DEF IncomeParkedOnceInOrder
  <1> DEFINE E == Snapshots(b)
             C == {j \in db.journals : j.book = b /\ j.role = "period_closing"}
             S == {j \in db.journals : /\ j.role # "period_closing"
                                       /\ \E e \in E : j.ref \in e.sources}
  <1>1. db \in Database /\ RolesMatchRefs /\ EvidenceFits(db) /\ OneJournalPerCommand
    BY DEF Closing, Unrivalled, Typed, TypeOK
  <1>2. /\ \A j \in db.journals : j.net \in Int /\ j.book \in Books /\ j.period \in Periods
        /\ \A e \in db.snapshots : e.period \in Nat
    BY <1>1, AmountsAssumption, PeriodsAssumption DEF Database, Journal, Evidence
  <1>3. IsFiniteSet(S) /\ IsFiniteSet(C) /\ IsFiniteSet(E)
    <2>1. S \subseteq db.journals /\ C \subseteq db.journals /\ E \subseteq db.snapshots
      BY DEF Snapshots
    <2>2. QED BY <2>1, FS_Subset DEF Settled
  <1>4. ParkedIncome(b) = -NetIncome(C) /\ SnapshotIncome(b) = NetIncome(S)
    BY DEF ParkedIncome, SnapshotIncome
  <1>5. \A j \in C : \E e \in E : j.ref \in e.sources
    <2> SUFFICES ASSUME NEW j \in C
                 PROVE  \E e \in E : j.ref \in e.sources
      OBVIOUS
    <2>1. j.ref = <<"closing", <<j.book, j.period>>>>
      BY <1>1 DEF RolesMatchRefs, Settled
    <2>2. \E e \in db.snapshots : e.book = j.book /\ j.ref \in e.sources
      BY <1>1, <1>2, <2>1 DEF EvidenceFits
    <2>3. QED BY <2>2 DEF Snapshots
  <1>6. CASE E = {}
    <2>1. C = {} /\ S = {}
      BY <1>5, <1>6
    <2> HIDE DEF E, C, S
    <2>2. QED BY <1>4, <2>1, NetOfNone
  <1>7. CASE E # {}
    <2>1. PICK m \in E : \A e \in E : e.sources \subseteq m.sources
      <3>1. /\ \A e, f \in E : e.period = f.period => e = f
            /\ \A e, f \in E : e.period < f.period => e.sources \subseteq f.sources
            /\ \A e \in E : e.period \in Nat
        BY <1>1, <1>2 DEF EvidenceFits, ClosedInOrder, Snapshots
      <3> HIDE DEF E
      <3>2. QED BY <1>3, <1>7, <3>1, WidestSnapshot
    <2>2. Zeroed(db.journals, m) /\ m.book = b
      BY DEF Settled, Snapshots
    <2>3. Sourced(db.journals, m) = S \cup C
      <3>1. S \cup C \subseteq Sourced(db.journals, m)
        BY <1>5, <2>1 DEF Sourced
      <3>2. ASSUME NEW j \in Sourced(db.journals, m), j.role = "period_closing"
            PROVE  j \in C
        <4>1. j \in db.journals /\ j.ref \in m.sources
          BY DEF Sourced
        <4>2. PICK k \in db.journals : k.ref = j.ref /\ k.book = b
          BY <2>2, <4>1 DEF Zeroed
        <4>3. j = k
          BY <1>1, <4>1, <4>2 DEF OneJournalPerCommand
        <4>4. QED BY <3>2, <4>1, <4>2, <4>3
      <3>3. \A j \in Sourced(db.journals, m) : j.role # "period_closing" => j \in S
        BY DEF Sourced
      <3>4. QED BY <3>1, <3>2, <3>3
    <2>4. NetIncome(S \cup C) = 0
      BY <2>2, <2>3 DEF Zeroed
    <2>5. S \cap C = {} /\ \A j \in S \cup C : j.net \in Int
      BY <1>2
    <2> HIDE DEF E, C, S
    <2>6. /\ NetIncome(S \cup C) = NetIncome(S) + NetIncome(C)
          /\ NetIncome(S) \in Int /\ NetIncome(C) \in Int
      BY <1>3, <2>5, NetOfUnion
    <2>7. QED BY <1>4, <2>4, <2>6
  <1>8. QED BY <1>6, <1>7

LEMMA SettledInitially == Init => Settled /\ ReadsCommitted
  <1> SUFFICES ASSUME Init PROVE Settled /\ ReadsCommitted
    OBVIOUS
  <1>1. db.journals = {} /\ db.snapshots = {} /\ \A s \in Sessions : pc[s] = "idle"
    BY DEF Init, EmptyDatabase
  <1>2. IsFiniteSet({})
    BY FS_EmptySet
  <1>3. QED BY <1>1, <1>2 DEF Settled, ReadsCommitted

\* The closing journals of a book move to retained earnings, once, the income
\* that its closes saw: provided each close saw what the closes of earlier
\* periods saw.  The condition is the code's weakness, not the model's: a run
\* of MCLedgerStoreOutOfOrder shows income parked twice without it.
THEOREM IncomeParkedOnceInOrderHolds == Spec => []IncomeParkedOnceInOrder
  <1>1. Spec => []Unrivalled
    BY UnrivalledInitially, UnrivalledStep, PTL DEF Spec
  <1>2. Init => Settled /\ ReadsCommitted
    BY SettledInitially
  <1>3. Closing /\ Unrivalled /\ Unrivalled' /\ Settled /\ ReadsCommitted /\ [Next]_vars
          => Settled' /\ ReadsCommitted'
    BY SettledStep
  <1>4. Closing /\ Unrivalled /\ Settled => IncomeParkedOnceInOrder
    BY IncomeParked
  <1>5. QED BY <1>1, <1>2, <1>3, <1>4, ClosingAlways, PTL DEF Spec
===========================================================================
