------------------------ MODULE LedgerStore_proofs ------------------------
(***************************************************************************)
(* Theorems about LedgerStore, for every value of its constants: types,    *)
(* commands and reversals, and that it implements PostingLedger.           *)
(***************************************************************************)
EXTENDS LedgerStoreRefinement, TLAPS

-----------------------------------------------------------------------------
(* What a request, and the helpers that read it, can be *)

\* The fields a command has, by its kind.
LEMMA RequestFields ==
    ASSUME NEW r \in Requests
    PROVE  /\ r.op \in {"post", "adjust", "reverse", "open", "soft_close", "hard_close"}
           /\ r.key \in Keys /\ r.period \in Periods
           /\ IsProposal(r) => r.hash \in Hashes /\ r.id \in Ids /\ r.book \in Books
                               /\ r.net \in Amounts
           /\ r.op = "reverse" => r.target \in Ref
           /\ r.op = "open" => r.dated \in BOOLEAN
           /\ IsClose(r) => r.book \in Books
  BY RequestsAssumption DEF PostRequest, ReverseRequest, CloseRequest, OpenRequest,
                            IsProposal, IsClose

\* Every advisory lock a command asks for is a lock.
LEMMA LocksTyped ==
    ASSUME NEW r \in Requests
    PROVE  /\ CommandLock(r) \in Lock
           /\ r.op \in {"post", "reverse", "open"} => PeriodLock(r) \in Lock
  <1>1. CommandLock(r) \in Lock
    BY RequestFields DEF CommandLock, Lock, IsProposal, IsClose
  <1>2. r.op \in {"post", "reverse", "open"} => PeriodLock(r) \in Lock
    BY RequestFields DEF PeriodLock, Lock, IsProposal
  <1>3. QED BY <1>1, <1>2

\* A proposal or a reversal of anything but a closing journal names a journal
\* that is no closing journal.
LEMMA RefOfTyped ==
    ASSUME NEW r \in Requests,
           IsProposal(r) \/ (r.op = "reverse" /\ r.target \notin ClosingRef)
    PROVE  RefOf(r) \in Ref /\ RefOf(r) \notin ClosingRef
  BY RequestFields DEF RefOf, Ref, JournalRef, ReversalRef, ClosingRef, IsProposal

\* The database's initial contents and an empty set of writes have their types.
LEMMA EmptyTyped == EmptyDatabase \in Database /\ NoWrites \in Writes
  <1>1. EmptyDatabase \in Database
    BY DEF EmptyDatabase, Database, Statuses
  <1>2. NoWrites \in Writes
    BY DEF NoWrites, Writes
  <1>3. QED BY <1>1, <1>2

-----------------------------------------------------------------------------
(* The strengthening of TypeOK *)

WritesJournal(r) == IsProposal(r) \/ r.op = "reverse"
Rows(records, journals, opens, closes) ==
    [records |-> records, journals |-> journals, opens |-> opens, closes |-> closes]

\* A session at a stage serves a command that the stage admits and has inserted
\* just the rows of that stage; d is the snapshot its command reads.
StagedAs(stage, r, d, rows) ==
    \/ stage = "idle" /\ rows = NoWrites
    \/ /\ r \in Requests
       /\ \/ stage \in {"lock", "check"} /\ rows = NoWrites
          \/ stage = "policy" /\ r.op = "reverse" /\ rows = NoWrites
          \/ stage = "period" /\ r.op \in {"post", "reverse"} /\ rows = NoWrites
          \/ stage = "record" /\ WritesJournal(r) /\ rows = NoWrites
          \/ stage = "journal" /\ WritesJournal(r) /\ rows = Rows({NewRecord(r)}, {}, {}, {})
          \/ /\ stage = "commit" /\ WritesJournal(r)
             /\ \E j \in Journal : /\ j.ref = RefOf(r) /\ j.role = RoleOf(r)
                                  /\ rows = Rows({NewRecord(r)}, {j}, {}, {})
          \/ stage = "commit" /\ r.op = "open" /\ rows = Rows({}, {}, {OpenOf(r)}, {})
          \/ /\ stage = "commit" /\ IsClose(r)
             /\ LET J == ClosingJournals(d, r)
                IN  rows = Rows(ClosingRecords(J), J, {}, {EffectOf(d, r)})

\* A reversal past its checks still finds its target among the journals J, and
\* past the receipt lookup the target is no closing journal.
TargetReady(stage, r, J) ==
    r \in Requests /\ r.op = "reverse" =>
        /\ stage \in {"period", "record", "journal"} => \E j \in J : j.ref = r.target
        /\ stage \in {"journal", "commit"} => r.target \notin ClosingRef

\* Exactly the journals of closes have closing references.
RolesMatchRefs ==
    \A j \in db.journals : j.ref \in ClosingRef <=> j.role = "period_closing"

Typed ==
    /\ TypeOK
    /\ RolesMatchRefs
    /\ \A s \in Sessions : /\ StagedAs(pc[s], req[s], view[s], pend[s])
                          /\ TargetReady(pc[s], req[s], db.journals)

\* Only session s moves; the database at most gains journals.
OnlyMoves(s) ==
    /\ \A t \in Sessions \ {s} : /\ pc'[t] = pc[t] /\ req'[t] = req[t]
                                /\ view'[t] = view[t] /\ pend'[t] = pend[t]
    /\ db.journals \subseteq db'.journals

\* A step of one session keeps the other sessions staged.
LEMMA OthersStayStaged ==
    ASSUME Typed, NEW s \in Sessions, OnlyMoves(s), TypeOK', RolesMatchRefs',
           StagedAs(pc'[s], req'[s], view'[s], pend'[s]),
           TargetReady(pc'[s], req'[s], db'.journals)
    PROVE  Typed'
  <1> SUFFICES ASSUME NEW t \in Sessions, t # s
               PROVE  /\ StagedAs(pc'[t], req'[t], view'[t], pend'[t])
                      /\ TargetReady(pc'[t], req'[t], db'.journals)
    BY DEF Typed
  <1>1. StagedAs(pc'[t], req'[t], view'[t], pend'[t])
    BY DEF Typed, OnlyMoves
  <1>2. TargetReady(pc[t], req[t], db.journals)
    BY DEF Typed
  <1>3. TargetReady(pc'[t], req'[t], db'.journals)
    BY <1>2 DEF OnlyMoves, TargetReady
  <1>4. QED BY <1>1, <1>3

\* The invariant holds initially.
LEMMA TypedInitially == Init => Typed
  <1> SUFFICES ASSUME Init PROVE Typed
    OBVIOUS
  <1>1. TypeOK
    BY EmptyTyped, BoundAssumption, NothingAssumption DEF Init, TypeOK, Stages
  <1>2. RolesMatchRefs
    BY DEF Init, RolesMatchRefs, EmptyDatabase
  <1>3. ASSUME NEW s \in Sessions
        PROVE  /\ StagedAs(pc[s], req[s], view[s], pend[s])
               /\ TargetReady(pc[s], req[s], db.journals)
    BY <1>3, NothingAssumption DEF Init, StagedAs, TargetReady
  <1>4. QED BY <1>1, <1>2, <1>3 DEF Typed

\* The end of a transaction leaves the session idle and everything typed, if
\* the database and the answers are.
LEMMA FinishTyped ==
    ASSUME Typed, NEW s \in Sessions, Finish(s), RolesMatchRefs',
           db' \in Database, answers' \subseteq Answer, db.journals \subseteq db'.journals
    PROVE  Typed'
  <1>1. TypeOK'
    BY EmptyTyped DEF Typed, TypeOK, Finish, Stages
  <1>2. OnlyMoves(s)
    BY DEF Typed, TypeOK, Finish, OnlyMoves
  <1>3. pc'[s] = "idle" /\ req'[s] = NoRequest /\ pend'[s] = NoWrites
    BY DEF Typed, TypeOK, Finish
  <1>4. /\ StagedAs(pc'[s], req'[s], view'[s], pend'[s])
        /\ TargetReady(pc'[s], req'[s], db'.journals)
    BY <1>3, NothingAssumption DEF StagedAs, TargetReady
  <1>5. QED BY <1>1, <1>2, <1>4, OthersStayStaged

\* A rolled-back session is idle with nothing pending.
LEMMA RollbackTyped ==
    ASSUME Typed, NEW s \in Sessions, Rollback(s)
    PROVE  Typed'
  <1>1. RolesMatchRefs' /\ db' \in Database /\ answers' \subseteq Answer
    BY DEF Rollback, Typed, TypeOK, RolesMatchRefs
  <1>2. QED BY <1>1, FinishTyped DEF Rollback

\* A reply with a reference or none, and references for sources.
LEMMA ReplyTyped ==
    ASSUME Typed, NEW s \in Sessions, pc[s] # "idle",
           NEW ref \in Ref \cup {NoRef}, NEW sources \in SUBSET Ref,
           Reply(s, ref, sources), RolesMatchRefs',
           db' \in Database, db.journals \subseteq db'.journals
    PROVE  Typed'
  <1>1. req[s] \in Requests
    BY DEF Typed, StagedAs
  <1>2. answers' \subseteq Answer
    BY <1>1 DEF Reply, Typed, TypeOK, Answer
  <1>3. QED BY <1>2, FinishTyped DEF Reply

\* A session that moves to another stage, keeps its rows and may gain a lock.
LEMMA AdvanceTyped ==
    ASSUME Typed, NEW s \in Sessions, NEW stage \in Stages, Advance(s, stage),
           UNCHANGED pend, held' \in [Sessions -> SUBSET Lock],
           StagedAs(stage, req[s], view[s], pend[s]),
           TargetReady(stage, req[s], db.journals)
    PROVE  Typed'
  <1>1. TypeOK' /\ RolesMatchRefs'
    BY DEF Typed, TypeOK, Advance, RolesMatchRefs
  <1>2. OnlyMoves(s) /\ pc'[s] = stage
    BY DEF Typed, TypeOK, Advance, OnlyMoves
  <1>3. /\ StagedAs(pc'[s], req'[s], view'[s], pend'[s])
        /\ TargetReady(pc'[s], req'[s], db'.journals)
    BY <1>2 DEF Advance
  <1>4. QED BY <1>1, <1>2, <1>3, OthersStayStaged

\* A session that only moves to its next stage.
LEMMA GotoTyped ==
    ASSUME Typed, NEW s \in Sessions, NEW stage \in Stages, Goto(s, stage),
           StagedAs(stage, req[s], view[s], pend[s]),
           TargetReady(stage, req[s], db.journals)
    PROVE  Typed'
  BY AdvanceTyped DEF Goto, Typed, TypeOK

\* A session that takes a lock and moves on.
LEMMA GrantTyped ==
    ASSUME Typed, NEW s \in Sessions, NEW stage \in Stages, NEW lock \in Lock,
           Grant(s, lock), Advance(s, stage),
           StagedAs(stage, req[s], view[s], pend[s]),
           TargetReady(stage, req[s], db.journals)
    PROVE  Typed'
  <1>1. held' \in [Sessions -> SUBSET Lock]
    BY DEF Typed, TypeOK, Grant
  <1>2. QED BY <1>1, AdvanceTyped DEF Grant

\* A session that inserts rows on its way to another stage.
LEMMA InsertTyped ==
    ASSUME Typed, NEW s \in Sessions, NEW stage \in Stages, NEW rows \in Writes,
           Advance(s, stage), held' \in [Sessions -> SUBSET Lock],
           pend' = [pend EXCEPT ![s] = rows],
           StagedAs(stage, req[s], view[s], rows),
           TargetReady(stage, req[s], db.journals)
    PROVE  Typed'
  <1>1. TypeOK' /\ RolesMatchRefs'
    BY DEF Typed, TypeOK, Advance, RolesMatchRefs
  <1>2. OnlyMoves(s) /\ pc'[s] = stage /\ pend'[s] = rows
    BY DEF Typed, TypeOK, Advance, OnlyMoves
  <1>3. /\ StagedAs(pc'[s], req'[s], view'[s], pend'[s])
        /\ TargetReady(pc'[s], req'[s], db'.journals)
    BY <1>2 DEF Advance
  <1>4. QED BY <1>1, <1>2, <1>3, OthersStayStaged

-----------------------------------------------------------------------------
(* Each action keeps Typed *)

\* A new command, whose close reads the committed database.
LEMMA BeginTyped ==
    ASSUME Typed, NEW s \in Sessions, Begin(s)
    PROVE  Typed'
  <1> PICK r \in Requests :
        /\ req' = [req EXCEPT ![s] = r]
        /\ pc' = [pc EXCEPT ![s] = IF r.op = "reverse" THEN "policy" ELSE "lock"]
        /\ view' = [view EXCEPT ![s] = IF IsClose(r) THEN db ELSE @]
    BY DEF Begin
  <1>1. TypeOK' /\ RolesMatchRefs'
    BY BoundAssumption DEF Begin, Typed, TypeOK, Stages, RolesMatchRefs
  <1>2. OnlyMoves(s) /\ req'[s] = r /\ pend'[s] = NoWrites
    BY DEF Begin, Typed, TypeOK, OnlyMoves, StagedAs
  <1>3. pc'[s] = IF r.op = "reverse" THEN "policy" ELSE "lock"
    BY DEF Typed, TypeOK
  <1>4. /\ StagedAs(pc'[s], req'[s], view'[s], pend'[s])
        /\ TargetReady(pc'[s], req'[s], db'.journals)
    BY <1>2, <1>3 DEF StagedAs, TargetReady
  <1>5. QED BY <1>1, <1>2, <1>4, OthersStayStaged

\* The command lock is taken before anything is written.
LEMMA AcquireCommandLockTyped ==
    ASSUME Typed, NEW s \in Sessions, AcquireCommandLock(s)
    PROVE  Typed'
  <1>1. req[s] \in Requests /\ pend[s] = NoWrites
    BY DEF AcquireCommandLock, Typed, StagedAs
  <1>2. CommandLock(req[s]) \in Lock
    BY <1>1, LocksTyped
  <1>3. /\ StagedAs("check", req[s], view[s], pend[s])
        /\ TargetReady("check", req[s], db.journals)
    BY <1>1 DEF StagedAs, TargetReady
  <1>4. QED BY <1>2, <1>3, GrantTyped DEF AcquireCommandLock, Stages

\* The checks and replays of post and post_adjusting_journal.
LEMMA ProposalTyped ==
    ASSUME Typed, NEW s \in Sessions,
           ReplayProposal(s) \/ CheckProposal(s) \/ RefuseProposal(s)
    PROVE  Typed'
  <1>1. /\ req[s] \in Requests /\ pend[s] = NoWrites /\ IsProposal(req[s])
        /\ req[s].op \in {"post", "adjust"}
    BY DEF ReplayProposal, CheckProposal, RefuseProposal, Typed, StagedAs, IsProposal
  <1>2. CASE ReplayProposal(s)
    <2> PICK rec \in Prior(db, req[s].key) :
          Replay(s, IF req[s].op = "post" THEN RefOf(req[s]) ELSE rec.ref, {})
      BY <1>2 DEF ReplayProposal
    <2>1. RefOf(req[s]) \in Ref /\ rec.ref \in Ref
      BY <1>1, RefOfTyped DEF Prior, Typed, TypeOK, Database, Record
    <2>2. RolesMatchRefs' /\ db' \in Database /\ db.journals \subseteq db'.journals
      BY DEF Replay, Typed, TypeOK, RolesMatchRefs
    <2>3. QED BY <1>2, <2>1, <2>2, ReplyTyped DEF Replay, ReplayProposal
  <1>3. CASE CheckProposal(s)
    <2>1. PICK stage \in {"period", "record"} :
            /\ Goto(s, stage)
            /\ stage = "period" => req[s].op = "post"
      BY <1>3 DEF CheckProposal
    <2>2. /\ StagedAs(stage, req[s], view[s], pend[s])
          /\ TargetReady(stage, req[s], db.journals)
      BY <1>1, <2>1 DEF StagedAs, TargetReady, WritesJournal
    <2>3. QED BY <2>1, <2>2, GotoTyped DEF Stages
  <1>4. CASE RefuseProposal(s)
    BY <1>4, RollbackTyped DEF RefuseProposal
  <1>5. QED BY <1>2, <1>3, <1>4

\* The policy, checks and replays of reverse.
LEMMA ReversalTyped ==
    ASSUME Typed, NEW s \in Sessions,
           \/ LoadReversalPolicy(s) \/ RefusePolicy(s)
           \/ ReplayReversal(s) \/ CheckReversal(s) \/ RefuseReversal(s)
    PROVE  Typed'
  <1>1. CASE LoadReversalPolicy(s)
    <2>1. req[s] \in Requests /\ pend[s] = NoWrites
      BY <1>1 DEF LoadReversalPolicy, Typed, StagedAs
    <2>2. /\ StagedAs("lock", req[s], view[s], pend[s])
          /\ TargetReady("lock", req[s], db.journals)
      BY <2>1 DEF StagedAs, TargetReady
    <2>3. QED BY <1>1, <2>2, GotoTyped DEF LoadReversalPolicy, Stages
  <1>2. CASE ReplayReversal(s)
    <2> PICK j \in Reversals(db, req[s].target) : Replay(s, j.ref, {})
      BY <1>2 DEF ReplayReversal
    <2>1. j.ref \in Ref
      BY DEF Reversals, Typed, TypeOK, Database, Journal
    <2>2. RolesMatchRefs' /\ db' \in Database /\ db.journals \subseteq db'.journals
      BY DEF Replay, Typed, TypeOK, RolesMatchRefs
    <2>3. QED BY <1>2, <2>1, <2>2, ReplyTyped DEF Replay, ReplayReversal
  <1>3. CASE CheckReversal(s)
    <2>1. req[s] \in Requests /\ pend[s] = NoWrites /\ req[s].op = "reverse"
      BY <1>3 DEF CheckReversal, Typed, StagedAs
    <2>2. \E j \in db.journals : j.ref = req[s].target
      BY <1>3 DEF CheckReversal, Reversible
    <2>3. /\ StagedAs("period", req[s], view[s], pend[s])
          /\ TargetReady("period", req[s], db.journals)
      BY <2>1, <2>2 DEF StagedAs, TargetReady
    <2>4. QED BY <1>3, <2>3, GotoTyped DEF CheckReversal, Stages
  <1>4. CASE RefusePolicy(s) \/ RefuseReversal(s)
    BY <1>4, RollbackTyped DEF RefusePolicy, RefuseReversal
  <1>5. QED BY <1>1, <1>2, <1>3, <1>4

\* Admission to a period.
LEMMA PeriodTyped ==
    ASSUME Typed, NEW s \in Sessions, AdmitToPeriod(s) \/ RefusePeriod(s)
    PROVE  Typed'
  <1>1. CASE AdmitToPeriod(s)
    <2>1. /\ req[s] \in Requests /\ pend[s] = NoWrites
          /\ req[s].op \in {"post", "reverse"}
      BY <1>1 DEF AdmitToPeriod, Typed, StagedAs
    <2>2. PeriodLock(req[s]) \in Lock
      BY <2>1, LocksTyped
    <2>3. /\ StagedAs("record", req[s], view[s], pend[s])
          /\ TargetReady("record", req[s], db.journals)
      BY <1>1, <2>1 DEF StagedAs, TargetReady, AdmitToPeriod, Typed, WritesJournal, IsProposal
    <2>4. QED BY <1>1, <2>2, <2>3, GrantTyped DEF AdmitToPeriod, Stages
  <1>2. CASE RefusePeriod(s)
    BY <1>2, RollbackTyped DEF RefusePeriod
  <1>3. QED BY <1>1, <1>2

\* While a reversal's target is among the journals, Target finds it.
LEMMA TargetFound ==
    ASSUME NEW r, \E j \in db.journals : j.ref = r.target
    PROVE  Target(r) \in db.journals /\ Target(r).ref = r.target
  BY DEF Target

\* The rows of a command that writes a journal are well-formed.
LEMMA NewRowsTyped ==
    ASSUME Typed, NEW r \in Requests, WritesJournal(r),
           r.op = "reverse" => /\ r.target \notin ClosingRef
                               /\ \E j \in db.journals : j.ref = r.target
    PROVE  /\ NewRecord(r) \in Record
           /\ NewJournal(r) \in Journal
           /\ RoleOf(r) # "period_closing"
  <1>1. RefOf(r) \in Ref
    BY RefOfTyped DEF WritesJournal
  <1>2. r.op \in {"post", "adjust", "reverse"}
    BY DEF WritesJournal, IsProposal
  <1>3. HashOf(r) \in Hashes \cup (Ref \X Periods)
    BY <1>2, RequestFields DEF HashOf, WritesJournal, IsProposal
  <1>4. NewRecord(r) \in Record
    BY <1>1, <1>3, RequestFields DEF NewRecord, Record
  <1>5. RoleOf(r) \in Roles \ {"period_closing"}
    BY <1>2 DEF RoleOf, Roles
  <1>6. r.op = "reverse" => Target(r) \in Journal
    BY TargetFound DEF Typed, TypeOK, Database
  <1>7. BookOf(r) \in Books
    BY <1>2, <1>6, RequestFields DEF BookOf, Journal, IsProposal
  <1>8. (IF r.op = "reverse" THEN -Target(r).net ELSE r.net) \in Amounts
    BY <1>2, <1>6, RequestFields, AmountsAssumption DEF Journal, IsProposal
  <1>9. (IF r.op = "reverse" THEN r.target ELSE NoRef) \in Ref \cup {NoRef}
    BY RequestFields
  <1>10. NewJournal(r) \in Journal
    BY <1>1, <1>5, <1>7, <1>8, <1>9, RequestFields DEF NewJournal, Journal
  <1>11. QED BY <1>4, <1>5, <1>10

\* The INSERT of a journal_proposal_record.
LEMMA InsertRecordTyped ==
    ASSUME Typed, NEW s \in Sessions, InsertRecord(s)
    PROVE  Typed'
  <1> DEFINE r == req[s]
             rows == Rows({NewRecord(r)}, {}, {}, {})
  <1>1. r \in Requests /\ pend[s] = NoWrites /\ WritesJournal(r)
    BY DEF InsertRecord, Typed, StagedAs
  <1>2. r.op = "reverse" => \E j \in db.journals : j.ref = r.target
    BY <1>1 DEF InsertRecord, Typed, TargetReady
  <1>3. r.op = "reverse" => Target(r).role # "period_closing"
    BY DEF InsertRecord, RecordFits
  <1>4. r.op = "reverse" => r.target \notin ClosingRef
    BY <1>2, <1>3, TargetFound DEF Typed, RolesMatchRefs
  <1>5. rows \in Writes
    BY <1>1, <1>2, <1>4, NewRowsTyped DEF Rows, Writes
  <1>6. pend' = [pend EXCEPT ![s] = rows]
    <2>1. [pend[s] EXCEPT !.records = {NewRecord(r)}] = rows
      BY <1>1 DEF Rows, NoWrites
    <2>2. pend' = [pend EXCEPT ![s] = [pend[s] EXCEPT !.records = {NewRecord(r)}]]
      BY DEF InsertRecord
    <2>3. QED BY <2>1, <2>2
  <1>7. /\ StagedAs("journal", r, view[s], rows)
        /\ TargetReady("journal", r, db.journals)
    BY <1>1, <1>2, <1>4 DEF StagedAs, TargetReady
  <1>8. QED BY <1>5, <1>6, <1>7, InsertTyped DEF InsertRecord, Stages, Typed, TypeOK

\* The INSERT of a general_journal and its lines.
LEMMA InsertJournalTyped ==
    ASSUME Typed, NEW s \in Sessions, InsertJournal(s)
    PROVE  Typed'
  <1> DEFINE r == req[s]
             rows == Rows({NewRecord(r)}, {NewJournal(r)}, {}, {})
  <1>1. r \in Requests /\ WritesJournal(r) /\ pend[s] = Rows({NewRecord(r)}, {}, {}, {})
    BY DEF InsertJournal, Typed, StagedAs
  <1>2. r.op = "reverse" => /\ r.target \notin ClosingRef
                            /\ \E j \in db.journals : j.ref = r.target
    BY <1>1 DEF InsertJournal, Typed, TargetReady
  <1>3. NewRecord(r) \in Record /\ NewJournal(r) \in Journal
    BY <1>1, <1>2, NewRowsTyped
  <1>4. rows \in Writes
    BY <1>3 DEF Rows, Writes
  <1>5. pend' = [pend EXCEPT ![s] = rows]
    <2>1. [pend[s] EXCEPT !.journals = {NewJournal(r)}] = rows
      BY <1>1 DEF Rows
    <2>2. pend' = [pend EXCEPT ![s] = [pend[s] EXCEPT !.journals = {NewJournal(r)}]]
      BY DEF InsertJournal
    <2>3. QED BY <2>1, <2>2
  <1>6. NewJournal(r).ref = RefOf(r) /\ NewJournal(r).role = RoleOf(r)
    BY DEF NewJournal
  <1>7. /\ StagedAs("commit", r, view[s], rows)
        /\ TargetReady("commit", r, db.journals)
    BY <1>1, <1>2, <1>3, <1>6 DEF StagedAs, TargetReady
  <1>8. QED BY <1>4, <1>5, <1>7, InsertTyped DEF InsertJournal, Stages, Typed, TypeOK

\* An INSERT that a unique key or a trigger refuses.
LEMMA RefuseWriteTyped ==
    ASSUME Typed, NEW s \in Sessions, RefuseRecord(s) \/ RefuseJournal(s)
    PROVE  Typed'
  BY RollbackTyped DEF RefuseRecord, RefuseJournal

\* What a session that is about to commit a journal has inserted.
LEMMA JournalToCommit ==
    ASSUME Typed, NEW s \in Sessions, pc[s] = "commit", WritesJournal(req[s])
    PROVE  /\ req[s] \in Requests
           /\ RefOf(req[s]) \in Ref /\ RefOf(req[s]) \notin ClosingRef
           /\ \E j \in Journal : /\ pend[s] = Rows({NewRecord(req[s])}, {j}, {}, {})
                                /\ j.ref = RefOf(req[s]) /\ j.role = RoleOf(req[s])
                                /\ j.role # "period_closing"
  <1> DEFINE r == req[s]
  <1>1. r \in Requests
    BY DEF Typed, StagedAs
  <1>2. r.op \in {"post", "adjust", "reverse"}
    BY DEF WritesJournal, IsProposal
  <1>3. r.op = "reverse" => r.target \notin ClosingRef
    BY <1>1 DEF Typed, TargetReady
  <1>4. RefOf(r) \in Ref /\ RefOf(r) \notin ClosingRef
    BY <1>1, <1>3, RefOfTyped DEF WritesJournal
  <1>5. RoleOf(r) # "period_closing"
    BY <1>2 DEF RoleOf
  <1>6. \E j \in Journal : /\ j.ref = RefOf(r) /\ j.role = RoleOf(r)
                          /\ pend[s] = Rows({NewRecord(r)}, {j}, {}, {})
    <2>1. r.op # "open" /\ ~IsClose(r)
      BY <1>2 DEF IsClose
    <2>2. QED BY <2>1 DEF Typed, StagedAs
  <1>7. QED BY <1>1, <1>4, <1>5, <1>6

\* The commit of a record, its journal and their event.
LEMMA CommitJournalTyped ==
    ASSUME Typed, NEW s \in Sessions, CommitJournal(s)
    PROVE  Typed'
  <1>1. pc[s] = "commit" /\ WritesJournal(req[s])
    BY DEF CommitJournal, WritesJournal
  <1>2. PICK j \in Journal : /\ pend[s] = Rows({NewRecord(req[s])}, {j}, {}, {})
                             /\ j.ref \in Ref /\ j.ref \notin ClosingRef
                             /\ j.role # "period_closing"
    BY <1>1, JournalToCommit
  <1>3. pend[s] \in Writes
    BY DEF Typed, TypeOK
  <1>4. /\ db'.journals = db.journals \cup {j}
        /\ db'.records = db.records \cup pend[s].records
        /\ db'.outbox = db.outbox \cup {EventOf(k) : k \in {j}}
        /\ db' = [db EXCEPT !.records = db'.records, !.journals = db'.journals,
                            !.outbox = db'.outbox]
    BY <1>2 DEF CommitJournal, Rows, Typed, TypeOK, Database
  <1>5. EventOf(j) \in Event
    BY <1>2 DEF EventOf, Event
  <1>6. db' \in Database
    <2> DEFINE records == db'.records
               journals == db'.journals
               outbox == db'.outbox
    <2>1. records \subseteq Record
      BY <1>3, <1>4 DEF Typed, TypeOK, Database, Writes
    <2>2. journals \subseteq Journal
      BY <1>4 DEF Typed, TypeOK, Database
    <2>3. outbox \subseteq Event
      <3>1. {EventOf(k) : k \in {j}} \subseteq Event
        BY <1>5
      <3>2. db.outbox \subseteq Event
        BY DEF Typed, TypeOK, Database
      <3>3. outbox = db.outbox \cup {EventOf(k) : k \in {j}}
        BY <1>4
      <3>4. QED BY <3>1, <3>2, <3>3
    <2>4. db \in Database
      BY DEF Typed, TypeOK
    <2>5. db' = [db EXCEPT !.records = records, !.journals = journals, !.outbox = outbox]
      BY <1>4
    <2> HIDE DEF records, journals, outbox
    <2>6. QED BY <2>1, <2>2, <2>3, <2>4, <2>5 DEF Database
  <1>7. RolesMatchRefs'
    BY <1>2, <1>4 DEF Typed, RolesMatchRefs
  <1>8. RefOf(req[s]) \in Ref /\ {} \in SUBSET Ref /\ pc[s] # "idle"
    BY <1>1, JournalToCommit
  <1>9. Reply(s, RefOf(req[s]), {}) /\ db.journals \subseteq db'.journals
    BY <1>4 DEF CommitJournal
  <1>10. QED BY <1>6, <1>7, <1>8, <1>9, ReplyTyped

\* open_fiscal_period up to its commit.
LEMMA OpenTyped ==
    ASSUME Typed, NEW s \in Sessions, ReplayOpen(s) \/ OpenPeriod(s) \/ RefuseOpen(s)
    PROVE  Typed'
  <1> DEFINE r == req[s]
             rows == Rows({}, {}, {OpenOf(r)}, {})
  <1>1. r \in Requests /\ pend[s] = NoWrites /\ r.op = "open"
    BY DEF ReplayOpen, OpenPeriod, RefuseOpen, Typed, StagedAs
  <1>2. CASE ReplayOpen(s)
    <2>1. RolesMatchRefs' /\ db' \in Database /\ db.journals \subseteq db'.journals
      BY <1>2 DEF ReplayOpen, Replay, Typed, TypeOK, RolesMatchRefs
    <2>2. Reply(s, NoRef, {}) /\ pc[s] # "idle"
      BY <1>2 DEF ReplayOpen, Replay
    <2>3. QED BY <2>1, <2>2, ReplyTyped
  <1>3. CASE OpenPeriod(s)
    <2>1. rows \in Writes
      BY <1>1, RequestFields DEF Rows, Writes, OpenOf, OpenCommand
    <2>2. pend' = [pend EXCEPT ![s] = rows]
      <3>1. [pend[s] EXCEPT !.opens = {OpenOf(r)}] = rows
        BY <1>1 DEF Rows, NoWrites
      <3>2. pend' = [pend EXCEPT ![s] = [pend[s] EXCEPT !.opens = {OpenOf(r)}]]
        BY <1>3 DEF OpenPeriod
      <3>3. QED BY <3>1, <3>2
    <2>3. held' \in [Sessions -> SUBSET Lock]
      BY <1>1, <1>3, LocksTyped DEF OpenPeriod, Typed, TypeOK
    <2>4. /\ StagedAs("commit", r, view[s], rows)
          /\ TargetReady("commit", r, db.journals)
      BY <1>1 DEF StagedAs, TargetReady
    <2>5. QED BY <1>3, <2>1, <2>2, <2>3, <2>4, InsertTyped DEF OpenPeriod, Stages
  <1>4. CASE RefuseOpen(s)
    BY <1>4, RollbackTyped DEF RefuseOpen
  <1>5. QED BY <1>2, <1>3, <1>4

\* The commit of an opened period.
LEMMA CommitOpenTyped ==
    ASSUME Typed, NEW s \in Sessions, CommitOpen(s)
    PROVE  Typed'
  <1>1. req[s] \in Requests /\ pend[s] \in Writes
    BY DEF CommitOpen, Typed, TypeOK, StagedAs
  <1>2. req[s].period \in Periods
    BY <1>1, RequestFields
  <1>3. db' \in Database
    BY <1>1, <1>2 DEF CommitOpen, Typed, TypeOK, Database, Writes, Statuses
  <1>4. db'.journals = db.journals
    BY DEF CommitOpen, Typed, TypeOK, Database
  <1>5. RolesMatchRefs'
    BY <1>4 DEF Typed, RolesMatchRefs
  <1>6. Reply(s, NoRef, {}) /\ pc[s] # "idle"
    BY DEF CommitOpen
  <1>7. QED BY <1>3, <1>4, <1>5, <1>6, ReplyTyped

\* A snapshot's statuses are statuses.
LEMMA BookStatusTyped ==
    ASSUME NEW d \in Database, NEW b \in Books, NEW p \in Periods
    PROVE  BookStatus(d, b, p) \in Statuses \cup {"absent"}
  BY DEF BookStatus, Database, Statuses

\* The rows that a close inserts are well-formed.
LEMMA CloseRowsTyped ==
    ASSUME NEW d \in Database, NEW r \in Requests, IsClose(r), d.fiscal[r.period] # "absent",
           \A j \in ClosingJournals(d, r) : j.net \in Amounts
    PROVE  LET J == ClosingJournals(d, r)
           IN  /\ J \subseteq Journal /\ ClosingRecords(J) \subseteq Record
               /\ \A j \in J : j.ref \in ClosingRef /\ j.role = "period_closing"
               /\ EffectOf(d, r) \in CloseEffect
  <1> DEFINE J == ClosingJournals(d, r)
  <1>1. r.key \in Keys /\ r.book \in Books /\ r.period \in Periods
    BY RequestFields
  <1>2. <<"closing", <<r.book, r.period>>>> \in ClosingRef
    BY <1>1 DEF ClosingRef
  <1>3. \A j \in J : /\ j.ref \in ClosingRef /\ j.role = "period_closing"
                    /\ j = [ref |-> j.ref, book |-> r.book, period |-> r.period,
                            role |-> "period_closing", net |-> j.net, reverses |-> NoRef]
    BY <1>2 DEF ClosingJournals
  <1>4. J \subseteq Journal
    BY <1>1, <1>3 DEF Journal, Ref, Roles
  <1>5. ClosingRecords(J) \subseteq Record
    BY <1>3 DEF ClosingRecords, Record, Ref
  <1>6. Refs(Booked(d, r.book, r.period) \cup J) \subseteq Ref
    BY <1>4 DEF Refs, Booked, Database, Journal
  <1>7. TargetStatus(r) \in Statuses
    BY DEF TargetStatus, Statuses
  <1>8. d.fiscal[r.period] \in Statuses
    BY <1>1 DEF Database
  <1>9. \A status : Aggregate(status) \in Statuses
    BY DEF Aggregate, Statuses
  <1>10. EffectOf(d, r) \in CloseEffect
    BY <1>1, <1>6, <1>7, <1>8, <1>9 DEF EffectOf, CloseEffect
  <1>11. QED BY <1>3, <1>4, <1>5, <1>10

\* A close that inserts its rows.
LEMMA WriteCloseTyped ==
    ASSUME Typed, NEW s \in Sessions, WriteClose(s)
    PROVE  Typed'
  <1> DEFINE r == req[s]
             J == ClosingJournals(view[s], r)
             rows == Rows(ClosingRecords(J), J, {}, {EffectOf(view[s], r)})
  <1>1. r \in Requests /\ pend[s] = NoWrites /\ IsClose(r)
    BY DEF WriteClose, CloseReady, Typed, StagedAs
  <1>2. view[s] \in Database
    BY DEF Typed, TypeOK
  <1>3. view[s].fiscal[r.period] # "absent"
    BY DEF WriteClose, ClosePhase
  <1>4. \A j \in J : j.net \in Amounts
    BY DEF WriteClose, CloseFits
  <1>5. rows \in Writes
    BY <1>1, <1>2, <1>3, <1>4, CloseRowsTyped DEF Rows, Writes
  <1>6. pend' = [pend EXCEPT ![s] = rows]
    BY DEF WriteClose, Rows
  <1>7. /\ StagedAs("commit", r, view[s], rows)
        /\ TargetReady("commit", r, db.journals)
    BY <1>1 DEF StagedAs, TargetReady, IsClose
  <1>8. QED BY <1>5, <1>6, <1>7, InsertTyped DEF WriteClose, Stages, Typed, TypeOK

\* A close that replays, waits or is refused.
LEMMA CloseTyped ==
    ASSUME Typed, NEW s \in Sessions, ReplayClose(s) \/ RefuseClose(s)
    PROVE  Typed'
  <1>1. CASE ReplayClose(s)
    <2> PICK e \in EvidenceOf(view[s], req[s]) : Replay(s, NoRef, e.sources)
      BY <1>1 DEF ReplayClose
    <2>1. e.sources \in SUBSET Ref
      BY DEF EvidenceOf, Typed, TypeOK, Database, Evidence
    <2>2. RolesMatchRefs' /\ db' \in Database /\ db.journals \subseteq db'.journals
      BY DEF Replay, Typed, TypeOK, RolesMatchRefs
    <2>3. QED BY <1>1, <2>1, <2>2, ReplyTyped DEF Replay, ReplayClose, CloseReady
  <1>2. CASE RefuseClose(s)
    BY <1>2, RollbackTyped DEF RefuseClose
  <1>3. QED BY <1>1, <1>2

\* A session that is about to commit a close has inserted its rows.
LEMMA CloseToCommit ==
    ASSUME Typed, NEW s \in Sessions, pc[s] = "commit", IsClose(req[s])
    PROVE  LET J == ClosingJournals(view[s], req[s])
           IN  /\ req[s] \in Requests
               /\ pend[s] = Rows(ClosingRecords(J), J, {}, {EffectOf(view[s], req[s])})
  <1>1. ~WritesJournal(req[s]) /\ req[s].op # "open"
    BY DEF WritesJournal, IsProposal, IsClose
  <1>2. QED BY <1>1 DEF Typed, StagedAs

\* The commit of a close.
LEMMA CommitCloseTyped ==
    ASSUME Typed, NEW s \in Sessions, CommitClose(s)
    PROVE  Typed'
  <1> DEFINE J == ClosingJournals(view[s], req[s])
  <1>1. PICK c \in pend[s].closes : db' = AfterClose(db, c, pend[s]) /\ Reply(s, NoRef, c.sources)
    BY DEF CommitClose
  <1>2. pend[s] \in Writes /\ c \in CloseEffect /\ db \in Database
    BY DEF Typed, TypeOK, Writes
  <1>3. ControlAfter(db, c) \in [Books -> Statuses \cup {"none"}]
    BY <1>2 DEF ControlAfter, CloseEffect, Database
  <1>4. \A status : EvidenceIf(c, status) \subseteq Evidence
    BY <1>2 DEF EvidenceIf, CloseEffect, Evidence
  <1>5. <<"period_close", <<c.book, c.period, c.status>>>> \in Event
    BY <1>2 DEF CloseEffect, Event
  <1>6. db' \in Database
    BY <1>1, <1>2, <1>3, <1>4, <1>5 DEF AfterClose, Database, Writes, CloseEffect
  <1>7. db'.journals = db.journals \cup J
    <2>1. pend[s] = Rows(ClosingRecords(J), J, {}, {EffectOf(view[s], req[s])})
      BY CloseToCommit DEF CommitClose
    <2>2. pend[s].journals = J
      BY <2>1 DEF Rows
    <2>3. QED BY <1>1, <2>2 DEF AfterClose
  <1>8. \A j \in J : j.ref \in ClosingRef /\ j.role = "period_closing"
    <2>1. req[s] \in Requests
      BY CloseToCommit DEF CommitClose
    <2>2. QED BY <2>1, RequestFields DEF ClosingJournals, ClosingRef, CommitClose
  <1>9. RolesMatchRefs'
    BY <1>7, <1>8 DEF Typed, RolesMatchRefs
  <1>10. c.sources \in SUBSET Ref /\ pc[s] # "idle"
    BY <1>2 DEF CommitClose, CloseEffect
  <1>11. QED BY <1>1, <1>6, <1>7, <1>9, <1>10, ReplyTyped

\* Every step keeps the invariant.
LEMMA TypedStep ==
    ASSUME Typed, [Next]_vars
    PROVE  Typed'
  <1>1. CASE UNCHANGED vars
    BY <1>1 DEF vars, Typed, TypeOK, RolesMatchRefs
  <1>2. ASSUME NEW s \in Sessions, Begin(s)
        PROVE  Typed'
    BY <1>2, BeginTyped
  <1>3. ASSUME NEW s \in Sessions, Abort(s)
        PROVE  Typed'
    BY <1>3, RollbackTyped DEF Abort
  <1>4. ASSUME NEW s \in Sessions, Step(s)
        PROVE  Typed'
    BY <1>4, AcquireCommandLockTyped, ProposalTyped, ReversalTyped, PeriodTyped,
       InsertRecordTyped, InsertJournalTyped, RefuseWriteTyped, CommitJournalTyped,
       OpenTyped, CommitOpenTyped, CloseTyped, WriteCloseTyped, CommitCloseTyped DEF Step
  <1>5. QED BY <1>1, <1>2, <1>3, <1>4 DEF Next

\* Every variable keeps its type: whatever sessions interleave, each table holds
\* rows of its shape, each reversal's amount still fits its column, and each
\* lock that is taken is one of the five families.
THEOREM TypeCorrect == Spec => []TypeOK
  <1>1. Spec => []Typed
    BY TypedInitially, TypedStep, PTL DEF Spec
  <1>2. Typed => TypeOK
    BY DEF Typed
  <1>3. QED BY <1>1, <1>2, PTL

-----------------------------------------------------------------------------
(* One journal per command *)

\* A row that is inserted but not committed has no rival: not in the database,
\* not among the uncommitted rows of another session.
KeyHasNoRival ==
    \A s \in Sessions : \A r \in pend[s].records :
        /\ Prior(db, r.key) = {}
        /\ \A t \in Sessions \ {s} : \A q \in pend[t].records : q.key # r.key
RefHasNoRival ==
    \A s \in Sessions : \A j \in pend[s].journals :
        /\ j.ref \notin Refs(db.journals)
        /\ \A t \in Sessions \ {s} : j.ref \notin Refs(pend[t].journals)

\* The record of a closing journal has the journal's own key.
ClosingKeys(R) == \A r \in R : r.ref \in ClosingRef => r.key = r.ref

Unrivalled ==
    /\ Typed
    /\ KeyHasNoRival
    /\ RefHasNoRival
    /\ ClosingKeys(db.records)
    /\ OneJournalPerCommand

\* The references of a union.
LEMMA RefsOfUnion ==
    ASSUME NEW A, NEW B
    PROVE  Refs(A \cup B) = Refs(A) \cup Refs(B)
  BY DEF Refs

\* A closing record has the reference of its journal.
LEMMA ClosingRefs ==
    ASSUME NEW J
    PROVE  Refs(ClosingRecords(J)) = Refs(J)
  <1>1. ASSUME NEW x \in Refs(J) PROVE x \in Refs(ClosingRecords(J))
    <2>1. PICK j \in J : x = j.ref
      BY <1>1 DEF Refs
    <2> DEFINE r == [key |-> j.ref, hash |-> j.ref, ref |-> j.ref]
    <2>2. r \in ClosingRecords(J) /\ r.ref = x
      BY <2>1 DEF ClosingRecords
    <2> HIDE DEF r
    <2>3. QED BY <2>2 DEF Refs
  <1>2. ASSUME NEW x \in Refs(ClosingRecords(J)) PROVE x \in Refs(J)
    <2>1. PICK r \in ClosingRecords(J) : x = r.ref
      BY <1>2 DEF Refs
    <2>2. PICK j \in J : r = [key |-> j.ref, hash |-> j.ref, ref |-> j.ref]
      BY DEF ClosingRecords
    <2>3. x = j.ref
      BY <2>1, <2>2
    <2>4. QED BY <2>3 DEF Refs
  <1>3. QED BY <1>1, <1>2

\* What a session is about to commit: at most one record and one journal, which
\* go together.
LEMMA RowsGoTogether ==
    ASSUME Typed, NEW s \in Sessions, pc[s] = "commit"
    PROVE  /\ \A r, q \in pend[s].records : r = q
           /\ \A j, k \in pend[s].journals : j = k
           /\ Refs(pend[s].records) = Refs(pend[s].journals)
           /\ ClosingKeys(pend[s].records)
  <1>1. CASE WritesJournal(req[s])
    <2>1. PICK j \in Journal : /\ pend[s] = Rows({NewRecord(req[s])}, {j}, {}, {})
                               /\ j.ref = RefOf(req[s])
      BY <1>1, JournalToCommit
    <2>2. NewRecord(req[s]).ref = j.ref
      BY <2>1 DEF NewRecord
    <2>3. pend[s].records = {NewRecord(req[s])} /\ pend[s].journals = {j}
      BY <2>1 DEF Rows
    <2>4. j.ref \notin ClosingRef
      BY <1>1, <2>1, JournalToCommit
    <2>5. QED BY <2>2, <2>3, <2>4 DEF Refs, ClosingKeys
  <1>2. CASE IsClose(req[s])
    <2> DEFINE J == ClosingJournals(view[s], req[s])
    <2>1. pend[s] = Rows(ClosingRecords(J), J, {}, {EffectOf(view[s], req[s])})
      BY <1>2, CloseToCommit
    <2>2. pend[s].records = ClosingRecords(J) /\ pend[s].journals = J
      BY <2>1 DEF Rows
    <2>3. \A j, k \in J : j = k
      BY DEF ClosingJournals
    <2>4. Refs(ClosingRecords(J)) = Refs(J)
      BY ClosingRefs
    <2>5. \A r, q \in ClosingRecords(J) : r = q /\ r.key = r.ref
      BY <2>3 DEF ClosingRecords
    <2>6. QED BY <2>2, <2>3, <2>4, <2>5 DEF ClosingKeys
  <1>3. CASE ~WritesJournal(req[s]) /\ ~IsClose(req[s])
    <2>1. pend[s] = Rows({}, {}, {OpenOf(req[s])}, {})
      BY <1>3 DEF Typed, StagedAs
    <2>2. pend[s].records = {} /\ pend[s].journals = {}
      BY <2>1 DEF Rows
    <2>3. QED BY <2>2 DEF Refs, ClosingKeys
  <1>4. QED BY <1>1, <1>2, <1>3

\* A session's transaction ends and its records and journals are gone with it.
LEMMA RollbackUnrivalled ==
    ASSUME Unrivalled, Typed', NEW s \in Sessions, Finish(s),
           db'.records = db.records, db'.journals = db.journals
    PROVE  Unrivalled'
  <1>1. \A t \in Sessions : pend'[t] = IF t = s THEN NoWrites ELSE pend[t]
    BY DEF Unrivalled, Typed, TypeOK, Finish
  <1>2. \A t \in Sessions : /\ pend'[t].records \subseteq pend[t].records
                            /\ pend'[t].journals \subseteq pend[t].journals
    BY <1>1 DEF NoWrites
  <1>3. KeyHasNoRival'
    BY <1>2 DEF Unrivalled, KeyHasNoRival, Prior
  <1>4. RefHasNoRival'
    BY <1>2 DEF Unrivalled, RefHasNoRival, Refs
  <1>5. QED BY <1>3, <1>4 DEF Unrivalled, OneJournalPerCommand, Refs, ClosingKeys

\* A session's transaction commits and its records and journals are in the
\* database.
LEMMA CommitUnrivalled ==
    ASSUME Unrivalled, Typed', NEW s \in Sessions, pc[s] = "commit", Finish(s),
           db'.records = db.records \cup pend[s].records,
           db'.journals = db.journals \cup pend[s].journals
    PROVE  Unrivalled'
  <1> DEFINE R == pend[s].records
             J == pend[s].journals
  <1>1. \A t \in Sessions : pend'[t] = IF t = s THEN NoWrites ELSE pend[t]
    BY DEF Unrivalled, Typed, TypeOK, Finish
  <1>2. \A t \in Sessions : /\ t = s => pend'[t].records = {} /\ pend'[t].journals = {}
                            /\ t # s => pend'[t] = pend[t]
    BY <1>1 DEF NoWrites
  <1>3. /\ \A r, q \in R : r = q
        /\ \A j, k \in J : j = k
        /\ Refs(R) = Refs(J)
        /\ ClosingKeys(R)
    BY RowsGoTogether DEF Unrivalled
  <1>4. /\ \A r \in R : \A q \in db.records : q.key # r.key
        /\ \A r \in R : \A t \in Sessions \ {s} : \A q \in pend[t].records : q.key # r.key
    BY DEF Unrivalled, KeyHasNoRival, Prior
  <1>5. /\ \A j \in J : \A k \in db.journals : j.ref # k.ref
        /\ \A j \in J : \A t \in Sessions \ {s} : \A k \in pend[t].journals : k.ref # j.ref
    BY DEF Unrivalled, RefHasNoRival, Refs
  <1>6. KeyHasNoRival'
    BY <1>2, <1>4 DEF Unrivalled, KeyHasNoRival, Prior
  <1>7. RefHasNoRival'
    BY <1>2, <1>5 DEF Unrivalled, RefHasNoRival, Refs
  <1>8. ClosingKeys(db'.records)
    BY <1>3 DEF Unrivalled, ClosingKeys
  <1>9. OneJournalPerCommand'
    <2>1. /\ \A r1, r2 \in db.records : r1.key = r2.key \/ r1.ref = r2.ref => r1 = r2
          /\ \A j1, j2 \in db.journals : j1.ref = j2.ref => j1 = j2
          /\ Refs(db.records) = Refs(db.journals)
      BY DEF Unrivalled, OneJournalPerCommand
    <2>2. \A r \in R : \A q \in db.records : q.ref # r.ref
      BY <1>3, <1>5, <2>1 DEF Refs
    <2>3. \A r1, r2 \in db'.records : r1.key = r2.key \/ r1.ref = r2.ref => r1 = r2
      BY <1>3, <1>4, <2>1, <2>2
    <2>4. \A j1, j2 \in db'.journals : j1.ref = j2.ref => j1 = j2
      BY <1>3, <1>5, <2>1
    <2>5. Refs(db'.records) = Refs(db'.journals)
      <3>1. Refs(db'.records) = Refs(db.records) \cup Refs(R)
        BY RefsOfUnion
      <3>2. Refs(db'.journals) = Refs(db.journals) \cup Refs(J)
        BY RefsOfUnion
      <3>3. QED BY <1>3, <2>1, <3>1, <3>2
    <2>6. QED BY <2>3, <2>4, <2>5 DEF OneJournalPerCommand
  <1>10. QED BY <1>6, <1>7, <1>8, <1>9 DEF Unrivalled

\* A step that inserts neither record nor journal, and commits none.
LEMMA SameRowsUnrivalled ==
    ASSUME Unrivalled, Typed',
           \A t \in Sessions : /\ pend'[t].records = pend[t].records
                               /\ pend'[t].journals = pend[t].journals,
           db' = db
    PROVE  Unrivalled'
  <1>1. KeyHasNoRival' /\ RefHasNoRival'
    BY DEF Unrivalled, KeyHasNoRival, RefHasNoRival, Prior, Refs
  <1>2. QED BY <1>1 DEF Unrivalled, OneJournalPerCommand, Refs, ClosingKeys

\* The INSERT of a command record waits for, or fails on, a rival key or reference.
LEMMA InsertRecordUnrivalled ==
    ASSUME Unrivalled, Typed', NEW s \in Sessions, InsertRecord(s)
    PROVE  Unrivalled'
  <1> DEFINE r == NewRecord(req[s])
  <1>1. pend[s] = NoWrites
    BY DEF InsertRecord, Unrivalled, Typed, StagedAs
  <1>2. /\ pend'[s].records = {r} /\ pend'[s].journals = {}
        /\ \A t \in Sessions \ {s} : pend'[t] = pend[t]
    BY <1>1 DEF InsertRecord, Unrivalled, Typed, TypeOK, NoWrites
  <1>3. db' = db /\ r.key = req[s].key
    BY DEF InsertRecord, Advance, NewRecord
  <1>4. \A q \in db.records : q.key # r.key
    BY <1>3 DEF InsertRecord, RecordFits
  <1>5. \A t \in Sessions \ {s} : \A q \in pend[t].records : q.key # r.key
    BY <1>3 DEF InsertRecord, RecordWaits, KeyInFlight
  <1> HIDE DEF r
  <1>6. KeyHasNoRival'
    BY <1>2, <1>3, <1>4, <1>5 DEF Unrivalled, KeyHasNoRival, Prior
  <1>7. RefHasNoRival'
    BY <1>2, <1>3 DEF Unrivalled, RefHasNoRival, Refs
  <1>8. QED BY <1>3, <1>6, <1>7 DEF Unrivalled, OneJournalPerCommand, Refs, ClosingKeys

\* A journal has the reference of its session's record, which has no rival.
LEMMA InsertJournalUnrivalled ==
    ASSUME Unrivalled, Typed', NEW s \in Sessions, InsertJournal(s)
    PROVE  Unrivalled'
  <1> DEFINE j == NewJournal(req[s])
  <1>1. /\ pend'[s].records = pend[s].records /\ pend'[s].journals = {j}
        /\ \A t \in Sessions \ {s} : pend'[t] = pend[t]
    BY DEF InsertJournal, Unrivalled, Typed, TypeOK, Writes
  <1>2. db' = db /\ j.ref = RefOf(req[s])
    BY DEF InsertJournal, Advance, NewJournal
  <1>3. j.ref \notin Refs(db.journals)
    BY <1>2 DEF InsertJournal, JournalFits, Refs
  <1>4. \A t \in Sessions \ {s} : j.ref \notin Refs(pend[t].journals)
    BY <1>2 DEF InsertJournal, JournalWaits, Refs
  <1> HIDE DEF j
  <1>5. KeyHasNoRival'
    BY <1>1, <1>2 DEF Unrivalled, KeyHasNoRival, Prior
  <1>6. RefHasNoRival'
    BY <1>1, <1>2, <1>3, <1>4 DEF Unrivalled, RefHasNoRival, Refs
  <1>7. QED BY <1>2, <1>5, <1>6 DEF Unrivalled, OneJournalPerCommand, Refs, ClosingKeys

\* A close that inserts its closing journal checks only the journal's key.  It
\* is the key that keeps the reference unique: a committed or an uncommitted
\* journal with the same reference would have a record with the same key.
LEMMA WriteCloseUnrivalled ==
    ASSUME Unrivalled, Typed', NEW s \in Sessions, WriteClose(s)
    PROVE  Unrivalled'
  <1> DEFINE J == ClosingJournals(view[s], req[s])
             R == ClosingRecords(J)
  <1>1. /\ pend'[s].records = R /\ pend'[s].journals = J
        /\ \A t \in Sessions \ {s} : pend'[t] = pend[t]
    BY DEF WriteClose, Unrivalled, Typed, TypeOK
  <1>2. db' = db
    BY DEF WriteClose, Advance
  <1>3. req[s] \in Requests /\ IsClose(req[s])
    BY DEF WriteClose, CloseReady, Unrivalled, Typed, StagedAs
  <1>4. \A j \in J : j.ref \in ClosingRef
    BY <1>3, RequestFields DEF ClosingJournals, ClosingRef
  <1>5. \A j \in J : /\ Prior(db, j.ref) = {}
                    /\ \A t \in Sessions \ {s} : \A q \in pend[t].records : q.key # j.ref
    BY DEF WriteClose, CloseFits, CloseWaits, KeyInFlight
  <1>6. \A r \in R : \E j \in J : r.key = j.ref
    BY DEF ClosingRecords
  <1> HIDE DEF J, R
  <1>7. KeyHasNoRival'
    BY <1>1, <1>2, <1>5, <1>6 DEF Unrivalled, KeyHasNoRival, Prior
  <1>8. \A j \in J : j.ref \notin Refs(db.journals)
    <2> SUFFICES ASSUME NEW j \in J, j.ref \in Refs(db.journals) PROVE FALSE
      OBVIOUS
    <2>1. PICK r \in db.records : r.ref = j.ref
      BY DEF Unrivalled, OneJournalPerCommand, Refs
    <2>2. r.key = j.ref
      BY <1>4, <2>1 DEF Unrivalled, ClosingKeys
    <2>3. QED BY <1>5, <2>2 DEF Prior
  <1>9. \A j \in J : \A t \in Sessions \ {s} : j.ref \notin Refs(pend[t].journals)
    <2> SUFFICES ASSUME NEW j \in J, NEW t \in Sessions \ {s}, j.ref \in Refs(pend[t].journals)
                 PROVE  FALSE
      OBVIOUS
    <2>1. pc[t] = "commit"
      <3>1. pend[t].journals # {}
        BY DEF Refs
      <3>2. pend[t] # NoWrites
        BY <3>1 DEF NoWrites
      <3>3. pend[t] # Rows({NewRecord(req[t])}, {}, {}, {})
        BY <3>1 DEF Rows
      <3>4. StagedAs(pc[t], req[t], view[t], pend[t])
        BY DEF Unrivalled, Typed
      <3>5. QED BY <3>2, <3>3, <3>4 DEF StagedAs
    <2>2. /\ Refs(pend[t].records) = Refs(pend[t].journals)
          /\ ClosingKeys(pend[t].records)
      BY <2>1, RowsGoTogether DEF Unrivalled
    <2>3. PICK r \in pend[t].records : r.ref = j.ref
      BY <2>2 DEF Refs
    <2>4. r.key = j.ref
      BY <1>4, <2>2, <2>3 DEF ClosingKeys
    <2>5. QED BY <1>5, <2>4
  <1>10. RefHasNoRival'
    BY <1>1, <1>2, <1>8, <1>9 DEF Unrivalled, RefHasNoRival, Refs
  <1>11. QED BY <1>2, <1>7, <1>10 DEF Unrivalled, OneJournalPerCommand, Refs, ClosingKeys

\* The invariant holds initially.
LEMMA UnrivalledInitially == Init => Unrivalled
  <1> SUFFICES ASSUME Init PROVE Unrivalled
    OBVIOUS
  <1>1. db.records = {} /\ db.journals = {}
    BY DEF Init, EmptyDatabase
  <1>2. \A s \in Sessions : pend[s].records = {} /\ pend[s].journals = {}
    BY DEF Init, NoWrites
  <1>3. QED
    BY <1>1, <1>2, TypedInitially
    DEF Unrivalled, KeyHasNoRival, RefHasNoRival, ClosingKeys, OneJournalPerCommand, Refs

\* Every step keeps keys and references without rivals.
LEMMA UnrivalledStep ==
    ASSUME Unrivalled, [Next]_vars
    PROVE  Unrivalled'
  <1> USE DEF Unrivalled
  <1>1. Typed'
    BY TypedStep
  <1>2. CASE UNCHANGED vars
    BY <1>1, <1>2, SameRowsUnrivalled DEF vars
  <1>3. ASSUME NEW s \in Sessions, Begin(s) \/ AcquireCommandLock(s) \/ CheckProposal(s)
                 \/ LoadReversalPolicy(s) \/ CheckReversal(s) \/ AdmitToPeriod(s)
        PROVE  Unrivalled'
    <2>1. db' = db /\ pend' = pend
      BY <1>3 DEF Begin, AcquireCommandLock, CheckProposal, LoadReversalPolicy,
                  CheckReversal, AdmitToPeriod, Goto, Grant, Advance
    <2>2. QED BY <1>1, <2>1, SameRowsUnrivalled
  <1>4. ASSUME NEW s \in Sessions, OpenPeriod(s)
        PROVE  Unrivalled'
    <2>1. db' = db
      BY <1>4 DEF OpenPeriod, Advance
    <2>2. \A t \in Sessions : /\ pend'[t].records = pend[t].records
                              /\ pend'[t].journals = pend[t].journals
      BY <1>4 DEF OpenPeriod, Typed, TypeOK, Writes
    <2>3. QED BY <1>1, <2>1, <2>2, SameRowsUnrivalled
  <1>5. ASSUME NEW s \in Sessions,
               \/ Abort(s) \/ RefuseProposal(s) \/ RefusePolicy(s) \/ RefuseReversal(s)
               \/ RefusePeriod(s) \/ RefuseRecord(s) \/ RefuseJournal(s) \/ RefuseOpen(s)
               \/ RefuseClose(s) \/ ReplayProposal(s) \/ ReplayReversal(s)
               \/ ReplayOpen(s) \/ ReplayClose(s)
        PROVE  Unrivalled'
    <2>1. Finish(s) /\ db' = db
      BY <1>5 DEF Abort, RefuseProposal, RefusePolicy, RefuseReversal, RefusePeriod,
                  RefuseRecord, RefuseJournal, RefuseOpen, RefuseClose, ReplayProposal,
                  ReplayReversal, ReplayOpen, ReplayClose, Replay, Reply, Rollback
    <2>2. QED BY <1>1, <2>1, RollbackUnrivalled
  <1>6. ASSUME NEW s \in Sessions, CommitJournal(s) \/ CommitOpen(s) \/ CommitClose(s)
        PROVE  Unrivalled'
    <2>1. pc[s] = "commit" /\ Finish(s)
      BY <1>6 DEF CommitJournal, CommitOpen, CommitClose, Reply
    <2>2. CASE CommitOpen(s)
      <3>1. db'.records = db.records /\ db'.journals = db.journals
        BY <2>2 DEF CommitOpen, Typed, TypeOK, Database
      <3>2. QED BY <1>1, <2>1, <3>1, RollbackUnrivalled
    <2>3. CASE CommitJournal(s) \/ CommitClose(s)
      <3>1. /\ db'.records = db.records \cup pend[s].records
            /\ db'.journals = db.journals \cup pend[s].journals
        <4>1. CASE CommitJournal(s)
          BY <4>1 DEF CommitJournal, Typed, TypeOK, Database
        <4>2. CASE CommitClose(s)
          BY <4>2 DEF CommitClose, AfterClose
        <4>3. QED BY <2>3, <4>1, <4>2
      <3>2. QED BY <1>1, <2>1, <3>1, CommitUnrivalled
    <2>4. QED BY <1>6, <2>2, <2>3
  <1>7. QED
    BY <1>1, <1>2, <1>3, <1>4, <1>5, <1>6, InsertRecordUnrivalled,
       InsertJournalUnrivalled, WriteCloseUnrivalled DEF Next, Step

\* A key produces at most one journal and each journal has one command behind
\* it, for any number of sessions, retries, command kinds that share a key, and
\* closes whose generated key a caller guessed.
THEOREM OneJournalPerCommandHolds == Spec => []OneJournalPerCommand
  <1>1. Spec => []Unrivalled
    BY UnrivalledInitially, UnrivalledStep, PTL DEF Spec
  <1>2. Unrivalled => OneJournalPerCommand
    BY DEF Unrivalled
  <1>3. QED BY <1>1, <1>2, PTL

-----------------------------------------------------------------------------
(* One reversal per original *)

\* Journal o of the set J may be reversed, in period p.
IsOriginal(o, ref, p, J) ==
    o \in J /\ o.ref = ref /\ o.role # "reversal" /\ o.period <= p

\* A reversal past its checks has an original among the journals.
HasOriginal ==
    \A s \in Sessions : pc[s] \in {"period", "record", "journal"} /\ req[s].op = "reverse" =>
        \E o \in db.journals : IsOriginal(o, req[s].target, req[s].period, db.journals)

\* A journal that reverses another is named after it and mirrors it.
Mirrors(j) ==
    j.reverses # NoRef =>
        /\ j.ref = <<"reversal", j.reverses[2]>>
        /\ \E o \in db.journals :
             /\ o.ref = j.reverses
             /\ o.role \in {"billing", "adjusting"}
             /\ o.book = j.book /\ o.period <= j.period /\ o.net = -j.net

Mirrored ==
    /\ Unrivalled
    /\ HasOriginal
    /\ \A j \in db.journals : Mirrors(j)
    /\ \A s \in Sessions : \A j \in pend[s].journals : Mirrors(j)

\* The invariant implies the property that is run.
LEMMA MirroredIsEnough == Mirrored => ReversalMirrorsOneOriginal
  <1> SUFFICES ASSUME Mirrored, NEW j \in db.journals, j.reverses # NoRef
               PROVE  /\ Reversals(db, j.reverses) = {j}
                      /\ \E o \in db.journals :
                           /\ o.ref = j.reverses
                           /\ o.role \in {"billing", "adjusting"}
                           /\ o.book = j.book /\ o.period <= j.period /\ o.net = -j.net
    BY DEF ReversalMirrorsOneOriginal
  <1>1. ASSUME NEW k \in db.journals, k.reverses = j.reverses
        PROVE  k = j
    <2>1. k.ref = j.ref
      BY <1>1 DEF Mirrored, Mirrors
    <2>2. QED BY <2>1 DEF Mirrored, Unrivalled, OneJournalPerCommand
  <1>2. Reversals(db, j.reverses) = {j}
    BY <1>1 DEF Reversals
  <1>3. QED BY <1>2 DEF Mirrored, Mirrors

\* What mirrors an original keeps mirroring it while journals are only added.
LEMMA MirrorsLast ==
    ASSUME NEW j, Mirrors(j), db.journals \subseteq db'.journals
    PROVE  Mirrors(j)'
  BY DEF Mirrors

\* A step after which every session's stage, command and journals are as they
\* were, or the session is idle with none, or has just started.
LEMMA MirroredLasts ==
    ASSUME Mirrored, Unrivalled', db.journals \subseteq db'.journals,
           \A j \in db'.journals : j \in db.journals \/ \E s \in Sessions : j \in pend[s].journals,
           \A t \in Sessions :
             /\ \A j \in pend'[t].journals : j \in pend[t].journals \/ j.reverses = NoRef
             /\ pc'[t] \in {"period", "record", "journal"} /\ req'[t].op = "reverse" =>
                  /\ req'[t] = req[t]
                  /\ pc[t] \in {"period", "record", "journal"} \/ Reversible(req[t])
    PROVE  Mirrored'
  <1>1. \A j \in db'.journals : Mirrors(j)'
    BY MirrorsLast DEF Mirrored
  <1>2. ASSUME NEW t \in Sessions, NEW j \in pend'[t].journals
        PROVE  Mirrors(j)'
    <2>1. CASE j \in pend[t].journals
      BY <2>1, MirrorsLast DEF Mirrored
    <2>2. CASE j.reverses = NoRef
      BY <2>2 DEF Mirrors
    <2>3. QED BY <1>2, <2>1, <2>2
  <1>3. ASSUME NEW t \in Sessions, pc'[t] \in {"period", "record", "journal"},
               req'[t].op = "reverse"
        PROVE  \E o \in db'.journals : IsOriginal(o, req'[t].target, req'[t].period, db'.journals)
    <2>1. \E o \in db.journals : IsOriginal(o, req[t].target, req[t].period, db.journals)
      BY <1>3 DEF Mirrored, HasOriginal, Reversible, IsOriginal
    <2>2. QED BY <1>3, <2>1 DEF IsOriginal
  <1>4. QED BY <1>1, <1>2, <1>3 DEF Mirrored, HasOriginal

\* The journal of a reversal mirrors the one journal its command names.
LEMMA InsertJournalMirrored ==
    ASSUME Mirrored, Unrivalled', NEW s \in Sessions, InsertJournal(s)
    PROVE  Mirrored'
  <1> DEFINE r == req[s]
             j == NewJournal(r)
  <1> USE DEF Unrivalled, Typed
  <1>1. /\ pend'[s].journals = {j}
        /\ \A t \in Sessions \ {s} : pend'[t] = pend[t]
        /\ pc' = [pc EXCEPT ![s] = "commit"] /\ req' = req /\ db' = db
    BY DEF InsertJournal, Advance, Mirrored, TypeOK, Writes
  <1>2. Mirrors(j)
    <2> SUFFICES ASSUME j.reverses # NoRef PROVE Mirrors(j)
      BY DEF Mirrors
    <2>1. r.op = "reverse" /\ j.reverses = r.target /\ r \in Requests
      BY DEF NewJournal, InsertJournal, Mirrored, StagedAs
    <2>2. PICK o \in db.journals : IsOriginal(o, r.target, r.period, db.journals)
      BY <2>1 DEF InsertJournal, Mirrored, HasOriginal
    <2>3. o = Target(r)
      BY <2>2, TargetFound DEF IsOriginal, Mirrored, OneJournalPerCommand
    <2>4. /\ j.ref = <<"reversal", r.target[2]>> /\ j.book = o.book
          /\ j.period = r.period /\ j.net = -o.net
      BY <2>1, <2>3 DEF NewJournal, RefOf, BookOf
    <2>5. o.net = -j.net
      <3>1. o.net \in Int
        BY AmountsAssumption DEF Mirrored, TypeOK, Database, Journal
      <3>2. QED BY <2>4, <3>1
    <2>6. o.role \in {"billing", "adjusting"}
      <3>1. r.target \notin ClosingRef
        BY <2>1 DEF InsertJournal, Mirrored, TargetReady
      <3>2. o.role # "period_closing" /\ o.role # "reversal"
        BY <2>2, <3>1 DEF IsOriginal, Mirrored, RolesMatchRefs
      <3>3. o.role \in Roles
        BY DEF Mirrored, TypeOK, Database, Journal
      <3>4. QED BY <3>2, <3>3 DEF Roles
    <2>7. QED BY <2>1, <2>2, <2>4, <2>5, <2>6 DEF Mirrors, IsOriginal
  <1> HIDE DEF j
  <1>3. \A t \in Sessions : \A k \in pend'[t].journals : Mirrors(k)'
    BY <1>1, <1>2 DEF Mirrored, Mirrors
  <1>4. HasOriginal'
    BY <1>1 DEF Mirrored, HasOriginal, TypeOK, IsOriginal
  <1>5. QED BY <1>1, <1>3, <1>4 DEF Mirrored, Mirrors

\* The invariant holds initially.
LEMMA MirroredInitially == Init => Mirrored
  <1> SUFFICES ASSUME Init PROVE Mirrored
    OBVIOUS
  <1>1. db.journals = {} /\ \A s \in Sessions : pc[s] = "idle" /\ pend[s].journals = {}
    BY DEF Init, EmptyDatabase, NoWrites
  <1>2. QED BY <1>1, UnrivalledInitially DEF Mirrored, HasOriginal

\* Every step keeps reversals mirror images of their originals.
LEMMA MirroredStep ==
    ASSUME Mirrored, [Next]_vars
    PROVE  Mirrored'
  <1> USE DEF Unrivalled, Typed
  <1>1. Unrivalled'
    BY UnrivalledStep DEF Mirrored
  <1>2. CASE UNCHANGED vars
    <2>1. db' = db /\ pc' = pc /\ req' = req /\ pend' = pend
      BY <1>2 DEF vars
    <2>2. QED BY <1>1, <2>1, MirroredLasts
  <1>3. ASSUME NEW s \in Sessions,
               \/ Begin(s) \/ AcquireCommandLock(s) \/ CheckProposal(s)
               \/ LoadReversalPolicy(s) \/ CheckReversal(s) \/ AdmitToPeriod(s)
        PROVE  Mirrored'
    <2>1. db' = db /\ pend' = pend
      BY <1>3 DEF Begin, AcquireCommandLock, CheckProposal, LoadReversalPolicy,
                  CheckReversal, AdmitToPeriod, Goto, Grant, Advance
    <2>2. \A t \in Sessions \ {s} : pc'[t] = pc[t] /\ req'[t] = req[t]
      BY <1>3 DEF Begin, AcquireCommandLock, CheckProposal, LoadReversalPolicy,
                  CheckReversal, AdmitToPeriod, Goto, Advance, Mirrored, TypeOK
    <2>3. pc'[s] \in {"period", "record", "journal"} /\ req'[s].op = "reverse" =>
            /\ req'[s] = req[s]
            /\ pc[s] \in {"period", "record", "journal"} \/ Reversible(req[s])
      BY <1>3 DEF Begin, AcquireCommandLock, CheckProposal, LoadReversalPolicy,
                  CheckReversal, AdmitToPeriod, Goto, Advance, Mirrored, TypeOK, IsProposal
    <2>4. QED BY <1>1, <2>1, <2>2, <2>3, MirroredLasts
  <1>4. ASSUME NEW s \in Sessions, InsertRecord(s) \/ OpenPeriod(s) \/ WriteClose(s)
        PROVE  Mirrored'
    <2>1. /\ db' = db /\ req' = req /\ pc'[s] \in {"journal", "commit"}
          /\ pc'[s] = "journal" => pc[s] = "record"
      BY <1>4 DEF InsertRecord, OpenPeriod, WriteClose, Advance, Mirrored, TypeOK
    <2>2. \A t \in Sessions \ {s} : pc'[t] = pc[t] /\ pend'[t] = pend[t]
      BY <1>4 DEF InsertRecord, OpenPeriod, WriteClose, Advance, Mirrored, TypeOK
    <2>3. \A j \in pend'[s].journals : j \in pend[s].journals \/ j.reverses = NoRef
      <3>1. CASE WriteClose(s)
        BY <3>1 DEF WriteClose, ClosingJournals, Mirrored, TypeOK
      <3>2. CASE InsertRecord(s)
        BY <3>2 DEF InsertRecord, Mirrored, TypeOK, Writes
      <3>3. CASE OpenPeriod(s)
        BY <3>3 DEF OpenPeriod, Mirrored, TypeOK, Writes
      <3>4. QED BY <1>4, <3>1, <3>2, <3>3
    <2>4. QED BY <1>1, <2>1, <2>2, <2>3, MirroredLasts
  <1>5. ASSUME NEW s \in Sessions, Finish(s), db.journals \subseteq db'.journals,
               \A j \in db'.journals : j \in db.journals \/ j \in pend[s].journals
        PROVE  Mirrored'
    <2>1. \A t \in Sessions \ {s} : pc'[t] = pc[t] /\ req'[t] = req[t] /\ pend'[t] = pend[t]
      BY <1>5 DEF Finish, Mirrored, TypeOK
    <2>2. pc'[s] = "idle" /\ pend'[s].journals = {}
      BY <1>5 DEF Finish, Mirrored, TypeOK, NoWrites
    <2>3. QED BY <1>1, <1>5, <2>1, <2>2, MirroredLasts
  <1>6. ASSUME NEW s \in Sessions,
               \/ Abort(s) \/ RefuseProposal(s) \/ RefusePolicy(s) \/ RefuseReversal(s)
               \/ RefusePeriod(s) \/ RefuseRecord(s) \/ RefuseJournal(s) \/ RefuseOpen(s)
               \/ RefuseClose(s) \/ ReplayProposal(s) \/ ReplayReversal(s)
               \/ ReplayOpen(s) \/ ReplayClose(s)
        PROVE  Mirrored'
    <2>1. Finish(s) /\ db' = db
      BY <1>6 DEF Abort, RefuseProposal, RefusePolicy, RefuseReversal, RefusePeriod,
                  RefuseRecord, RefuseJournal, RefuseOpen, RefuseClose, ReplayProposal,
                  ReplayReversal, ReplayOpen, ReplayClose, Replay, Reply, Rollback
    <2>2. QED BY <1>5, <2>1
  <1>7. ASSUME NEW s \in Sessions, CommitJournal(s) \/ CommitOpen(s) \/ CommitClose(s)
        PROVE  Mirrored'
    <2>1. Finish(s)
      BY <1>7 DEF CommitJournal, CommitOpen, CommitClose, Reply
    <2>2. \/ db'.journals = db.journals
          \/ db'.journals = db.journals \cup pend[s].journals
      <3>1. CASE CommitJournal(s)
        BY <3>1 DEF CommitJournal, Mirrored, TypeOK, Database
      <3>2. CASE CommitOpen(s)
        BY <3>2 DEF CommitOpen, Mirrored, TypeOK, Database
      <3>3. CASE CommitClose(s)
        BY <3>3 DEF CommitClose, AfterClose
      <3>4. QED BY <1>7, <3>1, <3>2, <3>3
    <2>3. QED BY <1>5, <2>1, <2>2
  <1>8. QED
    BY <1>1, <1>2, <1>3, <1>4, <1>6, <1>7, InsertJournalMirrored DEF Next, Step

\* A journal has at most one reversal, which mirrors it, in its book and not
\* before it, whatever keys and periods competing reversal commands carry, and
\* no reversal and no closing journal is ever reversed.
THEOREM ReversalMirrorsOneOriginalHolds == Spec => []ReversalMirrorsOneOriginal
  <1>1. Spec => []Mirrored
    BY MirroredInitially, MirroredStep, PTL DEF Spec
  <1>2. QED BY <1>1, MirroredIsEnough, PTL

-----------------------------------------------------------------------------
(* The store implements the in-memory PostingLedger *)

\* The uncommitted journal of a command is the one the command asks for.
Faithful(r, j) ==
    /\ j.period = r.period /\ j.role = RoleOf(r)
    /\ IsProposal(r) => j.book = r.book /\ j.net = r.net /\ j.reverses = NoRef
    /\ r.op = "reverse" => j.reverses = r.target
OriginalsReverseNothing ==
    \A j \in db.journals : j.role \in {"billing", "adjusting"} => j.reverses = NoRef
AsAsked == \A s \in Sessions : pc[s] = "commit" /\ WritesJournal(req[s]) =>
                \A j \in pend[s].journals : Faithful(req[s], j)
Written == Mirrored /\ OriginalsReverseNothing /\ AsAsked

\* A close commits closing journals and their records only.
LEMMA CloseCommits ==
    ASSUME Typed, NEW s \in Sessions, CommitClose(s)
    PROVE  /\ req[s] \in Requests /\ IsClose(req[s])
           /\ pend[s].journals = ClosingJournals(view[s], req[s])
           /\ pend[s].records = ClosingRecords(ClosingJournals(view[s], req[s]))
  <1>1. pc[s] = "commit" /\ IsClose(req[s])
    BY DEF CommitClose
  <1>2. LET J == ClosingJournals(view[s], req[s])
        IN  /\ req[s] \in Requests
            /\ pend[s] = Rows(ClosingRecords(J), J, {}, {EffectOf(view[s], req[s])})
    BY <1>1, CloseToCommit
  <1>3. QED BY <1>1, <1>2 DEF Rows

\* A step after which a session about to commit a journal was so before, with
\* the same journal.
LEMMA WrittenLasts ==
    ASSUME Written, Mirrored',
           \A j \in db'.journals : \/ j \in db.journals
                                   \/ j.role \notin {"billing", "adjusting"}
                                   \/ j.reverses = NoRef,
           \A t \in Sessions :
             pc'[t] = "commit" /\ WritesJournal(req'[t]) =>
                 pc[t] = "commit" /\ req'[t] = req[t] /\ pend'[t] = pend[t]
    PROVE  Written'
  <1>1. OriginalsReverseNothing'
    BY DEF Written, OriginalsReverseNothing
  <1>2. AsAsked'
    BY DEF Written, AsAsked, Faithful
  <1>3. QED BY <1>1, <1>2 DEF Written

\* INSERT INTO general_journal writes what the command asks for.
LEMMA InsertJournalWritten ==
    ASSUME Written, Mirrored', NEW s \in Sessions, InsertJournal(s)
    PROVE  Written'
  <1> USE DEF Mirrored, Unrivalled, Typed
  <1>1. /\ pend'[s].journals = {NewJournal(req[s])}
        /\ \A t \in Sessions \ {s} : pend'[t] = pend[t] /\ pc'[t] = pc[t]
        /\ req' = req /\ db' = db
    BY DEF InsertJournal, Advance, Written, TypeOK, Writes
  <1>2. WritesJournal(req[s])
    BY DEF InsertJournal, Written, StagedAs
  <1>3. Faithful(req[s], NewJournal(req[s]))
    BY <1>2 DEF Faithful, NewJournal, BookOf, WritesJournal, IsProposal
  <1>4. AsAsked'
    BY <1>1, <1>3 DEF Written, AsAsked, Faithful
  <1>5. OriginalsReverseNothing'
    BY <1>1 DEF Written, OriginalsReverseNothing
  <1>6. QED BY <1>4, <1>5 DEF Written

LEMMA WrittenInitially == Init => Written
  <1> SUFFICES ASSUME Init PROVE Written
    OBVIOUS
  <1>1. db.journals = {} /\ \A s \in Sessions : pc[s] = "idle"
    BY DEF Init, EmptyDatabase
  <1>2. QED BY <1>1, MirroredInitially DEF Written, OriginalsReverseNothing, AsAsked

LEMMA WrittenStep ==
    ASSUME Written, [Next]_vars
    PROVE  Written'
  <1> USE DEF Mirrored, Unrivalled, Typed
  <1>1. Mirrored'
    BY MirroredStep DEF Written
  <1>2. CASE UNCHANGED vars
    BY <1>1, <1>2, WrittenLasts DEF vars
  <1>3. ASSUME NEW s \in Sessions, pc'[s] # "commit" \/ ~WritesJournal(req'[s]),
               db'.journals = db.journals,
               \A t \in Sessions \ {s} : pc'[t] = pc[t] /\ req'[t] = req[t] /\ pend'[t] = pend[t]
        PROVE  Written'
    BY <1>1, <1>3, WrittenLasts
  <1>4. ASSUME NEW s \in Sessions,
               \/ Begin(s) \/ AcquireCommandLock(s) \/ CheckProposal(s)
               \/ LoadReversalPolicy(s) \/ CheckReversal(s) \/ AdmitToPeriod(s)
               \/ InsertRecord(s)
        PROVE  Written'
    <2>1. /\ db' = db /\ pc'[s] # "commit"
          /\ \A t \in Sessions \ {s} : pc'[t] = pc[t] /\ req'[t] = req[t] /\ pend'[t] = pend[t]
      BY <1>4 DEF Begin, AcquireCommandLock, CheckProposal, LoadReversalPolicy, InsertRecord,
                  CheckReversal, AdmitToPeriod, Goto, Grant, Advance, Written, TypeOK
    <2>2. QED BY <1>3, <2>1
  <1>5. ASSUME NEW s \in Sessions, OpenPeriod(s) \/ WriteClose(s)
        PROVE  Written'
    <2>1. /\ db' = db /\ req' = req
          /\ \A t \in Sessions \ {s} : pc'[t] = pc[t] /\ pend'[t] = pend[t]
      BY <1>5 DEF OpenPeriod, WriteClose, Advance, Written, TypeOK
    <2>2. ~WritesJournal(req[s])
      BY <1>5 DEF OpenPeriod, WriteClose, CloseReady, WritesJournal, IsProposal, IsClose,
                  Written, StagedAs
    <2>3. QED BY <1>3, <2>1, <2>2
  <1>6. ASSUME NEW s \in Sessions,
               \/ Abort(s) \/ RefuseProposal(s) \/ RefusePolicy(s) \/ RefuseReversal(s)
               \/ RefusePeriod(s) \/ RefuseRecord(s) \/ RefuseJournal(s) \/ RefuseOpen(s)
               \/ RefuseClose(s) \/ ReplayProposal(s) \/ ReplayReversal(s)
               \/ ReplayOpen(s) \/ ReplayClose(s)
        PROVE  Written'
    <2>1. Finish(s) /\ db' = db
      BY <1>6 DEF Abort, RefuseProposal, RefusePolicy, RefuseReversal, RefusePeriod,
                  RefuseRecord, RefuseJournal, RefuseOpen, RefuseClose, ReplayProposal,
                  ReplayReversal, ReplayOpen, ReplayClose, Replay, Reply, Rollback
    <2>2. /\ pc'[s] = "idle"
          /\ \A t \in Sessions \ {s} : pc'[t] = pc[t] /\ req'[t] = req[t] /\ pend'[t] = pend[t]
      BY <2>1 DEF Finish, Written, TypeOK
    <2>3. QED BY <1>3, <2>1, <2>2
  <1>7. ASSUME NEW s \in Sessions, CommitJournal(s) \/ CommitOpen(s) \/ CommitClose(s)
        PROVE  Written'
    <2>1. Finish(s) /\ pc[s] = "commit"
      BY <1>7 DEF CommitJournal, CommitOpen, CommitClose, Reply
    <2>2. /\ pc'[s] = "idle"
          /\ \A t \in Sessions \ {s} : pc'[t] = pc[t] /\ req'[t] = req[t] /\ pend'[t] = pend[t]
      BY <2>1 DEF Finish, Written, TypeOK
    <2>3. \A j \in db'.journals : \/ j \in db.journals
                                  \/ j.role \notin {"billing", "adjusting"}
                                  \/ j.reverses = NoRef
      <3>1. CASE CommitJournal(s)
        <4>1. db'.journals = db.journals \cup pend[s].journals /\ WritesJournal(req[s])
          BY <3>1 DEF CommitJournal, Written, TypeOK, Database, WritesJournal
        <4>2. \A j \in pend[s].journals : Faithful(req[s], j)
          BY <2>1, <4>1 DEF Written, AsAsked
        <4>3. QED BY <4>1, <4>2 DEF Faithful, RoleOf, WritesJournal
      <3>2. CASE CommitOpen(s)
        BY <3>2 DEF CommitOpen, Written, TypeOK, Database
      <3>3. CASE CommitClose(s)
        <4>1. db'.journals = db.journals \cup pend[s].journals
          BY <3>3 DEF CommitClose, AfterClose
        <4>2. pend[s].journals = ClosingJournals(view[s], req[s])
          BY <3>3, CloseCommits DEF CommitClose, Written
        <4>3. QED BY <4>1, <4>2 DEF ClosingJournals
      <3>4. QED BY <1>7, <3>1, <3>2, <3>3
    <2>4. QED BY <1>1, <2>2, <2>3, WrittenLasts
  <1>8. QED
    BY <1>1, <1>2, <1>4, <1>5, <1>6, <1>7, InsertJournalWritten DEF Next, Step, Written

-----------------------------------------------------------------------------
(* Steps of the store as steps of the ledger *)

\* A step that adds no ordinary journal and no record of one.
LEMMA LedgerStutters ==
    ASSUME \A j \in db.journals : j \in db'.journals,
           \A j \in db'.journals : j \in db.journals \/ j.role = "period_closing",
           \A r \in db.records : r \in db'.records,
           \A r \in db'.records : r \in db.records \/ r.ref \in ClosingRef
    PROVE  UNCHANGED <<LedgerJournals, LedgerReceipts, LedgerReversals>>
  <1>1. Ordinary' = Ordinary
    BY DEF Ordinary
  <1>2. \A x : ~(x \in ClosingRef /\ x \in JournalRef \cup ReversalRef)
    BY DEF ClosingRef, JournalRef, ReversalRef
  <1>3. /\ {q \in db'.records : q.ref \in JournalRef} = {q \in db.records : q.ref \in JournalRef}
        /\ {q \in db'.records : q.ref \in ReversalRef} = {q \in db.records : q.ref \in ReversalRef}
    BY <1>2
  <1>4. QED BY <1>1, <1>3 DEF LedgerJournals, LedgerReceipts, LedgerReversals

\* A reversal exchanges the sides of its original's lines.
LEMMA LinesSwap ==
    ASSUME NEW n \in Int
    PROVE  Ledger!Swapped(LinesOf(n)) = LinesOf(-n)
  BY DEF Ledger!Swapped, LinesOf

\* What the commit of a post, an adjusting journal or a reversal adds.
LEMMA JournalCommits ==
    ASSUME Written, NEW s \in Sessions, CommitJournal(s)
    PROVE  /\ req[s] \in Requests /\ RefOf(req[s]) \in JournalRef \cup ReversalRef
           /\ \A rec \in db.records : rec.key # req[s].key
           /\ \E j \in Journal :
                /\ j.ref = RefOf(req[s]) /\ Faithful(req[s], j) /\ Mirrors(j)
                /\ \A k \in db.journals : k.ref # j.ref
                /\ db'.journals = db.journals \cup {j}
                /\ db'.records = db.records \cup {NewRecord(req[s])}
  <1>1. /\ Typed /\ Unrivalled /\ Mirrored
        /\ pc[s] = "commit" /\ WritesJournal(req[s])
    BY DEF Written, Mirrored, Unrivalled, CommitJournal, WritesJournal
  <1>2. PICK j \in Journal : /\ pend[s] = Rows({NewRecord(req[s])}, {j}, {}, {})
                             /\ j.ref = RefOf(req[s])
    BY <1>1, JournalToCommit
  <1>3. pend[s].journals = {j} /\ pend[s].records = {NewRecord(req[s])}
    BY <1>2 DEF Rows
  <1>4. /\ db'.journals = db.journals \cup {j}
        /\ db'.records = db.records \cup {NewRecord(req[s])}
    BY <1>1, <1>3 DEF CommitJournal, Typed, TypeOK, Database
  <1>5. \A rec \in db.records : rec.key # req[s].key
    BY <1>1, <1>3 DEF Unrivalled, KeyHasNoRival, Prior, NewRecord
  <1>6. \A k \in db.journals : k.ref # j.ref
    BY <1>1, <1>3 DEF Unrivalled, RefHasNoRival, Refs
  <1>7. Faithful(req[s], j) /\ Mirrors(j)
    BY <1>1, <1>3 DEF Written, AsAsked, Mirrored
  <1>8. req[s] \in Requests /\ RefOf(req[s]) \in JournalRef \cup ReversalRef
    BY <1>1, JournalToCommit DEF Ref
  <1>9. QED BY <1>1, <1>2, <1>4, <1>5, <1>6, <1>7, <1>8

\* A journal of the store as the ledger sees it.
AsLedgerJournal(j) ==
    [tenant |-> "tenant", ref |-> j.ref, book |-> j.book, date |-> j.period,
     lines |-> LinesOf(j.net), reverses |-> j.reverses]
LEMMA OneMoreJournal ==
    ASSUME NEW j, j.role # "period_closing", db'.journals = db.journals \cup {j}
    PROVE  LedgerJournals' = LedgerJournals \cup {AsLedgerJournal(j)}
  <1>1. Ordinary' = Ordinary \cup {j}
    BY DEF Ordinary
  <1>2. LedgerJournals = {AsLedgerJournal(k) : k \in Ordinary}
    BY DEF LedgerJournals, AsLedgerJournal
  <1>3. LedgerJournals' = {AsLedgerJournal(k) : k \in Ordinary'}
    BY DEF LedgerJournals, AsLedgerJournal
  <1>4. QED BY <1>1, <1>2, <1>3

\* Balances are of two account roles only.
LEMMA LinesInScope ==
    ASSUME NEW n
    PROVE  Ledger!Used(LinesOf(n)) \subseteq {"income", "other"}
  <1>1. DOMAIN LinesOf(n) = {"income", "other"}
    BY DEF LinesOf
  <1>2. QED BY <1>1 DEF Ledger!Used

\* COMMIT of post or post_adjusting_journal is PostingLedger.post.
LEMMA CommitPosts ==
    ASSUME Written, NEW s \in Sessions, CommitJournal(s), IsProposal(req[s])
    PROVE  Ledger!Next
  <1> DEFINE r == req[s]
             p == [tenant |-> "tenant", id |-> r.id, key |-> r.key, hash |-> r.hash,
                   book |-> r.book, date |-> r.period, lines |-> LinesOf(r.net)]
             y == [tenant |-> "tenant", book |-> r.book, open |-> Periods,
                   mapped |-> {"income", "other"}]
  <1>1. /\ r \in Requests /\ r.op \in {"post", "adjust"}
        /\ \A rec \in db.records : rec.key # r.key
    BY JournalCommits DEF IsProposal
  <1>2. PICK j \in Journal :
          /\ j.ref = RefOf(r) /\ Faithful(r, j)
          /\ \A k \in db.journals : k.ref # j.ref
          /\ db'.journals = db.journals \cup {j}
          /\ db'.records = db.records \cup {NewRecord(r)}
    BY JournalCommits
  <1>3. r.book \in Books /\ r.period \in Periods /\ r.id \in Ids
    BY <1>1, RequestFields
  <1>4. /\ j.ref = <<"journal", r.id>> /\ j.book = r.book /\ j.period = r.period
        /\ j.net = r.net /\ j.reverses = NoRef /\ j.role # "period_closing"
    BY <1>1, <1>2 DEF RefOf, Faithful, IsProposal, RoleOf
  <1>5. /\ NewRecord(r).ref = <<"journal", r.id>> /\ NewRecord(r).key = r.key
        /\ NewRecord(r).hash = r.hash
    BY <1>1 DEF NewRecord, RefOf, HashOf
  <1>6. Ledger!Cached(p) = {}
    BY <1>1 DEF Ledger!Cached, LedgerReceipts
  <1>7. Ledger!InScope(p, y)
    BY <1>3, LinesInScope DEF Ledger!InScope
  <1>8. Ledger!Journals(p.tenant, <<"journal", p.id>>) = {}
    BY <1>2, <1>4 DEF Ledger!Journals, LedgerJournals, Ordinary
  <1>9. LedgerJournals' = LedgerJournals \cup
          {[tenant |-> p.tenant, ref |-> <<"journal", p.id>>, book |-> p.book,
            date |-> p.date, lines |-> p.lines, reverses |-> NoRef]}
    BY <1>2, <1>4, OneMoreJournal DEF AsLedgerJournal
  <1>10. LedgerReceipts' = LedgerReceipts \cup
          {[tenant |-> p.tenant, key |-> p.key, hash |-> p.hash, ref |-> <<"journal", p.id>>]}
    <2>1. {q \in db'.records : q.ref \in JournalRef}
            = {q \in db.records : q.ref \in JournalRef} \cup {NewRecord(r)}
      <3>1. NewRecord(r).ref \in JournalRef
        BY <1>3, <1>5 DEF JournalRef
      <3>2. QED BY <1>2, <3>1
    <2>2. QED BY <1>5, <2>1 DEF LedgerReceipts
  <1>11. LedgerReversals' = LedgerReversals
    <2>1. NewRecord(r).ref \notin ReversalRef
      BY <1>5 DEF ReversalRef
    <2>2. QED BY <1>2, <2>1 DEF LedgerReversals
  <1>12. Ledger!Post(p, y)
    BY <1>6, <1>7, <1>8, <1>9, <1>10, <1>11 DEF Ledger!Post, Ledger!CanPost
  <1> HIDE DEF p, y
  <1>13. QED BY <1>1, <1>3, <1>12 DEF Ledger!Next, p, y, IsProposal

\* COMMIT of reverse is PostingLedger.reverse of the original's own book.
LEMMA CommitReverses ==
    ASSUME Written, NEW s \in Sessions, CommitJournal(s), req[s].op = "reverse"
    PROVE  Ledger!Next
  <1> DEFINE r == req[s]
             c == [original |-> r.target, key |-> r.key, date |-> r.period]
  <1>1. r \in Requests
    BY JournalCommits
  <1>2. PICK j \in Journal :
          /\ j.ref = RefOf(r) /\ Faithful(r, j) /\ Mirrors(j)
          /\ \A k \in db.journals : k.ref # j.ref
          /\ db'.journals = db.journals \cup {j}
          /\ db'.records = db.records \cup {NewRecord(r)}
    BY JournalCommits
  <1>3. r.target \in Ref /\ r.period \in Periods
    BY <1>1, RequestFields
  <1>4. /\ j.ref = <<"reversal", r.target[2]>> /\ j.period = r.period
        /\ j.reverses = r.target /\ j.role = "reversal"
    BY <1>2 DEF RefOf, Faithful, RoleOf
  <1>5. PICK o \in db.journals :
          /\ o.ref = r.target /\ o.role \in {"billing", "adjusting"}
          /\ o.book = j.book /\ o.period <= r.period /\ o.net = -j.net
    BY <1>2, <1>3, <1>4, NothingAssumption DEF Mirrors
  <1>6. /\ o \in Journal /\ o.book \in Books /\ o.net \in Int /\ j.net \in Int
        /\ o.reverses = NoRef
    BY <1>5, AmountsAssumption
       DEF Written, OriginalsReverseNothing, Mirrored, Unrivalled, Typed, TypeOK, Database, Journal
  <1>7. o \in Ordinary
    BY <1>5 DEF Ordinary
  <1> DEFINE l == AsLedgerJournal(o)
             y == [tenant |-> "tenant", book |-> o.book, open |-> Periods,
                   mapped |-> {"income", "other"}]
  <1>8. /\ l \in LedgerJournals
        /\ l.tenant = "tenant" /\ l.ref = r.target /\ l.book = o.book
        /\ l.date = o.period /\ l.lines = LinesOf(o.net) /\ l.reverses = NoRef
    BY <1>5, <1>6, <1>7 DEF AsLedgerJournal, LedgerJournals
  <1>9. Ledger!NotYetReversed(c, y)
    BY <1>2, <1>4 DEF Ledger!NotYetReversed, Ledger!Journals, LedgerJournals, Ordinary
  <1>10. Ledger!Swapped(LinesOf(o.net)) = LinesOf(j.net)
    <2>1. j.net = -o.net
      BY <1>5, <1>6
    <2>2. QED BY <1>6, <2>1, LinesSwap
  <1>11. LedgerJournals' = LedgerJournals \cup
           {[tenant |-> "tenant", ref |-> <<"reversal", r.target[2]>>, book |-> o.book,
             date |-> r.period, lines |-> LinesOf(j.net), reverses |-> r.target]}
    BY <1>2, <1>4, <1>5, OneMoreJournal DEF AsLedgerJournal
  <1>12. /\ NewRecord(r).ref = <<"reversal", r.target[2]>> /\ NewRecord(r).key = r.key
         /\ NewRecord(r).hash = <<r.target, r.period>>
    BY DEF NewRecord, RefOf, HashOf
  <1>13. LedgerReceipts' = LedgerReceipts
    <2>1. NewRecord(r).ref \notin JournalRef
      BY <1>12 DEF JournalRef
    <2>2. QED BY <1>2, <2>1 DEF LedgerReceipts
  <1>14. LedgerReversals' = LedgerReversals \cup
           {[tenant |-> "tenant", original |-> r.target, key |-> r.key, date |-> r.period]}
    <2>1. j.ref \in ReversalRef
      BY <1>2, <1>4, JournalCommits DEF JournalRef
    <2>2. {q \in db'.records : q.ref \in ReversalRef}
            = {q \in db.records : q.ref \in ReversalRef} \cup {NewRecord(r)}
      BY <1>2, <1>4, <1>12, <2>1
    <2>3. QED BY <1>12, <2>2 DEF LedgerReversals
  <1>15. Ledger!Reversible(l, c, y)
    BY <1>3, <1>5, <1>8 DEF Ledger!Reversible
  <1> HIDE DEF l
  <1>16. Ledger!Reverse(c, y)
    BY <1>8, <1>9, <1>10, <1>11, <1>13, <1>14, <1>15 DEF Ledger!Reverse
  <1> HIDE DEF c, y
  <1>17. QED BY <1>1, <1>6, <1>16 DEF Ledger!Next, c, y

\* Every step of the store is one step of the ledger, or none.
LEMMA StoreStep ==
    ASSUME Written, [Next]_vars
    PROVE  [Ledger!Next]_<<LedgerJournals, LedgerReceipts, LedgerReversals>>
  <1> USE DEF Mirrored, Unrivalled, Typed
  <1>1. ASSUME UNCHANGED <<db.journals, db.records>>
        PROVE  UNCHANGED <<LedgerJournals, LedgerReceipts, LedgerReversals>>
    BY <1>1, LedgerStutters
  <1>2. ASSUME NEW s \in Sessions, CommitJournal(s)
        PROVE  Ledger!Next
    BY <1>2, CommitPosts, CommitReverses DEF CommitJournal
  <1>3. ASSUME NEW s \in Sessions, CommitClose(s)
        PROVE  UNCHANGED <<LedgerJournals, LedgerReceipts, LedgerReversals>>
    <2> DEFINE J == ClosingJournals(view[s], req[s])
    <2>1. /\ db'.journals = db.journals \cup J
          /\ db'.records = db.records \cup ClosingRecords(J)
      <3>1. /\ pend[s].journals = J
            /\ pend[s].records = ClosingRecords(J)
        BY <1>3, CloseCommits DEF Written
      <3>2. /\ db'.journals = db.journals \cup pend[s].journals
            /\ db'.records = db.records \cup pend[s].records
        BY <1>3 DEF CommitClose, AfterClose
      <3>3. QED BY <3>1, <3>2
    <2>2. \A j \in J : j.role = "period_closing" /\ j.ref \in ClosingRef
      <3>1. req[s] \in Requests /\ IsClose(req[s])
        BY <1>3, CloseCommits DEF Written
      <3>2. QED BY <3>1, RequestFields DEF ClosingJournals, ClosingRef
    <2> HIDE DEF J
    <2>3. \A r \in ClosingRecords(J) : r.ref \in ClosingRef
      BY <2>2 DEF ClosingRecords
    <2>4. QED BY <2>1, <2>2, <2>3, LedgerStutters
  <1>4. ASSUME NEW s \in Sessions, CommitOpen(s)
        PROVE  UNCHANGED <<db.journals, db.records>>
    BY <1>4 DEF CommitOpen, Written, TypeOK, Database
  <1>5. ASSUME NEW s \in Sessions, Begin(s) \/ Step(s) \/ Abort(s),
               ~CommitJournal(s), ~CommitClose(s), ~CommitOpen(s)
        PROVE  db' = db
    BY <1>5 DEF Step, Begin, AcquireCommandLock, CheckProposal, LoadReversalPolicy,
                CheckReversal, AdmitToPeriod, Goto, Grant, Advance, InsertRecord, InsertJournal,
                OpenPeriod, WriteClose, Abort, RefuseProposal, RefusePolicy, RefuseReversal,
                RefusePeriod, RefuseRecord, RefuseJournal, RefuseOpen, RefuseClose,
                ReplayProposal, ReplayReversal, ReplayOpen, ReplayClose, Replay, Rollback
  <1>6. CASE UNCHANGED vars
    BY <1>1, <1>6 DEF vars
  <1>7. QED BY <1>1, <1>2, <1>3, <1>4, <1>5, <1>6 DEF Next

LEMMA StoreInit == Init => Ledger!Init
  BY DEF Init, EmptyDatabase, Ledger!Init, LedgerJournals, Ordinary, LedgerReceipts, LedgerReversals

\* ImplementsPostingLedger: PostgresPostingLedger does what core.py's
\* PostingLedger does, for any number of sessions and any commands.  A COMMIT
\* is the ledger's post or reverse although the checks it rests on were made
\* in earlier statements, among other sessions' commits, aborts and closes.
THEOREM ImplementsPostingLedgerHolds == Spec => ImplementsPostingLedger
  <1>1. Spec => []Written
    BY WrittenInitially, WrittenStep, PTL DEF Spec
  <1>2. Written /\ [Next]_vars
          => [Ledger!Next]_<<LedgerJournals, LedgerReceipts, LedgerReversals>>
    BY StoreStep
  <1>3. QED
    BY <1>1, <1>2, StoreInit, PTL
    DEF Spec, ImplementsPostingLedger, Ledger!Spec, Ledger!ledger
===========================================================================
