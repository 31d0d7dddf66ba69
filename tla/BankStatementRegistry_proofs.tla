-------------------- MODULE BankStatementRegistry_proofs --------------------
(***************************************************************************)
(* The bank-statement registry, for any sessions, documents and commands:  *)
(* its advisory locks leave the unique keys nothing to refuse, a success   *)
(* stays true, and a receipt's bytes are kept.                             *)
(***************************************************************************)
EXTENDS BankStatementRegistry, TLAPS

-----------------------------------------------------------------------------
(* What a command is, locks and inserts *)

\* The fields a command has, by its kind.
LEMMA RequestFields ==
    ASSUME NEW r \in Requests
    PROVE  /\ r.op \in {"register", "assign", "ingest"} /\ r.account \in Accounts
           /\ r.op = "register" => r.evidence \in Evidence
           /\ r.op = "assign" => /\ r.book \in Books /\ r.chart \in Charts /\ r.key \in Keys
                                 /\ r.from \in Nat /\ r.to \in Nat \cup {NoEnd}
           /\ r.op = "ingest" => /\ r.artifact \in Artifacts /\ r.key \in Keys
                                 /\ Parsed[r.artifact].identity \in Identities
                                 /\ Parsed[r.artifact].payload \in Payloads
  BY RequestsAssumption, ParsedAssumption DEF RegisterRequest, AssignRequest, IngestRequest

\* The locks of a command, one by one.
LEMMA LocksOfRequest ==
    ASSUME NEW r \in Requests
    PROVE  /\ LockOrder(r) \in Seq(Lock)
           /\ Len(LockOrder(r)) \in 1..3
           /\ r.op = "register" => /\ Len(LockOrder(r)) = 1
                                   /\ LockOrder(r)[1] = <<"bank_account", r.account>>
           /\ r.op = "assign" => /\ Len(LockOrder(r)) = 2
                                 /\ LockOrder(r)[2] = <<"bank_assignment_key", r.key>>
           /\ r.op = "ingest" =>
                /\ Len(LockOrder(r)) = 3
                /\ LockOrder(r)[1] = <<"bank_statement", r.key>>
                /\ LockOrder(r)[2] = <<"bank_statement_hash", r.artifact>>
                /\ LockOrder(r)[3] = <<"bank_statement_identity",
                                       <<r.account, Parsed[r.artifact].identity>>>>
  <1>1. CASE r.op = "register"
    <2>1. LockOrder(r) = << <<"bank_account", r.account>> >>
      BY <1>1 DEF LockOrder
    <2>2. QED BY <1>1, <2>1, RequestFields DEF Lock
  <1>2. CASE r.op = "assign"
    <2>1. LockOrder(r) = << <<"bank_assignment", r.account>>, <<"bank_assignment_key", r.key>> >>
      BY <1>2 DEF LockOrder
    <2>2. QED BY <1>2, <2>1, RequestFields DEF Lock
  <1>3. CASE r.op = "ingest"
    <2> DEFINE identity == <<"bank_statement_identity",
                             <<r.account, Parsed[r.artifact].identity>>>>
    <2>1. LockOrder(r) = << <<"bank_statement", r.key>>, <<"bank_statement_hash", r.artifact>>,
                            identity >>
      BY <1>3 DEF LockOrder
    <2>2. /\ <<"bank_statement", r.key>> \in Lock /\ <<"bank_statement_hash", r.artifact>> \in Lock
          /\ identity \in Lock
      BY <1>3, RequestFields DEF Lock
    <2>3. QED BY <1>3, <2>1, <2>2
  <1>4. QED BY <1>1, <1>2, <1>3, RequestFields

\* The row a command inserts is of its table, and the only one.
LEMMA RowOfRequest ==
    ASSUME NEW r \in Requests
    PROVE  /\ RowsOf(r) \in Tables
           /\ r.op = "register" =>
                /\ RowOf(r) \in Account /\ RowOf(r).account = r.account
                /\ RowOf(r).evidence = r.evidence
           /\ r.op = "assign" => RowOf(r) \in Binding /\ RowOf(r).key = r.key
           /\ r.op = "ingest" =>
                /\ RowOf(r) \in Statement
                /\ RowOf(r).key = r.key /\ RowOf(r).account = r.account
                /\ RowOf(r).artifact = r.artifact
                /\ RowOf(r).identity = Parsed[r.artifact].identity
                /\ RowOf(r).payload = Parsed[r.artifact].payload
  <1>1. /\ r.op = "register" => RowOf(r) \in Account
        /\ r.op = "assign" => RowOf(r) \in Binding
        /\ r.op = "ingest" => RowOf(r) \in Statement
    BY RequestFields DEF RowOf, Account, Binding, Statement
  <1>2. RowsOf(r) \in Tables
    BY <1>1 DEF RowsOf, Tables
  <1>3. QED BY <1>1, <1>2 DEF RowOf

-----------------------------------------------------------------------------
(* The invariant *)

\* A command holds its locks in their order, all of them once it checks.
Placed(s) ==
    /\ pc[s] = "idle" => req[s] = NoRequest /\ held[s] = <<>>
    /\ pc[s] # "idle" => req[s] \in Requests
    /\ pc[s] = "lock" => Len(held[s]) < Len(LockOrder(req[s]))
    /\ pc[s] \in {"check", "insert", "commit"} => Len(held[s]) = Len(LockOrder(req[s]))
    /\ \A i \in 1..Len(held[s]) : held[s][i] = LockOrder(req[s])[i]
    /\ pend[s] = IF pc[s] = "commit" THEN RowsOf(req[s]) ELSE NoRows

\* No lock is held twice.
LocksExclude == \A s, t \in Sessions, lock \in Lock :
                    Holds(s, lock) /\ Holds(t, lock) => s = t

\* No row has the key under which the locks admit the command.
FreshIn(rows, r) ==
    IF r.op = "assign" THEN \A b \in rows.bindings : b.key # r.key ELSE ~HasRival(rows, r)
Checked(s) ==
    /\ pc[s] \in {"insert", "commit"} => FreshIn(db, req[s])
    /\ pc[s] = "commit" => /\ ~HasRival(db, req[s])
                           /\ \A t \in Sessions \ {s} : ~HasRival(pend[t], req[s])
    /\ pc[s] \in {"check", "insert", "commit"} /\ req[s].op = "ingest" => AccountFits(req[s])
    /\ pc[s] \in {"insert", "commit"} /\ req[s].op = "ingest" /\ StoreIsDurable =>
         req[s].artifact \in store

\* The unique keys of the committed rows, and what their documents say.
RowsAreUnique ==
    /\ \A b, c \in db.bindings : BindingRival(b, c) => b = c
    /\ \A st, u \in db.statements : StatementRival(st, u) => st = u
StatementsFit ==
    \A st \in db.statements :
        /\ st.identity = Parsed[st.artifact].identity
        /\ st.payload = Parsed[st.artifact].payload
        /\ [account |-> st.account, evidence |-> Parsed[st.artifact].evidence] \in db.accounts
        /\ StoreIsDurable => st.artifact \in store

\* AnswersFitEvidence, of one answer.
AnswerFits(a) ==
    CASE a.req.op = "register" -> a.row = RowOf(a.req) /\ a.row \in db.accounts
      [] a.req.op = "assign" -> a.row = RowOf(a.req) /\ a.row \in db.bindings
      [] a.req.op = "ingest" ->
           /\ a.row \in db.statements
           /\ a.row.payload = Parsed[a.req.artifact].payload
           /\ a.row.identity = Parsed[a.req.artifact].identity
           /\ [account |-> a.row.account, evidence |-> Parsed[a.req.artifact].evidence]
                \in db.accounts

Registry ==
    /\ TypeOK
    /\ \A s \in Sessions : Placed(s) /\ Checked(s)
    /\ LocksExclude
    /\ RowsAreUnique
    /\ StatementsFit
    /\ AnswersFitEvidence

-----------------------------------------------------------------------------
(* Two commands that hold all their locks *)

\* They have no key in common.
LEMMA LocksKeepApart ==
    ASSUME Registry, NEW s \in Sessions, NEW t \in Sessions \ {s},
           pc[s] \in {"check", "insert", "commit"}, pc[t] \in {"check", "insert", "commit"}
    PROVE  FreshIn(RowsOf(req[t]), req[s])
  <1> DEFINE r == req[s]
             q == req[t]
  <1>1. /\ r \in Requests /\ q \in Requests
        /\ Len(held[s]) = Len(LockOrder(r)) /\ Len(held[t]) = Len(LockOrder(q))
        /\ \A i \in 1..Len(held[s]) : held[s][i] = LockOrder(r)[i]
        /\ \A i \in 1..Len(held[t]) : held[t][i] = LockOrder(q)[i]
    BY DEF Registry, Placed
  <1>2. /\ LockOrder(r) \in Seq(Lock) /\ LockOrder(q) \in Seq(Lock)
        /\ Len(LockOrder(r)) \in 1..3 /\ Len(LockOrder(q)) \in 1..3
    BY <1>1, LocksOfRequest
  <1>3. \A i \in 1..Len(LockOrder(r)), k \in 1..Len(LockOrder(q)) :
           LockOrder(r)[i] # LockOrder(q)[k]
    <2> SUFFICES ASSUME NEW i \in 1..Len(LockOrder(r)), NEW k \in 1..Len(LockOrder(q)),
                        LockOrder(r)[i] = LockOrder(q)[k]
                 PROVE  FALSE
      OBVIOUS
    <2>1. LockOrder(r)[i] \in Lock
      BY <1>2
    <2>2. Holds(s, LockOrder(r)[i]) /\ Holds(t, LockOrder(r)[i])
      BY <1>1 DEF Holds
    <2>3. QED BY <2>1, <2>2 DEF Registry, LocksExclude
  <1>4. CASE r.op = "register"
    <2>1. q.op = "register" => q.account # r.account
      BY <1>1, <1>3, <1>4, LocksOfRequest
    <2>2. \A a \in RowsOf(q).accounts : a.account # r.account
      <3>1. RowsOf(q).accounts = IF q.op = "register" THEN {RowOf(q)} ELSE {}
        BY DEF RowsOf
      <3>2. q.op = "register" => RowOf(q).account = q.account
        BY <1>1, RowOfRequest
      <3>3. QED BY <2>1, <3>1, <3>2
    <2>3. QED BY <1>4, <2>2 DEF FreshIn, HasRival
  <1>5. CASE r.op = "assign"
    <2>1. q.op = "assign" => q.key # r.key
      <3>1. Len(LockOrder(r)) = 2 /\ LockOrder(r)[2] = <<"bank_assignment_key", r.key>>
        BY <1>1, <1>5, LocksOfRequest
      <3>2. q.op = "assign" => /\ Len(LockOrder(q)) = 2
                               /\ LockOrder(q)[2] = <<"bank_assignment_key", q.key>>
        BY <1>1, LocksOfRequest
      <3>3. q.op = "assign" => LockOrder(r)[2] # LockOrder(q)[2]
        BY <1>3, <3>1, <3>2
      <3>4. QED BY <3>1, <3>2, <3>3
    <2>2. \A b \in RowsOf(q).bindings : b.key # r.key
      <3>1. RowsOf(q).bindings = IF q.op = "assign" THEN {RowOf(q)} ELSE {}
        BY DEF RowsOf
      <3>2. q.op = "assign" => RowOf(q).key = q.key
        BY <1>1, RowOfRequest
      <3>3. QED BY <2>1, <3>1, <3>2
    <2>3. QED BY <1>5, <2>2 DEF FreshIn
  <1>6. CASE r.op = "ingest"
    <2>1. q.op = "ingest" =>
            /\ q.key # r.key /\ q.artifact # r.artifact
            /\ <<q.account, Parsed[q.artifact].identity>> # <<r.account, Parsed[r.artifact].identity>>
      <3>1. /\ Len(LockOrder(r)) = 3
            /\ LockOrder(r)[1] = <<"bank_statement", r.key>>
            /\ LockOrder(r)[2] = <<"bank_statement_hash", r.artifact>>
            /\ LockOrder(r)[3] = <<"bank_statement_identity",
                                   <<r.account, Parsed[r.artifact].identity>>>>
        BY <1>1, <1>6, LocksOfRequest
      <3>2. SUFFICES ASSUME q.op = "ingest"
                     PROVE  /\ q.key # r.key /\ q.artifact # r.artifact
                            /\ <<q.account, Parsed[q.artifact].identity>>
                                 # <<r.account, Parsed[r.artifact].identity>>
        OBVIOUS
      <3>3. /\ Len(LockOrder(q)) = 3
            /\ LockOrder(q)[1] = <<"bank_statement", q.key>>
            /\ LockOrder(q)[2] = <<"bank_statement_hash", q.artifact>>
            /\ LockOrder(q)[3] = <<"bank_statement_identity",
                                   <<q.account, Parsed[q.artifact].identity>>>>
        BY <1>1, <3>2, LocksOfRequest
      <3>4. \A i \in 1..3 : LockOrder(r)[i] # LockOrder(q)[i]
        BY <1>3, <3>1, <3>3
      <3>5. /\ LockOrder(r)[1] # LockOrder(q)[1]
            /\ LockOrder(r)[2] # LockOrder(q)[2]
            /\ LockOrder(r)[3] # LockOrder(q)[3]
        BY <3>4
      <3>6. QED BY <3>1, <3>3, <3>5
    <2>2. \A st \in RowsOf(q).statements : ~StatementRival(st, RowOf(r))
      <3>1. RowsOf(q).statements = IF q.op = "ingest" THEN {RowOf(q)} ELSE {}
        BY DEF RowsOf
      <3>2. /\ RowOf(r).key = r.key /\ RowOf(r).artifact = r.artifact
            /\ RowOf(r).account = r.account
            /\ RowOf(r).identity = Parsed[r.artifact].identity
        BY <1>1, <1>6, RowOfRequest
      <3>3. q.op = "ingest" =>
              /\ RowOf(q).key = q.key /\ RowOf(q).artifact = q.artifact
              /\ RowOf(q).account = q.account
              /\ RowOf(q).identity = Parsed[q.artifact].identity
        BY <1>1, RowOfRequest
      <3> HIDE DEF r, q
      <3>4. QED BY <2>1, <3>1, <3>2, <3>3 DEF StatementRival
    <2>3. QED BY <1>6, <2>2 DEF FreshIn, HasRival
  <1>7. QED BY <1>1, <1>4, <1>5, <1>6, RequestFields

\* An empty transaction is in nobody's way.
LEMMA NoRowsNoRival ==
    ASSUME NEW r \in Requests
    PROVE  ~HasRival(NoRows, r) /\ FreshIn(NoRows, r)
  BY RequestFields DEF HasRival, FreshIn, NoRows

\* Existing finds every row with a key of the command, so that the check leaves
\* the command a fresh key.
LEMMA ExistingFindsKeys ==
    ASSUME NEW r \in Requests, Existing(r) = {}
    PROVE  FreshIn(db, r)
  <1>1. CASE r.op = "register"
    BY <1>1 DEF Existing, SameAccount, FreshIn, HasRival
  <1>2. CASE r.op = "assign"
    BY <1>2 DEF Existing, SameKey, FreshIn
  <1>3. CASE r.op = "ingest"
    <2>1. KnownKey(r) = {} /\ KnownBytes(r) = {} /\ KnownIdentity(r) = {}
      BY <1>3 DEF Existing
    <2>2. \A st \in db.statements : ~StatementRival(st, RowOf(r))
      BY <1>3, <2>1, RowOfRequest DEF KnownKey, KnownBytes, KnownIdentity, StatementRival
    <2>3. QED BY <1>3, <2>2 DEF FreshIn, HasRival
  <1>4. QED BY <1>1, <1>2, <1>3, RequestFields

-----------------------------------------------------------------------------
(* What a step leaves alone *)

\* Rows and answers that stay keep what holds of them; stored documents stay.
LEMMA TablesStay ==
    ASSUME Registry, db' = db, answers' = answers, StoreIsDurable => store \subseteq store'
    PROVE  RowsAreUnique' /\ StatementsFit' /\ AnswersFitEvidence'
  <1>1. RowsAreUnique'
    BY DEF Registry, RowsAreUnique
  <1>2. StatementsFit'
    BY DEF Registry, StatementsFit
  <1>3. AnswersFitEvidence'
    BY DEF Registry, AnswersFitEvidence
  <1>4. QED BY <1>1, <1>2, <1>3

\* A session keeps its place while another, s, takes a step without a commit.
LEMMA SessionStays ==
    ASSUME Registry, NEW s \in Sessions, NEW t \in Sessions \ {s},
           pc'[t] = pc[t], req'[t] = req[t], held'[t] = held[t],
           \A u \in Sessions \ {s} : pend'[u] = pend[u],
           pc[t] = "commit" => ~HasRival(pend'[s], req[t]),
           db' = db, StoreIsDurable => store \subseteq store'
    PROVE  Placed(t)' /\ Checked(t)'
  <1>1. Placed(t)'
    BY DEF Registry, Placed
  <1>2. Checked(t)'
    BY DEF Registry, Checked, FreshIn, HasRival, AccountFits
  <1>3. QED BY <1>1, <1>2

\* Locks that are only kept or let go stay exclusive.
LEMMA LocksStay ==
    ASSUME Registry, NEW s \in Sessions,
           \A t \in Sessions \ {s} : held'[t] = held[t],
           held'[s] = held[s] \/ held'[s] = <<>>
    PROVE  LocksExclude'
  BY DEF Registry, LocksExclude, Holds

\* A command that ends, with an answer that fits or none, changing no row.
LEMMA EndStays ==
    ASSUME Registry, NEW s \in Sessions, Finish(s), db' = db,
           store' = store, TypeOK', AnswersFitEvidence'
    PROVE  Registry'
  <1>1. /\ pc'[s] = "idle" /\ req'[s] = NoRequest /\ held'[s] = <<>> /\ pend'[s] = NoRows
        /\ \A t \in Sessions \ {s} : /\ pc'[t] = pc[t] /\ req'[t] = req[t]
                                     /\ held'[t] = held[t] /\ pend'[t] = pend[t]
    BY DEF Finish, Registry, TypeOK
  <1>2. Placed(s)' /\ Checked(s)'
    BY <1>1 DEF Placed, Checked
  <1>3. ASSUME NEW t \in Sessions \ {s}
        PROVE  Placed(t)' /\ Checked(t)'
    <2>1. pc[t] = "commit" => req[t] \in Requests
      BY DEF Registry, Placed
    <2>2. pc[t] = "commit" => ~HasRival(pend'[s], req[t])
      BY <1>1, <2>1, NoRowsNoRival
    <2>3. QED BY <1>1, <2>2, SessionStays
  <1>4. LocksExclude'
    BY <1>1, LocksStay
  <1>5. RowsAreUnique' /\ StatementsFit'
    BY DEF Registry, RowsAreUnique, StatementsFit
  <1>6. QED BY <1>2, <1>3, <1>4, <1>5 DEF Registry

-----------------------------------------------------------------------------
(* The actions *)

LEMMA RollbackStays ==
    ASSUME Registry, NEW s \in Sessions, Rollback(s)
    PROVE  Registry'
  <1>1. TypeOK'
    <2>1. NoRows \in Tables
      BY DEF NoRows, Tables
    <2>2. QED BY <2>1 DEF Rollback, Finish, Registry, TypeOK, Stages
  <1>2. AnswersFitEvidence'
    BY DEF Rollback, Registry, AnswersFitEvidence
  <1>3. QED BY <1>1, <1>2, EndStays DEF Rollback

LEMMA BeginStays ==
    ASSUME Registry, NEW s \in Sessions, Begin(s)
    PROVE  Registry'
  <1>1. PICK r \in Requests : req' = [req EXCEPT ![s] = r]
    BY DEF Begin
  <1>2. /\ pc[s] = "idle" /\ pc'[s] = "lock" /\ req'[s] = r
        /\ held' = held /\ pend' = pend /\ held[s] = <<>> /\ pend[s] = NoRows
        /\ UNCHANGED <<db, store, answers>>
        /\ \A t \in Sessions \ {s} : pc'[t] = pc[t] /\ req'[t] = req[t]
    BY <1>1 DEF Begin, Registry, TypeOK, Placed
  <1>3. TypeOK'
    BY <1>1, BoundAssumption DEF Begin, Registry, TypeOK, Stages
  <1>4. Placed(s)' /\ Checked(s)'
    <2>1. Len(LockOrder(r)) \in 1..3
      BY LocksOfRequest
    <2>2. QED BY <1>2, <2>1 DEF Placed, Checked
  <1>5. ASSUME NEW t \in Sessions \ {s}
        PROVE  Placed(t)' /\ Checked(t)'
    <2>1. pc[t] = "commit" => ~HasRival(pend'[s], req[t])
      BY <1>2, NoRowsNoRival DEF Registry, Placed
    <2>2. QED BY <1>2, <2>1, SessionStays
  <1>6. LocksExclude'
    BY <1>2, LocksStay
  <1>7. QED BY <1>2, <1>3, <1>4, <1>5, <1>6, TablesStay DEF Registry

\* Restart: an artifact store that dies with the process is not durable.
LEMMA RestartStays ==
    ASSUME Registry, Restart
    PROVE  Registry'
  <1>1. \A s \in Sessions : /\ pc'[s] = "idle" /\ req'[s] = NoRequest
                            /\ held'[s] = <<>> /\ pend'[s] = NoRows
    BY DEF Restart
  <1>2. TypeOK'
    BY DEF Restart, Registry, TypeOK, Stages, NoRows, Tables
  <1>3. \A s \in Sessions : Placed(s)' /\ Checked(s)'
    BY <1>1 DEF Placed, Checked
  <1>4. LocksExclude'
    BY <1>1 DEF LocksExclude, Holds
  <1>5. RowsAreUnique' /\ StatementsFit' /\ AnswersFitEvidence'
    BY TablesStay DEF Restart
  <1>6. QED BY <1>2, <1>3, <1>4, <1>5 DEF Registry

\* AcquireLock: an advisory lock is granted when no other session holds it.
LEMMA AcquireLockStays ==
    ASSUME Registry, NEW s \in Sessions, AcquireLock(s)
    PROVE  Registry'
  <1> DEFINE r == req[s]
             n == Len(held[s])
  <1>1. /\ pc[s] = "lock" /\ r \in Requests /\ held[s] \in Seq(Lock)
        /\ n < Len(LockOrder(r)) /\ n \in Nat
        /\ \A i \in 1..n : held[s][i] = LockOrder(r)[i]
        /\ pend[s] = NoRows
    BY DEF AcquireLock, Registry, TypeOK, Placed
  <1>2. /\ LockOrder(r) \in Seq(Lock) /\ Len(LockOrder(r)) \in 1..3
        /\ r.op = "ingest" => Len(LockOrder(r)) = 3
    BY <1>1, LocksOfRequest
  <1>3. NextLock(s) = LockOrder(r)[n + 1] /\ NextLock(s) \in Lock
    BY <1>1, <1>2 DEF NextLock
  <1>4. /\ held' = [held EXCEPT ![s] = Append(held[s], NextLock(s))]
        /\ pc' = [pc EXCEPT ![s] = IF n + 1 = Len(LockOrder(r)) THEN "check" ELSE "lock"]
        /\ UNCHANGED <<db, store, req, pend, answers, issued>>
    BY DEF AcquireLock, Goto
  <1>5. /\ held'[s] = Append(held[s], NextLock(s)) /\ Len(held'[s]) = n + 1
        /\ held'[s][n + 1] = NextLock(s) /\ \A i \in 1..n : held'[s][i] = held[s][i]
        /\ held'[s] \in Seq(Lock)
        /\ pc'[s] = IF n + 1 = Len(LockOrder(r)) THEN "check" ELSE "lock"
        /\ \A t \in Sessions \ {s} : held'[t] = held[t] /\ pc'[t] = pc[t]
    BY <1>1, <1>3, <1>4 DEF Registry, TypeOK
  <1>6. TypeOK'
    BY <1>4, <1>5 DEF Registry, TypeOK, Stages
  <1>7. Placed(s)'
    <2>1. \A i \in 1..(n + 1) : held'[s][i] = LockOrder(r)[i]
      BY <1>1, <1>3, <1>5
    <2>2. QED BY <1>1, <1>2, <1>4, <1>5, <2>1 DEF Placed
  <1>8. Checked(s)'
    <2>1. pc'[s] = "check" /\ r.op = "ingest" => AccountFits(r)
      <3>1. pc'[s] = "check" /\ r.op = "ingest" => n = 2
        <4>1. pc'[s] = "check" => n + 1 = Len(LockOrder(r))
          BY <1>5
        <4>2. n \in Nat
          BY <1>1
        <4>3. pc'[s] = "check" /\ r.op = "ingest" => n + 1 = 3
          BY <1>2, <4>1
        <4>4. n + 1 = 3 => n = 2
          <5> HIDE DEF n
          <5>1. QED BY <4>2
        <4>5. QED BY <4>3, <4>4
      <3>2. r.op = "ingest" /\ n = 2 => AccountFits(r)
        BY DEF AcquireLock, BeforeIdentityLock
      <3>3. QED BY <3>1, <3>2
    <2>2. AccountFits(r)' <=> AccountFits(r)
      BY <1>4 DEF AccountFits
    <2>3. pc'[s] \in {"lock", "check"} /\ req'[s] = r
      BY <1>4, <1>5
    <2>4. QED BY <1>4, <2>1, <2>2, <2>3 DEF Checked, AccountFits
  <1>9. ASSUME NEW t \in Sessions \ {s}
        PROVE  Placed(t)' /\ Checked(t)'
    <2>1. pc[t] = "commit" => ~HasRival(pend'[s], req[t])
      BY <1>1, <1>4, NoRowsNoRival DEF Registry, Placed
    <2>2. QED BY <1>4, <1>5, <2>1, SessionStays
  <1>10. LocksExclude'
    <2>1. \A lock \in Lock : Holds(s, lock)' <=> Holds(s, lock) \/ lock = NextLock(s)
      BY <1>1, <1>5 DEF Holds
    <2>2. \A t \in Sessions \ {s}, lock \in Lock : Holds(t, lock)' <=> Holds(t, lock)
      BY <1>5 DEF Holds
    <2>3. \A t \in Sessions \ {s} : ~Holds(t, NextLock(s))
      BY DEF AcquireLock, Free
    <2>4. QED BY <2>1, <2>2, <2>3 DEF LocksExclude, Registry
  <1>11. QED BY <1>4, <1>6, <1>7, <1>8, <1>9, <1>10, TablesStay DEF Registry

\* ReplayRow: the row met has the command's evidence, whatever it was met by.
LEMMA ReplayFits ==
    ASSUME Registry, NEW s \in Sessions, pc[s] = "check",
           NEW row \in Existing(req[s]), SameCommand(row, req[s])
    PROVE  LET r == req[s]
               parsed == Parsed[r.artifact]
           IN  /\ r.op = "register" => row = RowOf(r) /\ row \in db.accounts
               /\ r.op = "assign" => row = RowOf(r) /\ row \in db.bindings
               /\ r.op = "ingest" =>
                    /\ row \in db.statements
                    /\ row.payload = parsed.payload /\ row.identity = parsed.identity
                    /\ [account |-> row.account, evidence |-> parsed.evidence] \in db.accounts
  <1> DEFINE r == req[s]
             parsed == Parsed[r.artifact]
  <1>1. r \in Requests
    BY DEF Registry, Placed
  <1>2. CASE r.op = "register"
    BY <1>2 DEF Existing, SameAccount, SameCommand
  <1>3. CASE r.op = "assign"
    BY <1>3 DEF Existing, SameKey, SameCommand
  <1>4. CASE r.op = "ingest"
    <2>1. row \in db.statements
      BY <1>4 DEF Existing, KnownKey, KnownBytes, KnownIdentity
    <2>2. /\ row.payload = parsed.payload
          /\ row.key = r.key => row.artifact = r.artifact
      BY <1>4 DEF SameCommand
    <2>3. row.key = r.key \/ row.artifact = r.artifact \/ row.account = r.account
      BY <1>4 DEF Existing, KnownKey, KnownBytes, KnownIdentity
    <2>4. row.identity = parsed.identity
      <3>1. row.artifact \in Artifacts /\ r.artifact \in Artifacts
        BY <1>1, <1>4, <2>1, RequestFields DEF Registry, TypeOK, Tables, Statement
      <3>2. row.identity = Parsed[row.artifact].identity
            /\ row.payload = Parsed[row.artifact].payload
        BY <2>1 DEF Registry, StatementsFit
      <3>3. QED BY <2>2, <3>1, <3>2, ParsedAssumption
    <2>5. [account |-> row.account, evidence |-> parsed.evidence] \in db.accounts
      <3>1. CASE row.artifact = r.artifact
        BY <2>1, <3>1 DEF Registry, StatementsFit
      <3>2. CASE row.account = r.account
        BY <1>4, <3>2 DEF Registry, Checked, AccountFits
      <3>3. QED BY <2>2, <2>3, <3>1, <3>2
    <2>6. QED BY <1>4, <2>1, <2>2, <2>4, <2>5
  <1>5. QED BY <1>1, <1>2, <1>3, <1>4, RequestFields

LEMMA ReplayRowStays ==
    ASSUME Registry, NEW s \in Sessions, ReplayRow(s)
    PROVE  Registry'
  <1> DEFINE r == req[s]
  <1>1. PICK row \in Existing(r) : SameCommand(row, r) /\ Replay(s, row)
    BY DEF ReplayRow
  <1>2. /\ answers' = answers \cup {[req |-> r, row |-> row]}
        /\ Finish(s) /\ UNCHANGED <<db, store>>
    BY <1>1 DEF Replay, Reply
  <1>3. /\ pc[s] = "check" /\ r \in Requests
    BY DEF ReplayRow, Registry, Placed
  <1>4. /\ r.op = "register" => row = RowOf(r) /\ row \in db.accounts
        /\ r.op = "assign" => row = RowOf(r) /\ row \in db.bindings
        /\ r.op = "ingest" =>
             /\ row \in db.statements
             /\ row.payload = Parsed[r.artifact].payload
             /\ row.identity = Parsed[r.artifact].identity
             /\ [account |-> row.account, evidence |-> Parsed[r.artifact].evidence] \in db.accounts
    BY <1>1, <1>3, ReplayFits
  <1>5. row \in Account \cup Binding \cup Statement
    BY <1>3, <1>4, RequestFields DEF Registry, TypeOK, Tables
  <1>6. TypeOK'
    <2>1. NoRows \in Tables
      BY DEF NoRows, Tables
    <2>2. QED BY <1>2, <1>3, <1>5, <2>1 DEF Finish, Registry, TypeOK, Stages
  <1>7. AnswersFitEvidence'
    <2>1. AnswerFits([req |-> r, row |-> row])
      BY <1>3, <1>4, RequestFields DEF AnswerFits
    <2>2. \A a \in answers : AnswerFits(a)
      BY DEF Registry, AnswersFitEvidence, AnswerFits
    <2>3. db' = db /\ \A a \in answers' : AnswerFits(a)
      BY <1>2, <2>1, <2>2
    <2>4. QED BY <2>3 DEF AnswersFitEvidence, AnswerFits
  <1>8. QED BY <1>2, <1>6, <1>7, EndStays

\* GoInsert: no row has a key of the command, and its document is stored.
LEMMA GoInsertStays ==
    ASSUME Registry, NEW s \in Sessions, GoInsert(s)
    PROVE  Registry'
  <1> DEFINE r == req[s]
  <1>1. /\ pc[s] = "check" /\ r \in Requests /\ pend[s] = NoRows /\ Existing(r) = {}
        /\ pc' = [pc EXCEPT ![s] = "insert"]
        /\ store' = IF r.op = "ingest" THEN store \cup {r.artifact} ELSE store
        /\ UNCHANGED <<db, req, held, pend, answers, issued>>
    BY DEF GoInsert, Goto, Registry, Placed
  <1>2. /\ pc'[s] = "insert" /\ \A t \in Sessions \ {s} : pc'[t] = pc[t]
    BY <1>1 DEF Registry, TypeOK
  <1>3. TypeOK'
    BY <1>1, RequestFields DEF Registry, TypeOK, Stages
  <1>4. Placed(s)'
    BY <1>1, <1>2 DEF Registry, Placed
  <1>5. Checked(s)'
    <2>1. FreshIn(db, r) /\ FreshIn(db, r)' = FreshIn(db, r)
      BY <1>1, ExistingFindsKeys DEF FreshIn, HasRival
    <2>2. r.op = "ingest" => AccountFits(r) /\ AccountFits(r)' = AccountFits(r)
      BY <1>1 DEF Registry, Checked, AccountFits
    <2>3. r.op = "ingest" => r.artifact \in store'
      BY <1>1
    <2>4. QED BY <1>1, <1>2, <2>1, <2>2, <2>3 DEF Checked, FreshIn, AccountFits
  <1>6. ASSUME NEW t \in Sessions \ {s}
        PROVE  Placed(t)' /\ Checked(t)'
    <2>1. pc[t] = "commit" => ~HasRival(pend'[s], req[t])
      BY <1>1, NoRowsNoRival DEF Registry, Placed
    <2>2. QED BY <1>1, <1>2, <2>1, SessionStays
  <1>7. LocksExclude'
    BY <1>1, LocksStay
  <1>8. QED BY <1>1, <1>3, <1>4, <1>5, <1>6, <1>7, TablesStay DEF Registry

\* Two rows collide whichever is inserted first.
LEMMA RivalsAreMutual ==
    ASSUME NEW r \in Requests, NEW q \in Requests, HasRival(RowsOf(q), r)
    PROVE  HasRival(RowsOf(r), q)
  <1>1. CASE r.op = "register"
    <2>1. q.op = "register" /\ RowOf(q).account = r.account
      BY <1>1 DEF HasRival, RowsOf
    <2>2. QED BY <1>1, <2>1, RowOfRequest DEF HasRival, RowsOf
  <1>2. CASE r.op = "assign"
    <2>1. q.op = "assign" /\ BindingRival(RowOf(q), RowOf(r))
      BY <1>2 DEF HasRival, RowsOf
    <2>2. QED BY <1>2, <2>1 DEF HasRival, RowsOf, BindingRival
  <1>3. CASE r.op = "ingest"
    <2>1. q.op = "ingest" /\ StatementRival(RowOf(q), RowOf(r))
      BY <1>3 DEF HasRival, RowsOf
    <2>2. QED BY <1>3, <2>1 DEF HasRival, RowsOf, StatementRival
  <1>4. QED BY <1>1, <1>2, <1>3, RequestFields

\* InsertRow: the insert waited for its rivals and met none.
LEMMA InsertRowStays ==
    ASSUME Registry, NEW s \in Sessions, InsertRow(s)
    PROVE  Registry'
  <1> DEFINE r == req[s]
  <1>1. /\ pc[s] = "insert" /\ r \in Requests /\ ~HasRival(db, r)
        /\ \A t \in Sessions \ {s} : ~HasRival(pend[t], r)
        /\ pc' = [pc EXCEPT ![s] = "commit"]
        /\ pend' = [pend EXCEPT ![s] = RowsOf(r)]
        /\ UNCHANGED <<db, store, req, held, answers, issued>>
    BY DEF InsertRow, InsertFits, InsertWaits, Goto, Registry, Placed
  <1>2. /\ pc'[s] = "commit" /\ pend'[s] = RowsOf(r)
        /\ \A t \in Sessions \ {s} : pc'[t] = pc[t] /\ pend'[t] = pend[t]
    BY <1>1 DEF Registry, TypeOK
  <1>3. TypeOK'
    BY <1>1, RowOfRequest DEF Registry, TypeOK, Stages
  <1>4. Placed(s)'
    BY <1>1, <1>2 DEF Registry, Placed
  <1>5. Checked(s)'
    <2>1. /\ FreshIn(db, r)
          /\ r.op = "ingest" => AccountFits(r)
          /\ r.op = "ingest" /\ StoreIsDurable => r.artifact \in store
      BY <1>1 DEF Registry, Checked
    <2>2. /\ FreshIn(db, r)' = FreshIn(db, r) /\ HasRival(db, r)' = HasRival(db, r)
          /\ AccountFits(r)' = AccountFits(r)
      BY <1>1 DEF FreshIn, HasRival, AccountFits
    <2>3. \A t \in Sessions \ {s} : ~HasRival(pend'[t], r)
      BY <1>1, <1>2
    <2>4. QED BY <1>1, <1>2, <2>1, <2>2, <2>3 DEF Checked, FreshIn, HasRival, AccountFits
  <1>6. ASSUME NEW t \in Sessions \ {s}
        PROVE  Placed(t)' /\ Checked(t)'
    <2>1. pc[t] = "commit" => ~HasRival(pend'[s], req[t])
      <3> SUFFICES ASSUME pc[t] = "commit", HasRival(RowsOf(r), req[t])
                   PROVE  FALSE
        BY <1>2
      <3>1. req[t] \in Requests /\ pend[t] = RowsOf(req[t])
        BY DEF Registry, Placed
      <3>2. HasRival(pend[t], r)
        BY <1>1, <3>1, RivalsAreMutual
      <3>3. QED BY <1>1, <3>2
    <2>2. QED BY <1>1, <1>2, <2>1, SessionStays
  <1>7. LocksExclude'
    BY <1>1, LocksStay
  <1>8. QED BY <1>1, <1>3, <1>4, <1>5, <1>6, <1>7, TablesStay DEF Registry

\* Commit: the command's row has no rival when it becomes visible, and gives no
\* other session one.
LEMMA CommitStays ==
    ASSUME Registry, NEW s \in Sessions, Commit(s)
    PROVE  Registry'
  <1> DEFINE r == req[s]
             new == RowOf(r)
             rows == RowsOf(r)
  <1>1. /\ pc[s] = "commit" /\ r \in Requests /\ pend[s] = rows
        /\ ~HasRival(db, r) /\ FreshIn(db, r)
        /\ \A t \in Sessions \ {s} : ~HasRival(pend[t], r)
        /\ r.op = "ingest" => AccountFits(r)
        /\ r.op = "ingest" /\ StoreIsDurable => r.artifact \in store
    BY DEF Commit, Registry, Placed, Checked
  <1>2. /\ db' = [accounts |-> db.accounts \cup rows.accounts,
                  bindings |-> db.bindings \cup rows.bindings,
                  statements |-> db.statements \cup rows.statements]
        /\ answers' = answers \cup {[req |-> r, row |-> new]}
        /\ Finish(s) /\ store' = store
    BY <1>1 DEF Commit, Reply
  <1>3. /\ pc'[s] = "idle" /\ req'[s] = NoRequest /\ held'[s] = <<>> /\ pend'[s] = NoRows
        /\ \A t \in Sessions \ {s} : /\ pc'[t] = pc[t] /\ req'[t] = req[t]
                                     /\ held'[t] = held[t] /\ pend'[t] = pend[t]
    BY <1>2 DEF Finish, Registry, TypeOK
  <1>4. /\ rows.accounts = IF r.op = "register" THEN {new} ELSE {}
        /\ rows.bindings = IF r.op = "assign" THEN {new} ELSE {}
        /\ rows.statements = IF r.op = "ingest" THEN {new} ELSE {}
    BY DEF RowsOf
  <1>5. /\ RowsOf(r) \in Tables
        /\ r.op = "register" => new \in Account
        /\ r.op = "assign" => new \in Binding
        /\ r.op = "ingest" =>
             /\ new \in Statement
             /\ new.artifact = r.artifact /\ new.account = r.account
             /\ new.identity = Parsed[r.artifact].identity
             /\ new.payload = Parsed[r.artifact].payload
    BY <1>1, RowOfRequest
  <1>6. TypeOK'
    <2>1. NoRows \in Tables
      BY DEF NoRows, Tables
    <2>2. db' \in Tables
      BY <1>2, <1>5 DEF Registry, TypeOK, Tables
    <2>3. new \in Account \cup Binding \cup Statement
      BY <1>1, <1>5, RequestFields
    <2> HIDE DEF new
    <2>4. answers' \subseteq [req : Requests, row : Account \cup Binding \cup Statement]
      BY <1>1, <1>2, <2>3 DEF Registry, TypeOK
    <2>5. QED BY <1>2, <2>1, <2>2, <2>4 DEF Finish, Registry, TypeOK, Stages
  <1>7. Placed(s)' /\ Checked(s)'
    BY <1>3 DEF Placed, Checked
  <1>8. ASSUME NEW t \in Sessions \ {s}
        PROVE  Placed(t)' /\ Checked(t)'
    <2>1. Placed(t)'
      BY <1>3 DEF Registry, Placed
    <2>2. pc[t] # "idle" => req[t] \in Requests
      BY DEF Registry, Placed
    <2>3. pc[t] \in {"insert", "commit"} => FreshIn(db, req[t])'
      <3> SUFFICES ASSUME pc[t] \in {"insert", "commit"}
                   PROVE  FreshIn(db, req[t])'
        OBVIOUS
      <3>1. FreshIn(db, req[t]) /\ FreshIn(rows, req[t])
        BY <1>1, LocksKeepApart DEF Registry, Checked
      <3>2. req'[t] = req[t]
        BY <1>3
      <3> HIDE DEF rows
      <3>3. QED BY <1>2, <2>2, <3>1, <3>2, RequestFields DEF FreshIn, HasRival
    <2>4. pc[t] = "commit" => ~HasRival(db, req[t])'
      <3> SUFFICES ASSUME pc[t] = "commit"
                   PROVE  ~HasRival(db, req[t])'
        OBVIOUS
      <3>1. ~HasRival(db, req[t]) /\ ~HasRival(rows, req[t])
        BY <1>1 DEF Registry, Checked
      <3>2. req'[t] = req[t]
        BY <1>3
      <3> HIDE DEF rows
      <3>3. QED BY <1>2, <2>2, <3>1, <3>2, RequestFields DEF HasRival
    <2>5. pc[t] = "commit" => \A u \in Sessions \ {t} : ~HasRival(pend'[u], req[t])
      BY <1>3, <2>2, NoRowsNoRival DEF Registry, Checked
    <2>6. pc[t] \in {"check", "insert", "commit"} /\ req[t].op = "ingest" => AccountFits(req[t])'
      BY <1>2, <1>3 DEF Registry, Checked, AccountFits
    <2>7. pc[t] \in {"insert", "commit"} /\ req[t].op = "ingest" /\ StoreIsDurable =>
            req[t].artifact \in store'
      BY <1>2 DEF Registry, Checked
    <2>8. Checked(t)'
      BY <1>3, <2>3, <2>4, <2>5, <2>6, <2>7 DEF Checked
    <2>9. QED BY <2>1, <2>8
  <1>9. LocksExclude'
    BY <1>3, LocksStay
  <1>10. RowsAreUnique'
    <2>1. \A b \in rows.bindings, c \in db.bindings : ~BindingRival(c, b) /\ ~BindingRival(b, c)
      BY <1>1, <1>4 DEF HasRival, BindingRival
    <2>2. \A st \in rows.statements, u \in db.statements :
             ~StatementRival(u, st) /\ ~StatementRival(st, u)
      BY <1>1, <1>4 DEF HasRival, StatementRival
    <2>3. /\ \A b, c \in rows.bindings : b = c
          /\ \A st, u \in rows.statements : st = u
      BY <1>4
    <2> HIDE DEF rows
    <2>4. QED BY <1>2, <2>1, <2>2, <2>3 DEF Registry, RowsAreUnique
  <1>11. StatementsFit'
    <2>1. db.accounts \subseteq db'.accounts /\ db'.statements = db.statements \cup rows.statements
      BY <1>2
    <2>2. \A st \in rows.statements :
            /\ st.identity = Parsed[st.artifact].identity
            /\ st.payload = Parsed[st.artifact].payload
            /\ [account |-> st.account, evidence |-> Parsed[st.artifact].evidence] \in db.accounts
            /\ StoreIsDurable => st.artifact \in store
      BY <1>1, <1>4, <1>5 DEF AccountFits
    <2> HIDE DEF rows
    <2>3. QED BY <1>2, <2>1, <2>2 DEF Registry, StatementsFit
  <1>12. AnswersFitEvidence'
    <2>1. /\ db.accounts \subseteq db'.accounts /\ db.bindings \subseteq db'.bindings
          /\ db.statements \subseteq db'.statements
          /\ rows.accounts \subseteq db'.accounts /\ rows.bindings \subseteq db'.bindings
          /\ rows.statements \subseteq db'.statements
      BY <1>2
    <2>2. /\ r.op = "register" => new \in db'.accounts
          /\ r.op = "assign" => new \in db'.bindings
          /\ r.op = "ingest" =>
               /\ new \in db'.statements
               /\ new.payload = Parsed[r.artifact].payload
               /\ new.identity = Parsed[r.artifact].identity
               /\ [account |-> new.account, evidence |-> Parsed[r.artifact].evidence]
                    \in db'.accounts
      BY <1>1, <1>4, <1>5, <2>1 DEF AccountFits
    <2>3. ASSUME NEW a \in answers
          PROVE  AnswerFits(a)'
      <3>1. a.req \in Requests /\ AnswerFits(a)
        BY DEF Registry, TypeOK, AnswersFitEvidence, AnswerFits
      <3>2. QED BY <2>1, <3>1, RequestFields DEF AnswerFits
    <2>4. ASSUME NEW a \in answers', a.req = r, a.row = new
          PROVE  AnswerFits(a)'
      <3>1. a.req \in Requests /\ a.row = RowOf(a.req)
        BY <1>1, <2>4
      <3> HIDE DEF new
      <3>2. QED BY <2>2, <2>4, <3>1, RequestFields DEF AnswerFits
    <2>5. ASSUME NEW a \in answers'
          PROVE  AnswerFits(a)'
      <3>1. a \in answers \/ (a.req = r /\ a.row = new)
        BY <1>2
      <3>2. QED BY <2>3, <2>4, <3>1
    <2>6. QED BY <2>5 DEF AnswersFitEvidence, AnswerFits
  <1>13. QED BY <1>6, <1>7, <1>8, <1>9, <1>10, <1>11, <1>12 DEF Registry

-----------------------------------------------------------------------------
(* The theorems *)

LEMMA RegistryStarts == Init => Registry
  <1> SUFFICES ASSUME Init
               PROVE  Registry
    OBVIOUS
  <1>1. /\ db.accounts = Registered /\ db.bindings = {} /\ db.statements = {}
        /\ db = [accounts |-> Registered, bindings |-> {}, statements |-> {}]
    BY DEF Init, NoRows
  <1>2. TypeOK
    <2>1. db \in Tables /\ NoRows \in Tables
      BY <1>1, RegisteredAssumption DEF Tables, NoRows
    <2>2. held \in [Sessions -> Seq(Lock)] /\ 0 \in 0..MaxCommands
      BY BoundAssumption DEF Init
    <2>3. QED BY <2>1, <2>2 DEF Init, TypeOK, Stages
  <1>3. \A s \in Sessions : Placed(s) /\ Checked(s)
    <2> SUFFICES ASSUME NEW s \in Sessions
                 PROVE  Placed(s) /\ Checked(s)
      OBVIOUS
    <2>1. pc[s] = "idle" /\ req[s] = NoRequest /\ held[s] = <<>> /\ pend[s] = NoRows
      BY DEF Init
    <2>2. QED BY <2>1 DEF Placed, Checked
  <1>4. LocksExclude
    BY DEF Init, LocksExclude, Holds
  <1>5. RowsAreUnique /\ StatementsFit
    BY <1>1 DEF RowsAreUnique, StatementsFit
  <1>6. AnswersFitEvidence
    BY DEF Init, AnswersFitEvidence
  <1>7. QED BY <1>2, <1>3, <1>4, <1>5, <1>6 DEF Registry

LEMMA RegistryStep == Registry /\ [Next]_vars => Registry'
  <1> SUFFICES ASSUME Registry, [Next]_vars
               PROVE  Registry'
    OBVIOUS
  <1>1. CASE Restart
    BY <1>1, RestartStays
  <1>2. ASSUME NEW s \in Sessions, Begin(s) \/ Abort(s)
        PROVE  Registry'
    BY <1>2, BeginStays, RollbackStays DEF Abort
  <1>3. ASSUME NEW s \in Sessions, Step(s)
        PROVE  Registry'
    BY <1>3, AcquireLockStays, RollbackStays, ReplayRowStays, GoInsertStays, InsertRowStays,
       CommitStays DEF Step, RefuseAccount, RefuseCheck, RefuseInsert
  <1>4. CASE UNCHANGED vars
    <2>1. TypeOK' /\ LocksExclude'
      BY <1>4 DEF vars, Registry, TypeOK, LocksExclude, Holds
    <2>2. ASSUME NEW s \in Sessions
          PROVE  Placed(s)' /\ Checked(s)'
      <3>1. Placed(s)'
        BY <1>4 DEF vars, Registry, Placed
      <3>2. Checked(s)'
        BY <1>4 DEF vars, Registry, Checked, FreshIn, HasRival, AccountFits
      <3>3. QED BY <3>1, <3>2
    <2>3. QED BY <1>4, <2>1, <2>2, TablesStay DEF vars, Registry
  <1>5. QED BY <1>1, <1>2, <1>3, <1>4 DEF Next

\* In every state: sessions hold their locks, and rows and answers fit together.
THEOREM RegistryAlways == Spec => []Registry
  BY RegistryStarts, RegistryStep, PTL DEF Spec

\* The tables, the artifact store and the session slots keep their types.
THEOREM RegistryTyped == Spec => []TypeOK
  <1>1. Registry => TypeOK
    BY DEF Registry
  <1>2. QED BY <1>1, RegistryAlways, PTL

\* accept_bank_account_record, accept_bank_statement_evidence: the unique keys of
\* 0011 and 0012 never refuse a command that came past its locks and checks,
\* except an assignment for the active binding it would double.
THEOREM OnlyActiveBindingsCollideHolds == Spec => []OnlyActiveBindingsCollide
  <1>1. ASSUME Registry
        PROVE  OnlyActiveBindingsCollide
    <2> SUFFICES ASSUME NEW s \in Sessions, pc[s] = "insert",
                        NEW rows \in {db} \cup {pend[t] : t \in Sessions \ {s}}
                 PROVE  FreshIn(rows, req[s])
      BY DEF OnlyActiveBindingsCollide, FreshIn
    <2>1. CASE rows = db
      BY <1>1, <2>1 DEF Registry, Checked
    <2>2. ASSUME NEW t \in Sessions \ {s}, rows = pend[t]
          PROVE  FreshIn(rows, req[s])
      <3>1. CASE pc[t] = "commit"
        BY <1>1, <2>2, <3>1, LocksKeepApart DEF Registry, Placed
      <3>2. CASE pc[t] # "commit"
        BY <1>1, <2>2, <3>2, NoRowsNoRival DEF Registry, Placed
      <3>3. QED BY <3>1, <3>2
    <2>3. QED BY <2>1, <2>2
  <1>2. QED BY <1>1, RegistryAlways, PTL

\* accept_bank_account_assignment: one open-ended binding of an account to a
\* book at most, although the partial unique index is all that enforces it.
THEOREM OneActiveBindingHolds == Spec => []OneActiveBinding
  <1>1. Registry => OneActiveBinding
    BY DEF Registry, RowsAreUnique, BindingRival, OneActiveBinding
  <1>2. QED BY <1>1, RegistryAlways, PTL

\* A success stays true and is about what was sent, whatever the row was met by.
THEOREM AnswersFitEvidenceHolds == Spec => []AnswersFitEvidence
  <1>1. Registry => AnswersFitEvidence
    BY DEF Registry
  <1>2. QED BY <1>1, RegistryAlways, PTL

\* accept_bank_statement_evidence: deliveries of the same bytes, under any keys
\* and from any sessions, are answered with one statement.
THEOREM SameBytesSameStatementHolds == Spec => []SameBytesSameStatement
  <1>1. ASSUME Registry
        PROVE  SameBytesSameStatement
    <2> SUFFICES ASSUME \A x, y \in db.accounts : x.evidence = y.evidence => x = y,
                        NEW a \in answers, NEW b \in answers,
                        a.req.op = "ingest", b.req.op = "ingest",
                        a.req.artifact = b.req.artifact
                 PROVE  a.row = b.row
      BY DEF SameBytesSameStatement
    <2> DEFINE parsed == Parsed[a.req.artifact]
               of(row) == [account |-> row.account, evidence |-> parsed.evidence]
    <2>1. AnswerFits(a) /\ AnswerFits(b)
      BY <1>1 DEF Registry, AnswersFitEvidence, AnswerFits
    <2>2. /\ a.row \in db.statements /\ b.row \in db.statements
          /\ a.row.identity = parsed.identity /\ b.row.identity = parsed.identity
          /\ of(a.row) \in db.accounts /\ of(b.row) \in db.accounts
      BY <2>1 DEF AnswerFits
    <2>3. of(a.row) = of(b.row)
      BY <2>2
    <2>4. a.row.account = b.row.account
      BY <2>3
    <2>5. StatementRival(a.row, b.row)
      BY <2>2, <2>4 DEF StatementRival
    <2>6. QED BY <1>1, <2>2, <2>5 DEF Registry, RowsAreUnique
  <1>2. QED BY <1>1, RegistryAlways, PTL

\* accept_bank_statement_evidence stores the document before it inserts the row,
\* so that a receipt's bytes are kept, whatever fails or restarts in between.
THEOREM ReceiptHasBytesHolds == Spec => []ReceiptHasBytes
  <1>1. ASSUME Registry
        PROVE  ReceiptHasBytes
    <2> SUFFICES ASSUME StoreIsDurable, NEW a \in answers, a.req.op = "ingest"
                 PROVE  a.row.artifact \in store
      BY DEF ReceiptHasBytes
    <2>1. a.row \in db.statements
      BY <1>1 DEF Registry, AnswersFitEvidence
    <2>2. QED BY <1>1, <2>1 DEF Registry, StatementsFit
  <1>2. QED BY <1>1, RegistryAlways, PTL
=============================================================================
