----------------------- MODULE BankStatementRegistry -----------------------
(***************************************************************************)
(* The bank-statement registry of one tenant: accept_bank_account_record,  *)
(* accept_bank_account_assignment and accept_bank_statement_evidence, with *)
(* the unique keys of migrations 0011 and 0012 and the host's artifact     *)
(* store, which is no part of any database transaction.                    *)
(*                                                                         *)
(* A statement document is its source_artifact_hash; what the parser makes *)
(* of it is the constant function Parsed.  A bank account's currency and   *)
(* identifier hash are one value, its evidence.                            *)
(***************************************************************************)
EXTENDS Integers, Sequences

CONSTANTS Sessions,        \* concurrent database connections
          Accounts,        \* bank account references
          Evidence,        \* currency and identifier hash of an account
          Books, Charts,   \* accounting books, chart account codes
          Catalog,         \* the chart accounts recorded on each book
          Keys,            \* idempotency keys
          Artifacts,       \* statement documents, by their SHA-256
          Identities,      \* statement identity references
          Payloads,        \* normalized payload hashes
          Parsed,          \* what the parser reads from each document
          Requests,        \* the commands callers issue
          Registered,      \* accounts on record from the start
          StoreIsDurable,  \* the artifact store outlives the process
          MaxCommands,     \* bound on the commands issued in a behaviour
          NoRequest, NoEnd \* model values: no command; valid_to IS NULL

Account == [account : Accounts, evidence : Evidence]
Binding == [account : Accounts, book : Books, chart : Charts,
            from : Nat, to : Nat \cup {NoEnd}, key : Keys]
Statement == [account : Accounts, artifact : Artifacts, identity : Identities,
              payload : Payloads, key : Keys]

RegisterRequest == [op : {"register"}, account : Accounts, evidence : Evidence]
AssignRequest == [op : {"assign"}, account : Accounts, book : Books, chart : Charts,
                  from : Nat, to : Nat \cup {NoEnd}, key : Keys]
IngestRequest == [op : {"ingest"}, account : Accounts, artifact : Artifacts, key : Keys]

ASSUME RequestsAssumption == Requests \subseteq RegisterRequest \cup AssignRequest \cup IngestRequest
ASSUME CatalogAssumption == Catalog \subseteq Books \X Charts
\* The normalized payload holds the statement's identity.
ASSUME ParsedAssumption ==
    /\ Parsed \in [Artifacts -> [identity : Identities, payload : Payloads, evidence : Evidence]]
    /\ \A a, b \in Artifacts :
         Parsed[a].payload = Parsed[b].payload => Parsed[a].identity = Parsed[b].identity
ASSUME RegisteredAssumption ==
    /\ Registered \subseteq Account
    /\ \A a, b \in Registered : a.account = b.account => a = b
ASSUME BoundAssumption == MaxCommands \in Nat /\ StoreIsDurable \in BOOLEAN
ASSUME NothingAssumption == NoRequest \notin Requests /\ NoEnd \notin Nat

Tables == [accounts : SUBSET Account, bindings : SUBSET Binding, statements : SUBSET Statement]
Lock == {"bank_account", "bank_assignment"} \X Accounts
        \cup {"bank_assignment_key", "bank_statement"} \X Keys
        \cup {"bank_statement_hash"} \X Artifacts
        \cup {"bank_statement_identity"} \X (Accounts \X Identities)
Stages == {"idle", "lock", "check", "insert", "commit"}

VARIABLES db,       \* the committed rows
          store,    \* the documents the artifact store holds
          pc,       \* what each session does next
          req,      \* the command each session serves
          held,     \* the advisory locks each session holds, in order
          pend,     \* each session's uncommitted rows
          answers,  \* the successful responses given so far
          issued    \* the number of commands issued
vars == <<db, store, pc, req, held, pend, answers, issued>>

NoRows == [accounts |-> {}, bindings |-> {}, statements |-> {}]

-----------------------------------------------------------------------------
(* Sessions and locks *)

\* MUTANT: the digest of the document is not locked.
LockOrderNoHash(r) ==
    CASE r.op = "register" -> << <<"bank_account", r.account>> >>
      [] r.op = "assign" -> << <<"bank_assignment", r.account>>, <<"bank_assignment_key", r.key>> >>
      [] r.op = "ingest" -> << <<"bank_statement", r.key>>, <<"bank_statement", r.key>>,
                               <<"bank_statement_identity",
                                 <<r.account, Parsed[r.artifact].identity>>>> >>
\* The advisory locks of a command, in the order in which it takes them.
LockOrder(r) ==
    CASE r.op = "register" -> << <<"bank_account", r.account>> >>
      [] r.op = "assign" -> << <<"bank_assignment", r.account>>, <<"bank_assignment_key", r.key>> >>
      [] r.op = "ingest" -> << <<"bank_statement", r.key>>, <<"bank_statement_hash", r.artifact>>,
                               <<"bank_statement_identity",
                                 <<r.account, Parsed[r.artifact].identity>>>> >>
NextLock(s) == LockOrder(req[s])[Len(held[s]) + 1]
Holds(s, lock) == \E i \in 1..Len(held[s]) : held[s][i] = lock
Free(s, lock) == \A t \in Sessions \ {s} : ~Holds(t, lock)

Finish(s) ==
    /\ pc' = [pc EXCEPT ![s] = "idle"]
    /\ req' = [req EXCEPT ![s] = NoRequest]
    /\ held' = [held EXCEPT ![s] = <<>>]
    /\ pend' = [pend EXCEPT ![s] = NoRows]
    /\ UNCHANGED issued
\* MUTANT: a failed command takes its document out of the artifact store.
RollbackWithBytes(s) ==
    /\ Finish(s)
    /\ store' = IF req[s].op = "ingest" THEN store \ {req[s].artifact} ELSE store
    /\ UNCHANGED <<db, answers>>
Rollback(s) == Finish(s) /\ UNCHANGED <<db, store, answers>>
Reply(s, row) == answers' = answers \cup {[req |-> req[s], row |-> row]} /\ Finish(s)
Replay(s, row) == Reply(s, row) /\ UNCHANGED <<db, store>>
Goto(s, stage) == pc' = [pc EXCEPT ![s] = stage] /\ UNCHANGED <<db, req, answers, issued>>

Begin(s) ==
    /\ pc[s] = "idle"
    /\ issued < MaxCommands
    /\ \E r \in Requests : req' = [req EXCEPT ![s] = r]
    /\ pc' = [pc EXCEPT ![s] = "lock"]
    /\ issued' = issued + 1
    /\ UNCHANGED <<db, store, held, pend, answers>>

\* lock_timeout, a lost connection or any other raised error.
Abort(s) == pc[s] # "idle" /\ Rollback(s)

\* The process ends: every transaction rolls back, and a store that lives in
\* the process goes with it.
Restart ==
    /\ pc' = [s \in Sessions |-> "idle"]
    /\ req' = [s \in Sessions |-> NoRequest]
    /\ held' = [s \in Sessions |-> <<>>]
    /\ pend' = [s \in Sessions |-> NoRows]
    /\ store' = IF StoreIsDurable THEN store ELSE {}
    /\ UNCHANGED <<db, answers, issued>>

\* Before its last lock an ingest requires the account that the document names.
AccountFits(r) ==
    [account |-> r.account, evidence |-> Parsed[r.artifact].evidence] \in db.accounts
BeforeIdentityLock(s) == req[s].op = "ingest" /\ Len(held[s]) = 2

AcquireLock(s) ==
    /\ pc[s] = "lock"
    /\ BeforeIdentityLock(s) => AccountFits(req[s])
    /\ Free(s, NextLock(s))
    /\ held' = [held EXCEPT ![s] = Append(@, NextLock(s))]
    /\ Goto(s, IF Len(held[s]) + 1 = Len(LockOrder(req[s])) THEN "check" ELSE "lock")
    /\ UNCHANGED <<store, pend>>
RefuseAccount(s) ==
    /\ pc[s] = "lock"
    /\ BeforeIdentityLock(s)
    /\ ~AccountFits(req[s])
    /\ Rollback(s)

-----------------------------------------------------------------------------
(* Replay, conflict or a new row *)

\* MUTANT: two parameters of the INSERT change places.
RowOfSwapped(r) ==
    CASE r.op = "register" -> [account |-> r.account, evidence |-> r.evidence]
      [] r.op = "assign" -> [account |-> r.account, book |-> r.book, chart |-> r.chart,
                             from |-> r.from, to |-> r.to, key |-> r.key]
      [] r.op = "ingest" -> [account |-> r.account, artifact |-> r.artifact,
                             identity |-> Parsed[r.artifact].payload,
                             payload |-> Parsed[r.artifact].identity, key |-> r.key]
\* The row that a command inserts.
RowOf(r) ==
    CASE r.op = "register" -> [account |-> r.account, evidence |-> r.evidence]
      [] r.op = "assign" -> [account |-> r.account, book |-> r.book, chart |-> r.chart,
                             from |-> r.from, to |-> r.to, key |-> r.key]
      [] r.op = "ingest" -> [account |-> r.account, artifact |-> r.artifact,
                             identity |-> Parsed[r.artifact].identity,
                             payload |-> Parsed[r.artifact].payload, key |-> r.key]
\* The tables with only the command's own row.
RowsOf(r) ==
    [accounts |-> IF r.op = "register" THEN {RowOf(r)} ELSE {},
     bindings |-> IF r.op = "assign" THEN {RowOf(r)} ELSE {},
     statements |-> IF r.op = "ingest" THEN {RowOf(r)} ELSE {}]

SameAccount(r) == {a \in db.accounts : a.account = r.account}
SameKey(r) == {b \in db.bindings : b.key = r.key}
KnownKey(r) == {st \in db.statements : st.key = r.key}
KnownBytes(r) == {st \in db.statements : st.artifact = r.artifact}
KnownIdentity(r) ==
    {st \in db.statements : st.account = r.account /\ st.identity = Parsed[r.artifact].identity}

\* The row a command meets: for a statement by its key, else by its bytes, else
\* by the account's statement identity.
Existing(r) ==
    CASE r.op = "register" -> SameAccount(r)
      [] r.op = "assign" -> SameKey(r)
      [] r.op = "ingest" -> IF KnownKey(r) # {} THEN KnownKey(r)
                            ELSE IF KnownBytes(r) # {} THEN KnownBytes(r)
                            ELSE KnownIdentity(r)
\* MUTANT: a duplicate delivery's normalized payload is not compared.
SameCommandAnyPayload(row, r) ==
    IF r.op = "ingest" THEN row.key = r.key => row.artifact = r.artifact ELSE row = RowOf(r)
\* MUTANT: a known key replays its statement, whatever it is sent with.
SameCommandByKey(row, r) ==
    IF r.op = "ingest" THEN row.key = r.key \/ row.payload = Parsed[r.artifact].payload
                       ELSE row = RowOf(r)
\* The row's evidence is the command's: an account or a binding has all of it, a
\* statement its normalized payload and, under its own key, its bytes.
SameCommand(row, r) ==
    IF r.op = "ingest"
      THEN /\ row.payload = Parsed[r.artifact].payload
           /\ row.key = r.key => row.artifact = r.artifact
      ELSE row = RowOf(r)

\* An assignment needs a registered account and a chart account of its book.
Admissible(r) ==
    r.op = "assign" => SameAccount(r) # {} /\ <<r.book, r.chart>> \in Catalog

ReplayRow(s) ==
    /\ pc[s] = "check"
    /\ \E row \in Existing(req[s]) : SameCommand(row, req[s]) /\ Replay(s, row)
\* The document goes to the artifact store before anything is inserted.
GoInsert(s) ==
    /\ pc[s] = "check"
    /\ Existing(req[s]) = {}
    /\ Admissible(req[s])
    /\ store' = IF req[s].op = "ingest" THEN store \cup {req[s].artifact} ELSE store
    /\ Goto(s, "insert")
    /\ UNCHANGED <<held, pend>>
RefuseCheck(s) ==
    /\ pc[s] = "check"
    /\ IF Existing(req[s]) = {} THEN ~Admissible(req[s])
                                ELSE \A row \in Existing(req[s]) : ~SameCommand(row, req[s])
    /\ Rollback(s)

-----------------------------------------------------------------------------
(* The INSERTs and their COMMIT *)

\* MUTANT: the partial unique index of open-ended bindings is missing.
BindingRivalByKey(b, c) == b.key = c.key
BindingRival(b, c) ==
    \/ b.key = c.key
    \/ b.account = c.account /\ b.book = c.book /\ b.to = NoEnd /\ c.to = NoEnd
StatementRival(st, u) ==
    \/ st.key = u.key \/ st.artifact = u.artifact
    \/ st.account = u.account /\ st.identity = u.identity
\* A row of the tables that a unique key will not let stand beside the command's.
HasRival(rows, r) ==
    CASE r.op = "register" -> \E a \in rows.accounts : a.account = r.account
      [] r.op = "assign" -> \E b \in rows.bindings : BindingRival(b, RowOf(r))
      [] r.op = "ingest" -> \E st \in rows.statements : StatementRival(st, RowOf(r))

\* MUTANT: a unique violation is retried until it goes away.
InsertRetries(s) ==
    \E rows \in {db} \cup {pend[t] : t \in Sessions \ {s}} : HasRival(rows, req[s])
InsertWaits(s) == \E t \in Sessions \ {s} : HasRival(pend[t], req[s])
\* CHECK (valid_to IS NULL OR valid_to > valid_from)
IntervalFits(r) == r.op = "assign" /\ r.to # NoEnd => r.to > r.from
InsertFits(r) == ~HasRival(db, r) /\ IntervalFits(r)

InsertRow(s) ==
    /\ pc[s] = "insert"
    /\ ~InsertWaits(s)
    /\ InsertFits(req[s])
    /\ pend' = [pend EXCEPT ![s] = RowsOf(req[s])]
    /\ Goto(s, "commit")
    /\ UNCHANGED <<store, held>>
RefuseInsert(s) ==
    /\ pc[s] = "insert"
    /\ ~InsertWaits(s)
    /\ ~InsertFits(req[s])
    /\ Rollback(s)
Commit(s) ==
    /\ pc[s] = "commit"
    /\ db' = [accounts |-> db.accounts \cup pend[s].accounts,
              bindings |-> db.bindings \cup pend[s].bindings,
              statements |-> db.statements \cup pend[s].statements]
    /\ Reply(s, RowOf(req[s]))
    /\ UNCHANGED store

-----------------------------------------------------------------------------
Init ==
    /\ db = [NoRows EXCEPT !.accounts = Registered]
    /\ store = {}
    /\ pc = [s \in Sessions |-> "idle"]
    /\ req = [s \in Sessions |-> NoRequest]
    /\ held = [s \in Sessions |-> <<>>]
    /\ pend = [s \in Sessions |-> NoRows]
    /\ answers = {}
    /\ issued = 0

Step(s) ==
    \/ AcquireLock(s) \/ RefuseAccount(s)
    \/ ReplayRow(s) \/ GoInsert(s) \/ RefuseCheck(s)
    \/ InsertRow(s) \/ RefuseInsert(s) \/ Commit(s)

Next == Restart \/ \E s \in Sessions : Begin(s) \/ Step(s) \/ Abort(s)

Spec == Init /\ [][Next]_vars
\* PostgreSQL runs a session's next statement once it can; nothing has to fail.
FairSpec == Spec /\ \A s \in Sessions : WF_vars(Step(s))

-----------------------------------------------------------------------------
(* Properties *)

\* Every variable holds what its table or session slot can hold.
TypeOK ==
    /\ db \in Tables
    /\ store \subseteq Artifacts
    /\ pc \in [Sessions -> Stages]
    /\ req \in [Sessions -> Requests \cup {NoRequest}]
    /\ held \in [Sessions -> Seq(Lock)]
    /\ pend \in [Sessions -> Tables]
    /\ answers \subseteq [req : Requests, row : Account \cup Binding \cup Statement]
    /\ issued \in 0..MaxCommands

\* The locks and checks before an INSERT leave the unique keys nothing to refuse:
\* no ingest or registration fails with an unhandled unique violation, and an
\* assignment's unique violation, which is reported as an active binding, is one.
OnlyActiveBindingsCollide ==
    \A s \in Sessions : pc[s] = "insert" =>
        \A rows \in {db} \cup {pend[t] : t \in Sessions \ {s}} :
            IF req[s].op = "assign"
              THEN \A b \in rows.bindings : b.key # req[s].key
              ELSE ~HasRival(rows, req[s])

\* At any time a bank account has one open-ended binding to a book at most.
OneActiveBinding ==
    \A b, c \in db.bindings :
        b.account = c.account /\ b.book = c.book /\ b.to = NoEnd /\ c.to = NoEnd => b = c

\* A success stays true and is about what was sent: its row is on record; an
\* account or a binding has the command's evidence; a statement, met by key, by
\* bytes or by identity, has the document's payload, and its account is the one
\* the document names.
AnswersFitEvidence ==
    \A a \in answers :
        CASE a.req.op = "register" -> a.row = RowOf(a.req) /\ a.row \in db.accounts
          [] a.req.op = "assign" -> a.row = RowOf(a.req) /\ a.row \in db.bindings
          [] a.req.op = "ingest" ->
               LET parsed == Parsed[a.req.artifact]
               IN  /\ a.row \in db.statements
                   /\ a.row.payload = parsed.payload /\ a.row.identity = parsed.identity
                   /\ [account |-> a.row.account, evidence |-> parsed.evidence] \in db.accounts

\* However often and under however many keys a document is delivered, every
\* receipt names the same statement, if no two references stand for one account.
SameBytesSameStatement ==
    (\A x, y \in db.accounts : x.evidence = y.evidence => x = y) =>
        \A a, b \in answers :
            a.req.op = "ingest" /\ b.req.op = "ingest" /\ a.req.artifact = b.req.artifact =>
                a.row = b.row

\* A receipt never references missing bytes, whatever fails or restarts, if the
\* store is as durable as docs/adr/0052 wants a host's to be.
ReceiptHasBytes ==
    StoreIsDurable => \A a \in answers : a.req.op = "ingest" => a.row.artifact \in store

\* docs/adr/0052: reuse of an ingestion key with a changed artifact fails closed.
KeyNamesOneArtifact ==
    \A a, b \in answers :
        a.req.op = "ingest" /\ b.req.op = "ingest" /\ a.req.key = b.req.key =>
            a.req.artifact = b.req.artifact

\* Every command ends although it takes up to three locks one after the other:
\* their order leaves no two commands waiting for each other.
EveryCommandEnds == \A s \in Sessions : pc[s] # "idle" ~> pc[s] = "idle"
============================================================================
