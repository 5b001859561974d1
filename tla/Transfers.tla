---- MODULE Transfers ----
(***************************************************************************)
(* POST /transfers and POST /accounts/{id}/deposit as the handlers run     *)
(* them: each statement sent to PostgreSQL is one step, and the steps of   *)
(* the requests in flight interleave.                                      *)
(*                                                                         *)
(* The variables account, ledger and audit are what is committed.  What a  *)
(* request has done before its commit is in its session (SQLAlchemy's      *)
(* identity map), the row locks it holds, and its program counter; a       *)
(* rollback is therefore the release of the locks and the session.         *)
(***************************************************************************)
EXTENDS LedgerRows

CONSTANTS
    NoBody,         \* what a request that has not arrived carries
    NotLoaded,      \* what a session has of a row it did not query
    StatusChange,   \* the <<account, status>> pairs an operator may set
    BrokerMayFail   \* whether the Celery broker is ever unreachable

VARIABLES
    account,        \* committed accounts
    ledger,         \* committed transactions
    audit,          \* committed audit_logs
    pc,             \* the next step of each request
    body,           \* its validated body
    session,        \* the account rows its session has loaded, as it sees them
    held,           \* the account rows it has locked FOR UPDATE
    reply,          \* what it answered
    queue           \* notification tasks handed to the Celery broker

vars == <<account, ledger, audit, pc, body, session, held, reply, queue>>
committed == <<account, ledger, audit>>

TransferStep == {"check", "owner", "lock", "apply", "insert_out",
                 "insert_in", "commit", "notify"}
DepositStep == {"deposit_lock", "deposit_apply", "deposit_commit"}
InFlight == TransferStep \cup DepositStep

Reply == {"none", "created", "not_found", "unauthorized", "frozen",
          "currency", "insufficient_funds", "internal_error"}

LoadedRow == [balance : Nat, status : Status]
NothingLoaded == [a \in Accounts |-> NotLoaded]

Init ==
    /\ account = Opening
    /\ ledger = {}
    /\ audit = {}
    /\ pc = [p \in Req |-> "idle"]
    /\ body = [p \in Req |-> NoBody]
    /\ session = [p \in Req |-> NothingLoaded]
    /\ held = [p \in Req |-> {}]
    /\ reply = [p \in Req |-> "none"]
    /\ queue = {}

----------------------------------------------------------------------------
(* Helpers *)

Goto(p, l) == pc' = [pc EXCEPT ![p] = l]

(* Mutant: without populate_existing the session keeps the copy it has. *)
LoadIfAbsent(p, a) ==
    session' = [session EXCEPT ![p][a] = IF @ = NotLoaded THEN account[a] ELSE @]

(* A query that returns account a overwrites the session's copy of it, as
   populate_existing=True demands. *)
Load(p, a) == session' = [session EXCEPT ![p][a] = account[a]]

(* Mutant: the session is dropped and its transaction left open. *)
DropSession(p) ==
    /\ session' = [session EXCEPT ![p] = NothingLoaded]
    /\ UNCHANGED held

(* The transaction is over: committed or rolled back, its locks are free. *)
Release(p) ==
    /\ held' = [held EXCEPT ![p] = {}]
    /\ session' = [session EXCEPT ![p] = NothingLoaded]

(* The handler raises or returns: get_db ends the session, the client is
   answered, nothing the request did before a commit remains. *)
Answer(p, code) ==
    /\ Goto(p, "done")
    /\ reply' = [reply EXCEPT ![p] = code]
    /\ Release(p)
    /\ UNCHANGED <<committed, body, queue>>

(* The rows that WHERE id IN (from, to) selects, and the one of them that
   ORDER BY id locks next. *)
Rows(p) == {body[p].from, body[p].to} \cap Accounts

(* Mutant: lock in the order of the request, source first. *)
NextRowAsGiven(p) ==
    IF body[p].from \in held[p] THEN ({body[p].to} \cap Accounts) \ held[p]
    ELSE {body[p].from}

NextRow(p) ==
    LET rest == Rows(p) \ held[p]
    IN  {a \in rest : \A b \in rest : a <= b}

Unlocked(a) == \A q \in Req : a \notin held[q]

(* Keys a request has inserted and not committed: the unique index makes
   other inserters of the same key wait for the outcome. *)
Inserted(p) ==
    IF pc[p] = "insert_in" THEN {body[p].key}
    ELSE IF pc[p] = "commit" THEN {body[p].key, InKey(body[p].key)}
    ELSE {}

InsertFree(p, k) == \A q \in Req \ {p} : k \notin Inserted(q)

(* The balances the session computed reach the table at the commit. *)
Publish(p) ==
    account' = [a \in Accounts |->
        IF a \in held[p]
        THEN WithBalance(account[a], StoredAmount(session[p][a].balance))
        ELSE account[a]]

----------------------------------------------------------------------------
(* A request arrives with a body that passed Pydantic.  A retry is another
   request with the same body. *)

Arrive(p) ==
    /\ pc[p] = "idle"
    /\ \/ \E b \in TransferBody : body' = [body EXCEPT ![p] = b] /\ Goto(p, "check")
       \/ \E b \in DepositBody : body' = [body EXCEPT ![p] = b] /\ Goto(p, "deposit_lock")
    /\ UNCHANGED <<committed, session, held, reply, queue>>

(* Step 1: both rows of the key exist, so the original is returned. *)
Replay(p) ==
    /\ pc[p] = "check"
    /\ KeyTaken(ledger, body[p].key)
    /\ KeyTaken(ledger, InKey(body[p].key))
    /\ Goto(p, "notify")
    /\ UNCHANGED <<committed, body, session, held, reply, queue>>

(* Step 1: only the first row exists, reported as an interrupted write. *)
PartialTransfer(p) ==
    /\ pc[p] = "check"
    /\ KeyTaken(ledger, body[p].key)
    /\ ~KeyTaken(ledger, InKey(body[p].key))
    /\ Answer(p, "not_found")

(* Steps 1 and 2: an unused key; the two accounts must differ. *)
CheckKey(p) ==
    /\ pc[p] = "check"
    /\ ~KeyTaken(ledger, body[p].key)
    /\ IF body[p].from = body[p].to
       THEN Answer(p, "not_found")
       ELSE /\ Goto(p, "owner")
            /\ UNCHANGED <<committed, body, session, held, reply, queue>>

(* Mutant: the owner is not compared. *)
LoadSource(p) ==
    /\ pc[p] = "owner"
    /\ IF body[p].from \notin Accounts THEN Answer(p, "not_found")
       ELSE /\ Load(p, body[p].from)
            /\ Goto(p, "lock")
            /\ UNCHANGED <<committed, body, held, reply, queue>>

(* Step 3: the ownership check loads the source account without a lock. *)
CheckOwner(p) ==
    /\ pc[p] = "owner"
    /\ IF body[p].from \notin Accounts THEN Answer(p, "not_found")
       ELSE IF Owner[body[p].from] # body[p].user THEN Answer(p, "unauthorized")
       ELSE /\ Load(p, body[p].from)
            /\ Goto(p, "lock")
            /\ UNCHANGED <<committed, body, held, reply, queue>>

(* Step 4: SELECT ... FOR UPDATE locks one row after the other and returns
   each row as it is once its lock is granted. *)
LockRow(p) ==
    /\ pc[p] = "lock"
    /\ \E a \in NextRow(p) :
         /\ Unlocked(a)
         /\ held' = [held EXCEPT ![p] = @ \cup {a}]
         /\ Load(p, a)
         /\ Goto(p, IF Rows(p) \subseteq held[p] \cup {a} THEN "apply" ELSE "lock")
    /\ UNCHANGED <<committed, body, reply, queue>>

(* Mutants: the balance, or the destination's status, is not checked. *)
RefusalButFunds(p) ==
    LET b == body[p]
    IN  IF b.to \notin Accounts THEN "not_found"
        ELSE IF \E a \in {b.from, b.to} : session[p][a].status # "active" THEN "frozen"
        ELSE IF \E a \in {b.from, b.to} : CurrencyOf[a] # b.currency THEN "currency"
        ELSE "none"

RefusalBySource(p) ==
    LET b == body[p]
    IN  IF b.to \notin Accounts THEN "not_found"
        ELSE IF session[p][b.from].status # "active" THEN "frozen"
        ELSE IF \E a \in {b.from, b.to} : CurrencyOf[a] # b.currency THEN "currency"
        ELSE IF session[p][b.from].balance < b.amount THEN "insufficient_funds"
        ELSE "none"

(* Steps 4 to 6: the first check that fails decides the answer; the last
   one is the UPDATE that would overflow Numeric(18, 2). *)
Refusal(p) ==
    LET b == body[p]
        from == session[p][b.from]
        to == session[p][b.to]
    IN  IF b.to \notin Accounts THEN "not_found"
        ELSE IF from.status # "active" \/ to.status # "active" THEN "frozen"
        ELSE IF CurrencyOf[b.from] # b.currency \/ CurrencyOf[b.to] # b.currency
             THEN "currency"
        ELSE IF from.balance < b.amount THEN "insufficient_funds"
        ELSE IF to.balance + b.amount > MaxBalance THEN "internal_error"
        ELSE "none"

Refuse(p) ==
    /\ pc[p] = "apply"
    /\ Refusal(p) # "none"
    /\ Answer(p, Refusal(p))

(* Mutant: the balances are committed at once, the rows later. *)
ApplyAndCommit(p) ==
    LET b == body[p]
        after == [session EXCEPT ![p][b.from] = WithBalance(@, @.balance - b.amount),
                                 ![p][b.to] = WithBalance(@, @.balance + b.amount)]
    IN  /\ pc[p] = "apply"
        /\ Refusal(p) = "none"
        /\ session' = after
        /\ account' = [a \in Accounts |-> IF a \in held[p] THEN after[p][a] ELSE account[a]]
        /\ Goto(p, "insert_out")
        /\ UNCHANGED <<ledger, audit, body, held, reply, queue>>

(* Step 6: both balances change in the session and are flushed. *)
Apply(p) ==
    /\ pc[p] = "apply"
    /\ Refusal(p) = "none"
    /\ LET b == body[p]
       IN  session' = [session EXCEPT
               ![p][b.from] = WithBalance(@, @.balance - b.amount),
               ![p][b.to] = WithBalance(@, @.balance + b.amount)]
    /\ Goto(p, "insert_out")
    /\ UNCHANGED <<committed, body, held, reply, queue>>

(* Mutant: no unique index, only a look at what is committed. *)
InsertOutNoIndex(p) ==
    /\ pc[p] = "insert_out"
    /\ IF KeyTaken(ledger, body[p].key)
       THEN Answer(p, "internal_error")
       ELSE /\ Goto(p, "insert_in")
            /\ UNCHANGED <<committed, body, session, held, reply, queue>>

(* Step 7: the debit row.  A key that was committed meanwhile is an
   IntegrityError, which no handler translates. *)
InsertOut(p) ==
    /\ pc[p] = "insert_out"
    /\ InsertFree(p, body[p].key)
    /\ IF KeyTaken(ledger, body[p].key)
       THEN Answer(p, "internal_error")
       ELSE /\ Goto(p, "insert_in")
            /\ UNCHANGED <<committed, body, session, held, reply, queue>>

(* Mutants: a failing credit row is taken for a duplicate and answered with
   201; its notification does not await the COMMIT. *)
InsertInSwallowed(p) ==
    LET k == InKey(body[p].key)
    IN  /\ pc[p] = "insert_in"
        /\ FitsColumn(k) => InsertFree(p, k)
        /\ IF KeyTaken(ledger, k) \/ ~FitsColumn(k)
           THEN Answer(p, "created")
           ELSE /\ Goto(p, "commit")
                /\ UNCHANGED <<committed, body, session, held, reply, queue>>

InsertInAndNotify(p) ==
    LET k == InKey(body[p].key)
    IN  /\ pc[p] = "insert_in"
        /\ InsertFree(p, k) /\ ~KeyTaken(ledger, k) /\ FitsColumn(k)
        /\ queue' = queue \cup {[task |-> p, tx |-> body[p].key, sender |-> body[p].user,
                                 receiver |-> body[p].to, amount |-> body[p].amount]}
        /\ Goto(p, "commit")
        /\ UNCHANGED <<committed, body, session, held, reply>>

(* Step 7: the credit row, whose key may also be too long for its column. *)
InsertIn(p) ==
    LET k == InKey(body[p].key)
    IN  /\ pc[p] = "insert_in"
        /\ FitsColumn(k) => InsertFree(p, k)
        /\ IF KeyTaken(ledger, k) \/ ~FitsColumn(k)
           THEN Answer(p, "internal_error")
           ELSE /\ Goto(p, "commit")
                /\ UNCHANGED <<committed, body, session, held, reply, queue>>

(* Step 8 and the router: the audit entry, then COMMIT publishes it all. *)
Commit(p) ==
    /\ pc[p] = "commit"
    /\ Publish(p)
    /\ ledger' = ledger \cup {OutRow(p, body[p]), InRow(p, body[p])}
    /\ audit' = audit \cup {TransferAudit(p, body[p])}
    /\ Release(p)
    /\ Goto(p, "notify")
    /\ UNCHANGED <<body, reply, queue>>

(* After the commit, of a replay too: .delay() hands the broker a task that
   quotes the body, and the client gets its 201. *)
Enqueue(p) ==
    /\ pc[p] = "notify"
    /\ queue' = queue \cup {[task |-> p, tx |-> body[p].key, sender |-> body[p].user,
                             receiver |-> body[p].to, amount |-> body[p].amount]}
    /\ Goto(p, "done")
    /\ reply' = [reply EXCEPT ![p] = "created"]
    /\ UNCHANGED <<committed, body, session, held>>

(* .delay() raises when the broker cannot be reached. *)
BrokerDown(p) ==
    /\ BrokerMayFail
    /\ pc[p] = "notify"
    /\ Answer(p, "internal_error")

----------------------------------------------------------------------------
(* Deposits: one row, locked by the query that first loads it. *)

(* Mutant: no with_for_update(). *)
ReadDeposit(p) ==
    LET a == body[p].account
    IN  /\ pc[p] = "deposit_lock"
        /\ IF a \notin Accounts THEN Answer(p, "not_found")
           ELSE IF Owner[a] # body[p].user THEN Answer(p, "unauthorized")
           ELSE /\ held' = [held EXCEPT ![p] = {a}]
                /\ Load(p, a)
                /\ Goto(p, "deposit_apply")
                /\ UNCHANGED <<committed, body, reply, queue>>

LockDeposit(p) ==
    LET a == body[p].account
    IN  /\ pc[p] = "deposit_lock"
        /\ Unlocked(a)
        /\ IF a \notin Accounts THEN Answer(p, "not_found")
           ELSE IF Owner[a] # body[p].user THEN Answer(p, "unauthorized")
           ELSE /\ held' = [held EXCEPT ![p] = {a}]
                /\ Load(p, a)
                /\ Goto(p, "deposit_apply")
                /\ UNCHANGED <<committed, body, reply, queue>>

(* The session keeps the sum to 28 digits; the column rounds it to cents, or
   cannot hold it. *)
ApplyDeposit(p) ==
    LET a == body[p].account
    IN  /\ pc[p] = "deposit_apply"
        /\ \E carry \in Carries(body[p]) :
             LET sum == session[p][a].balance + body[p].amount + carry
             IN  IF StoredAmount(sum) > MaxBalance
                 THEN Answer(p, "internal_error")
                 ELSE /\ session' = [session EXCEPT ![p][a] = WithBalance(@, sum)]
                      /\ Goto(p, "deposit_commit")
                      /\ UNCHANGED <<committed, body, held, reply, queue>>

CommitDeposit(p) ==
    /\ pc[p] = "deposit_commit"
    /\ Publish(p)
    /\ ledger' = ledger \cup {DepositRow(p, body[p])}
    /\ audit' = audit \cup {DepositAudit(p, body[p])}
    /\ Release(p)
    /\ Goto(p, "done")
    /\ reply' = [reply EXCEPT ![p] = "created"]
    /\ UNCHANGED <<body, queue>>

----------------------------------------------------------------------------
(* The environment *)

(* An operator changes an account's status; the UPDATE waits for the row. *)
SetStatus(a, s) ==
    /\ <<a, s>> \in StatusChange
    /\ account[a].status # s
    /\ Unlocked(a)
    /\ account' = [account EXCEPT ![a] = [balance |-> @.balance, status |-> s]]
    /\ UNCHANGED <<ledger, audit, pc, body, session, held, reply, queue>>

(* The worker or its connection dies: PostgreSQL rolls the transaction back
   and the client never hears. *)
Crash(p) ==
    /\ pc[p] \in InFlight
    /\ Goto(p, "crashed")
    /\ Release(p)
    /\ UNCHANGED <<committed, body, reply, queue>>

Handle(p) ==
    \/ Replay(p)
    \/ PartialTransfer(p)
    \/ CheckKey(p)
    \/ CheckOwner(p)
    \/ LockRow(p)
    \/ Refuse(p)
    \/ Apply(p)
    \/ InsertOut(p)
    \/ InsertIn(p)
    \/ Commit(p)
    \/ Enqueue(p)
    \/ BrokerDown(p)
    \/ LockDeposit(p)
    \/ ApplyDeposit(p)
    \/ CommitDeposit(p)

Next ==
    \/ \E p \in Req : Arrive(p) \/ Handle(p) \/ Crash(p)
    \/ \E a \in Accounts, s \in Status : SetStatus(a, s)

Spec == Init /\ [][Next]_vars

(* The event loop and PostgreSQL run every request that is not blocked;
   nothing obliges clients to send, operators to act or workers to die. *)
FairSpec == Spec /\ \A p \in Req : WF_vars(Handle(p))

----------------------------------------------------------------------------
(* Types *)

TypeOK ==
    /\ account \in [Accounts -> Account]
    /\ \A a \in Accounts : WholeCents(account[a].balance)
    /\ \A r \in ledger : r \in TransactionRow
    /\ \A e \in audit : e.entity \in Req
    /\ pc \in [Req -> InFlight \cup {"idle", "done", "crashed"}]
    /\ body \in [Req -> TransferBody \cup DepositBody \cup {NoBody}]
    /\ \A p \in Req :
         /\ pc[p] \in TransferStep => body[p] \in TransferBody
         /\ pc[p] \in DepositStep => body[p] \in DepositBody
    /\ session \in [Req -> [Accounts -> LoadedRow \cup {NotLoaded}]]
    /\ held \in [Req -> SUBSET Accounts]
    /\ reply \in [Req -> Reply]

----------------------------------------------------------------------------
(* Safety.  Bank holds the definitions that speak of committed rows only. *)

Bank == INSTANCE Bank

(* The handlers implement the atomic bank: every commit is one transfer or
   deposit that was due in the committed state it changes, and no other step
   of any request shows (services/transaction_service.py:1-33). *)
BankSpec == Bank!Spec

(* Balances and ledger never part by more than a cent per deposit just below
   half a cent whose sum has over 28 digits, and then the balance is the
   larger one.  Without such deposits they agree to the cent: both columns
   round the same way although services/account_service.py:154-160 adds
   before it rounds, and records the amount as it came. *)
LedgerExplainsBalance == Bank!LedgerExplainsBalance

(* One row per key, however many requests race with it: the unique index
   is what makes a retried transfer post once (models/transaction.py:8-9). *)
KeysUnique == Bank!KeysUnique

(* No transfer is ever half in the ledger: each debit row has its credit row,
   of the same sum, under its key plus "_in" (models/transaction.py:47). *)
LegsMirrored == Bank!LegsMirrored

Applied == {"insert_out", "insert_in", "commit"}

(* Which rows a request has locked at each of its steps; no two requests
   have locked the same row. *)
LocksOf(p) ==
    /\ pc[p] = "lock" => body[p].from \in Accounts /\ held[p] \subseteq Rows(p)
    /\ pc[p] = "apply" => body[p].from \in Accounts /\ held[p] = Rows(p)
    /\ pc[p] \in Applied => held[p] = {body[p].from, body[p].to}
    /\ pc[p] \in {"deposit_apply", "deposit_commit"} => held[p] = {body[p].account}
    /\ pc[p] \notin Applied \cup {"lock", "apply", "deposit_apply", "deposit_commit"}
         => held[p] = {}

LocksHeld ==
    /\ \A p, q \in Req : p # q => held[p] \cap held[q] = {}
    /\ \A p \in Req : LocksOf(p)

SeesFresh(p) ==
    LET b == body[p]
    IN  /\ pc[p] \in {"lock", "apply", "deposit_apply"} =>
             \A a \in held[p] : session[p][a] = account[a]
        /\ pc[p] \in Applied =>
             /\ session[p][b.from].balance = account[b.from].balance - b.amount
             /\ session[p][b.to].balance = account[b.to].balance + b.amount
        /\ pc[p] = "deposit_commit" =>
             \E carry \in Carries(b) :
                 session[p][b.account].balance =
                     account[b.account].balance + b.amount + carry

(* What the locks are for: a request that has locked a row sees it as it is
   committed, and after Apply sees the balance it will publish, even if
   others committed between the unlocked ownership read and the lock. *)
LockedRowsFresh == \A p \in Req : SeesFresh(p)

StillDue(p) ==
    LET b == body[p]
    IN  /\ pc[p] \in {"owner", "lock", "apply"} \cup Applied => b.from # b.to
        /\ pc[p] \in {"lock", "apply"} \cup Applied => Owner[b.from] = b.user
        /\ pc[p] \in Applied =>
             /\ account[b.from].status = "active" /\ account[b.to].status = "active"
             /\ CurrencyOf[b.from] = b.currency /\ CurrencyOf[b.to] = b.currency
             /\ account[b.from].balance >= b.amount
             /\ account[b.to].balance + b.amount <= MaxBalance
        /\ pc[p] \in {"deposit_apply", "deposit_commit"} => Owner[b.account] = b.user
        /\ pc[p] = "deposit_commit" =>
             StoredAmount(session[p][b.account].balance) <= MaxBalance

(* No gap between check and use: what steps 2 to 5 of a transfer checked on
   its copies is true of the committed accounts until it commits. *)
ChecksStillHold == \A p \in Req : StillDue(p)

(* The keys a request has inserted are in no other row, committed or not. *)
InsertsReserved ==
    \A p \in Req : \A k \in Inserted(p) :
        ~KeyTaken(ledger, k) /\ \A q \in Req \ {p} : k \notin Inserted(q)

(* Whom request p waits for: the holder of the row it wants next, or the
   request whose uncommitted insert of the same key it must see finished. *)
WaitsFor(p) ==
    {q \in Req :
        \/ pc[p] = "lock" /\ NextRow(p) \cap held[q] # {}
        \/ pc[p] = "deposit_lock" /\ body[p].account \in held[q]
        \/ pc[p] = "insert_out" /\ q # p /\ body[p].key \in Inserted(q)
        \/ pc[p] = "insert_in" /\ q # p /\ InKey(body[p].key) \in Inserted(q)}

(* No circular wait, over row locks and index entries together: the reason
   for the sorted lock order (services/transaction_service.py:5-13). *)
NoCircularWait ==
    \A S \in (SUBSET Req) \ {{}} : \E p \in S : WaitsFor(p) \cap S = {}

(* A request has rows in the ledger only after its commit, and then it does
   not answer with a refusal; a transfer answered "created" is in the ledger
   under both of its keys, by this request or by the one it repeats. *)
AnswersMatchLedger ==
    /\ \A r \in ledger :
         \/ pc[r.req] \in {"notify", "crashed"}
         \/ pc[r.req] = "done" /\ reply[r.req] \in {"created", "internal_error"}
    /\ \A p \in Req :
         /\ pc[p] # "done" => reply[p] = "none"
         /\ (pc[p] = "notify" \/ reply[p] = "created") /\ body[p] \in TransferBody =>
              KeyTaken(ledger, body[p].key) /\ KeyTaken(ledger, InKey(body[p].key))

(* A notification is only ever queued for a transfer that is committed, and
   says what that transfer did.  It holds because .delay() follows the commit
   and as long as clients do not reuse a key for another transfer. *)
QueuedIsCommitted ==
    \A n \in queue : \E r \in ledger :
        /\ r.type = "transfer_out"
        /\ r.key = n.tx /\ r.counterparty = n.receiver /\ r.amount = n.amount

(* A transfer row is only added to an account that is active at that very
   moment, although its status was read steps before the commit. *)
FrozenUntouched ==
    [][\A r \in ledger' \ ledger :
          r.type # "deposit" => account[r.account].status = "active"]_vars

(* The inductive invariant behind the safety properties (TransfersProofs). *)
Inv ==
    /\ TypeOK
    /\ LocksHeld
    /\ LockedRowsFresh
    /\ ChecksStillHold
    /\ InsertsReserved
    /\ KeysUnique
    /\ AnswersMatchLedger

----------------------------------------------------------------------------
(* What the documentation says and the code does not do. *)

Original(p) == {r \in ledger : r.type = "transfer_out" /\ r.key = body[p].key}

(* README.md, POST /transfers: duplicate requests with the same key return
   the original transaction.  Not while the first one is still in flight. *)
DuplicatesReturnOriginal ==
    \A p, q \in Req :
        (\E r \in ledger : r.req = p) /\ body[q] = body[p] /\ pc[q] = "done"
            => reply[q] = "created"

(* core/exceptions.py:79: a key used for a different transaction is refused.
   Nothing compares the repeated body with the original. *)
ReusedKeyRefused ==
    \A p \in Req :
        body[p] \in TransferBody /\ reply[p] = "created" =>
            \E r \in Original(p) : /\ r.account = body[p].from
                                   /\ r.counterparty = body[p].to
                                   /\ r.amount = body[p].amount

(* schemas/transaction.py:9-10: keys the schema admits fit the column. *)
AdmittedKeysFit ==
    \A p \in Req : pc[p] = "insert_in" => FitsColumn(InKey(body[p].key))

(* core/exception_handlers.py:97: a frozen account processes no transactions.
   Deposits do not look at the status. *)
FrozenTakesNoDeposit ==
    [][\A r \in ledger' \ ledger :
          r.type = "deposit" => account[r.account].status = "active"]_vars

----------------------------------------------------------------------------
(* Liveness *)

(* Every request that arrives is answered or dies with its worker: lock and
   index waits end, whatever the others do. *)
EveryRequestEnds ==
    \A p \in Req : (pc[p] \in InFlight) ~> (pc[p] \in {"done", "crashed"})
====
