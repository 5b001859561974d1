# NexoBank backend: TLA+ models and proofs

TLA+ models of the FastAPI application under `src/app`, the TLC runs that check
them on small instances, and TLAPS proofs of what they find, for every value of
the constants. Paths below are relative to `src/app/`; `README.md` is that of the
repository.

## 1. Inventory

The application is a set of asyncio workers over one PostgreSQL database, with
Redis behind a Celery worker and the WebSocket endpoint. A request gets one
SQLAlchemy session (`api/v1/deps.py`, `get_db`), runs a router and a service,
and ends by a commit, or by an exception and a rollback. Between two `await`s
nothing else runs in a worker; at each `await` on a statement, the statements
of other requests, of this worker or another, come in between. That is the
concurrency all the models are about.

| Component | State | Operations | Correct when |
|---|---|---|---|
| Transfers: `services/transaction_service.py`, `routers/transfers.py` | `accounts`, `transactions`, `audit_logs` | transfer with an idempotency key | a transfer happens at once or not at all, once per key, only between active accounts and only if it can be paid; nothing deadlocks |
| Accounts: `services/account_service.py` | `accounts` | open, read, deposit | balances are explained by the transactions, as far as rounding lets them; numbers are unique |
| Authentication: `services/auth_service.py`, `deps.py`, `core/security.py` | `users`, `refresh_tokens`, `password_reset_tokens` | register, login, refresh, logout, forgot, reset, profile | tokens are spent once, spent ones stay dead, the password is the last one set, what is issued is audited |
| Cleanup: `workers/cleanup_tasks.py` | `refresh_tokens` | daily DELETE of what has expired | only expired tokens go, and no request in flight is harmed |
| Cards: `services/card_service.py` | `cards` | issue, freeze, unfreeze, list | no card for a frozen account; the status is what the audit log says last |
| Device tokens: `services/device_token_service.py` | `device_tokens` | register (upsert), list, remove | a removal only affects the remover's registration |
| Notifications: `workers/notification_tasks.py`, `routers/websockets.py` | Celery queue, Redis channels, sockets | publish to both parties, retry, forward, ping | only committed transfers are announced; a task ends, and tells both parties unless it is lost; a subscription has no gaps; a socket that was left is given up |
| Listing: `routers/transactions.py`, `repositories/transaction_repository.py:106-164` | reads `transactions` | keyset pages | a walk returns every row exactly once, while others are committed |
| Internal API: `routers/internal.py` | reads `accounts`; one audit entry | user context, risk event | the total never sees half a transfer |
| Risk task, rate limiter, logging, configuration, migrations | none of their own | | |

Interactions: routers call services, services call repositories; deposits and
transfers meet in the account rows; the transfer router commits and *then*
hands Celery a task (`routers/transfers.py:85-96`); the worker publishes on one
Redis channel per user, to which that user's WebSockets subscribe; the cleanup
deletes rows that refreshes and logouts update. No endpoint changes the status
of an account or a user: an operator does, in the database.

What is hard here: lock order and waiting on unique-index entries; rows read
before a lock and used after it (SQLAlchemy's identity map); checks made without
a lock (everything outside the money path); retries that overlap the original;
a commit whose answer or follow-up is lost; tasks that are repeated or lost, and
messages nobody is subscribed to; pages read while rows are added; amounts finer
than the column.
`PROJECT.json` lists the hazards line by line.

## 2. How statements become steps

PostgreSQL runs at READ COMMITTED. In every module:

- one SQL statement of a request, with the Python up to the next one, is one
  action; the program counter `pc[p]` says which comes next;
- the table variables (`account`, `ledger`, `user`, ...) hold *committed* rows.
  What a request has written and not committed is determined by its `pc`, the
  rows it holds (`held`) and, for balances, its `session`. So a rollback only
  gives those up, and the commit is where all of it appears;
- `SELECT ... FOR UPDATE`, `UPDATE` and `INSERT` under a unique index wait while
  another request holds the row or the index entry. Queue order is left open,
  which includes PostgreSQL's;
- a request may crash in any step; a retry is another request with the same
  body. A random UUID is the identity of the request that drew it.

### LedgerRows, Bank, Transfers

`LedgerRows` has the rows, the request bodies and what Pydantic admits
(`BodyAssumption`). Money counts tenths of a cent: a transfer must be whole
cents (`schemas/transaction.py`), a deposit need not be, and `StoredAmount` is
what a `Numeric(18, 2)` column keeps. A deposit may have any number of decimals
(`schemas/account.py:60-71`). What is finer than a tenth of a cent is cut off,
which rounding half up to cents does not notice, with one exception: Python
computes `account.balance += amount` in a context of 28 digits
(`account_service.py:154`), so a longer sum is rounded before the column rounds
it. `long` marks the deposits to which that can happen and `Carries` is what it
can do: the sum reaches the next tenth of a cent, or not. Which of the two
depends on digits the model does not have and is left open. The row keeps the
amount as it came. An idempotency key is a base string and a
number of `_in` suffixes, which is all the code does to a key
(`transaction_service.py:290`). Account ids are numbers since only `ORDER BY id`
looks at them.

`Bank` is the promise: `Transfer`, `Deposit` and `SetStatus` are single steps
over the three committed tables, allowed exactly when `Due`. A deposit credits
what its row says, or a cent more if a carry takes it over half a cent; the
audit entries, which quote the amount as it was sent, tell which deposits those
may be (`RoundedUp`), and `Within` is the most they can come to.

`Transfers` is the code:

| Action | Code |
|---|---|
| `Arrive` | `routers/transfers.py` `create_transfer`, `routers/accounts.py` `deposit`, after validation |
| `Replay`, `PartialTransfer`, `CheckKey` | step 1, lines 183-213 |
| `CheckOwner` | the unlocked load and ownership check, 215-227 |
| `LockRow` | `_lock_accounts_for_update`, one row per step in id order, re-reading it (`populate_existing`) |
| `Refuse`, `Apply` | steps 4-6: status, currency, funds, then the balances, flushed |
| `InsertOut`, `InsertIn` | the two rows of step 7, waiting and failing at the unique index; the second key may not fit its column |
| `Commit`, `Enqueue`, `BrokerDown` | the audit entry and `db.commit()`, then `.delay()`, which raises when Redis is down |
| `LockDeposit`, `ApplyDeposit`, `CommitDeposit` | `deposit_funds`, 143-179 |
| `SetStatus`, `Crash` | the operator; a dying worker |

### AuthTokens

Nothing in `auth_service.py` takes `FOR UPDATE`: each request reads a row into
`seen`, decides on it, and writes later. Only the `UPDATE` or `INSERT` locks
(`held`), until the commit. An update writes the changed columns only, as
SQLAlchemy does; an update of a row that was deleted meanwhile is a
`StaleDataError`. `Lapse` lets a token's `expires_at` pass at any moment after
it was issued. Passwords stand for their hashes; names and phones are one
field. Both statuses that are not active are "suspended". `AuthAssumption` says
what the tables may hold at the start, `CallAssumption` what Pydantic admits;
any string may be sent as a token, so also one that is not issued yet.

### Holdings

Opening accounts, cards and device tokens: the same read, decide, write without
locks, on three more tables. `Draw` is one turn of the loop in
`_generate_unique_account_number`, `InsertAccount` meets the unique index.
`FreezeWrite`, `RegisterWrite` and `RemoveWrite` are the flushes: when nothing
differs from the row that was read, there is no `UPDATE` and no lock
(`held` stays empty), although the audit entry is written all the same.
`CommitRegister` writes the columns that differ and keeps the others *as they
are by then* (`Merged`). The history variables `since` and `wasActive` say what
had happened when a request arrived; no action reads them.

### Announce, Notifications

`Announce` is what the task promises once the broker has it: it tells the
sender, then the receiver, and is either done, with both told, or dropped. It
is at least once: telling somebody again is a stutter.

`Notifications` extends `Transfers`, whose `queue` the worker consumes. The
same Redis is broker and publisher; `BrokerMayFail` is for both.

| Action | Code |
|---|---|
| `Take` | a worker receives the task, or its retry after the countdown |
| `PublishSent`, `PublishReceived`, `Close` | `notification_tasks.py:43-92`; the receiver is looked up in between, and is skipped when there is none or when it is the sender |
| `TaskFails` | the `except` at line 96: the *whole* task again, `max_retries` times; a publish may have had its effect. Any exception counts, also one of the database driver, whose pooled connections `asyncio.run` leaves to the next event loop |
| `WorkerDies` | Celery acknowledges a task when it is received (`celery_app.py` does not set `acks_late`), so a dead worker loses it |
| `Connect`, `RejectToken` | `websockets.py:56-65`: "connected" is sent before the subscription |
| `Subscribe`, `SubscribeFails` | 67-97, up to the `gather` over both coroutines |
| `ClientLeaves`, `NoticeLeft` | the client goes; `receive_json` notices |
| `BadMessage` | a message that is not a JSON object ends `client_handler`, 86-94; the socket stays open |
| `Forward`, `ForwardToNobody` | `redis_forwarder`, 73-82: it only learns that the client has gone when it has something to send |
| `ForwarderFails` | `listen()` raises when the connection to Redis breaks |
| `Finish` | `gather` returns when *both* have ended; the subscription is given up, 99-109 |

`published`, `inbox` and `got` are of the live subscription and are cleared
when the forwarder stops, after which nobody reads them.

### ListRows, Listing, Statement

`ListRows` has the order of a listing, `(created_at, id)` descending, and what
`LIMIT` selects. `Listing` is the endpoint by itself: a client walks page by
page (`FirstPage`, `NextPage`) while rows are posted at once, each with a
`created_at` no earlier than those before it.

`Statement` is the same with the handlers of `Transfers` as the writers.
`created_at` and the id are drawn when a row is flushed (`Flushes`, `Stamp`),
which is steps before the commit that makes it visible. That they still appear
in order is due to the account's lock, which is held from before the flush to
the commit, and is what `ListingSpec` says. One clock is assumed: the workers
run on one host, or their clocks agree.

The cursor's row is looked up by its id, without the account
(`transaction_repository.py:131-150`), but a cursor the client got from this
account is of this account; other cursors are not modelled. `ContextTotal` is
the sum of `GET /internal/users/{id}/context`, one `SELECT` over the balances.

## 3. Runs

Bounds are in the `MC` modules and the cfgs. A run explores every pair (or
triple) of calls in every interleaving; the pairs are what the hazards need, as
each involves two requests and at most one operator, worker, socket or crash.
Where a run checks no liveness, interchangeable requests are a symmetry.

| Run | Instance | Shows |
|---|---|---|
| `race` (pass) | three requests among opposite transfers, a retry, a key that is another's `_in` form, a deposit just below half a cent with more decimals than its sum keeps, refused deposits; freezes; crashes; fairness | types, balances explained by rows and rounding, locked rows fresh, checks still hold, no circular wait, queued means committed, `Bank` implemented, frozen accounts untouched, every request ends |
| `keys` (pass) | `Statement`, three requests: transfers that share a key and no account, `k` and `k_in`, every refusal of a transfer, a deposit just below half a cent, the broker down; a client who lists one account, one row per page, with two instants and three ids | one row per key, mirrored legs, truthful answers, the context total, the four properties of a walk, `Bank` and `Listing` implemented |
| `auth` (pass) | two requests among every call of the module, one registered user and one new, one token, one ticket, expiry, cleanup, suspension, crashes; fairness | tokens and audit entries in pairs, spent tokens stay dead, a second use of a token overlaps the first, the password is the last one set, a login never gets in with a password that was replaced before it came, one registration per address, every request ends |
| `holdings` (pass) | three requests among thirteen kinds of calls, two account numbers, two draws, an operator, crashes | numbers are unique, cards come from accounts active during the request, card and device rows are what the last or overlapping requests made of them, removers had the device |
| `news` (pass) | two transfer requests, one between users and one between accounts of one user, either sent twice; one socket of the receiver, one retry; workers that fail and die, a Redis that breaks; fairness | clients are told what is committed, without gaps, a bounded number of times; `Announce` implemented; an answered transfer's task ends; the next message frees a socket that was left |
| `duplicate` (violation) | a transfer sent twice at once, from an account that could pay it twice | the second waits for the account's lock, fails on the unique index and gets 500, not the original. Had the first left too little, the funds would be checked first and the answer be 422 |
| `reuse` (violation) | a key for two different transfers | the second gets 201 and the first transfer |
| `longkey` (violation) | a 64 character key | admitted, and fails at its `_in` row |
| `frozen` (violation) | a deposit and a freeze | a frozen account takes the deposit |
| `refresh` (violation) | two refreshes of one token | both succeed |
| `reset` (violation) | two resets with one ticket | both succeed |
| `device` (violation) | a registration and a removal of one device | the registration is answered 201 and the device is inactive |

What the small numbers leave out:

- `MaxRetries` is 1 and the code's is 3. One retry already repeats an event
  after it was heard, and the last failure; the theorems hold for any number.
- One row per page makes every page boundary fall between two rows, and three
  rows at two instants contain a tie and an advance of the clock. That no other
  limit behaves differently is a theorem.
- In `news` only the receiver is online and there is one socket: sockets share
  nothing but the channel, and the sender's channel works the same.
- A deposit with more decimals than its sum keeps is in `race` only, where
  `LedgerExplainsBalance` watches it, and so are refused deposits; what it
  does to the context total is a theorem (`ContextNeverSplit`).
- Amounts are a few tenths of a cent around the rounding and the funds;
  `MaxBalance` is small enough to overflow.

`QueuedIsCommitted` and `NewsIsTrue` are in runs where clients do not reuse a
key for another receiver or amount; when they do, the notification quotes a
transfer that was not made, which is the disagreement of `reuse`. Deadlock checking is off: when all
requests are done the system is at rest. `NoCircularWait` and
`EveryRequestEnds` take its place, and are stronger: they also exclude a
deadlock among some of the requests. The first is there because PostgreSQL
would break a deadlock by aborting one request, so that "everyone ends" alone
could hide it.

**Fairness.** `WF_vars(Handle(p))` for each request: the event loop resumes a
coroutine whose statement has returned, and PostgreSQL grants a lock that is
free. `WF_allVars(Work(p))` and `WF_allVars(Serve(c))` in `news`: Celery
workers take what is queued and run it, and the event loop serves the sockets.
A request need not arrive, an operator need not act, tokens need not expire,
the cleanup need not run, nothing need fail and nobody need crash. Weak
fairness suffices: each instance has finitely many requests, so a lock cannot
be taken from a waiter forever.

**Mutants.** Each property of a passing run has a mutant definition next to the
one it replaces, labelled `Mutant` in its comment, that violates it.
Specifications never use them.

## 4. Proofs

Eight modules hold the proofs. They are about every value of the constants that
satisfies the named assumptions: any number of requests, accounts, keys, tokens,
sockets and rows, any bodies that Pydantic admits, deposits of any number of
decimals included.

| Theorem | States |
|---|---|
| `TransfersProofs`: `Invariance`, `TypeCorrect`, `NoLostUpdate`, `NoCheckUseGap`, `OneRowPerKey`, `AnswersTrue` | `Inv` and its conjuncts that the runs check |
| `TransfersRefinement`: `TransfersImplementBank` | `Spec => Bank!Spec`: `Commit` maps to `Transfer`, `CommitDeposit` to `Deposit`, `SetStatus` to itself, the rest stutter |
| `LegsNeverPart`, `FrozenAccountsUntouched` | the legs stay in pairs; a transfer leaves frozen accounts alone |
| `BalancesExplained` | `LedgerExplainsBalance`: a balance is the opening one and the sum of the account's rows, and at most a cent more per deposit that was rounded up |
| `BalancesExact` | it is exactly that sum if no deposit is `long` |
| `SumsConserved`, `MoneyAccountedFor` | the same as `BalancesExplained` for the sum over any finite set of accounts; over all of them, only deposits add to it |
| `RequestsAreAtomic`, `RetriesPostOnce` | rows and audit entry of a request appear whole or not at all; one request posts per key |
| `TransfersProofs`: `DeadlockFree` | `NoCircularWait`, for finitely many accounts |
| `HandlersAdvance`, `HandlersStop` | a handler has no loop: each step takes it to a later stage, so it takes finitely many |
| `ListingProofs`: `WalkIsComplete`, `WalkIsOrdered`, `WalkIsASnapshot`, `MoreMeansMore` | the properties of a walk, for any limit |
| `StatementProofs`: `StatementImplementsListing` | `StatementSpec => ListingSpec`, and with it the properties of a walk for the rows that the handlers commit |
| `ContextNeverSplit` | `ContextConserved`, for finitely many accounts |
| `NotificationsProofs`: `NewsImplementsTransfers` | worker and sockets stutter for the money path |
| `NewsTypeCorrect`, `RepeatsAreBounded`, `SubscriptionHasNoGaps`, `TaskKeepsItsPromise` | what the `news` run checks, the last one `NewsSpec => Announce` |
| `NotifiedAfterCommit`, `ToldIsTrue` | nothing untrue is queued or told, if `KeysNotReused` |
| `AuthTokensProofs`: `Invariance`, `TypeCorrect`, `SpentStaysDead`, `ReuseOverlaps`, `TokensAudited`, `RegistersOnce`, `PasswordLastSet`, `OldPasswordRefused` | every safety property of the `auth` run |
| `DeadlockFree`, `CleanupWaitsForCommits` | no circular wait over the rows requests write; the daily DELETE waits for commits only |
| `HandlersAdvance`, `HandlersStop` | as for the money path |
| `HoldingsProofs`: `Invariance`, `TypeCorrect`, `NumbersAreUnique`, `IssuedForActive`, `CardsExplained`, `DevicesExplained`, `RemovalsAreOwners` | every property of the `holdings` run |
| `HandlersAdvance` | as above, with an opening's draws counted: at most `MaxDraws + 4` steps |
| `Sums` | what a sum over a finite set is: lemmas only |

**The money path.** The inductive invariant is `Inv` in `Transfers`.
`LockedRowsFresh` and `ChecksStillHold` say what a request that holds rows
knows about them. They are preserved by another request's commit only because
that request writes rows it holds and two requests never hold the same row
(`LocksHeld`). That a commit is a `Bank` transfer further needs the keys to be
unused (`InsertsReserved`, from the two inserts until the commit) and the
request to have no rows yet (from `AnswersMatchLedger`: rows appear only when a
request is past its commit, and `pc` never goes back). The rounding lemma
`StoredSum`: rounding the sum and rounding what was added come to the same, and
a carry makes a cent of difference at most. There is one lemma
per action (`LockRowStep`, `ApplyStep`, `CommitStep`, ...); the refusals and the
steps that only move `pc` share `AnswerStep`, `EndStep` and `MoveStep`, and
everything about requests that did not move is `Frame`.

**Sums.** A balance is explained by a sum of rows, and `MapThenSumSet` is
a `CHOOSE` of a recursive function, whose meaning is an induction over the
set. `Sums` does without the induction theorem, which has an operator as a
parameter: a least counterexample in size, given by `LeastNat`, is removed one
element and is then none. This gives that the function exists (`Solvable`,
`Solution`) and that a sum is independent of the order of summation (`SumTake`),
adds over a new element (`SumAdd`) and moves with one term (`SumChange`). A
commit then adds one row to each account it touches, and to its balance what
the row says (`Balanced`); the ledger is finite because each commit adds two
rows at most. When a deposit adds a cent more than its row, it also adds an
audit entry to those that `RoundedUp` counts (`DepositCredit`). That the entry
is a new one, so that the count really grows, is `AllOrNothing` below.

`Conserved` is about a set of accounts: what its balances sum to is what they
opened with, what was deposited to them, and the rows whose counterparty is
outside; a `Surplus` is due to rounded deposits. A transfer within the set has neither leg among these, which is why
`GET /internal/users/{id}/context` never counts half of one. Both legs must
come with one commit (`LegsMirrored`), and the sum needs the set to be finite:
`MoneyAccountedFor` and `ContextNeverSplit` assume so of the accounts, which are the
rows of a table.

**Retries.** `AllOrNothing`: a request has posted the rows and the audit entry
of its own body, or nothing. It is kept because a request commits once
(`AnswersMatchLedger` again). Two requests that carry the same key cannot both
have posted, since a key is in one row (`KeysUnique`).

**Deadlock.** A set of requests in which each waits for another cannot exist. Of
those at the second insert, one whose key has the most `_in` suffixes waits for
none of the others (the column bounds the suffixes), so none are there, and so
none at the first insert either. The rest wait for rows, and what they wait for
holds a row and wants another; of these, one whose wanted row is greatest waits
for nobody, as each holds only rows below the one it wants (`LockOrder`). The
greatest row exists because the accounts are finite, which is the theorem's
assumption. In `AuthTokens` only a reset writes two rows, its user's and then
its ticket's. Whoever is waited for holds something and, if it waits in turn,
is a reset that holds its user's row and no other (`HoldsUser`); so nobody who
waits holds the ticket that it waits for.

**Ends.** `toGo` numbers the stages of a handler downwards. `HandlersAdvance`:
no step of anybody raises it, and a step of the request lowers it. With
finitely many values this makes `HandlersStop` a temporal tautology over one
case per value; for `Holdings`, where `MaxDraws` is a parameter, there are as
many cases as its value and only `HandlersAdvance` is stated. These and the
absence of circular waits are what `EveryRequestEnds` rests on; what is left to
TLC is that a request nobody blocks has a step it can take, which is `ENABLED`.

**Listing.** `Inv` in `ListingProofs` adds to the properties that the cursor is
the last row seen, that what has not been seen of the start is below it
(`AheadOfCursor`) and that what came late is not (`LateIsLater`). For
`Statement` the invariant is `InStampOrder`: a row that is flushed and not
committed was stamped no earlier than any that is (`PendingLater`). A commit of
another request in between would break it, and cannot happen: both would hold
the account.

**Notifications.** `QueueInv` (a task quotes the body of a request that is done,
whose keys are in the ledger), `LedgerInv` (a row with a key is one of a body
its owner sent), `WorkerInv` (retries, events and the task's step agree) and
`SocketInv`. `KeysNotReused` is the assumption that clients send a key with one
body only, and none that is another's `_in` form; the code does not enforce it,
see `reuse`.

**Tokens and holdings.** Nothing is locked between a read and its write, so the
invariants say what is still true of a row that was read some time ago: that it
exists, or was deleted by the cleanup; what may have changed; and that whoever
changed it since has an entry in the audit log that is younger than the
request's arrival (`SpentInv`, `LoginInv`, `CardInv`, `DeviceInv`, `HadInv`).
`LogInv` ties the entries to requests that are past their commit, once each.
`Inv` has the types, what a request knows at each step, and that no row is held
twice.

Only model-checked: the liveness properties `EveryRequestEnds` (of `Transfers`
and of `AuthTokens`), `AnsweredIsAnnounced` and `NextMessageFrees`. Fairness and
`ENABLED` are beyond TLAPS. Every other property of a passing run is a theorem.
`BalancesExact`, `SumsConserved`, `AllOrNothing`, `PostedOnce`, `Advance` and the waits of
`AuthTokens` are proved and in no run.

## 5. Where code and documentation disagree

Seven runs have one each (section 3; `PROJECT.json` quotes the sentences).
Others were met on the way and have no run:

- a client key `k_in`, used while the transfer `k` exists, finds a row and no
  `k_in_in` row, and is answered "not found" as a partial transfer
  (`transaction_service.py:193-197`), although none was interrupted;
- a deposit below half a cent is answered 201 with a row of 0.00;
- a deposit just below half a cent with enough decimals gives the account a cent
  its row does not show: 1.00 plus 0.00499999999999999999999999999 is 1.005 in
  a context of 28 digits, stored as 1.01, and the row of the deposit says 0.00
  (`account_service.py:154-160`). `backend-planeacion.md:107`, in Spanish, has
  amounts in `Numeric(18, 2)` to avoid rounding errors in money;
  `LedgerExplainsBalance` bounds what is left of them;
- with the broker down, a transfer that is committed is answered 500, and its
  retry, which finds the rows, is answered 500 again;
- two registrations of one address at once: the loser gets 500, where
  `auth_service.py:50-52` promises `InvalidCredentialsError`;
- a freeze and an unfreeze of one card at once: the one that finds the status
  it wants writes nothing, is answered 200 with that status and audited last,
  and the card has the other (`routers/cards.py:83` only promises the audit
  entry, so this is no disagreement; `CardStatusExplained` bounds it);
- `routers/websockets.py:10`, in Spanish, has the server cancel the subscription
  when a client disconnects. It does so with the next message to that user
  (`NextMessageFrees`), which may never come;
- when the forwarder has ended, pings are still answered: the socket looks
  alive and never hears of a transfer again;
- a task that is retried publishes again what it had published, and nothing in
  the message tells a client so (`RepeatsBounded`);
- `README.md:15` has Redis-backed rate limiting; `core/rate_limit.py:15` keeps
  its counters in the memory of each worker.

## 6. Not modelled

- Internal risk events: one audit entry and a commit of its own; no decision
  depends on it.
- The risk task, the monthly statement task and `send_login_alert_task`: the
  first two do nothing but log, the third is enqueued by nothing.
- Rate limiting, which the library does in each worker's memory; logging,
  configuration, the middleware and the migrations, which hold no state that a
  decision depends on. The constraints the migrations create are in the models.
- Hashing and token signatures, which are libraries.
- The connection pool: exhausted, it delays a request or answers it 500 before
  its first statement.
- Clocks that disagree between hosts (section 2, `Statement`), and cursors of
  other accounts.
- Read-only routes (accounts, cards, devices, one transaction): one `SELECT`.
