---- MODULE Statement ----
(***************************************************************************)
(* The listing of one account while the requests of Transfers write to it. *)
(* created_at is read from the clock when a row is flushed, under the lock *)
(* of its account but before the commit that makes it visible.             *)
(***************************************************************************)
EXTENDS Transfers, ListRows

CONSTANTS
    Viewed,         \* the account the client lists, which is the client's
    NotFlushed      \* the stamp of a request without a row on that account

ASSUME NotFlushedAssumption == NotFlushed \notin ListedRow

VARIABLES
    now,            \* the clock of the workers
    stamp,          \* created_at and id of each request's row on Viewed
    cursor, page, walk, atStart

clockVars == <<now, stamp>>
reader == <<cursor, page, walk, atStart>>
allVars == <<vars, clockVars, reader>>

(* The committed rows of the account, as the listing orders them. *)
Listed == {stamp[p] : p \in {q \in Req : \E r \in ledger : r.req = q /\ r.account = Viewed}}

Pages == INSTANCE Listing WITH rows <- Listed

StatementInit ==
    /\ Init
    /\ now = 0
    /\ stamp = [p \in Req |-> NotFlushed]
    /\ cursor = Start
    /\ page = {} /\ walk = {} /\ atStart = {}

(* This step of p flushes its row on the account. *)
Flushes(p) ==
    \/ pc[p] = "insert_out" /\ pc'[p] = "insert_in" /\ body[p].from = Viewed
    \/ pc[p] = "insert_in" /\ pc'[p] = "commit" /\ body[p].to = Viewed
    \/ pc[p] = "deposit_commit" /\ pc'[p] = "done" /\ body[p].account = Viewed

(* This step of p rolls a flushed row back. *)
RollsBack(p) ==
    /\ pc[p] \in {"insert_in", "commit"}
    /\ pc'[p] \in {"done", "crashed"}

IdsUsed == {stamp[q].id : q \in {s \in Req : stamp[s] # NotFlushed}}

(* Mutant: created_at is when the request began, and not yet locked. *)
StampOfArrival(p) ==
    \E at \in (0..(now + 1)) \cap Time, id \in Id \ IdsUsed :
        /\ stamp' = [stamp EXCEPT ![p] = [at |-> at, id |-> id]]
        /\ now' = IF at > now THEN at ELSE now

(* The row gets the time, which may not have passed since the last one, and
   a random UUID. *)
Stamp(p) ==
    \E at \in {now, now + 1} \cap Time, id \in Id \ IdsUsed :
        /\ stamp' = [stamp EXCEPT ![p] = [at |-> at, id |-> id]]
        /\ now' = at

Write ==
    /\ Next
    /\ \/ \E p \in Req : Flushes(p) /\ Stamp(p)
       \/ /\ \E p \in Req : RollsBack(p) /\ stamp' = [stamp EXCEPT ![p] = NotFlushed]
          /\ UNCHANGED now
       \/ /\ \A p \in Req : ~Flushes(p) /\ ~RollsBack(p)
          /\ UNCHANGED clockVars
    /\ UNCHANGED reader

List ==
    /\ UNCHANGED <<vars, clockVars>>
    /\ Pages!Read

StatementNext == Write \/ List

StatementSpec == StatementInit /\ [][StatementNext]_allVars

(* The account's lock makes the rows of an account visible in the order of
   their created_at, which is what Listing relies on: a transaction that was
   stamped earlier is never committed later. *)
ListingSpec == Pages!Spec

(* The properties of a walk, with the rows as the handlers commit them. *)
NothingSkipped == Pages!NothingSkipped
InOrder == Pages!InOrder
LateOnlyByTie == Pages!LateOnlyByTie
MoreIsMore == Pages!MoreIsMore

(* GET /internal/users/{id}/context: one SELECT adds up the balances of a
   user's accounts in one currency. *)
ContextTotal(u, currency) ==
    MapThenSumSet(LAMBDA a : account[a].balance,
                  {a \in Accounts : Owner[a] = u /\ CurrencyOf[a] = currency})

Delta(r) == IF r.type = "transfer_out" THEN -r.amount ELSE r.amount

(* Whenever it is asked, the total is explained by committed rows of the
   user, but for a cent at most per deposit that was rounded up: a transfer
   between two accounts of one user is never seen half. *)
ContextConserved ==
    \A u \in User, currency \in {CurrencyOf[a] : a \in Accounts} :
        LET own == {a \in Accounts : Owner[a] = u /\ CurrencyOf[a] = currency}
            explained ==
              MapThenSumSet(LAMBDA a : Opening[a].balance, own)
              + MapThenSumSet(Delta, {r \in ledger : r.account \in own /\ r.type = "deposit"})
              + MapThenSumSet(Delta, {r \in ledger : r.account \in own /\ r.type # "deposit"
                                                      /\ r.counterparty \notin own})
        IN  Bank!Within(ContextTotal(u, currency) - explained, own)
====
