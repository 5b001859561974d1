---- MODULE LedgerRows ----
(***************************************************************************)
(* The rows the money path reads and writes: accounts, transactions and    *)
(* audit entries, the idempotency keys that tie them together, and the two *)
(* request bodies that cause them.  Bank and Transfers share this module.  *)
(*                                                                         *)
(* The database stores whole cents (Numeric(18, 2)).  Amounts are counted  *)
(* in tenths of a cent: what is finer is cut off, which rounding half up   *)
(* to cents never notices, and `long' says that there may be a lot of it.  *)
(***************************************************************************)
EXTENDS Integers, FiniteSets, FiniteSetsExt

CONSTANTS
    Req,            \* requests; a request also names the rows it inserts
    User,
    AccountId,      \* account UUIDs, as numbers: only their order matters
    Accounts,       \* the account rows that exist
    Owner,          \* accounts.user_id
    CurrencyOf,     \* accounts.currency
    Opening,        \* the account rows when the modelled period starts
    MaxBalance,     \* the largest value Numeric(18, 2) holds
    BaseKey,        \* client keys, without the "_in" suffixes they end in
    BaseLength,     \* their lengths in characters
    KeyColumn,      \* the width of transactions.idempotency_key
    TransferBody,   \* the transfer bodies clients send
    DepositBody     \* the deposit bodies clients send

Cent == 10

WholeCents(m) == m % Cent = 0

(* What a Numeric(18, 2) column keeps of an amount: PostgreSQL rounds half
   away from zero, and every amount here is non-negative. *)
StoredAmount(m) == Cent * ((m + 5) \div Cent)

(* account.balance += amount is a sum of 28 digits (Python's default decimal
   context).  A longer one is rounded and may reach the next tenth of a cent;
   the amount itself, in the row, is not rounded before its column does it. *)
Carries(b) == IF b.long THEN {0, 1} ELSE {0}

Status == {"active", "frozen", "closed"}

Account == [balance : 0 .. MaxBalance, status : Status]

WithBalance(row, m) == [balance |-> m, status |-> row.status]

(* A key is a base string followed by `ins' copies of "_in". *)
Key == [base : BaseKey, ins : Nat]
InKey(k) == [k EXCEPT !.ins = @ + 1]
FitsColumn(k) == BaseLength[k.base] + 3 * k.ins <= KeyColumn

NoKey == [base |-> "null", ins |-> 0]
NoAccount == -1

(***************************************************************************)
(* Transaction rows.  A request inserts at most one row of a type, so      *)
(* (req, type) stands for the row's random UUID.                           *)
(***************************************************************************)
OutRow(p, b) ==
    [req |-> p, type |-> "transfer_out", account |-> b.from,
     counterparty |-> b.to, amount |-> b.amount, key |-> b.key]

(* Mutant: the credit row copies the debit row's accounts. *)
InRowUnswapped(p, b) ==
    [req |-> p, type |-> "transfer_in", account |-> b.to,
     counterparty |-> b.to, amount |-> b.amount, key |-> InKey(b.key)]

InRow(p, b) ==
    [req |-> p, type |-> "transfer_in", account |-> b.to,
     counterparty |-> b.from, amount |-> b.amount, key |-> InKey(b.key)]

DepositRow(p, b) ==
    [req |-> p, type |-> "deposit", account |-> b.account,
     counterparty |-> NoAccount, amount |-> StoredAmount(b.amount), key |-> NoKey]

TransactionRow ==
    [req : Req, type : {"transfer_out", "transfer_in", "deposit"},
     account : Accounts, counterparty : Accounts \cup {NoAccount},
     amount : Nat, key : Key \cup {NoKey}]

(* An audit entry names the transaction row it is about (entity_id, the
   deposit's or the transfer_out's) and quotes the amount requested, all
   its decimals included. *)
TransferAudit(p, b) ==
    [action |-> "TRANSFER_COMPLETED", user |-> b.user, entity |-> p,
     amount |-> b.amount, from |-> b.from, to |-> b.to]

DepositAudit(p, b) ==
    [action |-> "DEPOSIT_COMPLETED", user |-> b.user, entity |-> p,
     amount |-> b.amount, long |-> b.long, from |-> NoAccount, to |-> b.account]

(* The keys are unique in the table; NULL keys (deposits) never clash. *)
KeyTaken(rows, k) == \E r \in rows : r.key = k

ASSUME AccountAssumption ==
    /\ AccountId \subseteq Nat
    /\ Accounts \subseteq AccountId
    /\ Owner \in [Accounts -> User]
    /\ Opening \in [Accounts -> Account]
    /\ \A a \in Accounts : WholeCents(Opening[a].balance)
    /\ MaxBalance \in Nat

ASSUME KeyAssumption ==
    /\ "null" \notin BaseKey
    /\ BaseLength \in [BaseKey -> Nat]
    /\ KeyColumn \in Nat

(* Pydantic rejects every other body before the handler runs: a transfer
   moves a positive whole number of cents under a key of 1 to 64
   characters; a deposit is only checked to be positive, so it may be less
   than a tenth of a cent and have any number of decimals. *)
ASSUME BodyAssumption ==
    /\ \A b \in TransferBody :
         /\ b.op = "transfer" /\ b.user \in User
         /\ b.from \in AccountId /\ b.to \in AccountId
         /\ b.amount \in Nat /\ b.amount > 0 /\ WholeCents(b.amount)
         /\ b.key \in Key /\ FitsColumn(b.key)
    /\ \A b \in DepositBody :
         /\ b.op = "deposit" /\ b.user \in User
         /\ b.account \in AccountId
         /\ b.amount \in Nat /\ b.long \in BOOLEAN
====
