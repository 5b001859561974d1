---- MODULE Bank ----
(***************************************************************************)
(* What the money path promises its clients: a transfer or a deposit       *)
(* happens at once or not at all.  There are no sessions, locks or         *)
(* retries here; Transfers shows that the handlers implement this module.  *)
(***************************************************************************)
EXTENDS LedgerRows

VARIABLES
    account,    \* the accounts table
    ledger,     \* the transactions table
    audit       \* the audit_logs table

vars == <<account, ledger, audit>>

Init ==
    /\ account = Opening
    /\ ledger = {}
    /\ audit = {}

Fresh(p) == \A r \in ledger : r.req # p

(***************************************************************************)
(* A transfer is due when its sender owns the source account, both         *)
(* accounts are active and in its currency, the source can pay, the        *)
(* destination can hold the sum and both keys are unused.                  *)
(***************************************************************************)
Due(b) ==
    /\ b.from # b.to
    /\ {b.from, b.to} \subseteq Accounts
    /\ Owner[b.from] = b.user
    /\ account[b.from].status = "active"
    /\ account[b.to].status = "active"
    /\ CurrencyOf[b.from] = b.currency
    /\ CurrencyOf[b.to] = b.currency
    /\ account[b.from].balance >= b.amount
    /\ account[b.to].balance + b.amount <= MaxBalance
    /\ ~KeyTaken(ledger, b.key)
    /\ ~KeyTaken(ledger, InKey(b.key))

Transfer(p) ==
    /\ Fresh(p)
    /\ \E b \in TransferBody :
         /\ Due(b)
         /\ account' = [account EXCEPT
                ![b.from] = WithBalance(@, @.balance - b.amount),
                ![b.to] = WithBalance(@, @.balance + b.amount)]
         /\ ledger' = ledger \cup {OutRow(p, b), InRow(p, b)}
         /\ audit' = audit \cup {TransferAudit(p, b)}

(* A deposit credits what the ledger row says, or a cent more when the sum
   was rounded up to it; it does so whatever the account's status. *)
Deposit(p) ==
    /\ Fresh(p)
    /\ \E b \in DepositBody : \E carry \in Carries(b) :
         /\ b.account \in Accounts
         /\ Owner[b.account] = b.user
         /\ account[b.account].balance + StoredAmount(b.amount + carry) <= MaxBalance
         /\ account' = [account EXCEPT
                ![b.account] = WithBalance(@, @.balance + StoredAmount(b.amount + carry))]
         /\ ledger' = ledger \cup {DepositRow(p, b)}
         /\ audit' = audit \cup {DepositAudit(p, b)}

SetStatus(a, s) ==
    /\ account' = [account EXCEPT ![a] = [balance |-> @.balance, status |-> s]]
    /\ UNCHANGED <<ledger, audit>>

Next ==
    \/ \E a \in Accounts, s \in Status : SetStatus(a, s)
    \/ \E p \in Req : Transfer(p)
    \/ \E p \in Req : Deposit(p)

Spec == Init /\ [][Next]_vars

----------------------------------------------------------------------------

(* What a transaction row adds to the balance of its account. *)
Signed(r) == IF r.type = "transfer_out" THEN -r.amount ELSE r.amount

RowsOf(a) == {r \in ledger : r.account = a}

(* The deposits to the accounts own that a sum of 28 digits may have rounded
   up to a cent their row does not show: just below half a cent, and long. *)
RoundedUp(own) ==
    {e \in audit : /\ e.action = "DEPOSIT_COMPLETED" /\ e.to \in own /\ e.long
                   /\ StoredAmount(e.amount) # StoredAmount(e.amount + 1)}

(* What the accounts own may hold beyond what their rows explain. *)
Within(gap, own) == 0 <= gap /\ gap <= Cent * Cardinality(RoundedUp(own))

(* Every balance is the opening balance plus the account's transaction rows,
   to the cent, but for a cent at most per deposit that was rounded up:
   no handler moves money it does not record. *)
LedgerExplainsBalance ==
    \A a \in Accounts :
        Within(account[a].balance - Opening[a].balance
                 - MapThenSumSet(Signed, RowsOf(a)), {a})

(* The debit row and the credit row of one transfer. *)
Mirrors(o, i) ==
    /\ o.type = "transfer_out" /\ i.type = "transfer_in"
    /\ i.req = o.req /\ i.key = InKey(o.key) /\ i.amount = o.amount
    /\ i.account = o.counterparty /\ i.counterparty = o.account

(* Every transfer_out row has its mirror image on the other account under
   the suffixed key, and every transfer_in row is such an image; with
   KeysUnique, exactly one. *)
LegsMirrored ==
    /\ \A o \in ledger : o.type = "transfer_out" => \E i \in ledger : Mirrors(o, i)
    /\ \A i \in ledger : i.type = "transfer_in" => \E o \in ledger : Mirrors(o, i)

(* One key, one row: the unique index on transactions.idempotency_key. *)
KeysUnique ==
    \A r, s \in ledger : r.key = s.key /\ r.key # NoKey => r = s
====
