---- MODULE TransfersRefinement ----
(***************************************************************************)
(* Transfers implements Bank: whatever the interleaving of the handlers,   *)
(* the committed tables change as if each transfer and deposit had         *)
(* happened at once.  Bank's safety properties follow where they are not   *)
(* already part of Inv.                                                    *)
(***************************************************************************)
EXTENDS TransfersProofs

(* The steps that leave the tables alone; all but three. *)
LEMMA QuietStep ==
    ASSUME Next
    PROVE  \/ UNCHANGED committed
           \/ \E p \in Req : Commit(p) \/ CommitDeposit(p)
           \/ \E a \in Accounts, s \in Status : SetStatus(a, s)
  <1>1. ASSUME NEW p \in Req, Handle(p) PROVE UNCHANGED committed \/ Commit(p) \/ CommitDeposit(p)
    BY <1>1 DEF Handle, Replay, PartialTransfer, CheckKey, CheckOwner, LockRow, Refuse, Apply,
       InsertOut, InsertIn, Enqueue, BrokerDown, LockDeposit, ApplyDeposit, Answer
  <1> QED
    BY <1>1 DEF Next, Arrive, Crash

(* The bank's rows and rounding are those of Transfers. *)
LEMMA SameRows ==
    /\ \A p, b : /\ Bank!OutRow(p, b) = OutRow(p, b) /\ Bank!InRow(p, b) = InRow(p, b)
                 /\ Bank!DepositRow(p, b) = DepositRow(p, b)
                 /\ Bank!TransferAudit(p, b) = TransferAudit(p, b)
                 /\ Bank!DepositAudit(p, b) = DepositAudit(p, b)
    /\ \A m : Bank!StoredAmount(m) = StoredAmount(m)
    /\ \A b : Bank!Carries(b) = Carries(b)
    /\ Bank!Cent = Cent
    /\ \A S : Bank!Cardinality(S) = Cardinality(S)
    /\ \A row, m : Bank!WithBalance(row, m) = WithBalance(row, m)
    /\ \A rows, k : Bank!KeyTaken(rows, k) = KeyTaken(rows, k)
    /\ \A k : Bank!InKey(k) = InKey(k)
    /\ Bank!Status = Status
  BY DEF Bank!OutRow, OutRow, Bank!InRow, InRow, Bank!DepositRow, DepositRow,
     Bank!TransferAudit, TransferAudit, Bank!DepositAudit, DepositAudit,
     Bank!StoredAmount, StoredAmount, Bank!Cent, Cent, Bank!Carries, Carries,
     Bank!WithBalance, WithBalance,
     Bank!KeyTaken, KeyTaken, Bank!InKey, InKey, Bank!NoKey, NoKey,
     Bank!NoAccount, NoAccount, Bank!Status, Status, Bank!Cardinality, Cardinality

(* A request that has not committed has no rows. *)
LEMMA FreshUntilCommit ==
    ASSUME Inv, NEW p \in Req, pc[p] \in {"commit", "deposit_commit"}
    PROVE  Bank!Fresh(p)
  BY DEF Bank!Fresh, Inv, AnswersMatchLedger

(* COMMIT of a transfer is the bank's transfer, due at that moment. *)
LEMMA CommitIsTransfer ==
    ASSUME Inv, NEW p \in Req, Commit(p)
    PROVE  Bank!Transfer(p)
  <1> DEFINE b == body[p]
             m == b.amount
  <1>1. /\ pc[p] = "commit" /\ b \in TransferBody
        /\ b.from \in Accounts /\ b.to \in Accounts /\ b.from # b.to
        /\ account[b.from].balance >= m /\ account[b.to].balance + m <= MaxBalance
        /\ account' = [a \in Accounts |->
              IF a = b.from THEN WithBalance(account[a], account[a].balance - m)
              ELSE IF a = b.to THEN WithBalance(account[a], account[a].balance + m)
              ELSE account[a]]
    BY CommitEffect
  <1>2. account \in [Accounts -> Account]
    BY DEF Inv, TypeOK
  <1>3. account' = [account EXCEPT
            ![b.from] = WithBalance(@, @.balance - m),
            ![b.to] = WithBalance(@, @.balance + m)]
    BY <1>1, <1>2
  <1>4. Bank!Due(b)
    <2>1. /\ Owner[b.from] = b.user
          /\ account[b.from].status = "active" /\ account[b.to].status = "active"
          /\ CurrencyOf[b.from] = b.currency /\ CurrencyOf[b.to] = b.currency
      BY <1>1 DEF Inv, ChecksStillHold, StillDue, Applied
    <2>2. ~KeyTaken(ledger, b.key) /\ ~KeyTaken(ledger, InKey(b.key))
      BY <1>1 DEF Inv, InsertsReserved, Inserted
    <2> QED
      BY <1>1, <2>1, <2>2, SameRows DEF Bank!Due
  <1>5. /\ ledger' = ledger \cup {OutRow(p, b), InRow(p, b)}
        /\ audit' = audit \cup {TransferAudit(p, b)}
    BY DEF Commit
  <1> QED
    BY <1>1, <1>3, <1>4, <1>5, SameRows, FreshUntilCommit DEF Bank!Transfer

(* COMMIT of a deposit is the bank's deposit. *)
LEMMA CommitIsDeposit ==
    ASSUME Inv, NEW p \in Req, CommitDeposit(p)
    PROVE  Bank!Deposit(p)
  <1> DEFINE b == body[p]
             a == b.account
  <1>1. /\ pc[p] = "deposit_commit" /\ b \in DepositBody
        /\ a \in Accounts /\ Owner[a] = b.user
    BY CommitDepositEffect
  <1>a. PICK carry \in Carries(b) :
           LET after == account[a].balance + StoredAmount(b.amount + carry)
           IN  /\ after \in 0 .. MaxBalance
               /\ account' = [account EXCEPT ![a] = WithBalance(account[a], after)]
    BY CommitDepositEffect
  <1> DEFINE credit == StoredAmount(b.amount + carry)
  <1>2. account[a].balance + credit <= MaxBalance
    BY <1>a, AccountAssumption
  <1>3. /\ ledger' = ledger \cup {DepositRow(p, b)}
        /\ audit' = audit \cup {DepositAudit(p, b)}
    BY DEF CommitDeposit
  <1>4. account' = [account EXCEPT ![a] = WithBalance(@, @.balance + credit)]
    BY <1>a
  <1> QED
    BY <1>1, <1>2, <1>3, <1>4, <1>a, SameRows, FreshUntilCommit DEF Bank!Deposit

(* Every step of Transfers that starts in Inv is a step of Bank or leaves
   its tables alone. *)
LEMMA StepImplementsBank ==
    ASSUME Inv, [Next]_vars
    PROVE  [Bank!Next]_(Bank!vars)
  <1>1. CASE UNCHANGED committed
    BY <1>1 DEF committed, Bank!vars
  <1>2. CASE \E p \in Req : Commit(p) \/ CommitDeposit(p)
    BY <1>2, CommitIsTransfer, CommitIsDeposit DEF Bank!Next
  <1>3. CASE \E a \in Accounts, s \in Status : SetStatus(a, s)
    BY <1>3, SameRows DEF SetStatus, Bank!Next, Bank!SetStatus
  <1>4. CASE UNCHANGED vars
    BY <1>4 DEF vars, Bank!vars
  <1> QED
    BY <1>1, <1>2, <1>3, <1>4, QuietStep

(* The handlers implement the atomic bank. *)
THEOREM TransfersImplementBank == Spec => BankSpec
  <1>1. Init => Bank!Init
    BY DEF Init, Bank!Init
  <1> QED
    BY <1>1, StepImplementsBank, Invariance, PTL DEF Spec, BankSpec, Bank!Spec

(* A step that adds rows adds those of a commit. *)
LEMMA NewRows ==
    ASSUME [Next]_vars, ledger' # ledger
    PROVE  \E p \in Req :
             \/ Commit(p) /\ ledger' = ledger \cup {OutRow(p, body[p]), InRow(p, body[p])}
             \/ CommitDeposit(p) /\ ledger' = ledger \cup {DepositRow(p, body[p])}
  BY QuietStep DEF committed, vars, Commit, CommitDeposit, SetStatus

(* Every debit row keeps its credit row and every credit row its debit row:
   the two are inserted by one commit and no row is ever removed. *)
THEOREM LegsNeverPart == Spec => []LegsMirrored
  <1>1. Init => LegsMirrored
    BY DEF Init, LegsMirrored, Bank!LegsMirrored
  <1>2. ASSUME LegsMirrored, [Next]_vars PROVE LegsMirrored'
    <2>1. CASE ledger' = ledger
      BY <1>2, <2>1 DEF LegsMirrored, Bank!LegsMirrored
    <2>2. ASSUME NEW p \in Req, ledger' = ledger \cup {OutRow(p, body[p]), InRow(p, body[p])}
          PROVE  LegsMirrored'
      <3> DEFINE o == OutRow(p, body[p])
                 i == InRow(p, body[p])
      <3>1. Bank!Mirrors(o, i) /\ o.type = "transfer_out" /\ i.type = "transfer_in"
        BY SameRows DEF Bank!Mirrors, OutRow, InRow
      <3> HIDE DEF o, i
      <3> QED
        BY <1>2, <2>2, <3>1 DEF LegsMirrored, Bank!LegsMirrored, o, i
    <2>3. ASSUME NEW p \in Req, ledger' = ledger \cup {DepositRow(p, body[p])}
          PROVE  LegsMirrored'
      <3>1. DepositRow(p, body[p]).type = "deposit"
        BY DEF DepositRow
      <3> QED
        BY <1>2, <2>3, <3>1 DEF LegsMirrored, Bank!LegsMirrored
    <2> QED
      BY <1>2, <2>1, <2>2, <2>3, NewRows
  <1> QED
    BY <1>1, <1>2, PTL DEF Spec

(* A transfer never adds a row to an account that is not active when it does,
   although an operator may change a status at any time. *)
THEOREM FrozenAccountsUntouched == Spec => FrozenUntouched
  <1> DEFINE OnlyActive == \A r \in ledger' \ ledger :
                              r.type # "deposit" => account[r.account].status = "active"
  <1>1. ASSUME Inv, [Next]_vars PROVE [OnlyActive]_vars
    <2>1. CASE ledger' = ledger
      BY <2>1
    <2>2. ASSUME NEW p \in Req, Commit(p),
                 ledger' = ledger \cup {OutRow(p, body[p]), InRow(p, body[p])}
          PROVE  OnlyActive
      <3>1. account[body[p].from].status = "active" /\ account[body[p].to].status = "active"
        BY <1>1, <2>2 DEF Inv, ChecksStillHold, StillDue, Commit, Applied
      <3>2. OutRow(p, body[p]).account = body[p].from /\ InRow(p, body[p]).account = body[p].to
        BY DEF OutRow, InRow
      <3>3. ASSUME NEW r \in ledger' \ ledger
            PROVE  r = OutRow(p, body[p]) \/ r = InRow(p, body[p])
        BY <2>2
      <3> QED
        BY <3>1, <3>2, <3>3
    <2>3. ASSUME NEW p \in Req, ledger' = ledger \cup {DepositRow(p, body[p])}
          PROVE  OnlyActive
      <3>1. DepositRow(p, body[p]).type = "deposit"
        BY DEF DepositRow
      <3> QED
        BY <2>3, <3>1
    <2> QED
      BY <1>1, <2>1, <2>2, <2>3, NewRows
  <1> QED
    BY <1>1, Invariance, PTL DEF Spec, FrozenUntouched

----------------------------------------------------------------------------
(* What one request commits, and what its retries do. *)

(* What a request has committed. *)
RowsOfRequest(p) == {r \in ledger : r.req = p}
AuditOfRequest(p) == {e \in audit : e.entity = p}

(* All of what it was asked, or nothing. *)
Posted(p) ==
    LET b == body[p]
    IN  \/ RowsOfRequest(p) = {} /\ AuditOfRequest(p) = {}
        \/ /\ b \in TransferBody
           /\ RowsOfRequest(p) = {OutRow(p, b), InRow(p, b)}
           /\ AuditOfRequest(p) = {TransferAudit(p, b)}
        \/ /\ b \in DepositBody
           /\ RowsOfRequest(p) = {DepositRow(p, b)}
           /\ AuditOfRequest(p) = {DepositAudit(p, b)}

AllOrNothing == \A p \in Req : Posted(p)

PostedOnce ==
    \A p, q \in Req :
        /\ body[p] \in TransferBody /\ RowsOfRequest(p) # {}
        /\ body[q] \in TransferBody /\ RowsOfRequest(q) # {}
        /\ body[p].key = body[q].key
        => p = q

(* The steps that touch what a request has asked for or committed. *)
LEMMA PostingStep ==
    ASSUME [Next]_vars
    PROVE  \/ UNCHANGED <<ledger, audit, body>>
           \/ \E p \in Req : Arrive(p) \/ Commit(p) \/ CommitDeposit(p)
  <1>1. ASSUME NEW p \in Req, Handle(p)
        PROVE  UNCHANGED <<ledger, audit, body>> \/ Commit(p) \/ CommitDeposit(p)
    <2>1. CASE Replay(p) \/ PartialTransfer(p) \/ CheckKey(p) \/ CheckOwner(p) \/ LockRow(p)
               \/ Refuse(p) \/ Apply(p)
      BY <2>1 DEF Replay, PartialTransfer, CheckKey, CheckOwner, LockRow, Refuse, Apply,
         Answer, committed
    <2>2. CASE InsertOut(p) \/ InsertIn(p) \/ Enqueue(p) \/ BrokerDown(p) \/ LockDeposit(p)
               \/ ApplyDeposit(p)
      BY <2>2 DEF InsertOut, InsertIn, Enqueue, BrokerDown, LockDeposit, ApplyDeposit,
         Answer, committed
    <2> QED BY <1>1, <2>1, <2>2 DEF Handle
  <1>2. ASSUME NEW p \in Req, Crash(p) PROVE UNCHANGED <<ledger, audit, body>>
    BY <1>2 DEF Crash, committed
  <1>3. ASSUME NEW a \in Accounts, NEW s \in Status, SetStatus(a, s)
        PROVE  UNCHANGED <<ledger, audit, body>>
    BY <1>3 DEF SetStatus
  <1> QED BY <1>1, <1>2, <1>3 DEF Next, vars

LEMMA PostingKeeps ==
    ASSUME Inv, AllOrNothing, [Next]_vars
    PROVE  AllOrNothing'
  <1>0. body \in [Req -> TransferBody \cup DepositBody \cup {NoBody}]
    BY DEF Inv, TypeOK
  <1> SUFFICES ASSUME NEW q \in Req PROVE Posted(q)'
    BY DEF AllOrNothing
  <1>1. Posted(q)
    BY DEF AllOrNothing
  <1>2. ASSUME RowsOfRequest(q)' = RowsOfRequest(q), AuditOfRequest(q)' = AuditOfRequest(q),
               body'[q] = body[q] \/ RowsOfRequest(q) = {}
        PROVE  Posted(q)'
    BY <1>1, <1>2 DEF Posted, OutRow, InRow, DepositRow
  <1>3. ASSUME pc[q] \in {"idle", "commit", "deposit_commit"} PROVE RowsOfRequest(q) = {}
    BY <1>3 DEF Inv, AnswersMatchLedger, RowsOfRequest
  <1>4. CASE UNCHANGED <<ledger, audit, body>>
    BY <1>2, <1>4 DEF RowsOfRequest, AuditOfRequest
  <1>5. ASSUME NEW p \in Req, Arrive(p) PROVE Posted(q)'
    <2>1. UNCHANGED <<ledger, audit>> /\ pc[p] = "idle" /\ (q # p => body'[q] = body[q])
      BY <1>0, <1>5 DEF Arrive, committed
    <2>2. RowsOfRequest(q)' = RowsOfRequest(q) /\ AuditOfRequest(q)' = AuditOfRequest(q)
      BY <2>1 DEF RowsOfRequest, AuditOfRequest
    <2>3. q = p => RowsOfRequest(q) = {}
      BY <1>3, <2>1
    <2> QED BY <1>2, <2>1, <2>2, <2>3
  <1>6. ASSUME NEW p \in Req, Commit(p), q # p
        PROVE  /\ RowsOfRequest(q)' = RowsOfRequest(q)
               /\ AuditOfRequest(q)' = AuditOfRequest(q) /\ body'[q] = body[q]
    <2>1. /\ ledger' = ledger \cup {OutRow(p, body[p]), InRow(p, body[p])}
          /\ audit' = audit \cup {TransferAudit(p, body[p])} /\ body' = body
      BY <1>6 DEF Commit
    <2>2. /\ OutRow(p, body[p]).req = p /\ InRow(p, body[p]).req = p
          /\ TransferAudit(p, body[p]).entity = p
      BY DEF OutRow, InRow, TransferAudit
    <2> QED BY <1>6, <2>1, <2>2 DEF RowsOfRequest, AuditOfRequest
  <1>7. ASSUME NEW p \in Req, CommitDeposit(p), q # p
        PROVE  /\ RowsOfRequest(q)' = RowsOfRequest(q)
               /\ AuditOfRequest(q)' = AuditOfRequest(q) /\ body'[q] = body[q]
    <2>1. /\ ledger' = ledger \cup {DepositRow(p, body[p])}
          /\ audit' = audit \cup {DepositAudit(p, body[p])} /\ body' = body
      BY <1>7 DEF CommitDeposit
    <2>2. DepositRow(p, body[p]).req = p /\ DepositAudit(p, body[p]).entity = p
      BY DEF DepositRow, DepositAudit
    <2> QED BY <1>7, <2>1, <2>2 DEF RowsOfRequest, AuditOfRequest
  <1>8. ASSUME Commit(q) PROVE Posted(q)'
    <2>1. /\ ledger' = ledger \cup {OutRow(q, body[q]), InRow(q, body[q])}
          /\ audit' = audit \cup {TransferAudit(q, body[q])} /\ body' = body
          /\ pc[q] = "commit" /\ body[q] \in TransferBody
      BY <1>8, CommitEffect DEF Commit
    <2>2. /\ OutRow(q, body[q]).req = q /\ InRow(q, body[q]).req = q
          /\ TransferAudit(q, body[q]).entity = q
      BY DEF OutRow, InRow, TransferAudit
    <2>3. RowsOfRequest(q) = {} /\ AuditOfRequest(q) = {}
      BY <1>1, <1>3, <2>1 DEF Posted
    <2>4. /\ RowsOfRequest(q)' = {OutRow(q, body[q]), InRow(q, body[q])}
          /\ AuditOfRequest(q)' = {TransferAudit(q, body[q])}
      BY <2>1, <2>2, <2>3 DEF RowsOfRequest, AuditOfRequest
    <2> QED BY <2>1, <2>4 DEF Posted
  <1>9. ASSUME CommitDeposit(q) PROVE Posted(q)'
    <2>1. /\ ledger' = ledger \cup {DepositRow(q, body[q])}
          /\ audit' = audit \cup {DepositAudit(q, body[q])} /\ body' = body
          /\ pc[q] = "deposit_commit" /\ body[q] \in DepositBody
      BY <1>9, CommitDepositEffect DEF CommitDeposit
    <2>2. DepositRow(q, body[q]).req = q /\ DepositAudit(q, body[q]).entity = q
      BY DEF DepositRow, DepositAudit
    <2>3. RowsOfRequest(q) = {} /\ AuditOfRequest(q) = {}
      BY <1>1, <1>3, <2>1 DEF Posted
    <2>4. /\ RowsOfRequest(q)' = {DepositRow(q, body[q])}
          /\ AuditOfRequest(q)' = {DepositAudit(q, body[q])}
      BY <2>1, <2>2, <2>3 DEF RowsOfRequest, AuditOfRequest
    <2> QED BY <2>1, <2>4 DEF Posted
  <1> QED BY <1>2, <1>4, <1>5, <1>6, <1>7, <1>8, <1>9, PostingStep

(* A request has committed all of what it was asked, rows and audit entry,
   or nothing, whatever crashed, failed or was repeated around it. *)
THEOREM RequestsAreAtomic == Spec => []AllOrNothing
  <1>1. Init => AllOrNothing
    BY DEF Init, AllOrNothing, Posted, RowsOfRequest, AuditOfRequest
  <1> QED BY <1>1, PostingKeeps, Invariance, PTL DEF Spec

(* However often a transfer is retried under its key, and whether the retries
   race or follow, one request at most has posted it. *)
THEOREM RetriesPostOnce == Spec => []PostedOnce
  <1>1. Inv /\ AllOrNothing => PostedOnce
    <2> SUFFICES ASSUME Inv, AllOrNothing, NEW p \in Req, NEW q \in Req,
                        body[p] \in TransferBody, RowsOfRequest(p) # {},
                        body[q] \in TransferBody, RowsOfRequest(q) # {},
                        body[p].key = body[q].key
                 PROVE  p = q
      BY DEF PostedOnce
    <2>1. ASSUME NEW s \in Req, body[s] \in TransferBody, RowsOfRequest(s) # {}
          PROVE  OutRow(s, body[s]) \in ledger
      <3>1. body[s] \notin DepositBody
        BY <2>1, BodyAssumption
      <3> QED BY <2>1, <3>1 DEF AllOrNothing, Posted, RowsOfRequest
    <2>2. OutRow(p, body[p]) \in ledger /\ OutRow(q, body[q]) \in ledger
      BY <2>1
    <2>3. /\ OutRow(p, body[p]).key = body[p].key /\ OutRow(p, body[p]).req = p
          /\ OutRow(q, body[q]).key = body[q].key /\ OutRow(q, body[q]).req = q
      BY DEF OutRow
    <2>4. body[p].key # NoKey
      BY BodyAssumption, KeyFacts
    <2> QED BY <2>2, <2>3, <2>4 DEF Inv, KeysUnique, Bank!KeysUnique, NoKey, Bank!NoKey
  <1> QED BY <1>1, RequestsAreAtomic, Invariance, PTL

----------------------------------------------------------------------------
(* Balances and ledger.  A row is worth to its account what Bank adds up. *)

Worth == [r \in TransactionRow |-> Bank!Signed(r)]

(* What Bank adds up, as a sum of Sums. *)
LEMMA SumOfRows ==
    ASSUME NEW rows \in SUBSET TransactionRow, IsFiniteSet(rows)
    PROVE  Bank!MapThenSumSet(Bank!Signed, rows) = Sum(Worth, rows)
  <1> DEFINE Adding(g, s) == IF s = {} THEN 0
                             ELSE LET x == CHOOSE x \in s : TRUE
                                  IN  Bank!Signed(x) + g[s \ {x}]
             f == CHOOSE g : g = [s \in SUBSET rows |-> Adding(g, s)]
  <1>1. Bank!MapThenSumSet(Bank!Signed, rows) = f[rows]
    BY DEF Bank!MapThenSumSet, Bank!MapThenFoldSet
  <1>2. ASSUME NEW g, NEW s \in SUBSET rows PROVE Adding(g, s) = Round(Worth, g, s)
    <2>1. CASE s = {}
      BY <2>1 DEF Round
    <2>2. CASE s # {}
      <3>1. (CHOOSE x \in s : TRUE) \in TransactionRow
        BY <2>2
      <3> QED BY <2>2, <3>1 DEF Round, Worth
    <2> QED BY <2>1, <2>2
  <1>3. PICK g : Solves(g, Worth, rows)
    BY Solvable
  <1> HIDE DEF Adding
  <1>4. g = [s \in SUBSET rows |-> Adding(g, s)]
    BY <1>2, <1>3 DEF Solves
  <1>5. f = [s \in SUBSET rows |-> Adding(f, s)]
    BY <1>4
  <1>6. Solves(f, Worth, rows)
    <2> HIDE DEF f
    <2> QED BY <1>2, <1>5 DEF Solves
  <1> HIDE DEF f
  <1> QED BY <1>1, <1>6, Solution

LEMMA WorthOfRow ==
    ASSUME NEW r \in TransactionRow
    PROVE  /\ Worth[r] \in Int
           /\ r.type = "transfer_out" => Worth[r] = -r.amount
           /\ r.type # "transfer_out" => Worth[r] = r.amount
  BY DEF Worth, TransactionRow, Bank!Signed

(* The rows of an account, and their sum, after one row more. *)
LEMMA OneRowMore ==
    ASSUME NEW rows \in SUBSET TransactionRow, IsFiniteSet(rows),
           NEW r \in TransactionRow, r \notin rows
    PROVE  Sum(Worth, rows \cup {r}) = Sum(Worth, rows) + Worth[r]
  <1>1. \A x \in rows : Worth[x] \in Int
    BY WorthOfRow
  <1>2. Worth[r] \in Int
    BY WorthOfRow
  <1> QED BY <1>1, <1>2, SumAdd

(* Every balance is the opening balance plus the rows of its account, and
   what rounding up may have added. *)
Explained == \A a \in Accounts :
    Bank!Within(account[a].balance - Opening[a].balance - Sum(Worth, Bank!RowsOf(a)), {a})

Balanced == IsFiniteSet(ledger) /\ IsFiniteSet(audit) /\ Explained

(* The most that rounding up can have added to the accounts own. *)
Slack(own) == Cent * Cardinality(Bank!RoundedUp(own))

LEMMA SlackType ==
    ASSUME IsFiniteSet(audit), NEW own
    PROVE  /\ IsFiniteSet(Bank!RoundedUp(own)) /\ Cardinality(Bank!RoundedUp(own)) \in Nat
           /\ Slack(own) \in Nat
           /\ \A gap \in Int : Bank!Within(gap, own) <=> 0 <= gap /\ gap <= Slack(own)
  <1>1. Bank!RoundedUp(own) \in SUBSET audit
    BY DEF Bank!RoundedUp
  <1>2. IsFiniteSet(Bank!RoundedUp(own)) /\ Cardinality(Bank!RoundedUp(own)) \in Nat
    BY <1>1, FS_Subset, FS_CardinalityType
  <1>3. Slack(own) \in Nat
    BY <1>2 DEF Slack, Cent
  <1> QED BY <1>2, <1>3, SameRows DEF Slack, Bank!Within

LEMMA SlackTypeNext ==
    ASSUME IsFiniteSet(audit'), NEW own
    PROVE  /\ Slack(own)' \in Nat
           /\ \A gap \in Int : 0 <= gap /\ gap <= Slack(own)' => Bank!Within(gap, own)'
  <1>1. Bank!RoundedUp(own)' \in SUBSET audit'
    BY DEF Bank!RoundedUp
  <1>2. Cardinality(Bank!RoundedUp(own)') \in Nat
    BY <1>1, FS_Subset, FS_CardinalityType
  <1>3. Slack(own)' \in Nat
    BY <1>2 DEF Slack, Cent
  <1> QED BY <1>3, SameRows DEF Slack, Bank!Within

(* A transfer is not rounded: its entry is none of a deposit. *)
LEMMA TransferNotRounded ==
    ASSUME NEW p \in Req, Commit(p), NEW own
    PROVE  Bank!RoundedUp(own)' = Bank!RoundedUp(own)
  <1>1. audit' = audit \cup {TransferAudit(p, body[p])}
    BY DEF Commit
  <1>2. TransferAudit(p, body[p]).action # "DEPOSIT_COMPLETED"
    BY DEF TransferAudit
  <1> QED BY <1>1, <1>2 DEF Bank!RoundedUp

(* A deposit credits its row's amount, or more by what its audit entry adds
   to the slack of the accounts that hold it. *)
LEMMA DepositCredit ==
    ASSUME Inv, AllOrNothing, IsFiniteSet(audit), NEW p \in Req, CommitDeposit(p), NEW own
    PROVE  LET b == body[p]
               a == b.account
           IN  \E credit \in Nat :
                 /\ account' = [account EXCEPT
                       ![a] = WithBalance(account[a], account[a].balance + credit)]
                 /\ StoredAmount(b.amount) <= credit
                 /\ Slack(own) <= Slack(own)'
                 /\ a \in own => credit - StoredAmount(b.amount) <= Slack(own)' - Slack(own)
  <1> DEFINE b == body[p]
             a == b.account
             entry == DepositAudit(p, b)
  <1>1. /\ pc[p] = "deposit_commit" /\ b \in DepositBody /\ b.amount \in Nat
        /\ StoredAmount(b.amount) \in Nat
    BY CommitDepositEffect
  <1>2. PICK carry \in Carries(b) :
           LET after == account[a].balance + StoredAmount(b.amount + carry)
           IN  /\ carry \in {0, 1} /\ StoredAmount(b.amount + carry) \in Nat
               /\ account' = [account EXCEPT ![a] = WithBalance(account[a], after)]
    BY CommitDepositEffect
  <1> DEFINE credit == StoredAmount(b.amount + carry)
  <1>3. /\ entry.action = "DEPOSIT_COMPLETED" /\ entry.to = a /\ entry.long = b.long
        /\ entry.amount = b.amount /\ entry.entity = p
    BY DEF DepositAudit
  <1>4. audit' = audit \cup {entry} /\ entry \notin audit
    <2>1. RowsOfRequest(p) = {}
      BY <1>1 DEF Inv, AnswersMatchLedger, RowsOfRequest
    <2>2. AuditOfRequest(p) = {}
      BY <2>1 DEF AllOrNothing, Posted
    <2> QED BY <1>3, <2>2 DEF CommitDeposit, AuditOfRequest
  <1>5. IsFiniteSet(audit')
    BY <1>4, FS_AddElement
  <1> DEFINE up == Bank!RoundedUp(own)
             new == Bank!RoundedUp(own)'
  <1>6. /\ IsFiniteSet(up) /\ Cardinality(up) \in Nat /\ entry \notin up
    BY <1>4, SlackType DEF Bank!RoundedUp
  <1>7. credit <= StoredAmount(b.amount) + Cent /\ StoredAmount(b.amount) <= credit
    <2>1. 0 \in Nat /\ WholeCents(0)
      BY DEF WholeCents, Cent
    <2> QED BY <1>1, <1>2, <2>1, StoredSum
  <1> DEFINE m == StoredAmount(b.amount)
             Bounded == /\ Slack(own) <= Slack(own)'
                        /\ a \in own => credit - m <= Slack(own)' - Slack(own)
  <1>8. ASSUME a \in own /\ b.long /\ StoredAmount(b.amount) # StoredAmount(b.amount + 1)
        PROVE  Bounded
    <2>1. new = up \cup {entry}
      <3> HIDE DEF entry
      <3> QED BY <1>3, <1>4, <1>8, SameRows DEF Bank!RoundedUp
    <2>2. Cardinality(new) = Cardinality(up) + 1
      BY <1>6, <2>1, FS_AddElement
    <2>3. Slack(own)' = Slack(own) + Cent
      BY <1>6, <2>2 DEF Slack, Cent
    <2>4. Slack(own) \in Nat
      BY SlackType
    <2>5. credit <= m + Cent /\ credit \in Nat /\ m \in Nat
      BY <1>1, <1>2, <1>7
    <2> HIDE DEF credit, m
    <2> QED BY <2>3, <2>4, <2>5 DEF Cent
  <1>9. ASSUME ~(a \in own /\ b.long /\ StoredAmount(b.amount) # StoredAmount(b.amount + 1))
        PROVE  Bounded
    <2>1. new = up
      <3> HIDE DEF entry
      <3> QED BY <1>3, <1>4, <1>9, SameRows DEF Bank!RoundedUp
    <2>2. Slack(own)' = Slack(own) /\ Slack(own) \in Nat
      BY <2>1, SlackType DEF Slack
    <2>3. a \in own => credit = StoredAmount(b.amount)
      <3>1. CASE carry = 0
        BY <1>1, <3>1
      <3>2. CASE carry = 1
        BY <1>2, <1>9, <3>2 DEF Carries
      <3> QED BY <1>2, <3>1, <3>2
    <2>4. m \in Nat
      BY <1>1
    <2> HIDE DEF credit, m
    <2> QED BY <2>2, <2>3, <2>4 DEF m
  <1>10. Bounded
    BY <1>8, <1>9
  <1>11. /\ credit \in Nat /\ m <= credit
         /\ account' = [account EXCEPT ![a] = WithBalance(account[a], account[a].balance + credit)]
    BY <1>2, <1>7
  <1> HIDE DEF credit
  <1> QED BY <1>10, <1>11

LEMMA LedgerType ==
    ASSUME Inv
    PROVE  ledger \in SUBSET TransactionRow
  BY DEF Inv, TypeOK

LEMMA SumOfAccount ==
    ASSUME Inv, IsFiniteSet(ledger), NEW a \in Accounts
    PROVE  /\ Bank!RowsOf(a) \in SUBSET TransactionRow /\ IsFiniteSet(Bank!RowsOf(a))
           /\ Sum(Worth, Bank!RowsOf(a)) \in Int
           /\ Bank!MapThenSumSet(Bank!Signed, Bank!RowsOf(a)) = Sum(Worth, Bank!RowsOf(a))
  <1>1. Bank!RowsOf(a) \in SUBSET ledger /\ Bank!RowsOf(a) \in SUBSET TransactionRow
    BY LedgerType DEF Bank!RowsOf
  <1>2. IsFiniteSet(Bank!RowsOf(a))
    BY <1>1, FS_Subset
  <1>3. \A r \in Bank!RowsOf(a) : Worth[r] \in Int
    BY <1>1, WorthOfRow
  <1> QED BY <1>1, <1>2, <1>3, SumType, SumOfRows

LEMMA BalancedMeans ==
    ASSUME Inv, IsFiniteSet(ledger)
    PROVE  LedgerExplainsBalance <=> Explained
  BY SumOfAccount DEF LedgerExplainsBalance, Bank!LedgerExplainsBalance, Explained

(* The rows a commit posts: of its request, and so not there before. *)
LEMMA TransferRows ==
    ASSUME Inv, NEW p \in Req, Commit(p)
    PROVE  LET out == OutRow(p, body[p])
               in == InRow(p, body[p])
           IN  /\ ledger' = ledger \cup {out, in} /\ out \notin ledger /\ in \notin ledger
               /\ out \in TransactionRow /\ in \in TransactionRow
               /\ Worth[out] = -body[p].amount /\ Worth[in] = body[p].amount
  <1> DEFINE b == body[p]
             out == OutRow(p, b)
             in == InRow(p, b)
  <1>1. /\ pc[p] = "commit" /\ b.amount \in Nat /\ b.key \in Key
        /\ b.from \in Accounts /\ b.to \in Accounts
    BY CommitEffect
  <1>2. InKey(b.key) \in Key
    BY <1>1, KeyFacts
  <1>3. out \in TransactionRow /\ in \in TransactionRow
    BY <1>1, <1>2 DEF TransactionRow, OutRow, InRow
  <1>4. /\ out.type = "transfer_out" /\ out.amount = b.amount /\ out.req = p
        /\ in.type = "transfer_in" /\ in.amount = b.amount /\ in.req = p
    BY DEF OutRow, InRow
  <1>5. ledger' = ledger \cup {out, in}
    BY DEF Commit
  <1> HIDE DEF out, in
  <1>6. out \notin ledger /\ in \notin ledger
    BY <1>1, <1>4, FreshUntilCommit DEF Bank!Fresh
  <1>7. Worth[out] = -b.amount /\ Worth[in] = b.amount
    BY <1>3, <1>4, WorthOfRow
  <1> QED BY <1>3, <1>5, <1>6, <1>7 DEF out, in

LEMMA DepositRowIs ==
    ASSUME Inv, NEW p \in Req, CommitDeposit(p)
    PROVE  LET row == DepositRow(p, body[p])
           IN  /\ ledger' = ledger \cup {row} /\ row \notin ledger
               /\ row \in TransactionRow /\ Worth[row] = StoredAmount(body[p].amount)
  <1> DEFINE b == body[p]
             row == DepositRow(p, b)
  <1>1. /\ pc[p] = "deposit_commit" /\ b.account \in Accounts
        /\ StoredAmount(b.amount) \in Nat
    BY CommitDepositEffect
  <1>2. row \in TransactionRow
    BY <1>1 DEF TransactionRow, DepositRow
  <1>3. row.type = "deposit" /\ row.amount = StoredAmount(b.amount) /\ row.req = p
    BY DEF DepositRow
  <1>4. ledger' = ledger \cup {row}
    BY DEF CommitDeposit
  <1> HIDE DEF row
  <1>5. row \notin ledger
    BY <1>1, <1>3, FreshUntilCommit DEF Bank!Fresh
  <1>6. Worth[row] = StoredAmount(b.amount)
    BY <1>2, <1>3, WorthOfRow
  <1> QED BY <1>2, <1>4, <1>5, <1>6 DEF row

(* A transfer moves the amount out of one account and into another, and so
   do its two rows. *)
LEMMA TransferExplained ==
    ASSUME Inv, Balanced, NEW p \in Req, Commit(p)
    PROVE  Balanced'
  <1> DEFINE b == body[p]
             m == b.amount
             out == OutRow(p, b)
             in == InRow(p, b)
  <1>1. /\ m \in Nat /\ b.from \in Accounts /\ b.to \in Accounts /\ b.from # b.to
        /\ account' = [a \in Accounts |->
              IF a = b.from THEN WithBalance(account[a], account[a].balance - m)
              ELSE IF a = b.to THEN WithBalance(account[a], account[a].balance + m)
              ELSE account[a]]
    BY CommitEffect
  <1>2. /\ ledger' = ledger \cup {out, in} /\ out \notin ledger /\ in \notin ledger
        /\ out \in TransactionRow /\ in \in TransactionRow
        /\ Worth[out] = -m /\ Worth[in] = m
    BY TransferRows
  <1>3. out.account = b.from /\ in.account = b.to
    BY DEF OutRow, InRow
  <1>4. IsFiniteSet(ledger) /\ IsFiniteSet(ledger')
    <2>1. IsFiniteSet(ledger) /\ ledger' = (ledger \cup {out}) \cup {in}
      BY <1>2 DEF Balanced
    <2> HIDE DEF out, in
    <2>2. IsFiniteSet(ledger \cup {out})
      BY <2>1, FS_AddElement
    <2> QED BY <2>1, <2>2, FS_AddElement
  <1>a. IsFiniteSet(audit')
    <2>1. audit' = audit \cup {TransferAudit(p, b)}
      BY DEF Commit
    <2> QED BY <2>1, FS_AddElement DEF Balanced
  <1> HIDE DEF out, in
  <1>5. ASSUME NEW a \in Accounts
        PROVE  account'[a].balance - Opening[a].balance - Sum(Worth, Bank!RowsOf(a)')
                 = account[a].balance - Opening[a].balance - Sum(Worth, Bank!RowsOf(a))
    <2>1. /\ account[a].balance \in Int /\ Opening[a].balance \in Int
          /\ Sum(Worth, Bank!RowsOf(a)) \in Int
          /\ Bank!RowsOf(a) \in SUBSET TransactionRow /\ IsFiniteSet(Bank!RowsOf(a))
      BY <1>4, SumOfAccount, AccountAssumption DEF Inv, TypeOK, Account, Balanced, Explained
    <2>2. CASE a = b.from
      <3>1. Bank!RowsOf(a)' = Bank!RowsOf(a) \cup {out}
        BY <1>1, <1>2, <1>3, <2>2 DEF Bank!RowsOf
      <3>2. out \notin Bank!RowsOf(a)
        BY <1>2 DEF Bank!RowsOf
      <3>3. Sum(Worth, Bank!RowsOf(a)') = Sum(Worth, Bank!RowsOf(a)) - m
        BY <1>1, <1>2, <2>1, <3>1, <3>2, OneRowMore
      <3>4. account'[a].balance = account[a].balance - m
        BY <1>1, <2>2 DEF WithBalance
      <3> QED BY <1>1, <2>1, <3>3, <3>4
    <2>3. CASE a = b.to
      <3>1. Bank!RowsOf(a)' = Bank!RowsOf(a) \cup {in}
        BY <1>1, <1>2, <1>3, <2>3 DEF Bank!RowsOf
      <3>2. in \notin Bank!RowsOf(a)
        BY <1>2 DEF Bank!RowsOf
      <3>3. Sum(Worth, Bank!RowsOf(a)') = Sum(Worth, Bank!RowsOf(a)) + m
        BY <1>1, <1>2, <2>1, <3>1, <3>2, OneRowMore
      <3>4. account'[a].balance = account[a].balance + m
        BY <1>1, <2>3 DEF WithBalance
      <3> QED BY <1>1, <2>1, <3>3, <3>4
    <2>4. CASE a # b.from /\ a # b.to
      <3>1. Bank!RowsOf(a)' = Bank!RowsOf(a)
        BY <1>2, <1>3, <2>4 DEF Bank!RowsOf
      <3>2. account'[a] = account[a]
        BY <1>1, <2>4
      <3> QED BY <2>1, <3>1, <3>2
    <2> QED BY <2>2, <2>3, <2>4
  <1>6. ASSUME NEW a \in Accounts
        PROVE  Bank!Within(account[a].balance - Opening[a].balance
                             - Sum(Worth, Bank!RowsOf(a)), {a})'
    <2>1. Bank!RoundedUp({a})' = Bank!RoundedUp({a})
      BY TransferNotRounded
    <2> QED BY <1>5, <2>1 DEF Balanced, Explained, Bank!Within
  <1> QED BY <1>4, <1>a, <1>6 DEF Balanced, Explained

(* A deposit credits what its row records, or what rounding up makes of it. *)
LEMMA DepositExplained ==
    ASSUME Inv, AllOrNothing, Balanced, NEW p \in Req, CommitDeposit(p)
    PROVE  Balanced'
  <1> DEFINE b == body[p]
             m == StoredAmount(b.amount)
             row == DepositRow(p, b)
  <1>1. b.account \in Accounts /\ m \in Nat
    BY CommitDepositEffect
  <1>2. /\ ledger' = ledger \cup {row} /\ row \notin ledger
        /\ row \in TransactionRow /\ Worth[row] = m
    BY DepositRowIs
  <1>3. row.account = b.account
    BY DEF DepositRow
  <1>4. IsFiniteSet(ledger) /\ IsFiniteSet(ledger') /\ IsFiniteSet(audit')
    BY <1>2, FS_AddElement DEF Balanced, CommitDeposit
  <1> HIDE DEF row
  <1>5. ASSUME NEW a \in Accounts
        PROVE  Bank!Within(account[a].balance - Opening[a].balance
                             - Sum(Worth, Bank!RowsOf(a)), {a})'
    <2> DEFINE gap == account[a].balance - Opening[a].balance - Sum(Worth, Bank!RowsOf(a))
    <2>1. /\ account[a].balance \in Int /\ Opening[a].balance \in Int
          /\ Sum(Worth, Bank!RowsOf(a)) \in Int
          /\ Bank!RowsOf(a) \in SUBSET TransactionRow /\ IsFiniteSet(Bank!RowsOf(a))
      BY <1>4, SumOfAccount, AccountAssumption DEF Inv, TypeOK, Account
    <2>2. account \in [Accounts -> Account]
      BY DEF Inv, TypeOK
    <2>3. PICK credit \in Nat :
             /\ account' = [account EXCEPT ![b.account] =
                   WithBalance(account[b.account], account[b.account].balance + credit)]
             /\ m <= credit
             /\ Slack({a}) <= Slack({a})'
             /\ b.account \in {a} => credit - m <= Slack({a})' - Slack({a})
      BY DepositCredit DEF Balanced
    <2>4. /\ gap \in Int /\ 0 <= gap /\ gap <= Slack({a})
          /\ Slack({a}) \in Nat /\ Slack({a})' \in Nat
          /\ \A g \in Int : (0 <= g /\ g <= Slack({a})') => Bank!Within(g, {a})'
      <3>1. Slack({a}) \in Nat /\ \A g \in Int : Bank!Within(g, {a}) => 0 <= g /\ g <= Slack({a})
        BY SlackType DEF Balanced
      <3>2. Slack({a})' \in Nat /\ \A g \in Int : (0 <= g /\ g <= Slack({a})') => Bank!Within(g, {a})'
        BY <1>4, SlackTypeNext
      <3>3. gap \in Int
        BY <2>1
      <3>4. Bank!Within(gap, {a})
        BY DEF Balanced, Explained
      <3> QED BY <3>1, <3>2, <3>3, <3>4
    <2>5. CASE a = b.account
      <3>1. Bank!RowsOf(a)' = Bank!RowsOf(a) \cup {row}
        BY <1>2, <1>3, <2>5 DEF Bank!RowsOf
      <3>2. row \notin Bank!RowsOf(a)
        BY <1>2 DEF Bank!RowsOf
      <3>3. Sum(Worth, Bank!RowsOf(a)') = Sum(Worth, Bank!RowsOf(a)) + m
        BY <1>1, <1>2, <2>1, <3>1, <3>2, OneRowMore
      <3>4. account'[a].balance = account[a].balance + credit
        BY <1>1, <2>2, <2>3, <2>5 DEF WithBalance
      <3>5. gap' = gap + (credit - m)
        BY <1>1, <2>1, <3>3, <3>4
      <3> HIDE DEF gap, m
      <3>6. gap' \in Int /\ 0 <= gap' /\ gap' <= Slack({a})'
        BY <1>1, <2>3, <2>4, <2>5, <3>5
      <3> QED BY <2>4, <3>6 DEF gap
    <2>6. CASE a # b.account
      <3>1. Bank!RowsOf(a)' = Bank!RowsOf(a)
        BY <1>2, <1>3, <2>6 DEF Bank!RowsOf
      <3>2. account'[a] = account[a]
        BY <1>1, <2>2, <2>3, <2>6
      <3>3. gap' = gap
        BY <3>1, <3>2
      <3> HIDE DEF gap
      <3>4. 0 <= gap /\ gap <= Slack({a})'
        BY <2>3, <2>4
      <3> QED BY <2>4, <3>3, <3>4 DEF gap
    <2> QED BY <2>5, <2>6
  <1> QED BY <1>4, <1>5 DEF Balanced, Explained

LEMMA BalancedInvariance == Spec => []Balanced
  <1>1. Init => Balanced
    <2> SUFFICES ASSUME Init PROVE Balanced
      OBVIOUS
    <2>1. \A a \in Accounts : Bank!RowsOf(a) = {} /\ account[a] = Opening[a]
      BY DEF Init, Bank!RowsOf
    <2>2. \A a \in Accounts : Opening[a].balance \in Int
      BY AccountAssumption DEF Account
    <2>3. IsFiniteSet(ledger) /\ IsFiniteSet(audit)
      BY FS_EmptySet DEF Init
    <2>4. \A a \in Accounts : Bank!Within(0, {a})
      BY <2>3, SlackType
    <2>5. \A a \in Accounts :
             account[a].balance - Opening[a].balance - Sum(Worth, Bank!RowsOf(a)) = 0
      <3>1. Sum(Worth, {}) = 0
        BY SumEmpty
      <3> QED BY <2>1, <2>2, <3>1
    <2> QED BY <2>3, <2>4, <2>5 DEF Balanced, Explained
  <1>2. ASSUME Inv, AllOrNothing, Balanced, [Next]_vars PROVE Balanced'
    <2>1. CASE UNCHANGED committed
      BY <1>2, <2>1 DEF committed, Balanced, Explained, Bank!RowsOf, Bank!Within, Bank!RoundedUp
    <2>2. CASE \E p \in Req : Commit(p) \/ CommitDeposit(p)
      BY <1>2, <2>2, TransferExplained, DepositExplained
    <2>3. ASSUME NEW a \in Accounts, NEW s \in Status, SetStatus(a, s)
          PROVE  Balanced'
      <3>1. /\ ledger' = ledger /\ audit' = audit
            /\ account' = [account EXCEPT ![a] = [balance |-> @.balance, status |-> s]]
        BY <2>3 DEF SetStatus
      <3>2. \A x \in Accounts : account'[x].balance = account[x].balance
        BY <1>2, <3>1 DEF Inv, TypeOK
      <3> QED BY <1>2, <3>1, <3>2
              DEF Balanced, Explained, Bank!RowsOf, Bank!Within, Bank!RoundedUp
    <2>4. CASE UNCHANGED vars
      BY <2>1, <2>4 DEF vars, committed
    <2> QED BY <1>2, <2>1, <2>2, <2>3, <2>4, QuietStep
  <1> QED BY <1>1, <1>2, Invariance, RequestsAreAtomic, PTL DEF Spec

(* Money and ledger part by no more than rounding up does: every balance is
   what the account opened with plus its committed rows, and at most a cent
   more per deposit just below half a cent with more decimals than the sum
   keeps; whatever the requests interleave, crash or retry, for any number
   of accounts, requests and rows. *)
THEOREM BalancesExplained == Spec => []LedgerExplainsBalance
  <1>1. Inv /\ Balanced => LedgerExplainsBalance
    BY BalancedMeans DEF Balanced
  <1> QED BY <1>1, Invariance, BalancedInvariance, PTL

Exact == \A a \in Accounts :
    account[a].balance = Opening[a].balance + Sum(Worth, Bank!RowsOf(a))

(* As long as no deposit has more decimals than its sum keeps, balances and
   ledger agree to the cent. *)
THEOREM BalancesExact ==
    ASSUME \A b \in DepositBody : ~b.long
    PROVE  Spec => []Exact
  <1>1. Inv /\ AllOrNothing /\ Balanced => Exact
    <2> SUFFICES ASSUME Inv, AllOrNothing, Balanced, NEW a \in Accounts
                 PROVE  account[a].balance = Opening[a].balance + Sum(Worth, Bank!RowsOf(a))
      BY DEF Exact
    <2>1. ASSUME NEW e \in audit, e.action = "DEPOSIT_COMPLETED" PROVE ~e.long
      <3>1. e.entity \in Req /\ e \in AuditOfRequest(e.entity)
        BY DEF Inv, TypeOK, AuditOfRequest
      <3>2. \/ e = TransferAudit(e.entity, body[e.entity])
            \/ e = DepositAudit(e.entity, body[e.entity]) /\ body[e.entity] \in DepositBody
        BY <3>1 DEF AllOrNothing, Posted
      <3>3. TransferAudit(e.entity, body[e.entity]).action # "DEPOSIT_COMPLETED"
        BY DEF TransferAudit
      <3>4. DepositAudit(e.entity, body[e.entity]).long = body[e.entity].long
        BY DEF DepositAudit
      <3> QED BY <2>1, <3>2, <3>3, <3>4
    <2>2. Bank!RoundedUp({a}) = {}
      BY <2>1 DEF Bank!RoundedUp
    <2>3. Slack({a}) = 0
      <3>1. Cardinality(Bank!RoundedUp({a})) = 0
        BY <2>2, FS_EmptySet
      <3> QED BY <3>1 DEF Slack, Cent
    <2> DEFINE gap == account[a].balance - Opening[a].balance - Sum(Worth, Bank!RowsOf(a))
    <2>4. /\ account[a].balance \in Int /\ Opening[a].balance \in Int
          /\ Sum(Worth, Bank!RowsOf(a)) \in Int
      BY SumOfAccount, AccountAssumption DEF Inv, TypeOK, Account, Balanced
    <2>5. gap \in Int
      BY <2>4
    <2>6. Bank!Within(gap, {a})
      BY DEF Balanced, Explained
    <2>7. 0 <= gap /\ gap <= Slack({a})
      BY <2>5, <2>6, SlackType DEF Balanced
    <2> QED BY <2>3, <2>4, <2>7
  <1> QED BY <1>1, Invariance, RequestsAreAtomic, BalancedInvariance, PTL

----------------------------------------------------------------------------
(* Sums of balances, over any finite set of accounts. *)

(* What the accounts hold, and held when the modelled period starts. *)
Funds == [a \in Accounts |-> account[a].balance]
OpeningFunds == [a \in Accounts |-> Opening[a].balance]

(* The rows that bring money into a set of accounts, or take it out. *)
Deposited(own) == {r \in ledger : r.account \in own /\ r.type = "deposit"}
Crossing(own) == {r \in ledger : r.account \in own /\ r.type # "deposit"
                                   /\ r.counterparty \notin own}

(* Nothing else does: the sum of the balances follows from those rows, and
   exceeds it by no more than rounding up does. *)
Surplus(own) ==
    Sum(Funds, own) - (Sum(OpeningFunds, own)
                         + Sum(Worth, Deposited(own)) + Sum(Worth, Crossing(own)))

Conserved(own) == Bank!Within(Surplus(own), own)

LEMMA FundsType ==
    ASSUME Inv, NEW own \in SUBSET Accounts, IsFiniteSet(own)
    PROVE  /\ Funds \in [Accounts -> Int] /\ OpeningFunds \in [Accounts -> Int]
           /\ Sum(Funds, own) \in Int /\ Sum(OpeningFunds, own) \in Int
  <1>1. Funds \in [Accounts -> Int]
    BY DEF Inv, TypeOK, Account, Funds
  <1>2. OpeningFunds \in [Accounts -> Int]
    BY AccountAssumption DEF Account, OpeningFunds
  <1>3. (\A a \in own : Funds[a] \in Int) /\ (\A a \in own : OpeningFunds[a] \in Int)
    BY <1>1, <1>2
  <1> QED BY <1>1, <1>2, <1>3, SumType

LEMMA FlowType ==
    ASSUME Inv, IsFiniteSet(ledger), NEW own
    PROVE  /\ Deposited(own) \in SUBSET TransactionRow /\ IsFiniteSet(Deposited(own))
           /\ Crossing(own) \in SUBSET TransactionRow /\ IsFiniteSet(Crossing(own))
           /\ Sum(Worth, Deposited(own)) \in Int /\ Sum(Worth, Crossing(own)) \in Int
  <1>1. /\ Deposited(own) \in SUBSET ledger /\ Crossing(own) \in SUBSET ledger
        /\ Deposited(own) \in SUBSET TransactionRow /\ Crossing(own) \in SUBSET TransactionRow
    BY LedgerType DEF Deposited, Crossing
  <1>2. IsFiniteSet(Deposited(own)) /\ IsFiniteSet(Crossing(own))
    BY <1>1, FS_Subset
  <1>3. (\A r \in Deposited(own) : Worth[r] \in Int) /\ (\A r \in Crossing(own) : Worth[r] \in Int)
    BY <1>1, WorthOfRow
  <1> QED BY <1>1, <1>2, <1>3, SumType

(* One account's balance changes by d. *)
LEMMA OneBalance ==
    ASSUME NEW F \in [Accounts -> Int], NEW x \in Accounts, NEW d \in Int,
           NEW G \in [Accounts -> Int], G[x] = F[x] + d,
           \A a \in Accounts : a # x => G[a] = F[a],
           NEW own \in SUBSET Accounts, IsFiniteSet(own)
    PROVE  Sum(G, own) = Sum(F, own) + (IF x \in own THEN d ELSE 0)
  <1>0. (\A a \in own : F[a] \in Int) /\ (\A a \in own : F[a] \in Int /\ G[a] \in Int)
    OBVIOUS
  <1>1. Sum(F, own) \in Int
    BY <1>0, SumType
  <1>2. CASE x \in own
    <2>1. \A a \in own : a # x => F[a] = G[a]
      OBVIOUS
    <2>2. Sum(G, own) = Sum(F, own) - F[x] + G[x]
      BY <1>0, <1>2, <2>1, SumChange
    <2>3. F[x] \in Int
      OBVIOUS
    <2> QED BY <1>1, <1>2, <2>2, <2>3
  <1>3. CASE x \notin own
    <2>1. \A a \in own : F[a] = G[a]
      BY <1>3
    <2>2. Sum(G, own) = Sum(F, own)
      BY <2>1, SumSame
    <2> QED BY <1>1, <1>3, <2>2
  <1> QED BY <1>2, <1>3

LEMMA TransferConserves ==
    ASSUME Inv, IsFiniteSet(ledger), NEW p \in Req, Commit(p),
           NEW own \in SUBSET Accounts, IsFiniteSet(own), Conserved(own)
    PROVE  Conserved(own)'
  <1> DEFINE b == body[p]
             m == b.amount
             out == OutRow(p, b)
             in == InRow(p, b)
  <1>1. /\ m \in Nat /\ b.from \in Accounts /\ b.to \in Accounts /\ b.from # b.to
        /\ account' = [a \in Accounts |->
              IF a = b.from THEN WithBalance(account[a], account[a].balance - m)
              ELSE IF a = b.to THEN WithBalance(account[a], account[a].balance + m)
              ELSE account[a]]
    BY CommitEffect
  <1>2. /\ ledger' = ledger \cup {out, in} /\ out \notin ledger /\ in \notin ledger
        /\ out \in TransactionRow /\ in \in TransactionRow
        /\ Worth[out] = -m /\ Worth[in] = m
    BY TransferRows
  <1>3. /\ out.account = b.from /\ out.counterparty = b.to /\ out.type = "transfer_out"
        /\ in.account = b.to /\ in.counterparty = b.from /\ in.type = "transfer_in"
    BY DEF OutRow, InRow
  <1>4. Sum(Funds', own) = Sum(Funds, own) + (IF b.from \in own THEN -m ELSE 0)
                             + (IF b.to \in own THEN m ELSE 0)
    <2>1. Funds \in [Accounts -> Int] /\ Sum(Funds, own) \in Int
      BY FundsType
    <2> DEFINE half == [Funds EXCEPT ![b.from] = @ - m]
    <2>2. half \in [Accounts -> Int] /\ half[b.from] = Funds[b.from] + (-m)
          /\ \A a \in Accounts : a # b.from => half[a] = Funds[a]
      BY <1>1, <2>1
    <2>3. Funds' = [half EXCEPT ![b.to] = half[b.to] + m]
      BY <1>1, <2>1 DEF Funds, WithBalance
    <2> DEFINE after == Funds'
    <2>4. after \in [Accounts -> Int] /\ after[b.to] = half[b.to] + m
          /\ \A a \in Accounts : a # b.to => after[a] = half[a]
      BY <1>1, <2>2, <2>3
    <2>5. -m \in Int /\ m \in Int
      BY <1>1
    <2> HIDE DEF half, after, m
    <2>6. Sum(half, own) = Sum(Funds, own) + (IF b.from \in own THEN -m ELSE 0)
      BY <1>1, <2>1, <2>2, <2>5, OneBalance
    <2>7. Sum(after, own) = Sum(half, own) + (IF b.to \in own THEN m ELSE 0)
      BY <1>1, <2>2, <2>4, <2>5, OneBalance
    <2> QED BY <2>1, <2>5, <2>6, <2>7 DEF after
  <1>5. Deposited(own)' = Deposited(own)
    BY <1>2, <1>3 DEF Deposited
  <1>6. /\ Crossing(own) \in SUBSET TransactionRow /\ IsFiniteSet(Crossing(own))
        /\ out \notin Crossing(own) /\ in \notin Crossing(own)
        /\ Sum(Worth, Crossing(own)) \in Int /\ Sum(Worth, Deposited(own)) \in Int
        /\ Sum(OpeningFunds, own) \in Int /\ Sum(Funds, own) \in Int
    BY <1>2, FlowType, FundsType DEF Crossing
  <1>7. Sum(Worth, Crossing(own)') = Sum(Worth, Crossing(own))
                                       + (IF b.from \in own THEN -m ELSE 0)
                                       + (IF b.to \in own THEN m ELSE 0)
    <2> HIDE DEF out, in
    <2>1. CASE b.from \in own /\ b.to \in own
      <3>1. Crossing(own)' = Crossing(own)
        BY <1>2, <1>3, <2>1 DEF Crossing
      <3> QED BY <1>1, <1>6, <2>1, <3>1
    <2>2. CASE b.from \in own /\ b.to \notin own
      <3>1. Crossing(own)' = Crossing(own) \cup {out}
        BY <1>2, <1>3, <2>2 DEF Crossing
      <3>2. Sum(Worth, Crossing(own)') = Sum(Worth, Crossing(own)) + (-m)
        BY <1>2, <1>6, <3>1, OneRowMore
      <3> QED BY <1>1, <1>6, <2>2, <3>2
    <2>3. CASE b.from \notin own /\ b.to \in own
      <3>1. Crossing(own)' = Crossing(own) \cup {in}
        BY <1>2, <1>3, <2>3 DEF Crossing
      <3>2. Sum(Worth, Crossing(own)') = Sum(Worth, Crossing(own)) + m
        BY <1>2, <1>6, <3>1, OneRowMore
      <3> QED BY <1>1, <1>6, <2>3, <3>2
    <2>4. CASE b.from \notin own /\ b.to \notin own
      <3>1. Crossing(own)' = Crossing(own)
        BY <1>2, <1>3, <2>4 DEF Crossing
      <3> QED BY <1>6, <2>4, <3>1
    <2> QED BY <2>1, <2>2, <2>3, <2>4
  <1>8. OpeningFunds' = OpeningFunds
    BY DEF OpeningFunds
  <1> HIDE DEF m
  <1> QED
    <2> DEFINE x == IF b.from \in own THEN -m ELSE 0
               y == IF b.to \in own THEN m ELSE 0
    <2>1. x \in Int /\ y \in Int
      BY <1>1
    <2>2. Sum(Funds', own) = Sum(Funds, own) + x + y
      BY <1>4
    <2>3. Sum(Worth, Crossing(own)') = Sum(Worth, Crossing(own)) + x + y
      BY <1>7
    <2> HIDE DEF x, y
    <2>4. Surplus(own)' = Surplus(own)
      BY <1>5, <1>6, <1>8, <2>1, <2>2, <2>3 DEF Surplus
    <2>5. Bank!RoundedUp(own)' = Bank!RoundedUp(own)
      BY TransferNotRounded
    <2> QED BY <2>4, <2>5 DEF Conserved, Bank!Within

LEMMA DepositConserves ==
    ASSUME Inv, AllOrNothing, IsFiniteSet(ledger), IsFiniteSet(audit),
           NEW p \in Req, CommitDeposit(p),
           NEW own \in SUBSET Accounts, IsFiniteSet(own), Conserved(own)
    PROVE  Conserved(own)'
  <1> DEFINE b == body[p]
             m == StoredAmount(b.amount)
             row == DepositRow(p, b)
  <1>0. b.account \in Accounts /\ m \in Nat
    BY CommitDepositEffect
  <1>a. PICK credit \in Nat :
           /\ account' = [account EXCEPT ![b.account] =
                 WithBalance(account[b.account], account[b.account].balance + credit)]
           /\ m <= credit
           /\ Slack(own) <= Slack(own)'
           /\ b.account \in own => credit - m <= Slack(own)' - Slack(own)
    BY DepositCredit
  <1> DEFINE after == account[b.account].balance + credit
  <1>1. /\ b.account \in Accounts /\ m \in Nat
        /\ account' = [account EXCEPT ![b.account] = WithBalance(account[b.account], after)]
    BY <1>0, <1>a
  <1>2. /\ ledger' = ledger \cup {row} /\ row \notin ledger
        /\ row \in TransactionRow /\ Worth[row] = m
    BY DepositRowIs
  <1>3. row.account = b.account /\ row.type = "deposit"
    BY DEF DepositRow
  <1>4. Sum(Funds', own) = Sum(Funds, own) + (IF b.account \in own THEN credit ELSE 0)
    <2>1. Funds \in [Accounts -> Int] /\ account \in [Accounts -> Account]
      BY FundsType DEF Inv, TypeOK
    <2> DEFINE new == Funds'
    <2>2. new = [Funds EXCEPT ![b.account] = Funds[b.account] + credit]
      BY <1>1, <2>1 DEF Funds, WithBalance
    <2>3. new \in [Accounts -> Int] /\ new[b.account] = Funds[b.account] + credit
          /\ \A a \in Accounts : a # b.account => new[a] = Funds[a]
      BY <1>1, <2>1, <2>2
    <2>4. credit \in Int
      OBVIOUS
    <2> HIDE DEF new
    <2>5. Sum(new, own) = Sum(Funds, own) + (IF b.account \in own THEN credit ELSE 0)
      BY <1>1, <2>1, <2>3, <2>4, OneBalance
    <2> QED BY <2>5 DEF new
  <1>5. Crossing(own)' = Crossing(own)
    BY <1>2, <1>3 DEF Crossing
  <1>6. /\ Deposited(own) \in SUBSET TransactionRow /\ IsFiniteSet(Deposited(own))
        /\ row \notin Deposited(own)
        /\ Sum(Worth, Crossing(own)) \in Int /\ Sum(Worth, Deposited(own)) \in Int
        /\ Sum(OpeningFunds, own) \in Int /\ Sum(Funds, own) \in Int
    BY <1>2, FlowType, FundsType DEF Deposited
  <1>7. Sum(Worth, Deposited(own)') = Sum(Worth, Deposited(own))
                                        + (IF b.account \in own THEN m ELSE 0)
    <2> HIDE DEF row
    <2>1. CASE b.account \in own
      <3>1. Deposited(own)' = Deposited(own) \cup {row}
        BY <1>2, <1>3, <2>1 DEF Deposited
      <3>2. Sum(Worth, Deposited(own)') = Sum(Worth, Deposited(own)) + m
        BY <1>2, <1>6, <3>1, OneRowMore
      <3> QED BY <2>1, <3>2
    <2>2. CASE b.account \notin own
      <3>1. Deposited(own)' = Deposited(own)
        BY <1>2, <1>3, <2>2 DEF Deposited
      <3> QED BY <1>6, <2>2, <3>1
    <2> QED BY <2>1, <2>2
  <1>8. OpeningFunds' = OpeningFunds
    BY DEF OpeningFunds
  <1>9. /\ Slack(own) \in Nat /\ Slack(own)' \in Nat
        /\ 0 <= Surplus(own) /\ Surplus(own) <= Slack(own)
        /\ \A gap \in Int : 0 <= gap /\ gap <= Slack(own)' => Bank!Within(gap, own)'
    <2>1. IsFiniteSet(audit')
      BY FS_AddElement DEF CommitDeposit
    <2>2. Surplus(own) \in Int
      BY <1>6 DEF Surplus
    <2> QED BY <2>1, <2>2, SlackType, SlackTypeNext DEF Conserved
  <1> HIDE DEF m
  <1> QED
    <2> DEFINE x == IF b.account \in own THEN m ELSE 0
               y == IF b.account \in own THEN credit ELSE 0
    <2>1. /\ x \in Int /\ y \in Int /\ x <= y
          /\ y - x <= Slack(own)' - Slack(own)
      BY <1>1, <1>9, <1>a
    <2>2. Sum(Funds', own) = Sum(Funds, own) + y
      BY <1>4
    <2>3. Sum(Worth, Deposited(own)') = Sum(Worth, Deposited(own)) + x
      BY <1>7
    <2> HIDE DEF x, y
    <2>4. Surplus(own)' = Surplus(own) + (y - x) /\ Surplus(own) \in Int
      BY <1>5, <1>6, <1>8, <2>1, <2>2, <2>3 DEF Surplus
    <2>5. Surplus(own)' \in Int /\ 0 <= Surplus(own)' /\ Surplus(own)' <= Slack(own)'
      BY <1>9, <2>1, <2>4
    <2> QED BY <1>9, <2>5 DEF Conserved

SumsExplained == \A own \in SUBSET Accounts : IsFiniteSet(own) => Conserved(own)

(* Whatever set of accounts is looked at, at whatever moment: money moves
   within it without a trace in its sum, and enters or leaves it by rows;
   all that is beyond them is the rounding up of deposits to it. *)
THEOREM SumsConserved == Spec => []SumsExplained
  <1>1. Init => SumsExplained
    <2> SUFFICES ASSUME Init, NEW own \in SUBSET Accounts, IsFiniteSet(own)
                 PROVE  Conserved(own)
      BY DEF SumsExplained
    <2>1. Funds = OpeningFunds
      BY DEF Init, Funds, OpeningFunds
    <2>2. Deposited(own) = {} /\ Crossing(own) = {}
      BY DEF Init, Deposited, Crossing
    <2>3. Sum(OpeningFunds, own) \in Int
      BY InitInv, FundsType
    <2>4. Sum(Worth, {}) = 0
      BY SumEmpty
    <2>5. Surplus(own) = 0
      BY <2>1, <2>2, <2>3, <2>4 DEF Surplus
    <2>6. Bank!Within(0, own)
      BY FS_EmptySet, SlackType DEF Init
    <2> QED BY <2>5, <2>6 DEF Conserved
  <1>2. ASSUME Inv, AllOrNothing, Balanced, SumsExplained, [Next]_vars PROVE SumsExplained'
    <2> SUFFICES ASSUME NEW own \in SUBSET Accounts, IsFiniteSet(own)
                 PROVE  Conserved(own)'
      BY DEF SumsExplained
    <2>0. Conserved(own)
      BY <1>2 DEF SumsExplained
    <2>1. ASSUME Funds' = Funds, ledger' = ledger, audit' = audit PROVE Conserved(own)'
      BY <2>0, <2>1 DEF Conserved, Surplus, Deposited, Crossing, OpeningFunds,
         Bank!Within, Bank!RoundedUp
    <2>2. CASE UNCHANGED committed
      BY <2>1, <2>2 DEF committed, Funds
    <2>3. CASE \E p \in Req : Commit(p) \/ CommitDeposit(p)
      BY <1>2, <2>0, <2>3, TransferConserves, DepositConserves DEF Balanced
    <2>4. ASSUME NEW a \in Accounts, NEW s \in Status, SetStatus(a, s)
          PROVE  Conserved(own)'
      <3>1. /\ ledger' = ledger /\ audit' = audit
            /\ account' = [account EXCEPT ![a] = [balance |-> @.balance, status |-> s]]
        BY <2>4 DEF SetStatus
      <3>2. Funds' = Funds
        BY <1>2, <3>1 DEF Inv, TypeOK, Funds
      <3> QED BY <2>1, <3>1, <3>2
    <2>5. CASE UNCHANGED vars
      BY <2>2, <2>5 DEF vars, committed
    <2> QED BY <1>2, <2>2, <2>3, <2>4, <2>5, QuietStep
  <1> QED BY <1>1, <1>2, Invariance, RequestsAreAtomic, BalancedInvariance, PTL DEF Spec

MoneyConserved ==
    Bank!Within(Sum(Funds, Accounts) - (Sum(OpeningFunds, Accounts)
                  + Sum(Worth, {r \in ledger : r.type = "deposit"})), Accounts)

(* Over all accounts: the bank holds what it opened with and what was
   deposited, and a cent at most for each deposit that was rounded up;
   transfers neither make money nor lose it. *)
THEOREM MoneyAccountedFor ==
    ASSUME IsFiniteSet(Accounts)
    PROVE  Spec => []MoneyConserved
  <1>1. Inv /\ LegsMirrored /\ Balanced /\ SumsExplained => MoneyConserved
    <2> SUFFICES ASSUME Inv, LegsMirrored, Balanced, SumsExplained PROVE MoneyConserved
      OBVIOUS
    <2>1. ASSUME NEW r \in ledger PROVE r.account \in Accounts /\ r.type \in
                        {"transfer_out", "transfer_in", "deposit"}
      BY LedgerType DEF TransactionRow
    <2>2. ASSUME NEW r \in ledger, r.type # "deposit" PROVE r.counterparty \in Accounts
      BY <2>1, <2>2 DEF LegsMirrored, Bank!LegsMirrored, Bank!Mirrors
    <2>3. Crossing(Accounts) = {}
      BY <2>2 DEF Crossing
    <2>4. Deposited(Accounts) = {r \in ledger : r.type = "deposit"}
      BY <2>1 DEF Deposited
    <2>5. /\ Sum(Worth, Deposited(Accounts)) \in Int /\ Sum(OpeningFunds, Accounts) \in Int
          /\ Sum(Worth, {}) = 0
      BY FlowType, FundsType, SumEmpty DEF Balanced
    <2>6. Conserved(Accounts)
      BY DEF SumsExplained
    <2>7. Surplus(Accounts) = Sum(Funds, Accounts) - (Sum(OpeningFunds, Accounts)
                                + Sum(Worth, {r \in ledger : r.type = "deposit"}))
      BY <2>3, <2>4, <2>5 DEF Surplus
    <2> QED BY <2>6, <2>7 DEF MoneyConserved, Conserved
  <1> QED BY <1>1, SumsConserved, Invariance, LegsNeverPart, BalancedInvariance, PTL
====
