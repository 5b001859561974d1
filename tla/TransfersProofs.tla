---- MODULE TransfersProofs ----
(***************************************************************************)
(* Proofs about Transfers, for any number of requests, accounts and keys.  *)
(***************************************************************************)
EXTENDS Transfers, Sums, TLAPS

(* A sum of whole cents is stored as it is. *)
LEMMA StoredWhole ==
    ASSUME NEW m \in Int, WholeCents(m)
    PROVE  StoredAmount(m) = m
  BY DEF WholeCents, StoredAmount, Cent

(* Rounding the sum, as the balance column does, or the addend alone, as the
   transaction's column does, comes to the same; a carry adds at most a cent. *)
LEMMA StoredSum ==
    ASSUME NEW b \in Nat, NEW m \in Nat, WholeCents(b)
    PROVE  /\ StoredAmount(b + m) = b + StoredAmount(m)
           /\ StoredAmount(m) \in Nat
           /\ WholeCents(StoredAmount(m))
           /\ WholeCents(b + StoredAmount(m))
           /\ \A carry \in {0, 1} :
                /\ StoredAmount(m) <= StoredAmount(m + carry)
                /\ StoredAmount(m + carry) <= StoredAmount(m + 1)
                /\ StoredAmount(m + carry) <= StoredAmount(m) + Cent
  BY DEF WholeCents, StoredAmount, Cent

(* Whole cents stay whole under the sums and differences of a transfer. *)
LEMMA WholeSum ==
    ASSUME NEW b \in Nat, NEW m \in Nat, WholeCents(b), WholeCents(m)
    PROVE  WholeCents(b + m) /\ WholeCents(b - m)
  BY DEF WholeCents, Cent

(* A key, its suffixed form and NULL are three different things. *)
LEMMA KeyFacts ==
    ASSUME NEW k \in Key
    PROVE  /\ InKey(k) \in Key
           /\ InKey(k) # k
           /\ k # NoKey
           /\ InKey(k) # NoKey
           /\ \A l \in Key : InKey(k) = InKey(l) => k = l
  BY KeyAssumption DEF Key, InKey, NoKey

(* The invariant holds of the opening tables, before any request arrives. *)
LEMMA InitInv == Init => Inv
  <1> SUFFICES ASSUME Init PROVE Inv
    OBVIOUS
  <1>1. TypeOK
    <2>1. account \in [Accounts -> Account] /\ \A a \in Accounts : WholeCents(account[a].balance)
      BY AccountAssumption DEF Init
    <2>2. session \in [Req -> [Accounts -> LoadedRow \cup {NotLoaded}]]
      BY DEF Init, NothingLoaded
    <2> QED
      BY <2>1, <2>2 DEF Init, TypeOK, Reply, TransferStep, DepositStep
  <1>2. LocksHeld /\ LockedRowsFresh /\ ChecksStillHold
    BY DEF Init, LocksHeld, LocksOf, LockedRowsFresh, SeesFresh, ChecksStillHold, StillDue, Applied
  <1>3. InsertsReserved
    BY DEF Init, InsertsReserved, Inserted
  <1>4. KeysUnique /\ AnswersMatchLedger
    BY DEF Init, KeysUnique, Bank!KeysUnique, AnswersMatchLedger
  <1> QED
    BY <1>1, <1>2, <1>3, <1>4 DEF Inv

(* What is true of a request stays so while others step, if they leave the
   rows it has locked alone. *)
LEMMA Frame ==
    ASSUME NEW q \in Req, LocksOf(q), SeesFresh(q), StillDue(q),
           pc'[q] = pc[q], body'[q] = body[q], held'[q] = held[q], session'[q] = session[q],
           \A a \in held[q] : account'[a] = account[a]
    PROVE  LocksOf(q)' /\ SeesFresh(q)' /\ StillDue(q)'
  <1>1. LocksOf(q)'
    BY DEF LocksOf, Rows, Applied
  <1>2. /\ pc[q] \in Applied => body[q].from \in held[q] /\ body[q].to \in held[q]
        /\ pc[q] \in {"deposit_apply", "deposit_commit"} => body[q].account \in held[q]
    BY DEF LocksOf
  <1>3. SeesFresh(q)'
    BY <1>2 DEF SeesFresh, Applied
  <1>4. StillDue(q)'
    BY <1>2 DEF StillDue, Applied
  <1> QED
    BY <1>1, <1>3, <1>4

(* A query that loads an account row keeps every session well typed. *)
LEMMA LoadedType ==
    ASSUME NEW a \in Accounts, account \in [Accounts -> Account]
    PROVE  account[a] \in LoadedRow
  BY AccountAssumption DEF Account, LoadedRow

(* A request ends: it is answered or its worker dies, its locks and session
   are gone and nothing is committed.  201 is only answered after a commit,
   and after a commit nothing is but 201 and internal_error. *)
LEMMA EndStep ==
    ASSUME Inv, NEW p \in Req, pc[p] \in InFlight,
           NEW l \in {"done", "crashed"}, Goto(p, l),
           NEW code \in Reply, reply' = [reply EXCEPT ![p] = code],
           held' = [held EXCEPT ![p] = {}],
           session' \in [Req -> [Accounts -> LoadedRow \cup {NotLoaded}]],
           \A q \in Req \ {p} : session'[q] = session[q],
           UNCHANGED <<account, ledger, audit, body>>,
           l = "crashed" => code = "none",
           code = "created" => pc[p] = "notify",
           pc[p] = "notify" => l = "crashed" \/ code \in {"created", "internal_error"}
    PROVE  Inv'
  <1> USE DEF Goto
  <1>0. /\ TypeOK /\ LocksHeld /\ LockedRowsFresh /\ ChecksStillHold
        /\ InsertsReserved /\ KeysUnique /\ AnswersMatchLedger
    BY DEF Inv
  <1>1. /\ pc'[p] = l /\ held'[p] = {} /\ reply'[p] = code
        /\ \A q \in Req \ {p} : /\ pc'[q] = pc[q] /\ held'[q] = held[q]
                                /\ reply'[q] = reply[q]
    BY <1>0 DEF TypeOK
  <1>2. TypeOK'
    <2>1. held' \in [Req -> SUBSET Accounts] /\ reply' \in [Req -> Reply]
      BY <1>0 DEF TypeOK
    <2>2. pc' \in [Req -> InFlight \cup {"idle", "done", "crashed"}]
      BY <1>0 DEF TypeOK
    <2>3. \A q \in Req : /\ pc'[q] \in TransferStep => body'[q] \in TransferBody
                         /\ pc'[q] \in DepositStep => body'[q] \in DepositBody
      BY <1>0, <1>1 DEF TypeOK, TransferStep, DepositStep
    <2> QED
      BY <1>0, <2>1, <2>2, <2>3 DEF TypeOK
  <1>3. LocksHeld'
    BY <1>0, <1>1 DEF LocksHeld, LocksOf, Rows, TypeOK, Applied
  <1>4. LockedRowsFresh'
    BY <1>0, <1>1 DEF LockedRowsFresh, SeesFresh, TypeOK, Applied
  <1>5. ChecksStillHold'
    BY <1>0, <1>1 DEF ChecksStillHold, StillDue, Applied
  <1>6. InsertsReserved'
    <2>1. \A q \in Req : Inserted(q)' \subseteq Inserted(q)
      BY <1>1 DEF Inserted
    <2> QED
      BY <1>0, <2>1 DEF InsertsReserved, KeyTaken
  <1>7. KeysUnique'
    BY <1>0, <1>1 DEF KeysUnique, Bank!KeysUnique
  <1>8. AnswersMatchLedger'
    <2>1. ASSUME NEW r \in ledger
          PROVE  \/ pc'[r.req] \in {"notify", "crashed"}
                 \/ pc'[r.req] = "done" /\ reply'[r.req] \in {"created", "internal_error"}
      <3>1. r.req \in Req
        BY <1>0 DEF TypeOK, TransactionRow
      <3> QED
        BY <1>0, <1>1, <3>1 DEF AnswersMatchLedger, InFlight, TransferStep, DepositStep
    <2>2. ASSUME NEW q \in Req
          PROVE  /\ pc'[q] # "done" => reply'[q] = "none"
                 /\ (pc'[q] = "notify" \/ reply'[q] = "created") /\ body'[q] \in TransferBody =>
                      KeyTaken(ledger', body'[q].key) /\ KeyTaken(ledger', InKey(body'[q].key))
      BY <1>0, <1>1 DEF AnswersMatchLedger
    <2> QED
      BY <2>1, <2>2 DEF AnswersMatchLedger
  <1> QED
    BY <1>2, <1>3, <1>4, <1>5, <1>6, <1>7, <1>8 DEF Inv

(* An answer other than 201 is such an end. *)
LEMMA AnswerStep ==
    ASSUME Inv, NEW p \in Req, NEW code \in Reply, Answer(p, code),
           pc[p] \in InFlight, code # "created",
           pc[p] = "notify" => code = "internal_error"
    PROVE  Inv'
  <1>1. TypeOK
    BY DEF Inv
  <1>2. /\ session' \in [Req -> [Accounts -> LoadedRow \cup {NotLoaded}]]
        /\ \A q \in Req \ {p} : session'[q] = session[q]
    BY <1>1 DEF Answer, Release, TypeOK, NothingLoaded
  <1> QED
    BY <1>2, EndStep DEF Answer, Release, committed

(* A worker that dies frees its locks and session and keeps the invariant. *)
LEMMA CrashStep ==
    ASSUME Inv, NEW p \in Req, Crash(p)
    PROVE  Inv'
  <1>1. TypeOK /\ reply[p] = "none"
    BY DEF Inv, Crash, InFlight, TransferStep, DepositStep, AnswersMatchLedger
  <1>2. /\ session' \in [Req -> [Accounts -> LoadedRow \cup {NotLoaded}]]
        /\ \A q \in Req \ {p} : session'[q] = session[q]
    BY <1>1 DEF Crash, Release, TypeOK, NothingLoaded
  <1>3. reply' = [reply EXCEPT ![p] = "none"]
    BY <1>1 DEF Crash, TypeOK
  <1> QED
    BY <1>2, <1>3, EndStep DEF Crash, Release, committed, Reply

(* Queueing the notification and answering 201 keeps the invariant. *)
LEMMA EnqueueStep ==
    ASSUME Inv, NEW p \in Req, Enqueue(p)
    PROVE  Inv'
  <1>1. TypeOK /\ held[p] = {}
    BY DEF Inv, LocksHeld, LocksOf, Enqueue, Applied
  <1>2. held' = [held EXCEPT ![p] = {}]
    BY <1>1 DEF Enqueue, TypeOK
  <1>3. session' \in [Req -> [Accounts -> LoadedRow \cup {NotLoaded}]]
    BY <1>1 DEF Enqueue, TypeOK
  <1> QED
    BY <1>2, <1>3, EndStep DEF Enqueue, committed, Reply, InFlight, TransferStep

(* A step to the next statement that changes nothing but the request's
   program counter: one of the moves listed, on what it found in the table. *)
LEMMA MoveStep ==
    ASSUME Inv, NEW p \in Req, NEW l, Goto(p, l),
           UNCHANGED <<committed, body, session, held, reply>>,
           \/ /\ pc[p] = "check" /\ l = "owner"
              /\ body[p].from # body[p].to
           \/ /\ pc[p] = "check" /\ l = "notify"
              /\ KeyTaken(ledger, body[p].key) /\ KeyTaken(ledger, InKey(body[p].key))
           \/ /\ pc[p] = "insert_out" /\ l = "insert_in"
              /\ InsertFree(p, body[p].key) /\ ~KeyTaken(ledger, body[p].key)
           \/ /\ pc[p] = "insert_in" /\ l = "commit"
              /\ InsertFree(p, InKey(body[p].key)) /\ ~KeyTaken(ledger, InKey(body[p].key))
    PROVE  Inv'
  <1> USE DEF Goto, committed
  <1>0. /\ TypeOK /\ LocksHeld /\ LockedRowsFresh /\ ChecksStillHold
        /\ InsertsReserved /\ KeysUnique /\ AnswersMatchLedger
    BY DEF Inv
  <1>1. /\ pc' = [pc EXCEPT ![p] = l] /\ pc'[p] = l
        /\ \A q \in Req \ {p} : pc'[q] = pc[q]
        /\ l \in TransferStep /\ pc[p] \in TransferStep
    BY <1>0 DEF TypeOK, TransferStep
  <1>2. TypeOK'
    BY <1>0, <1>1 DEF TypeOK, InFlight, TransferStep, DepositStep
  <1>3. LocksHeld'
    BY <1>0, <1>1 DEF LocksHeld, LocksOf, Rows, TypeOK, Applied
  <1>4. LockedRowsFresh'
    BY <1>0, <1>1 DEF LockedRowsFresh, SeesFresh, TypeOK, Applied
  <1>5. ChecksStillHold'
    BY <1>0, <1>1 DEF ChecksStillHold, StillDue, Applied
  <1>6. InsertsReserved'
    <2>1. \A q \in Req \ {p} : Inserted(q)' = Inserted(q)
      BY <1>1 DEF Inserted
    <2>2. ASSUME NEW k \in Inserted(p)'
          PROVE  k \in Inserted(p) \/ (~KeyTaken(ledger, k) /\ InsertFree(p, k))
      <3>1. body' = body
        OBVIOUS
      <3>2. CASE pc[p] = "check"
        BY <1>1, <3>2 DEF Inserted
      <3>3. CASE pc[p] = "insert_out"
        BY <1>1, <3>1, <3>3 DEF Inserted
      <3>4. CASE pc[p] = "insert_in"
        BY <1>1, <3>1, <3>4 DEF Inserted
      <3> QED
        BY <3>2, <3>3, <3>4
    <2>3. \A k \in Inserted(p)' : ~KeyTaken(ledger, k) /\ InsertFree(p, k)
      BY <1>0, <2>2 DEF InsertsReserved, InsertFree
    <2>4. ledger' = ledger
      OBVIOUS
    <2>5. ASSUME NEW q \in Req, NEW k \in Inserted(q)'
          PROVE  ~KeyTaken(ledger', k) /\ \A r \in Req \ {q} : k \notin Inserted(r)'
      <3>1. CASE q = p
        BY <2>1, <2>3, <2>4, <2>5, <3>1 DEF InsertFree, KeyTaken
      <3>2. CASE q # p
        BY <1>0, <2>1, <2>3, <2>4, <2>5, <3>2 DEF InsertFree, InsertsReserved, KeyTaken
      <3> QED
        BY <3>1, <3>2
    <2> QED
      BY <2>5 DEF InsertsReserved
  <1>7. KeysUnique'
    BY <1>0 DEF KeysUnique, Bank!KeysUnique
  <1>8. AnswersMatchLedger'
    BY <1>0, <1>1 DEF AnswersMatchLedger, TypeOK, TransferStep, TransactionRow
  <1> QED
    BY <1>2, <1>3, <1>4, <1>5, <1>6, <1>7, <1>8 DEF Inv

(* A request with an admitted body keeps the invariant. *)
LEMMA ArriveStep ==
    ASSUME Inv, NEW p \in Req, Arrive(p)
    PROVE  Inv'
  <1> USE DEF Goto, committed
  <1>0. /\ TypeOK /\ LocksHeld /\ LockedRowsFresh /\ ChecksStillHold
        /\ InsertsReserved /\ KeysUnique /\ AnswersMatchLedger
    BY DEF Inv
  <1>1. /\ pc[p] = "idle" /\ pc'[p] \in {"check", "deposit_lock"}
        /\ pc'[p] = "check" => body'[p] \in TransferBody
        /\ pc'[p] = "deposit_lock" => body'[p] \in DepositBody
        /\ \A q \in Req \ {p} : pc'[q] = pc[q] /\ body'[q] = body[q]
        /\ UNCHANGED <<account, ledger, audit, session, held, reply>>
    BY <1>0 DEF TypeOK, Arrive
  <1>2. TypeOK'
    <2>1. /\ pc' \in [Req -> InFlight \cup {"idle", "done", "crashed"}]
          /\ body' \in [Req -> TransferBody \cup DepositBody \cup {NoBody}]
      BY <1>0 DEF TypeOK, Arrive, InFlight, TransferStep, DepositStep
    <2> QED
      BY <1>0, <1>1, <2>1 DEF TypeOK, TransferStep, DepositStep
  <1>3. LocksHeld'
    BY <1>0, <1>1 DEF LocksHeld, LocksOf, Rows, TypeOK, Applied
  <1>4. LockedRowsFresh'
    BY <1>0, <1>1 DEF LockedRowsFresh, SeesFresh, Applied
  <1>5. ChecksStillHold'
    BY <1>0, <1>1 DEF ChecksStillHold, StillDue, Applied
  <1>6. InsertsReserved'
    BY <1>0, <1>1 DEF InsertsReserved, Inserted
  <1>7. KeysUnique'
    BY <1>0, <1>1 DEF KeysUnique, Bank!KeysUnique
  <1>8. AnswersMatchLedger'
    BY <1>0, <1>1 DEF AnswersMatchLedger, TypeOK, TransactionRow
  <1> QED
    BY <1>2, <1>3, <1>4, <1>5, <1>6, <1>7, <1>8 DEF Inv

(* The unlocked ownership read of a transfer keeps the invariant. *)
LEMMA CheckOwnerStep ==
    ASSUME Inv, NEW p \in Req, CheckOwner(p)
    PROVE  Inv'
  <1> USE DEF Goto, committed
  <1>0. /\ TypeOK /\ LocksHeld /\ LockedRowsFresh /\ ChecksStillHold
        /\ InsertsReserved /\ KeysUnique /\ AnswersMatchLedger
    BY DEF Inv
  <1>a. CASE pc'[p] = "done"
    <2>1. PICK code \in {"not_found", "unauthorized"} : Answer(p, code)
      BY <1>0, <1>a DEF CheckOwner, Load, TypeOK
    <2> QED
      BY <2>1, AnswerStep DEF CheckOwner, Reply, InFlight, TransferStep
  <1>b. CASE pc'[p] # "done"
    <2>1. /\ body[p].from \in Accounts /\ Owner[body[p].from] = body[p].user
          /\ session' = [session EXCEPT ![p][body[p].from] = account[body[p].from]]
          /\ pc[p] = "owner" /\ pc' = [pc EXCEPT ![p] = "lock"]
          /\ UNCHANGED <<account, ledger, audit, body, held, reply>>
      BY <1>0, <1>b DEF CheckOwner, Answer, Load, TypeOK
    <2>2. /\ pc'[p] = "lock" /\ held[p] = {}
          /\ \A q \in Req \ {p} : pc'[q] = pc[q] /\ session'[q] = session[q]
      BY <1>0, <2>1 DEF TypeOK, LocksHeld, LocksOf, Applied
    <2>3. TypeOK'
      <3>1. session' \in [Req -> [Accounts -> LoadedRow \cup {NotLoaded}]]
        BY <1>0, <2>1, LoadedType DEF TypeOK
      <3> QED
        BY <1>0, <2>1, <2>2, <3>1 DEF TypeOK, InFlight, TransferStep, DepositStep
    <2>4. LocksHeld'
      BY <1>0, <2>1, <2>2 DEF LocksHeld, LocksOf, Rows, TypeOK, Applied
    <2>5. LockedRowsFresh'
      BY <1>0, <2>1, <2>2 DEF LockedRowsFresh, SeesFresh, Applied
    <2>6. ChecksStillHold'
      BY <1>0, <2>1, <2>2 DEF ChecksStillHold, StillDue, Applied
    <2>7. InsertsReserved'
      BY <1>0, <2>1, <2>2 DEF InsertsReserved, Inserted
    <2>8. KeysUnique'
      BY <1>0, <2>1 DEF KeysUnique, Bank!KeysUnique
    <2>9. AnswersMatchLedger'
      BY <1>0, <2>1, <2>2 DEF AnswersMatchLedger, TypeOK, TransactionRow
    <2> QED
      BY <2>3, <2>4, <2>5, <2>6, <2>7, <2>8, <2>9 DEF Inv
  <1> QED
    BY <1>a, <1>b

(* Locking the next row, and reading it fresh, keeps the invariant. *)
LEMMA LockRowStep ==
    ASSUME Inv, NEW p \in Req, LockRow(p)
    PROVE  Inv'
  <1> USE DEF Goto, committed
  <1>0. /\ TypeOK /\ LocksHeld /\ LockedRowsFresh /\ ChecksStillHold
        /\ InsertsReserved /\ KeysUnique /\ AnswersMatchLedger
    BY DEF Inv
  <1>1. PICK a \in NextRow(p) :
          /\ Unlocked(a)
          /\ held' = [held EXCEPT ![p] = @ \cup {a}]
          /\ Load(p, a)
          /\ Goto(p, IF Rows(p) \subseteq held[p] \cup {a} THEN "apply" ELSE "lock")
    BY DEF LockRow
  <1>2. /\ pc[p] = "lock" /\ a \in Accounts /\ a \in Rows(p) /\ a \notin held[p]
        /\ UNCHANGED <<account, ledger, audit, body, reply>>
    BY DEF LockRow, NextRow, Rows
  <1>3. /\ pc'[p] \in {"lock", "apply"}
        /\ pc'[p] = "apply" => Rows(p) \subseteq held[p] \cup {a}
        /\ held'[p] = held[p] \cup {a}
        /\ session'[p] = [session[p] EXCEPT ![a] = account[a]]
        /\ \A q \in Req \ {p} : /\ pc'[q] = pc[q] /\ held'[q] = held[q]
                                /\ session'[q] = session[q] /\ a \notin held[q]
    BY <1>0, <1>1, <1>2 DEF TypeOK, Load, Unlocked
  <1>4. TypeOK'
    <2>1. session' \in [Req -> [Accounts -> LoadedRow \cup {NotLoaded}]]
      BY <1>0, <1>1, <1>2, LoadedType DEF TypeOK, Load
    <2>2. pc' \in [Req -> InFlight \cup {"idle", "done", "crashed"}]
      BY <1>0, <1>1 DEF TypeOK, InFlight, TransferStep
    <2>3. held' \in [Req -> SUBSET Accounts]
      BY <1>0, <1>1, <1>2 DEF TypeOK
    <2> QED
      BY <1>0, <1>2, <1>3, <2>1, <2>2, <2>3 DEF TypeOK, TransferStep, DepositStep
  <1>5. LocksHeld'
    <2>1. /\ body[p].from \in Accounts /\ held[p] \subseteq Rows(p)
          /\ \A q \in Req : Rows(q)' = Rows(q)
      BY <1>0, <1>2 DEF LocksHeld, LocksOf, Rows
    <2>2. \A q, r \in Req : q # r => held'[q] \cap held'[r] = {}
      BY <1>0, <1>3 DEF LocksHeld, LocksOf
    <2>3. held'[p] \subseteq Rows(p) /\ (pc'[p] = "apply" => held'[p] = Rows(p))
      BY <1>2, <1>3, <2>1
    <2>4. ASSUME NEW q \in Req \ {p}
          PROVE  /\ pc'[q] = pc[q] /\ held'[q] = held[q] /\ body'[q] = body[q]
                 /\ Rows(q)' = Rows(q)
      BY <1>2, <1>3, <2>1
    <2>5. Rows(p)' = Rows(p) /\ body'[p] = body[p]
      BY <1>2, <2>1
    <2>6. ASSUME NEW q \in Req
          PROVE  /\ pc'[q] = "lock" => body'[q].from \in Accounts /\ held'[q] \subseteq Rows(q)'
                 /\ pc'[q] = "apply" => body'[q].from \in Accounts /\ held'[q] = Rows(q)'
                 /\ pc'[q] \in Applied => held'[q] = {body'[q].from, body'[q].to}
                 /\ pc'[q] \in {"deposit_apply", "deposit_commit"}
                      => held'[q] = {body'[q].account}
                 /\ pc'[q] \notin Applied \cup {"lock", "apply", "deposit_apply",
                                                "deposit_commit"}
                      => held'[q] = {}
      <3>1. CASE q = p
        BY <1>3, <2>1, <2>3, <2>5, <3>1 DEF Applied
      <3>2. CASE q # p
        BY <1>0, <2>4, <3>2 DEF LocksHeld, LocksOf
      <3> QED
        BY <3>1, <3>2
    <2> QED
      BY <2>2, <2>6 DEF LocksHeld, LocksOf, Applied
  <1>6. LockedRowsFresh'
    <2>1. SeesFresh(p)'
      BY <1>0, <1>2, <1>3 DEF LockedRowsFresh, SeesFresh, TypeOK, Applied
    <2>2. ASSUME NEW q \in Req \ {p} PROVE SeesFresh(q)'
      BY <1>0, <1>2, <1>3, Frame DEF LocksHeld, LockedRowsFresh, ChecksStillHold
    <2> QED
      BY <2>1, <2>2 DEF LockedRowsFresh
  <1>7. ChecksStillHold'
    BY <1>0, <1>2, <1>3 DEF ChecksStillHold, StillDue, Applied
  <1>8. InsertsReserved'
    BY <1>0, <1>2, <1>3 DEF InsertsReserved, Inserted
  <1>9. KeysUnique'
    BY <1>0, <1>2 DEF KeysUnique, Bank!KeysUnique
  <1>10. AnswersMatchLedger'
    BY <1>0, <1>2, <1>3 DEF AnswersMatchLedger, TypeOK, TransactionRow
  <1> QED
    BY <1>4, <1>5, <1>6, <1>7, <1>8, <1>9, <1>10 DEF Inv

(* What Pydantic guarantees of the bodies, and the context of a sum. *)
LEMMA BodyFacts ==
    /\ \A b \in TransferBody : /\ b.amount \in Nat /\ WholeCents(b.amount)
                               /\ b.key \in Key
    /\ \A b \in DepositBody : b.amount \in Nat /\ Carries(b) \subseteq {0, 1}
  BY BodyAssumption DEF Carries

(* The session's balances after Apply: both differ from the committed ones by
   the amount, because the two rows are locked and freshly read. *)
LEMMA ApplyStep ==
    ASSUME Inv, NEW p \in Req, Apply(p)
    PROVE  Inv'
  <1> USE DEF Goto, committed
  <1>0. /\ TypeOK /\ LocksHeld /\ LockedRowsFresh /\ ChecksStillHold
        /\ InsertsReserved /\ KeysUnique /\ AnswersMatchLedger
    BY DEF Inv
  <1> DEFINE b == body[p]
             m == b.amount
  <1>1. /\ pc[p] = "apply" /\ b \in TransferBody /\ m \in Nat
        /\ b.from \in Accounts /\ b.to \in Accounts /\ b.from # b.to
        /\ held[p] = {b.from, b.to}
        /\ session[p][b.from] = account[b.from] /\ session[p][b.to] = account[b.to]
    <2>1. pc[p] = "apply" /\ Refusal(p) = "none"
      BY DEF Apply
    <2>2. b \in TransferBody /\ b.from \in Accounts /\ held[p] = Rows(p) /\ b.from # b.to
      BY <1>0, <2>1 DEF TypeOK, LocksHeld, LocksOf, ChecksStillHold, StillDue, TransferStep
    <2>3. b.to \in Accounts
      BY <2>1 DEF Refusal
    <2> QED
      BY <1>0, <2>1, <2>2, <2>3, BodyFacts DEF Rows, LockedRowsFresh, SeesFresh
  <1>2. /\ account[b.from].status = "active" /\ account[b.to].status = "active"
        /\ CurrencyOf[b.from] = b.currency /\ CurrencyOf[b.to] = b.currency
        /\ account[b.from].balance >= m
        /\ account[b.to].balance + m <= MaxBalance
    <2>1. account[b.from].balance \in Int /\ account[b.to].balance \in Int
      BY <1>0, <1>1, LoadedType DEF TypeOK, LoadedRow
    <2> QED
      BY <1>1, <2>1, AccountAssumption DEF Apply, Refusal
  <1>3. /\ session' = [session EXCEPT
              ![p] = [@ EXCEPT ![b.from] = WithBalance(account[b.from], account[b.from].balance - m),
                               ![b.to] = WithBalance(account[b.to], account[b.to].balance + m)]]
        /\ pc' = [pc EXCEPT ![p] = "insert_out"]
        /\ UNCHANGED <<account, ledger, audit, body, held, reply>>
    BY <1>0, <1>1 DEF Apply, TypeOK
  <1>4. /\ pc'[p] = "insert_out"
        /\ session'[p][b.from].balance = account[b.from].balance - m
        /\ session'[p][b.to].balance = account[b.to].balance + m
        /\ \A q \in Req \ {p} : pc'[q] = pc[q] /\ session'[q] = session[q]
    BY <1>0, <1>1, <1>3 DEF TypeOK, WithBalance
  <1>5. TypeOK'
    <2>1. \A a \in Accounts : account[a].balance \in Nat /\ account[a].status \in Status
      BY <1>0, AccountAssumption DEF TypeOK, Account
    <2>2. /\ WithBalance(account[b.from], account[b.from].balance - m) \in LoadedRow
          /\ WithBalance(account[b.to], account[b.to].balance + m) \in LoadedRow
      BY <1>1, <1>2, <2>1 DEF WithBalance, LoadedRow
    <2>3. session' \in [Req -> [Accounts -> LoadedRow \cup {NotLoaded}]]
      BY <1>0, <1>1, <1>3, <2>2 DEF TypeOK
    <2> QED
      BY <1>0, <1>1, <1>3, <1>4, <2>3 DEF TypeOK, InFlight, TransferStep, DepositStep
  <1>6. LocksHeld'
    BY <1>0, <1>1, <1>3, <1>4 DEF LocksHeld, LocksOf, Rows, Applied
  <1>7. LockedRowsFresh'
    <2>1. SeesFresh(p)'
      BY <1>3, <1>4 DEF SeesFresh, Applied
    <2>2. ASSUME NEW q \in Req \ {p} PROVE SeesFresh(q)'
      BY <1>0, <1>3, <1>4, Frame DEF LocksHeld, LockedRowsFresh, ChecksStillHold
    <2> QED
      BY <2>1, <2>2 DEF LockedRowsFresh
  <1>8. ChecksStillHold'
    BY <1>0, <1>1, <1>2, <1>3, <1>4 DEF ChecksStillHold, StillDue, Applied
  <1>9. InsertsReserved'
    BY <1>0, <1>1, <1>3, <1>4 DEF InsertsReserved, Inserted
  <1>10. KeysUnique'
    BY <1>0, <1>3 DEF KeysUnique, Bank!KeysUnique
  <1>11. AnswersMatchLedger'
    BY <1>0, <1>1, <1>3, <1>4 DEF AnswersMatchLedger, TypeOK, TransactionRow
  <1> QED
    BY <1>5, <1>6, <1>7, <1>8, <1>9, <1>10, <1>11 DEF Inv

(* Locking the account of a deposit keeps the invariant. *)
LEMMA LockDepositStep ==
    ASSUME Inv, NEW p \in Req, LockDeposit(p)
    PROVE  Inv'
  <1> USE DEF Goto, committed
  <1>0. /\ TypeOK /\ LocksHeld /\ LockedRowsFresh /\ ChecksStillHold
        /\ InsertsReserved /\ KeysUnique /\ AnswersMatchLedger
    BY DEF Inv
  <1> DEFINE a == body[p].account
  <1>a. CASE pc'[p] = "done"
    <2>1. PICK code \in {"not_found", "unauthorized"} : Answer(p, code)
      BY <1>0, <1>a DEF LockDeposit, TypeOK
    <2> QED
      BY <2>1, AnswerStep DEF LockDeposit, Reply, InFlight, DepositStep
  <1>b. CASE pc'[p] # "done"
    <2>1. /\ pc[p] = "deposit_lock" /\ a \in Accounts /\ Owner[a] = body[p].user
          /\ \A q \in Req : a \notin held[q]
          /\ held' = [held EXCEPT ![p] = {a}]
          /\ session' = [session EXCEPT ![p][a] = account[a]]
          /\ pc' = [pc EXCEPT ![p] = "deposit_apply"]
          /\ UNCHANGED <<account, ledger, audit, body, reply>>
      BY <1>0, <1>b DEF LockDeposit, Answer, Load, TypeOK, Unlocked
    <2>2. /\ pc'[p] = "deposit_apply" /\ held'[p] = {a} /\ session'[p][a] = account[a]
          /\ \A q \in Req \ {p} : /\ pc'[q] = pc[q] /\ session'[q] = session[q]
                                  /\ held'[q] = held[q]
      BY <1>0, <2>1 DEF TypeOK
    <2>3. TypeOK'
      <3>1. session' \in [Req -> [Accounts -> LoadedRow \cup {NotLoaded}]]
        BY <1>0, <2>1, LoadedType DEF TypeOK
      <3>2. held' \in [Req -> SUBSET Accounts]
        BY <1>0, <2>1 DEF TypeOK
      <3> QED
        BY <1>0, <2>1, <2>2, <3>1, <3>2 DEF TypeOK, InFlight, TransferStep, DepositStep
    <2>4. \A q \in Req : LocksOf(q)' /\ SeesFresh(q)' /\ StillDue(q)'
      <3>1. LocksOf(p)' /\ SeesFresh(p)' /\ StillDue(p)'
        BY <2>1, <2>2 DEF LocksOf, SeesFresh, StillDue, Applied
      <3>2. ASSUME NEW q \in Req \ {p} PROVE LocksOf(q)' /\ SeesFresh(q)' /\ StillDue(q)'
        BY <1>0, <2>1, <2>2, Frame DEF LocksHeld, LockedRowsFresh, ChecksStillHold
      <3> QED
        BY <3>1, <3>2
    <2>5. LocksHeld'
      BY <1>0, <2>1, <2>2, <2>4 DEF LocksHeld
    <2>6. InsertsReserved'
      <3>1. \A q \in Req : Inserted(q)' = Inserted(q)
        BY <2>1, <2>2 DEF Inserted
      <3> QED
        BY <1>0, <2>1, <3>1 DEF InsertsReserved
    <2>7. KeysUnique'
      BY <1>0, <2>1 DEF KeysUnique, Bank!KeysUnique
    <2>8. AnswersMatchLedger'
      BY <1>0, <2>1, <2>2 DEF AnswersMatchLedger, TypeOK, TransactionRow
    <2> QED
      BY <2>3, <2>4, <2>5, <2>6, <2>7, <2>8 DEF Inv, LockedRowsFresh, ChecksStillHold
  <1> QED
    BY <1>a, <1>b

(* Adding the deposit in the session keeps the invariant. *)
LEMMA ApplyDepositStep ==
    ASSUME Inv, NEW p \in Req, ApplyDeposit(p)
    PROVE  Inv'
  <1> USE DEF Goto, committed
  <1>0. /\ TypeOK /\ LocksHeld /\ LockedRowsFresh /\ ChecksStillHold
        /\ InsertsReserved /\ KeysUnique /\ AnswersMatchLedger
    BY DEF Inv
  <1> DEFINE a == body[p].account
  <1>1. pc[p] = "deposit_apply"
    BY DEF ApplyDeposit
  <1>a. CASE pc'[p] = "done"
    <2>1. Answer(p, "internal_error")
      BY <1>0, <1>a DEF ApplyDeposit, TypeOK
    <2> QED
      BY <1>1, <2>1, AnswerStep DEF Reply, InFlight, DepositStep
  <1>b. CASE pc'[p] # "done"
    <2>1. /\ body[p] \in DepositBody /\ held[p] = {a} /\ a \in Accounts
          /\ session[p][a] = account[a] /\ Owner[a] = body[p].user
          /\ account[a].balance \in Nat /\ account[a].status \in Status
          /\ body[p].amount \in Nat /\ Carries(body[p]) \subseteq {0, 1}
      <3>1. held[p] = {a} /\ body[p] \in DepositBody
        BY <1>0, <1>1 DEF TypeOK, DepositStep, LocksHeld, LocksOf
      <3>2. a \in Accounts
        BY <1>0, <3>1 DEF TypeOK
      <3>3. session[p][a] = account[a] /\ Owner[a] = body[p].user
        BY <1>0, <1>1, <3>1 DEF LockedRowsFresh, SeesFresh, ChecksStillHold, StillDue
      <3>4. account[a].balance \in Nat /\ account[a].status \in Status
        BY <1>0, <3>2, LoadedType DEF TypeOK, LoadedRow
      <3> QED
        BY <3>1, <3>2, <3>3, <3>4, BodyFacts
    <2>a. PICK carry \in Carries(body[p]) :
             LET sum == session[p][a].balance + body[p].amount + carry
             IN  IF StoredAmount(sum) > MaxBalance THEN Answer(p, "internal_error")
                 ELSE /\ session' = [session EXCEPT ![p][a] = WithBalance(@, sum)]
                      /\ Goto(p, "deposit_commit")
                      /\ UNCHANGED <<committed, body, held, reply, queue>>
      BY DEF ApplyDeposit
    <2> DEFINE sum == session[p][a].balance + body[p].amount + carry
    <2>2. /\ StoredAmount(sum) <= MaxBalance
          /\ session' = [session EXCEPT ![p][a] = WithBalance(session[p][a], sum)]
          /\ pc' = [pc EXCEPT ![p] = "deposit_commit"]
          /\ UNCHANGED <<account, ledger, audit, body, held, reply>>
      <3>1. StoredAmount(sum) \in Int /\ MaxBalance \in Int
        BY <2>1, <2>a, AccountAssumption DEF StoredAmount, Cent
      <3> QED
        BY <1>0, <1>b, <2>a, <3>1 DEF Answer, TypeOK
    <2>3. /\ pc'[p] = "deposit_commit"
          /\ session'[p][a].balance = account[a].balance + body[p].amount + carry
          /\ session'[p][a].balance = sum
          /\ \A q \in Req \ {p} : pc'[q] = pc[q] /\ session'[q] = session[q]
      BY <1>0, <2>1, <2>2 DEF TypeOK, WithBalance
    <2>4. TypeOK'
      <3>1. WithBalance(session[p][a], sum) \in LoadedRow
        BY <2>1, <2>a DEF WithBalance, LoadedRow
      <3>2. session' \in [Req -> [Accounts -> LoadedRow \cup {NotLoaded}]]
        BY <1>0, <2>1, <2>2, <3>1 DEF TypeOK
      <3> QED
        BY <1>0, <2>1, <2>2, <2>3, <3>2 DEF TypeOK, InFlight, TransferStep, DepositStep
    <2>5. \A q \in Req : LocksOf(q)' /\ SeesFresh(q)' /\ StillDue(q)'
      <3>1. LocksOf(p)' /\ SeesFresh(p)' /\ StillDue(p)'
        <4>1. body' = body /\ account' = account /\ Carries(body'[p]) = Carries(body[p])
          BY <2>2
        <4>2. SeesFresh(p)'
          <5>1. \E c \in Carries(body'[p]) :
                  session'[p][a].balance = account'[a].balance + body'[p].amount + c
            BY <2>3, <2>a, <4>1
          <5> QED
            BY <2>3, <4>1, <5>1 DEF SeesFresh, Applied
        <4>3. LocksOf(p)' /\ StillDue(p)'
          BY <2>1, <2>2, <2>3 DEF LocksOf, StillDue, Applied
        <4> QED
          BY <4>2, <4>3
      <3>2. ASSUME NEW q \in Req \ {p} PROVE LocksOf(q)' /\ SeesFresh(q)' /\ StillDue(q)'
        BY <1>0, <2>2, <2>3, Frame DEF LocksHeld, LockedRowsFresh, ChecksStillHold
      <3> QED
        BY <3>1, <3>2
    <2>6. LocksHeld'
      BY <1>0, <2>2, <2>5 DEF LocksHeld
    <2>7. InsertsReserved'
      <3>1. \A q \in Req : Inserted(q)' = Inserted(q)
        BY <1>1, <2>2, <2>3 DEF Inserted
      <3> QED
        BY <1>0, <2>2, <3>1 DEF InsertsReserved
    <2>8. KeysUnique'
      BY <1>0, <2>2 DEF KeysUnique, Bank!KeysUnique
    <2>9. AnswersMatchLedger'
      BY <1>0, <1>1, <2>2, <2>3 DEF AnswersMatchLedger, TypeOK, TransactionRow
    <2> QED
      BY <2>4, <2>5, <2>6, <2>7, <2>8, <2>9 DEF Inv, LockedRowsFresh, ChecksStillHold
  <1> QED
    BY <1>a, <1>b

(* An operator who sets the status of an unlocked account keeps the
   invariant. *)
LEMMA SetStatusStep ==
    ASSUME Inv, NEW x \in Accounts, NEW s \in Status, SetStatus(x, s)
    PROVE  Inv'
  <1> USE DEF Goto, committed
  <1>0. /\ TypeOK /\ LocksHeld /\ LockedRowsFresh /\ ChecksStillHold
        /\ InsertsReserved /\ KeysUnique /\ AnswersMatchLedger
    BY DEF Inv
  <1>1. /\ \A q \in Req : x \notin held[q]
        /\ account' = [account EXCEPT ![x] = [balance |-> account[x].balance, status |-> s]]
        /\ UNCHANGED <<ledger, audit, pc, body, session, held, reply>>
    BY <1>0 DEF SetStatus, Unlocked, TypeOK
  <1>2. TypeOK'
    <2>1. account[x] \in Account
      BY <1>0 DEF TypeOK
    <2>2. [balance |-> account[x].balance, status |-> s] \in Account
      BY <2>1 DEF Account
    <2>3. /\ account' \in [Accounts -> Account]
          /\ \A a \in Accounts : account'[a].balance = account[a].balance
      BY <1>0, <1>1, <2>2 DEF TypeOK
    <2> QED
      BY <1>0, <1>1, <2>3 DEF TypeOK
  <1>3. \A q \in Req : LocksOf(q)' /\ SeesFresh(q)' /\ StillDue(q)'
    <2>1. ASSUME NEW q \in Req PROVE \A a \in held[q] : account'[a] = account[a]
      BY <1>0, <1>1 DEF TypeOK
    <2> QED
      BY <1>0, <1>1, <2>1, Frame DEF LocksHeld, LockedRowsFresh, ChecksStillHold
  <1>4. LocksHeld'
    BY <1>0, <1>1, <1>3 DEF LocksHeld
  <1>5. InsertsReserved'
    BY <1>0, <1>1 DEF InsertsReserved, Inserted
  <1>6. KeysUnique' /\ AnswersMatchLedger'
    BY <1>0, <1>1 DEF KeysUnique, Bank!KeysUnique, AnswersMatchLedger
  <1> QED
    BY <1>2, <1>3, <1>4, <1>5, <1>6 DEF Inv, LockedRowsFresh, ChecksStillHold

(* COMMIT of a transfer: its checks still hold and its session's balances are
   the committed ones, less and plus the amount, so that is what it publishes. *)
LEMMA CommitEffect ==
    ASSUME Inv, NEW p \in Req, Commit(p)
    PROVE  LET b == body[p]
               m == b.amount
           IN  /\ pc[p] = "commit" /\ b \in TransferBody /\ m \in Nat /\ WholeCents(m)
               /\ b.key \in Key
               /\ b.from \in Accounts /\ b.to \in Accounts /\ b.from # b.to
               /\ held[p] = {b.from, b.to}
               /\ account[b.from].balance >= m
               /\ account[b.to].balance + m <= MaxBalance
               /\ account' = [a \in Accounts |->
                     IF a = b.from THEN WithBalance(account[a], account[a].balance - m)
                     ELSE IF a = b.to THEN WithBalance(account[a], account[a].balance + m)
                     ELSE account[a]]
               /\ \A a \in Accounts : WholeCents(account'[a].balance)
  <1>0. /\ TypeOK /\ LocksHeld /\ LockedRowsFresh /\ ChecksStillHold
    BY DEF Inv
  <1> DEFINE b == body[p]
             m == b.amount
  <1>1. /\ pc[p] = "commit" /\ b \in TransferBody /\ m \in Nat /\ WholeCents(m)
        /\ b.key \in Key
        /\ b.from \in Accounts /\ b.to \in Accounts /\ b.from # b.to
        /\ held[p] = {b.from, b.to}
        /\ session[p][b.from].balance = account[b.from].balance - m
        /\ session[p][b.to].balance = account[b.to].balance + m
        /\ account[b.from].balance >= m
        /\ account[b.to].balance + m <= MaxBalance
    <2>1. pc[p] = "commit"
      BY DEF Commit
    <2>2. b \in TransferBody /\ held[p] = {b.from, b.to} /\ b.from # b.to
      BY <1>0, <2>1 DEF TypeOK, LocksHeld, LocksOf, ChecksStillHold, StillDue, TransferStep, Applied
    <2>3. b.from \in Accounts /\ b.to \in Accounts
      BY <1>0, <2>2 DEF TypeOK
    <2>4. /\ session[p][b.from].balance = account[b.from].balance - m
          /\ session[p][b.to].balance = account[b.to].balance + m
      BY <1>0, <2>1 DEF LockedRowsFresh, SeesFresh, Applied
    <2>5. account[b.from].balance >= m /\ account[b.to].balance + m <= MaxBalance
      BY <1>0, <2>1 DEF ChecksStillHold, StillDue, Applied
    <2> QED
      BY <2>1, <2>2, <2>3, <2>4, <2>5, BodyFacts
  <1>2. \A a \in Accounts : /\ account[a].balance \in 0 .. MaxBalance
                            /\ account[a].status \in Status
                            /\ WholeCents(account[a].balance)
    BY <1>0 DEF TypeOK, Account
  <1>3. /\ account' = [a \in Accounts |->
              IF a = b.from THEN WithBalance(account[a], account[a].balance - m)
              ELSE IF a = b.to THEN WithBalance(account[a], account[a].balance + m)
              ELSE account[a]]
        /\ \A a \in Accounts : WholeCents(account'[a].balance)
    <2>1. /\ WholeCents(account[b.from].balance - m) /\ WholeCents(account[b.to].balance + m)
      BY <1>1, <1>2, WholeSum
    <2>2. /\ StoredAmount(session[p][b.from].balance) = account[b.from].balance - m
          /\ StoredAmount(session[p][b.to].balance) = account[b.to].balance + m
      BY <1>1, <1>2, <2>1, StoredWhole
    <2>3. account' = [a \in Accounts |->
              IF a = b.from THEN WithBalance(account[a], account[a].balance - m)
              ELSE IF a = b.to THEN WithBalance(account[a], account[a].balance + m)
              ELSE account[a]]
      BY <1>1, <2>2 DEF Commit, Publish
    <2>4. \A a \in Accounts : WholeCents(account'[a].balance)
      BY <1>1, <1>2, <2>1, <2>3 DEF WithBalance
    <2> QED
      BY <2>3, <2>4
  <1> QED
    BY <1>1, <1>3

(* COMMIT of a transfer keeps Inv: its two new rows are the ones whose keys
   it had reserved, and no other request holds the rows it changes. *)
LEMMA CommitStep ==
    ASSUME Inv, NEW p \in Req, Commit(p)
    PROVE  Inv'
  <1> USE DEF Goto
  <1>0. /\ TypeOK /\ LocksHeld /\ LockedRowsFresh /\ ChecksStillHold
        /\ InsertsReserved /\ KeysUnique /\ AnswersMatchLedger
    BY DEF Inv
  <1> DEFINE b == body[p]
             m == b.amount
             new == {OutRow(p, b), InRow(p, b)}
  <1>1. /\ pc[p] = "commit" /\ b \in TransferBody /\ m \in Nat /\ WholeCents(m)
        /\ b.key \in Key
        /\ b.from \in Accounts /\ b.to \in Accounts /\ b.from # b.to
        /\ held[p] = {b.from, b.to}
        /\ account[b.from].balance >= m
        /\ account[b.to].balance + m <= MaxBalance
    BY CommitEffect
  <1>2. \A a \in Accounts : /\ account[a].balance \in 0 .. MaxBalance
                            /\ account[a].status \in Status
                            /\ WholeCents(account[a].balance)
    BY <1>0 DEF TypeOK, Account
  <1>3. /\ account' = [a \in Accounts |->
              IF a = b.from THEN WithBalance(account[a], account[a].balance - m)
              ELSE IF a = b.to THEN WithBalance(account[a], account[a].balance + m)
              ELSE account[a]]
        /\ \A a \in Accounts : WholeCents(account'[a].balance)
    BY CommitEffect
  <1>4. /\ ledger' = ledger \cup new
        /\ audit' = audit \cup {TransferAudit(p, b)}
        /\ pc' = [pc EXCEPT ![p] = "notify"]
        /\ held' = [held EXCEPT ![p] = {}]
        /\ session' = [session EXCEPT ![p] = NothingLoaded]
        /\ UNCHANGED <<body, reply>>
    BY DEF Commit, Release
  <1>5. /\ pc'[p] = "notify" /\ held'[p] = {}
        /\ \A q \in Req \ {p} : /\ pc'[q] = pc[q] /\ session'[q] = session[q]
                                /\ held'[q] = held[q] /\ body'[q] = body[q]
    BY <1>0, <1>4 DEF TypeOK
  <1>6. TypeOK'
    <2>1. account' \in [Accounts -> Account]
      <3>1. /\ WithBalance(account[b.from], account[b.from].balance - m) \in Account
            /\ WithBalance(account[b.to], account[b.to].balance + m) \in Account
        <4>1. /\ account[b.from].balance - m \in 0 .. MaxBalance
              /\ account[b.to].balance + m \in 0 .. MaxBalance
          <5>1. /\ MaxBalance \in Nat
                /\ account[b.from].balance \in 0 .. MaxBalance
                /\ account[b.to].balance \in 0 .. MaxBalance
            BY <1>1, <1>2, AccountAssumption
          <5> HIDE DEF b
          <5> QED
            BY <1>1, <5>1
        <4> QED
          BY <1>1, <1>2, <4>1 DEF WithBalance, Account
      <3> QED
        BY <1>0, <1>3, <3>1 DEF TypeOK
    <2>2. OutRow(p, b) \in TransactionRow /\ InRow(p, b) \in TransactionRow
      BY <1>1, KeyFacts DEF OutRow, InRow, TransactionRow
    <2>3. session' \in [Req -> [Accounts -> LoadedRow \cup {NotLoaded}]]
      BY <1>0, <1>4 DEF TypeOK, NothingLoaded
    <2>4. \A e \in audit' : e.entity \in Req
      BY <1>0, <1>4 DEF TypeOK, TransferAudit
    <2>5. held' \in [Req -> SUBSET Accounts]
      BY <1>0, <1>4 DEF TypeOK
    <2>6. pc' \in [Req -> InFlight \cup {"idle", "done", "crashed"}]
      BY <1>0, <1>4 DEF TypeOK, InFlight, TransferStep
    <2>7. \A q \in Req : /\ pc'[q] \in TransferStep => body'[q] \in TransferBody
                         /\ pc'[q] \in DepositStep => body'[q] \in DepositBody
      BY <1>0, <1>1, <1>4, <1>5 DEF TypeOK, DepositStep
    <2>8. \A r \in ledger' : r \in TransactionRow
      BY <1>0, <1>4, <2>2 DEF TypeOK
    <2> QED
      BY <1>0, <1>3, <1>4, <2>1, <2>3, <2>4, <2>5, <2>6, <2>7, <2>8 DEF TypeOK
  <1>7. \A q \in Req : LocksOf(q)' /\ SeesFresh(q)' /\ StillDue(q)'
    <2>1. LocksOf(p)' /\ SeesFresh(p)' /\ StillDue(p)'
      BY <1>5 DEF LocksOf, SeesFresh, StillDue, Applied
    <2>2. ASSUME NEW q \in Req \ {p} PROVE LocksOf(q)' /\ SeesFresh(q)' /\ StillDue(q)'
      <3>1. \A a \in held[q] : a \in Accounts /\ a # b.from /\ a # b.to
        BY <1>0, <1>1 DEF LocksHeld, TypeOK
      <3>2. \A a \in held[q] : account'[a] = account[a]
        BY <1>3, <3>1
      <3> QED
        BY <1>0, <1>5, <3>2, Frame DEF LocksHeld, LockedRowsFresh, ChecksStillHold
    <2> QED
      BY <2>1, <2>2
  <1>8. LocksHeld'
    BY <1>0, <1>5, <1>7 DEF LocksHeld
  <1>9. /\ \A r \in ledger : r.key # b.key /\ r.key # InKey(b.key)
        /\ \A q \in Req \ {p} : b.key \notin Inserted(q) /\ InKey(b.key) \notin Inserted(q)
    BY <1>0, <1>1 DEF InsertsReserved, Inserted, KeyTaken
  <1>10. InsertsReserved'
    <2>1. Inserted(p)' = {} /\ \A q \in Req \ {p} : Inserted(q)' = Inserted(q)
      BY <1>5 DEF Inserted
    <2>2. \A k : KeyTaken(ledger', k) => KeyTaken(ledger, k) \/ k = b.key \/ k = InKey(b.key)
      BY <1>4 DEF KeyTaken, OutRow, InRow
    <2> QED
      BY <1>0, <1>9, <2>1, <2>2 DEF InsertsReserved
  <1>11. KeysUnique'
    <2>1. InKey(b.key) # b.key
      BY <1>1, KeyFacts
    <2>2. OutRow(p, b).key = b.key /\ InRow(p, b).key = InKey(b.key)
      BY DEF OutRow, InRow
    <2> QED
      BY <1>0, <1>4, <1>9, <2>1, <2>2 DEF KeysUnique, Bank!KeysUnique
  <1>12. AnswersMatchLedger'
    <2>1. /\ KeyTaken(ledger', b.key) /\ KeyTaken(ledger', InKey(b.key))
          /\ \A k : KeyTaken(ledger, k) => KeyTaken(ledger', k)
      <3>1. /\ OutRow(p, b) \in ledger' /\ InRow(p, b) \in ledger'
            /\ OutRow(p, b).key = b.key /\ InRow(p, b).key = InKey(b.key)
            /\ \A r \in ledger : r \in ledger'
        BY <1>4 DEF OutRow, InRow
      <3> HIDE DEF new
      <3> QED
        BY <3>1 DEF KeyTaken
    <2>2. \A r \in ledger' : \/ pc'[r.req] \in {"notify", "crashed"}
                             \/ pc'[r.req] = "done" /\ reply'[r.req] \in {"created", "internal_error"}
      <3>1. OutRow(p, b).req = p /\ InRow(p, b).req = p
        BY DEF OutRow, InRow
      <3>2. \A r \in ledger : r.req \in Req
        BY <1>0 DEF TypeOK, TransactionRow
      <3> QED
        BY <1>0, <1>4, <1>5, <3>1, <3>2 DEF AnswersMatchLedger
    <2>3. ASSUME NEW q \in Req
          PROVE  /\ pc'[q] # "done" => reply'[q] = "none"
                 /\ (pc'[q] = "notify" \/ reply'[q] = "created") /\ body'[q] \in TransferBody =>
                      KeyTaken(ledger', body'[q].key) /\ KeyTaken(ledger', InKey(body'[q].key))
      <3>1. CASE q = p
        BY <1>0, <1>1, <1>4, <1>5, <2>1, <3>1 DEF AnswersMatchLedger
      <3>2. CASE q # p
        BY <1>0, <1>4, <1>5, <2>1, <3>2 DEF AnswersMatchLedger
      <3> QED
        BY <3>1, <3>2
    <2> QED
      BY <2>2, <2>3 DEF AnswersMatchLedger
  <1> QED
    BY <1>6, <1>7, <1>8, <1>10, <1>11, <1>12 DEF Inv, LockedRowsFresh, ChecksStillHold

(* COMMIT of a deposit: one row changes, by the amount its transaction row
   records or what a carry makes of it, although the code rounds the sum and
   not the amount. *)
LEMMA CommitDepositEffect ==
    ASSUME Inv, NEW p \in Req, CommitDeposit(p)
    PROVE  LET b == body[p]
               a == b.account
           IN  /\ pc[p] = "deposit_commit" /\ b \in DepositBody /\ b.amount \in Nat
               /\ a \in Accounts /\ held[p] = {a} /\ Owner[a] = b.user
               /\ account[a].balance \in Nat /\ account[a].status \in Status
               /\ StoredAmount(b.amount) \in Nat
               /\ \E carry \in Carries(b) :
                    LET after == account[a].balance + StoredAmount(b.amount + carry)
                    IN  /\ carry \in {0, 1}
                        /\ after \in 0 .. MaxBalance /\ WholeCents(after)
                        /\ StoredAmount(b.amount + carry) \in Nat
                        /\ account' = [account EXCEPT ![a] = WithBalance(account[a], after)]
  <1>0. TypeOK /\ LocksHeld /\ LockedRowsFresh /\ ChecksStillHold
    BY DEF Inv
  <1> DEFINE b == body[p]
             a == b.account
  <1>1. /\ pc[p] = "deposit_commit" /\ b \in DepositBody /\ b.amount \in Nat
        /\ a \in Accounts /\ held[p] = {a}
        /\ \E carry \in Carries(b) :
             carry \in {0, 1} /\ session[p][a].balance = account[a].balance + b.amount + carry
        /\ StoredAmount(session[p][a].balance) <= MaxBalance
    <2>1. pc[p] = "deposit_commit"
      BY DEF CommitDeposit
    <2>2. b \in DepositBody /\ held[p] = {a}
      BY <1>0, <2>1 DEF TypeOK, LocksHeld, LocksOf, DepositStep
    <2>3. a \in Accounts
      BY <1>0, <2>2 DEF TypeOK
    <2>4. /\ \E carry \in Carries(b) :
               session[p][a].balance = account[a].balance + b.amount + carry
          /\ StoredAmount(session[p][a].balance) <= MaxBalance
      BY <1>0, <2>1 DEF LockedRowsFresh, SeesFresh, ChecksStillHold, StillDue
    <2> QED
      BY <2>1, <2>2, <2>3, <2>4, BodyFacts
  <1>2. /\ account[a].balance \in Nat /\ account[a].status \in Status
        /\ WholeCents(account[a].balance)
    <2>1. account[a] \in LoadedRow
      BY <1>0, <1>1, LoadedType DEF TypeOK
    <2> QED
      BY <1>0, <1>1, <2>1 DEF TypeOK, LoadedRow
  <1>a. PICK carry \in Carries(b) :
           carry \in {0, 1} /\ session[p][a].balance = account[a].balance + b.amount + carry
    BY <1>1
  <1> DEFINE m == b.amount + carry
             after == account[a].balance + StoredAmount(m)
  <1>3. /\ StoredAmount(session[p][a].balance) = after
        /\ after \in 0 .. MaxBalance /\ WholeCents(after)
        /\ StoredAmount(b.amount) \in Nat /\ StoredAmount(m) \in Nat
    <2>a. m \in Nat /\ session[p][a].balance = account[a].balance + m
      BY <1>1, <1>2, <1>a
    <2> HIDE DEF m
    <2>1. /\ StoredAmount(session[p][a].balance) = after
          /\ StoredAmount(b.amount) \in Nat /\ StoredAmount(m) \in Nat
          /\ WholeCents(after)
      BY <1>1, <1>2, <2>a, StoredSum
    <2>2. after \in Nat /\ after <= MaxBalance /\ MaxBalance \in Nat
      BY <1>1, <1>2, <2>1, AccountAssumption
    <2> HIDE DEF after
    <2> QED
      BY <1>1, <2>1, <2>2
  <1>4. account' = [account EXCEPT ![a] = WithBalance(account[a], after)]
    BY <1>0, <1>1, <1>3 DEF CommitDeposit, Publish, TypeOK
  <1>5. Owner[a] = b.user
    BY <1>0, <1>1 DEF ChecksStillHold, StillDue
  <1> QED
    BY <1>1, <1>2, <1>3, <1>4, <1>5, <1>a

(* COMMIT of a deposit keeps Inv; its row has no key. *)
LEMMA CommitDepositStep ==
    ASSUME Inv, NEW p \in Req, CommitDeposit(p)
    PROVE  Inv'
  <1> USE DEF Goto
  <1>0. /\ TypeOK /\ LocksHeld /\ LockedRowsFresh /\ ChecksStillHold
        /\ InsertsReserved /\ KeysUnique /\ AnswersMatchLedger
    BY DEF Inv
  <1> DEFINE b == body[p]
             a == b.account
  <1>1. /\ pc[p] = "deposit_commit" /\ b \in DepositBody /\ b.amount \in Nat
        /\ a \in Accounts /\ held[p] = {a}
    BY CommitDepositEffect
  <1>2. account[a].balance \in Nat /\ account[a].status \in Status
    BY CommitDepositEffect
  <1>a. PICK carry \in Carries(b) :
           LET after == account[a].balance + StoredAmount(b.amount + carry)
           IN  /\ after \in 0 .. MaxBalance /\ WholeCents(after)
               /\ account' = [account EXCEPT ![a] = WithBalance(account[a], after)]
    BY CommitDepositEffect
  <1> DEFINE after == account[a].balance + StoredAmount(b.amount + carry)
  <1>3. after \in 0 .. MaxBalance /\ WholeCents(after) /\ StoredAmount(b.amount) \in Nat
    BY <1>a, CommitDepositEffect
  <1>4. account' = [account EXCEPT ![a] = WithBalance(account[a], after)]
    BY <1>a
  <1>5. /\ ledger' = ledger \cup {DepositRow(p, b)}
        /\ audit' = audit \cup {DepositAudit(p, b)}
        /\ pc' = [pc EXCEPT ![p] = "done"]
        /\ held' = [held EXCEPT ![p] = {}]
        /\ session' = [session EXCEPT ![p] = NothingLoaded]
        /\ reply' = [reply EXCEPT ![p] = "created"]
        /\ UNCHANGED body
    BY DEF CommitDeposit, Release
  <1>6. /\ pc'[p] = "done" /\ held'[p] = {} /\ reply'[p] = "created"
        /\ \A q \in Req \ {p} : /\ pc'[q] = pc[q] /\ session'[q] = session[q]
                                /\ held'[q] = held[q] /\ body'[q] = body[q]
                                /\ reply'[q] = reply[q]
    BY <1>0, <1>5 DEF TypeOK
  <1>7. TypeOK'
    <2>1. /\ account' \in [Accounts -> Account]
          /\ \A x \in Accounts : WholeCents(account'[x].balance)
      <3>1. WithBalance(account[a], after) \in Account /\ WithBalance(account[a], after).balance = after
        BY <1>2, <1>3 DEF WithBalance, Account
      <3> HIDE DEF after
      <3> QED
        BY <1>0, <1>1, <1>3, <1>4, <3>1 DEF TypeOK
    <2>2. DepositRow(p, b) \in TransactionRow
      BY <1>1, <1>3 DEF DepositRow, TransactionRow
    <2>3. session' \in [Req -> [Accounts -> LoadedRow \cup {NotLoaded}]]
      BY <1>0, <1>5 DEF TypeOK, NothingLoaded
    <2>4. \A e \in audit' : e.entity \in Req
      BY <1>0, <1>5 DEF TypeOK, DepositAudit
    <2>5. held' \in [Req -> SUBSET Accounts] /\ reply' \in [Req -> Reply]
      BY <1>0, <1>5 DEF TypeOK, Reply
    <2>6. pc' \in [Req -> InFlight \cup {"idle", "done", "crashed"}]
      BY <1>0, <1>5 DEF TypeOK
    <2>7. \A q \in Req : /\ pc'[q] \in TransferStep => body'[q] \in TransferBody
                         /\ pc'[q] \in DepositStep => body'[q] \in DepositBody
      BY <1>0, <1>1, <1>5, <1>6 DEF TypeOK, TransferStep, DepositStep
    <2>8. \A r \in ledger' : r \in TransactionRow
      BY <1>0, <1>5, <2>2 DEF TypeOK
    <2> QED
      BY <1>0, <1>5, <2>1, <2>3, <2>4, <2>5, <2>6, <2>7, <2>8 DEF TypeOK
  <1>8. \A q \in Req : LocksOf(q)' /\ SeesFresh(q)' /\ StillDue(q)'
    <2>1. LocksOf(p)' /\ SeesFresh(p)' /\ StillDue(p)'
      BY <1>6 DEF LocksOf, SeesFresh, StillDue, Applied
    <2>2. ASSUME NEW q \in Req \ {p} PROVE LocksOf(q)' /\ SeesFresh(q)' /\ StillDue(q)'
      <3>1. \A x \in held[q] : x \in Accounts /\ x # a
        BY <1>0, <1>1 DEF LocksHeld, TypeOK
      <3>2. \A x \in held[q] : account'[x] = account[x]
        BY <1>0, <1>4, <3>1 DEF TypeOK
      <3> QED
        BY <1>0, <1>6, <3>2, Frame DEF LocksHeld, LockedRowsFresh, ChecksStillHold
    <2> QED
      BY <2>1, <2>2
  <1>9. LocksHeld'
    BY <1>0, <1>6, <1>8 DEF LocksHeld
  <1>10. InsertsReserved'
    <2>1. \A q \in Req : Inserted(q)' = Inserted(q)
      BY <1>1, <1>5, <1>6 DEF Inserted
    <2>2. \A q \in Req : \A k \in Inserted(q) : k # NoKey
      <3>1. ASSUME NEW q \in Req, Inserted(q) # {} PROVE body[q].key \in Key
        BY <1>0, <3>1, BodyFacts DEF TypeOK, Inserted, TransferStep
      <3> QED
        BY <3>1, KeyFacts DEF Inserted
    <2>3. DepositRow(p, b).key = NoKey
      BY DEF DepositRow
    <2> QED
      BY <1>0, <1>5, <2>1, <2>2, <2>3 DEF InsertsReserved, KeyTaken
  <1>11. KeysUnique'
    <2>1. DepositRow(p, b).key = NoKey
      BY DEF DepositRow
    <2>2. ASSUME NEW r \in ledger', NEW t \in ledger', r.key = t.key, r.key # NoKey
          PROVE  r = t
      <3>1. r \in ledger /\ t \in ledger
        BY <1>5, <2>1, <2>2
      <3> QED
        BY <1>0, <2>2, <3>1 DEF KeysUnique, Bank!KeysUnique, NoKey, Bank!NoKey
    <2> QED
      BY <2>2 DEF KeysUnique, Bank!KeysUnique, NoKey, Bank!NoKey
  <1>12. AnswersMatchLedger'
    <2>1. \A k : KeyTaken(ledger, k) => KeyTaken(ledger', k)
      BY <1>5 DEF KeyTaken
    <2>2. \A r \in ledger' : \/ pc'[r.req] \in {"notify", "crashed"}
                             \/ pc'[r.req] = "done" /\ reply'[r.req] \in {"created", "internal_error"}
      <3>1. DepositRow(p, b).req = p
        BY DEF DepositRow
      <3>2. \A r \in ledger : r.req \in Req
        BY <1>0 DEF TypeOK, TransactionRow
      <3> QED
        BY <1>0, <1>5, <1>6, <3>1, <3>2 DEF AnswersMatchLedger
    <2>3. ASSUME NEW q \in Req
          PROVE  /\ pc'[q] # "done" => reply'[q] = "none"
                 /\ (pc'[q] = "notify" \/ reply'[q] = "created") /\ body'[q] \in TransferBody =>
                      KeyTaken(ledger', body'[q].key) /\ KeyTaken(ledger', InKey(body'[q].key))
      <3>1. CASE q = p
        <4>1. b \notin TransferBody
          BY <1>1, BodyAssumption
        <4> QED
          BY <1>5, <1>6, <3>1, <4>1
      <3>2. CASE q # p
        <4>1. pc'[q] = pc[q] /\ reply'[q] = reply[q] /\ body'[q] = body[q]
          BY <1>0, <1>5, <1>6, <3>2 DEF TypeOK
        <4>2. /\ pc[q] # "done" => reply[q] = "none"
              /\ (pc[q] = "notify" \/ reply[q] = "created") /\ body[q] \in TransferBody =>
                   KeyTaken(ledger, body[q].key) /\ KeyTaken(ledger, InKey(body[q].key))
          BY <1>0 DEF AnswersMatchLedger
        <4> QED
          BY <2>1, <4>1, <4>2
      <3> QED
        BY <3>1, <3>2
    <2> QED
      BY <2>2, <2>3 DEF AnswersMatchLedger
  <1> QED
    BY <1>7, <1>8, <1>9, <1>10, <1>11, <1>12 DEF Inv, LockedRowsFresh, ChecksStillHold

(* Inv is inductive: one lemma per action above. *)
LEMMA NextInv == Inv /\ [Next]_vars => Inv'
  <1> SUFFICES ASSUME Inv, [Next]_vars PROVE Inv'
    OBVIOUS
  <1>1. ASSUME NEW p \in Req, Replay(p) PROVE Inv'
    BY <1>1, MoveStep DEF Replay
  <1>2. ASSUME NEW p \in Req, PartialTransfer(p) PROVE Inv'
    BY <1>2, AnswerStep DEF PartialTransfer, Reply, InFlight, TransferStep
  <1>3. ASSUME NEW p \in Req, CheckKey(p) PROVE Inv'
    <2>1. CASE body[p].from = body[p].to
      BY <1>3, <2>1, AnswerStep DEF CheckKey, Reply, InFlight, TransferStep
    <2>2. CASE body[p].from # body[p].to
      BY <1>3, <2>2, MoveStep DEF CheckKey
    <2> QED
      BY <2>1, <2>2
  <1>4. ASSUME NEW p \in Req, Refuse(p) PROVE Inv'
    <2>1. Refusal(p) \in Reply \ {"none", "created"}
      BY <1>4 DEF Refuse, Refusal, Reply
    <2> QED
      BY <1>4, <2>1, AnswerStep DEF Refuse, InFlight, TransferStep
  <1>5. ASSUME NEW p \in Req, InsertOut(p) PROVE Inv'
    <2>1. CASE KeyTaken(ledger, body[p].key)
      BY <1>5, <2>1, AnswerStep DEF InsertOut, Reply, InFlight, TransferStep
    <2>2. CASE ~KeyTaken(ledger, body[p].key)
      BY <1>5, <2>2, MoveStep DEF InsertOut
    <2> QED
      BY <2>1, <2>2
  <1>6. ASSUME NEW p \in Req, InsertIn(p) PROVE Inv'
    <2> DEFINE k == InKey(body[p].key)
    <2>1. CASE KeyTaken(ledger, k) \/ ~FitsColumn(k)
      BY <1>6, <2>1, AnswerStep DEF InsertIn, Reply, InFlight, TransferStep
    <2>2. CASE ~KeyTaken(ledger, k) /\ FitsColumn(k)
      BY <1>6, <2>2, MoveStep DEF InsertIn
    <2> QED
      BY <2>1, <2>2
  <1>7. ASSUME NEW p \in Req, BrokerDown(p) PROVE Inv'
    BY <1>7, AnswerStep DEF BrokerDown, Reply, InFlight, TransferStep
  <1>8. CASE \E p \in Req : Arrive(p) \/ Handle(p) \/ Crash(p)
    BY <1>8, <1>1, <1>2, <1>3, <1>4, <1>5, <1>6, <1>7, ArriveStep, CrashStep, EnqueueStep,
       CheckOwnerStep, LockRowStep, ApplyStep, CommitStep, LockDepositStep,
       ApplyDepositStep, CommitDepositStep DEF Handle
  <1>9. CASE \E a \in Accounts, s \in Status : SetStatus(a, s)
    BY <1>9, SetStatusStep
  <1>10. CASE UNCHANGED vars
    BY <1>10 DEF vars, Inv, TypeOK, LocksHeld, LocksOf, LockedRowsFresh, SeesFresh,
       ChecksStillHold, StillDue, InsertsReserved, Inserted, KeyTaken, KeysUnique,
       Bank!KeysUnique, AnswersMatchLedger, Rows
  <1> QED
    BY <1>8, <1>9, <1>10 DEF Next

(* Every reachable state satisfies Inv. *)
THEOREM Invariance == Spec => []Inv
  BY InitInv, NextInv, PTL DEF Spec

(* The tables, sessions, locks and answers keep their types; in particular
   no balance is ever negative, above Numeric(18, 2) or a part of a cent. *)
THEOREM TypeCorrect == Spec => []TypeOK
  BY Invariance, PTL DEF Inv

(* A row under lock is seen as it is committed: no request computes a balance
   from a stale one, however many race (_lock_accounts_for_update). *)
THEOREM NoLostUpdate == Spec => []LockedRowsFresh
  BY Invariance, PTL DEF Inv

(* What a transfer checked before it changed a balance is still true of the
   committed accounts when it commits. *)
THEOREM NoCheckUseGap == Spec => []ChecksStillHold
  BY Invariance, PTL DEF Inv

(* No idempotency key is ever in two rows. *)
THEOREM OneRowPerKey == Spec => []KeysUnique
  BY Invariance, PTL DEF Inv

(* Answers and ledger agree: a request refused has no rows, a transfer that
   was answered "created" has both its keys in the ledger. *)
THEOREM AnswersTrue == Spec => []AnswersMatchLedger
  BY Invariance, PTL DEF Inv

----------------------------------------------------------------------------
(***************************************************************************)
(* The sorted lock order at work: no requests wait for each other in a     *)
(* circle, over row locks and unique index entries together, for any       *)
(* number of requests and any finite number of accounts.                   *)
(***************************************************************************)

(* The rows a request has locked are below those it has still to lock. *)
LockOrder ==
    \A p \in Req : pc[p] = "lock" =>
        \A x \in held[p], y \in Rows(p) \ held[p] : x < y

(* A request that locks its next row locks the least there is. *)
LEMMA LockRowOrder ==
    ASSUME Inv, LockOrder, NEW p \in Req, LockRow(p)
    PROVE  \A x \in held'[p], y \in Rows(p)' \ held'[p] : x < y
  <1>1. PICK a \in NextRow(p) : held' = [held EXCEPT ![p] = @ \cup {a}]
    BY DEF LockRow
  <1>2. /\ pc[p] = "lock" /\ body' = body
        /\ held \in [Req -> SUBSET Accounts]
    BY DEF LockRow, Inv, TypeOK
  <1>3. held'[p] = held[p] \cup {a} /\ Rows(p)' = Rows(p)
    BY <1>1, <1>2 DEF Rows
  <1>4. a \in Rows(p) \ held[p] /\ \A y \in Rows(p) \ held[p] : a <= y
    BY DEF NextRow
  <1>5. Rows(p) \subseteq Nat
    BY AccountAssumption DEF Rows
  <1>6. \A x \in held[p], y \in Rows(p) \ held[p] : x < y
    BY <1>2 DEF LockOrder
  <1>7. \A y \in Rows(p) \ held'[p] : a < y
    BY <1>3, <1>4, <1>5
  <1> QED
    BY <1>3, <1>6, <1>7

(* Another step either does not touch a request that is locking, or brings
   it there with nothing locked. *)
LEMMA StepToLock ==
    ASSUME Inv, [Next]_vars, NEW p \in Req, pc'[p] = "lock", ~LockRow(p)
    PROVE  \/ pc[p] = "lock" /\ body'[p] = body[p] /\ held'[p] = held[p]
           \/ held'[p] = {}
  <1> USE DEF Goto, committed
  <1>0. /\ pc \in [Req -> InFlight \cup {"idle", "done", "crashed"}]
        /\ body \in [Req -> TransferBody \cup DepositBody \cup {NoBody}]
        /\ held \in [Req -> SUBSET Accounts]
    BY DEF Inv, TypeOK
  <1>1. ASSUME NEW q \in Req, Arrive(q) \/ Crash(q) PROVE q # p
    BY <1>0, <1>1 DEF Arrive, Crash
  <1>2. ASSUME NEW q \in Req, Handle(q), q = p PROVE CheckOwner(p)
    <2>1. CASE CheckKey(p) \/ InsertOut(p) \/ InsertIn(p)
      BY <1>0, <2>1 DEF CheckKey, InsertOut, InsertIn, Answer
    <2>2. CASE Replay(p) \/ PartialTransfer(p) \/ Refuse(p) \/ Apply(p) \/ Commit(p)
      BY <1>0, <2>2 DEF Replay, PartialTransfer, Refuse, Apply, Answer, Commit
    <2>3. CASE Enqueue(p) \/ BrokerDown(p)
      BY <1>0, <2>3 DEF Enqueue, BrokerDown, Answer
    <2>4. CASE LockDeposit(p) \/ ApplyDeposit(p) \/ CommitDeposit(p)
      BY <1>0, <2>4 DEF LockDeposit, ApplyDeposit, CommitDeposit, Answer
    <2> QED
      BY <1>2, <2>1, <2>2, <2>3, <2>4 DEF Handle
  <1>3. ASSUME CheckOwner(p) PROVE held'[p] = {}
    <2>1. held[p] = {}
      BY <1>3 DEF CheckOwner, Inv, LocksHeld, LocksOf, Applied
    <2> QED
      BY <1>0, <1>3, <2>1 DEF CheckOwner, Answer, Release
  <1>4. ASSUME NEW q \in Req \ {p}, Arrive(q) \/ Crash(q)
        PROVE  pc[p] = "lock" /\ body'[p] = body[p] /\ held'[p] = held[p]
    BY <1>0, <1>4 DEF Arrive, Crash, Release
  <1>5. ASSUME NEW q \in Req \ {p}, Handle(q)
        PROVE  pc[p] = "lock" /\ body'[p] = body[p] /\ held'[p] = held[p]
    <2>1. CASE CheckKey(q) \/ CheckOwner(q) \/ InsertOut(q) \/ InsertIn(q)
      BY <1>0, <2>1 DEF CheckKey, CheckOwner, InsertOut, InsertIn, Answer, Release
    <2>2. CASE Replay(q) \/ PartialTransfer(q) \/ LockRow(q) \/ Refuse(q) \/ Apply(q)
      BY <1>0, <2>2 DEF Replay, PartialTransfer, LockRow, Refuse, Apply, Answer, Release
    <2>3. CASE Commit(q) \/ Enqueue(q) \/ BrokerDown(q)
      BY <1>0, <2>3 DEF Commit, Enqueue, BrokerDown, Answer, Release
    <2>4. CASE LockDeposit(q) \/ ApplyDeposit(q) \/ CommitDeposit(q)
      BY <1>0, <2>4 DEF LockDeposit, ApplyDeposit, CommitDeposit, Answer, Release
    <2> QED
      BY <1>5, <2>1, <2>2, <2>3, <2>4 DEF Handle
  <1>6. CASE UNCHANGED vars
    BY <1>6 DEF vars
  <1>7. CASE \E a \in Accounts, s \in Status : SetStatus(a, s)
    BY <1>7 DEF SetStatus
  <1> QED
    BY <1>1, <1>2, <1>3, <1>4, <1>5, <1>6, <1>7 DEF Next

(* So the order holds in every state. *)
LEMMA LockOrderInvariance == Spec => [](Inv /\ LockOrder)
  <1>1. Init => LockOrder
    BY DEF Init, LockOrder
  <1>2. ASSUME Inv, LockOrder, [Next]_vars PROVE LockOrder'
    <2> SUFFICES ASSUME NEW p \in Req, pc'[p] = "lock"
                 PROVE  \A x \in held'[p], y \in Rows(p)' \ held'[p] : x < y
      BY DEF LockOrder
    <2>1. CASE LockRow(p)
      BY <1>2, <2>1, LockRowOrder
    <2>2. CASE ~LockRow(p) /\ held'[p] = {}
      BY <2>2
    <2>3. CASE pc[p] = "lock" /\ body'[p] = body[p] /\ held'[p] = held[p]
      BY <1>2, <2>3 DEF LockOrder, Rows
    <2> QED
      BY <1>2, <2>1, <2>2, <2>3, StepToLock
  <1> QED
    BY <1>1, <1>2, Invariance, PTL DEF Spec

----------------------------------------------------------------------------

(* Among requests that insert their credit row, the one with the longest key
   waits for none of the others: its key would be a suffix longer. *)
LEMMA IndexWaitsEnd ==
    ASSUME Inv, NEW T \in SUBSET Req, T # {}, \A p \in T : pc[p] = "insert_in"
    PROVE  \E p \in T : WaitsFor(p) \cap T = {}
  <1> DEFINE ins(p) == body[p].key.ins
             Rest == {KeyColumn - ins(p) : p \in T}
  <1>1. ASSUME NEW p \in T PROVE body[p].key \in Key /\ ins(p) \in Nat /\ KeyColumn - ins(p) \in Nat
    <2>1. body[p] \in TransferBody
      BY DEF Inv, TypeOK, TransferStep
    <2>2. body[p].key \in Key /\ FitsColumn(body[p].key)
      BY <2>1, BodyAssumption
    <2>3. body[p].key.ins \in Nat /\ BaseLength[body[p].key.base] \in Nat /\ KeyColumn \in Nat
      BY <2>2, KeyAssumption DEF Key
    <2> QED
      BY <2>2, <2>3 DEF FitsColumn
  <1>2. PICK k \in Rest : \A j \in Rest : k <= j
    <2>1. Rest \in SUBSET Nat /\ Rest # {}
      BY <1>1
    <2> HIDE DEF Rest
    <2> QED
      BY <2>1, LeastNat
  <1>3. PICK p \in T : k = KeyColumn - ins(p)
    OBVIOUS
  <1>4. ASSUME NEW q \in T, q \in WaitsFor(p) PROVE FALSE
    <2>1. body[q].key = InKey(body[p].key)
      BY <1>4 DEF WaitsFor, Inserted
    <2>2. ins(q) = ins(p) + 1
      BY <1>1, <2>1 DEF InKey, Key
    <2>3. KeyColumn - ins(p) <= KeyColumn - ins(q)
      BY <1>2, <1>3
    <2> QED
      BY <1>1, <2>2, <2>3, KeyAssumption
  <1> QED
    BY <1>4

(* Among requests that hold a row and want another, the one that wants the
   highest waits for none of the others. *)
LEMMA RowWaitsEnd ==
    ASSUME Inv, LockOrder, IsFiniteSet(Accounts),
           NEW T \in SUBSET Req, T # {}, \A p \in T : pc[p] = "lock"
    PROVE  \E p \in T : WaitsFor(p) \cap T = {}
  <1> DEFINE Higher(p) == {x \in Accounts : \E y \in NextRow(p) : y < x}
             Sizes == {Cardinality(Higher(p)) : p \in T}
  <1>1. SUFFICES ASSUME \A p \in T : \E q \in T : q \in WaitsFor(p) PROVE FALSE
    OBVIOUS
  <1>2. \A p \in T : IsFiniteSet(Higher(p)) /\ Cardinality(Higher(p)) \in Nat
    BY FS_Subset, FS_CardinalityType
  <1>3. PICK k \in Sizes : \A j \in Sizes : k <= j
    <2>1. Sizes \in SUBSET Nat /\ Sizes # {}
      BY <1>2
    <2> HIDE DEF Sizes
    <2> QED
      BY <2>1, LeastNat
  <1>4. PICK p \in T : k = Cardinality(Higher(p))
    OBVIOUS
  <1>5. PICK q \in T : q \in WaitsFor(p)
    BY <1>1
  <1>6. PICK x \in NextRow(p) : x \in held[q]
    BY <1>5 DEF WaitsFor
  <1>7. PICK z : z \in NextRow(q)
    <2>1. PICK r \in T : r \in WaitsFor(q)
      BY <1>1
    <2> QED
      BY <2>1 DEF WaitsFor
  <1>8. /\ \A y \in NextRow(q) : y \in Rows(q) \ held[q] /\ y <= z /\ z <= y
        /\ \A y \in NextRow(p) : y <= x /\ x <= y /\ y \in Accounts
        /\ z \in Accounts /\ x \in Accounts
    BY <1>6, <1>7 DEF NextRow, Rows
  <1>9. Accounts \subseteq Nat
    BY AccountAssumption
  <1>10. x < z
    BY <1>6, <1>7, <1>8 DEF LockOrder
  <1>11. Higher(q) \subseteq Higher(p) /\ z \in Higher(p) /\ z \notin Higher(q)
    <2>1. \A y \in NextRow(q) : y = z
      BY <1>8, <1>9 DEF Rows
    <2>2. \A y \in NextRow(p) : y = x
      BY <1>8, <1>9
    <2>3. x \in Nat /\ z \in Nat
      BY <1>8, <1>9
    <2>4. \A w \in Accounts : (w \in Higher(q) <=> z < w) /\ (w \in Higher(p) <=> x < w)
      BY <1>6, <1>7, <2>1, <2>2
    <2>5. \A w \in Accounts : z < w => x < w
      BY <1>9, <1>10, <2>3
    <2>6. z \in Higher(p) /\ z \notin Higher(q)
      BY <1>8, <1>10, <2>3, <2>4
    <2>7. Higher(q) \subseteq Accounts
      OBVIOUS
    <2> HIDE DEF Higher
    <2> QED
      BY <2>4, <2>5, <2>6, <2>7
  <1>12. /\ Cardinality(Higher(q)) <= Cardinality(Higher(p))
         /\ Cardinality(Higher(q)) # Cardinality(Higher(p))
    BY <1>2, <1>11, FS_Subset
  <1>13. Cardinality(Higher(p)) <= Cardinality(Higher(q))
    BY <1>3, <1>4
  <1> QED
    BY <1>2, <1>12, <1>13

(* With the locks in order, some request in every set waits for none of it. *)
LEMMA LocksSuffice ==
    ASSUME Inv, LockOrder, IsFiniteSet(Accounts), NEW S \in SUBSET Req, S # {}
    PROVE  \E p \in S : WaitsFor(p) \cap S = {}
  <1>1. SUFFICES ASSUME \A p \in S : \E q \in S : q \in WaitsFor(p) PROVE FALSE
    OBVIOUS
  <1>2. \A p \in S : pc[p] \in {"lock", "deposit_lock", "insert_out", "insert_in"}
    BY <1>1 DEF WaitsFor
  <1>3. \A p \in S : pc[p] # "insert_in"
    <2> DEFINE T == {p \in S : pc[p] = "insert_in"}
    <2>1. SUFFICES ASSUME T # {} PROVE FALSE
      OBVIOUS
    <2>2. PICK p \in T : WaitsFor(p) \cap T = {}
      BY <2>1, IndexWaitsEnd
    <2>3. PICK q \in S : q \in WaitsFor(p)
      BY <1>1
    <2>4. pc[q] \in {"insert_in", "commit"}
      BY <2>3 DEF WaitsFor, Inserted
    <2> QED
      BY <1>2, <2>2, <2>3, <2>4
  <1>4. \A p \in S : pc[p] # "insert_out"
    <2> SUFFICES ASSUME NEW p \in S, pc[p] = "insert_out" PROVE FALSE
      OBVIOUS
    <2>1. PICK q \in S : q \in WaitsFor(p)
      BY <1>1
    <2>2. pc[q] \in {"insert_in", "commit"}
      BY <2>1 DEF WaitsFor, Inserted
    <2> QED
      BY <1>2, <1>3, <2>2
  <1> DEFINE T == {p \in S : pc[p] = "lock" /\ held[p] # {}}
  <1>5. ASSUME NEW p \in S, NEW q \in S, q \in WaitsFor(p) PROVE q \in T
    <2>1. held[q] # {}
      BY <1>2, <1>3, <1>4, <1>5 DEF WaitsFor
    <2>2. pc[q] # "deposit_lock"
      BY <2>1 DEF Inv, LocksHeld, LocksOf, Applied
    <2> QED
      BY <1>2, <1>3, <1>4, <2>1, <2>2
  <1>6. T # {}
    BY <1>1, <1>5
  <1>7. PICK p \in T : WaitsFor(p) \cap T = {}
    BY <1>6, RowWaitsEnd
  <1> QED
    BY <1>1, <1>5, <1>7

(* No circular wait is reachable: _lock_accounts_for_update's ORDER BY id
   and the order of the two inserts keep every set of waiting requests from
   waiting on itself. *)
THEOREM DeadlockFree ==
    ASSUME IsFiniteSet(Accounts)
    PROVE  Spec => []NoCircularWait
  <1>1. Inv /\ LockOrder => NoCircularWait
    <2> SUFFICES ASSUME Inv, LockOrder, NEW S \in SUBSET Req, S # {}
                 PROVE  \E p \in S : WaitsFor(p) \cap S = {}
      BY DEF NoCircularWait
    <2> QED
      BY LocksSuffice
  <1> QED
    BY <1>1, LockOrderInvariance, PTL

----------------------------------------------------------------------------
(* Every handler comes to its end. *)

(* The steps a request has at most before it, its crash aside. *)
Stage == [idle |-> 12, check |-> 11, owner |-> 10, lock |-> 8, apply |-> 7,
          insert_out |-> 6, insert_in |-> 5, commit |-> 4, notify |-> 3,
          deposit_lock |-> 3, deposit_apply |-> 2, deposit_commit |-> 1,
          done |-> 0, crashed |-> 0]

toGo == [p \in Req |-> IF pc[p] = "lock" /\ held[p] = {} THEN 9 ELSE Stage[pc[p]]]

(* No step takes a request back, and its own take it on. *)
Advance == \A p \in Req : /\ toGo'[p] <= toGo[p]
                          /\ Handle(p) => toGo'[p] < toGo[p]

ToGoOK == toGo \in [Req -> 0 .. 12]

LEMMA ToGoType == Inv => ToGoOK
  <1> SUFFICES ASSUME Inv PROVE ToGoOK
    OBVIOUS
  <1>1. pc \in [Req -> InFlight \cup {"idle", "done", "crashed"}]
    BY DEF Inv, TypeOK
  <1>2. \A l \in InFlight \cup {"idle", "done", "crashed"} : Stage[l] \in 0 .. 12
    BY DEF Stage, InFlight, TransferStep, DepositStep
  <1> QED BY <1>1, <1>2 DEF toGo, ToGoOK

LEMMA ToGoTypeNext ==
    ASSUME Inv, [Next]_vars
    PROVE  ToGoOK'
  <1>1. Inv'
    BY NextInv
  <1> QED BY <1>1, ToGoType, PTL

(* A handler's step goes on, to a later stage or to its second lock. *)
LEMMA HandleAdvances ==
    ASSUME Inv, NEW p \in Req, Handle(p)
    PROVE  toGo'[p] < toGo[p]
  <1>0. /\ pc \in [Req -> InFlight \cup {"idle", "done", "crashed"}]
        /\ held \in [Req -> SUBSET Accounts]
    BY DEF Inv, TypeOK
  <1>1. ASSUME NEW l, Goto(p, l), l \in DOMAIN Stage \ {"lock"}, pc[p] # "lock",
               Stage[l] < Stage[pc[p]]
        PROVE  toGo'[p] < toGo[p]
    BY <1>0, <1>1 DEF toGo, Goto, Stage
  <1>2. CASE Replay(p)
    BY <1>1, <1>2 DEF Replay, Stage
  <1>3. CASE PartialTransfer(p) \/ CheckKey(p)
    BY <1>1, <1>3 DEF PartialTransfer, CheckKey, Answer, Stage
  <1>4. CASE CheckOwner(p)
    <2>1. CASE pc[p] = "owner" /\ Goto(p, "done")
      BY <1>1, <2>1 DEF Stage
    <2>2. CASE pc[p] = "owner" /\ Goto(p, "lock")
      BY <1>0, <2>2 DEF Goto, toGo, Stage
    <2> QED BY <1>4, <2>1, <2>2 DEF CheckOwner, Answer
  <1>5. CASE LockRow(p)
    <2>1. PICK a \in NextRow(p) :
              /\ held' = [held EXCEPT ![p] = @ \cup {a}]
              /\ Goto(p, IF Rows(p) \subseteq held[p] \cup {a} THEN "apply" ELSE "lock")
      BY <1>5 DEF LockRow
    <2>2. pc[p] = "lock" /\ held[p] \subseteq Rows(p) /\ a \in Rows(p) \ held[p]
      BY <1>5 DEF LockRow, Inv, LocksHeld, LocksOf, NextRow
    <2>3. held'[p] = held[p] \cup {a}
      BY <1>0, <2>1
    <2>4. CASE held[p] = {}
      <3>1. toGo[p] = 9 /\ held'[p] # {} /\ pc'[p] \in {"lock", "apply"}
        BY <1>0, <2>1, <2>2, <2>3, <2>4 DEF toGo, Goto
      <3> QED BY <3>1 DEF toGo, Stage
    <2>5. CASE held[p] # {}
      <3>1. Rows(p) \subseteq held[p] \cup {a}
        BY <2>2, <2>5 DEF Rows
      <3>2. pc'[p] = "apply" /\ toGo[p] = 8
        BY <1>0, <2>1, <2>2, <2>5, <3>1 DEF Goto, toGo, Stage
      <3> QED BY <3>2 DEF toGo, Stage
    <2> QED BY <2>4, <2>5
  <1>6. CASE Refuse(p) \/ Apply(p)
    BY <1>1, <1>6 DEF Refuse, Apply, Answer, Stage
  <1>7. CASE InsertOut(p) \/ InsertIn(p)
    BY <1>1, <1>7 DEF InsertOut, InsertIn, Answer, Stage
  <1>8. CASE Commit(p) \/ Enqueue(p) \/ BrokerDown(p)
    BY <1>1, <1>8 DEF Commit, Enqueue, BrokerDown, Answer, Stage
  <1>9. CASE LockDeposit(p) \/ ApplyDeposit(p) \/ CommitDeposit(p)
    BY <1>1, <1>9 DEF LockDeposit, ApplyDeposit, CommitDeposit, Answer, Stage
  <1> QED BY <1>2, <1>3, <1>4, <1>5, <1>6, <1>7, <1>8, <1>9 DEF Handle

(* Nothing another request does takes it back, or on. *)
LEMMA OthersStay ==
    ASSUME Inv, NEW p \in Req, Arrive(p) \/ Handle(p) \/ Crash(p), NEW q \in Req \ {p}
    PROVE  pc'[q] = pc[q] /\ held'[q] = held[q]
  <1> USE DEF Goto, committed
  <1>0. /\ pc \in [Req -> InFlight \cup {"idle", "done", "crashed"}]
        /\ held \in [Req -> SUBSET Accounts]
    BY DEF Inv, TypeOK
  <1>1. CASE Arrive(p) \/ Crash(p)
    BY <1>0, <1>1 DEF Arrive, Crash, Release
  <1>2. CASE Handle(p)
    <2>1. CASE CheckKey(p) \/ CheckOwner(p) \/ InsertOut(p) \/ InsertIn(p)
      BY <1>0, <2>1 DEF CheckKey, CheckOwner, InsertOut, InsertIn, Answer, Release
    <2>2. CASE Replay(p) \/ PartialTransfer(p) \/ LockRow(p) \/ Refuse(p) \/ Apply(p)
      BY <1>0, <2>2 DEF Replay, PartialTransfer, LockRow, Refuse, Apply, Answer, Release
    <2>3. CASE Commit(p) \/ Enqueue(p) \/ BrokerDown(p)
      BY <1>0, <2>3 DEF Commit, Enqueue, BrokerDown, Answer, Release
    <2>4. CASE LockDeposit(p) \/ ApplyDeposit(p) \/ CommitDeposit(p)
      BY <1>0, <2>4 DEF LockDeposit, ApplyDeposit, CommitDeposit, Answer, Release
    <2> QED
      BY <1>2, <2>1, <2>2, <2>3, <2>4 DEF Handle
  <1> QED BY <1>1, <1>2

LEMMA StepAdvances ==
    ASSUME Inv, [Next]_vars
    PROVE  Advance
  <1> SUFFICES ASSUME NEW q \in Req
               PROVE  toGo'[q] <= toGo[q] /\ (Handle(q) => toGo'[q] < toGo[q])
    BY DEF Advance
  <1>0. toGo[q] \in 0 .. 12
    BY ToGoType DEF ToGoOK
  <1>1. CASE Handle(q)
    <2>1. toGo'[q] < toGo[q] /\ toGo'[q] \in 0 .. 12
      BY <1>1, HandleAdvances, ToGoTypeNext DEF ToGoOK
    <2> QED BY <1>0, <2>1
  <1>2. ASSUME pc'[q] = pc[q], held'[q] = held[q], ~Handle(q)
        PROVE  toGo'[q] <= toGo[q] /\ (Handle(q) => toGo'[q] < toGo[q])
    BY <1>0, <1>2 DEF toGo
  <1>3. ASSUME NEW p \in Req \ {q}, Arrive(p) \/ Handle(p) \/ Crash(p), ~Handle(q)
        PROVE  toGo'[q] <= toGo[q] /\ (Handle(q) => toGo'[q] < toGo[q])
    BY <1>2, <1>3, OthersStay
  <1>4. CASE (Arrive(q) \/ Crash(q)) /\ ~Handle(q)
    <2>1. pc \in [Req -> InFlight \cup {"idle", "done", "crashed"}]
      BY DEF Inv, TypeOK
    <2>2. \/ pc[q] = "idle" /\ pc'[q] \in {"check", "deposit_lock"}
          \/ pc'[q] = "crashed"
      BY <1>4, <2>1 DEF Arrive, Crash, Goto
    <2> QED BY <1>0, <1>4, <2>2 DEF toGo, Stage
  <1>5. CASE ((\E a \in Accounts, s \in Status : SetStatus(a, s)) \/ UNCHANGED vars) /\ ~Handle(q)
    BY <1>2, <1>5 DEF SetStatus, vars
  <1> QED BY <1>1, <1>3, <1>4, <1>5 DEF Next

(* A request is never taken back to an earlier stage, and each of its steps
   takes it to a later one or to its second lock: a handler has no loop. *)
THEOREM HandlersAdvance == Spec => [][Advance]_vars
  <1>1. Inv /\ [Next]_vars => [Advance]_vars
    BY StepAdvances
  <1> QED BY <1>1, Invariance, PTL DEF Spec

(* So every request takes finitely many steps, whatever the others do: with
   NoCircularWait, what EveryRequestEnds rests on. *)
THEOREM HandlersStop ==
    ASSUME NEW p \in Req
    PROVE  Spec => <>[][~Handle(p)]_vars
  <1> DEFINE AtMost(n) == toGo[p] <= n
  <1>1. Inv => AtMost(12)
    BY ToGoType DEF ToGoOK
  <1>2. ASSUME Inv, [Next]_vars, NEW n \in 0 .. 12
        PROVE  /\ AtMost(n) => AtMost(n)'
               /\ Handle(p) /\ AtMost(n) => n > 0 /\ AtMost(n - 1)'
    <2>1. Advance /\ toGo[p] \in 0 .. 12 /\ toGo'[p] \in 0 .. 12
      BY <1>2, StepAdvances, ToGoType, ToGoTypeNext DEF ToGoOK
    <2>2. toGo'[p] <= toGo[p] /\ (Handle(p) => toGo'[p] < toGo[p])
      BY <2>1 DEF Advance
    <2> QED BY <2>1, <2>2
  <1> HIDE DEF AtMost
  <1>3. ASSUME Inv, [Next]_vars
        PROVE  /\ AtMost(0) => AtMost(0)' /\ [~Handle(p)]_vars
               /\ AtMost(1) => AtMost(1)' /\ ([~Handle(p)]_vars \/ AtMost(0)')
               /\ AtMost(2) => AtMost(2)' /\ ([~Handle(p)]_vars \/ AtMost(1)')
               /\ AtMost(3) => AtMost(3)' /\ ([~Handle(p)]_vars \/ AtMost(2)')
               /\ AtMost(4) => AtMost(4)' /\ ([~Handle(p)]_vars \/ AtMost(3)')
               /\ AtMost(5) => AtMost(5)' /\ ([~Handle(p)]_vars \/ AtMost(4)')
               /\ AtMost(6) => AtMost(6)' /\ ([~Handle(p)]_vars \/ AtMost(5)')
               /\ AtMost(7) => AtMost(7)' /\ ([~Handle(p)]_vars \/ AtMost(6)')
               /\ AtMost(8) => AtMost(8)' /\ ([~Handle(p)]_vars \/ AtMost(7)')
               /\ AtMost(9) => AtMost(9)' /\ ([~Handle(p)]_vars \/ AtMost(8)')
               /\ AtMost(10) => AtMost(10)' /\ ([~Handle(p)]_vars \/ AtMost(9)')
               /\ AtMost(11) => AtMost(11)' /\ ([~Handle(p)]_vars \/ AtMost(10)')
               /\ AtMost(12) => AtMost(12)' /\ ([~Handle(p)]_vars \/ AtMost(11)')
    BY <1>2, <1>3
  <1> QED BY <1>1, <1>3, Invariance, PTL DEF Spec
====
