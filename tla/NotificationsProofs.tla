---- MODULE NotificationsProofs ----
(***************************************************************************)
(* Notifications proved: its steps leave the money path alone, repeated    *)
(* executions are bounded, the subscription loses nothing, the task keeps  *)
(* the promise of Announce, and what a client is told is in the ledger.    *)
(***************************************************************************)
EXTENDS Notifications, TransfersProofs, SequenceTheorems

(* Worker and sockets stutter for the money path, so that every theorem
   about Transfers holds with them running. *)
LEMMA StepIsTransfers == [NewsNext]_allVars => [Next]_vars
  <1> SUFFICES ASSUME [NewsNext]_allVars PROVE [Next]_vars
    OBVIOUS
  <1>1. ASSUME NEW p \in Req, Work(p) \/ TaskFails(p) \/ WorkerDies(p) PROVE UNCHANGED vars
    BY <1>1 DEF Work, Take, PublishSent, PublishReceived, Close, TaskFails, WorkerDies
  <1>2. ASSUME NEW c \in Conn, Serve(c) \/ RejectToken(c) \/ SubscribeFails(c)
                 \/ ClientLeaves(c) \/ BadMessage(c) \/ ForwarderFails(c)
        PROVE  UNCHANGED vars
    BY <1>2 DEF Serve, Subscribe, NoticeLeft, Forward, ForwardToNobody, Finish, RejectToken,
       SubscribeFails, ClientLeaves, BadMessage, ForwarderFails, Return, ClientStops,
       ForwarderStops
  <1>3. ASSUME NEW c \in Conn, NEW u \in Online, Connect(c, u) PROVE UNCHANGED vars
    BY <1>3 DEF Connect
  <1> QED
    BY <1>1, <1>2, <1>3 DEF NewsNext, NewsStep, allVars

(* The notifications never hold up or change the money path: with worker and
   sockets running, the handlers still do what Transfers says. *)
THEOREM NewsImplementsTransfers == NewsSpec => Spec
  <1>1. NewsInit => Init
    BY DEF NewsInit
  <1> QED
    BY <1>1, StepIsTransfers, PTL DEF NewsSpec, Spec

(* The invariant of the money path holds with worker and sockets. *)
LEMMA NewsInvariance == NewsSpec => []Inv
  BY NewsImplementsTransfers, Invariance, PTL

----------------------------------------------------------------------------
(* What is queued *)

(* The task that request p hands to the broker. *)
Notice(p) == [task |-> p, tx |-> body[p].key, sender |-> body[p].user,
              receiver |-> body[p].to, amount |-> body[p].amount]

(* What a request has done after its commit is not undone. *)
Past(p) == pc[p] \in {"notify", "done", "crashed"}

(* A task quotes the body of a request that is done, and whose transfer, or
   the one it repeats, has both its rows. *)
QueueInv ==
    \A n \in queue :
        /\ n.task \in Req /\ n = Notice(n.task)
        /\ pc[n.task] = "done" /\ body[n.task] \in TransferBody
        /\ KeyTaken(ledger, n.tx) /\ KeyTaken(ledger, InKey(n.tx))

(* Rows with a key are those of a transfer its owner asked for. *)
LedgerInv ==
    \A r \in ledger :
        /\ r.req \in Req
        /\ r.key # NoKey =>
             LET b == body[r.req]
             IN  /\ b \in TransferBody /\ Owner[b.from] = b.user
                 /\ r = OutRow(r.req, b) \/ r = InRow(r.req, b)

(* How the money path changes what is queued, committed and asked. *)
LEMMA PathStep ==
    ASSUME Inv, [Next]_vars
    PROVE  /\ \A p \in Req : Past(p) => body'[p] = body[p]
           /\ \A p \in Req : pc[p] = "done" => pc'[p] = "done"
           /\ \A p \in Req : Past(p) => Past(p)'
           /\ \/ queue' = queue
              \/ \E p \in Req : /\ pc[p] = "notify" /\ pc'[p] = "done"
                                /\ queue' = queue \cup {Notice(p)}
           /\ \/ ledger' = ledger
              \/ \E p \in Req : Commit(p) \/ CommitDeposit(p)
  <1> USE DEF Goto, committed
  <1>0. /\ pc \in [Req -> InFlight \cup {"idle", "done", "crashed"}]
        /\ body \in [Req -> TransferBody \cup DepositBody \cup {NoBody}]
    BY DEF Inv, TypeOK
  <1>1. ASSUME NEW p \in Req, Arrive(p)
        PROVE  /\ pc[p] = "idle" /\ UNCHANGED <<queue, ledger>>
               /\ \A q \in Req \ {p} : pc'[q] = pc[q] /\ body'[q] = body[q]
    BY <1>0, <1>1 DEF Arrive
  <1>2. ASSUME NEW p \in Req, Crash(p)
        PROVE  /\ pc[p] # "done" /\ pc'[p] = "crashed" /\ UNCHANGED <<body, queue, ledger>>
               /\ \A q \in Req \ {p} : pc'[q] = pc[q]
    BY <1>0, <1>2 DEF Crash, InFlight, TransferStep, DepositStep
  <1>3. ASSUME NEW p \in Req, Handle(p)
        PROVE  /\ pc[p] \notin {"done", "crashed"} /\ UNCHANGED body
               /\ pc[p] = "notify" => pc'[p] = "done"
               /\ \A q \in Req \ {p} : pc'[q] = pc[q]
               /\ \/ queue' = queue
                  \/ /\ pc[p] = "notify" /\ pc'[p] = "done"
                     /\ queue' = queue \cup {Notice(p)}
               /\ ledger' = ledger \/ Commit(p) \/ CommitDeposit(p)
    <2>1. CASE Enqueue(p)
      BY <1>0, <2>1 DEF Enqueue, Notice
    <2>2. CASE BrokerDown(p)
      BY <1>0, <2>2 DEF BrokerDown, Answer
    <2>3. CASE Commit(p)
      BY <1>0, <2>3 DEF Commit
    <2>4. CASE CommitDeposit(p)
      BY <1>0, <2>4 DEF CommitDeposit
    <2>5. CASE CheckKey(p) \/ CheckOwner(p) \/ InsertOut(p) \/ InsertIn(p)
      BY <1>0, <2>5 DEF CheckKey, CheckOwner, InsertOut, InsertIn, Answer
    <2>6. CASE Replay(p) \/ PartialTransfer(p) \/ LockRow(p) \/ Refuse(p) \/ Apply(p)
      BY <1>0, <2>6 DEF Replay, PartialTransfer, LockRow, Refuse, Apply, Answer
    <2>7. CASE LockDeposit(p) \/ ApplyDeposit(p)
      BY <1>0, <2>7 DEF LockDeposit, ApplyDeposit, Answer
    <2> QED
      BY <1>3, <2>1, <2>2, <2>3, <2>4, <2>5, <2>6, <2>7 DEF Handle
  <1>4. ASSUME NEW a \in Accounts, NEW s \in Status, SetStatus(a, s)
        PROVE  UNCHANGED <<pc, body, queue, ledger>>
    BY <1>4 DEF SetStatus
  <1>5. CASE UNCHANGED vars
    BY <1>5 DEF vars, Past
  <1>6. CASE \E p \in Req : Arrive(p)
    BY <1>6, <1>1 DEF Past
  <1>7. CASE \E p \in Req : Crash(p)
    BY <1>7, <1>2 DEF Past
  <1>8. CASE \E p \in Req : Handle(p)
    BY <1>8, <1>3 DEF Past
  <1>9. CASE \E a \in Accounts, s \in Status : SetStatus(a, s)
    BY <1>9, <1>4 DEF Past
  <1> QED
    BY <1>5, <1>6, <1>7, <1>8, <1>9 DEF Next

(* Committed rows stay. *)
LEMMA LedgerGrows ==
    ASSUME Inv, [Next]_vars
    PROVE  ledger \subseteq ledger'
  BY PathStep DEF Commit, CommitDeposit

(* What is queued is not forgotten and not changed. *)
LEMMA NoticeKept ==
    ASSUME Inv, QueueInv, [Next]_vars
    PROVE  /\ queue \subseteq queue'
           /\ \A n \in queue : n = Notice(n.task)'
  <1>1. \A n \in queue : n = Notice(n.task) /\ n.task \in Req /\ Past(n.task)
    BY DEF QueueInv, Past
  <1>2. \A p \in Req : Past(p) => Notice(p)' = Notice(p)
    BY PathStep DEF Notice
  <1> QED
    BY <1>1, <1>2, PathStep

(* The queue after a step of the money path still says what the bodies say. *)
LEMMA QueueStep ==
    ASSUME Inv, Inv', QueueInv, [Next]_vars
    PROVE  QueueInv'
  <1>1. ASSUME NEW n \in queue
        PROVE  /\ n.task \in Req /\ n = Notice(n.task)'
               /\ pc'[n.task] = "done" /\ body'[n.task] \in TransferBody
               /\ KeyTaken(ledger', n.tx) /\ KeyTaken(ledger', InKey(n.tx))
    <2>1. /\ n.task \in Req /\ pc[n.task] = "done" /\ body[n.task] \in TransferBody
          /\ KeyTaken(ledger, n.tx) /\ KeyTaken(ledger, InKey(n.tx))
      BY DEF QueueInv
    <2>2. pc'[n.task] = "done" /\ body'[n.task] = body[n.task]
      BY <2>1, PathStep DEF Past
    <2>3. KeyTaken(ledger', n.tx) /\ KeyTaken(ledger', InKey(n.tx))
      BY <2>1, LedgerGrows DEF KeyTaken
    <2> QED
      BY <2>1, <2>2, <2>3, NoticeKept
  <1>2. ASSUME NEW p \in Req, pc[p] = "notify", pc'[p] = "done"
        PROVE  /\ Notice(p).task = p /\ Notice(p) = Notice(p)'
               /\ body'[p] \in TransferBody
               /\ KeyTaken(ledger', Notice(p).tx) /\ KeyTaken(ledger', InKey(Notice(p).tx))
    <2>1. body[p] \in TransferBody
      BY <1>2 DEF Inv, TypeOK, TransferStep
    <2>2. body'[p] = body[p]
      BY <1>2, PathStep DEF Past
    <2>3. KeyTaken(ledger, body[p].key) /\ KeyTaken(ledger, InKey(body[p].key))
      BY <1>2, <2>1 DEF Inv, AnswersMatchLedger
    <2>4. KeyTaken(ledger', body[p].key) /\ KeyTaken(ledger', InKey(body[p].key))
      BY <2>3, LedgerGrows DEF KeyTaken
    <2>5. Notice(p).task = p /\ Notice(p).tx = body[p].key
      BY DEF Notice
    <2>6. Notice(p)' = Notice(p)
      BY <2>2 DEF Notice
    <2> QED
      BY <2>1, <2>2, <2>4, <2>5, <2>6
  <1>3. CASE queue' = queue
    BY <1>1, <1>3 DEF QueueInv
  <1>4. CASE \E p \in Req : /\ pc[p] = "notify" /\ pc'[p] = "done"
                            /\ queue' = queue \cup {Notice(p)}
    <2>1. PICK p \in Req : /\ pc[p] = "notify" /\ pc'[p] = "done"
                           /\ queue' = queue \cup {Notice(p)}
      BY <1>4
    <2>2. \A n \in queue' : n \in queue \/ n = Notice(p)
      BY <2>1
    <2> QED
      BY <1>1, <1>2, <2>1, <2>2 DEF QueueInv
  <1> QED
    BY <1>3, <1>4, PathStep

(* So does the ledger. *)
LEMMA LedgerStep ==
    ASSUME Inv, LedgerInv, [Next]_vars
    PROVE  LedgerInv'
  <1>1. \A r \in ledger : Past(r.req)
    BY DEF Inv, AnswersMatchLedger, Past
  <1>2. \A r \in ledger : r.req \in Req
    BY DEF LedgerInv
  <1>3. \A r \in ledger : body'[r.req] = body[r.req]
    BY <1>1, <1>2, PathStep
  <1>4. CASE ledger' = ledger
    BY <1>3, <1>4 DEF LedgerInv
  <1>5. ASSUME NEW p \in Req, Commit(p) PROVE LedgerInv'
    <2>1. /\ ledger' = ledger \cup {OutRow(p, body[p]), InRow(p, body[p])}
          /\ body' = body /\ pc[p] = "commit"
      BY <1>5 DEF Commit
    <2>2. body[p] \in TransferBody /\ Owner[body[p].from] = body[p].user
      BY <2>1 DEF Inv, TypeOK, TransferStep, ChecksStillHold, StillDue, Applied
    <2>3. OutRow(p, body[p]).req = p /\ InRow(p, body[p]).req = p
      BY DEF OutRow, InRow
    <2> QED
      BY <2>1, <2>2, <2>3 DEF LedgerInv
  <1>6. ASSUME NEW p \in Req, CommitDeposit(p) PROVE LedgerInv'
    <2>1. ledger' = ledger \cup {DepositRow(p, body[p])} /\ body' = body
      BY <1>6 DEF CommitDeposit
    <2>2. DepositRow(p, body[p]).req = p /\ DepositRow(p, body[p]).key = NoKey
      BY DEF DepositRow
    <2> QED
      BY <2>1, <2>2 DEF LedgerInv
  <1> QED
    BY <1>4, <1>5, <1>6, PathStep

(* A task is queued once per request, with what its body says. *)
LEMMA QueuedNotice ==
    ASSUME QueueInv, NEW n \in queue
    PROVE  n.task \in Req /\ Queued(n.task) /\ n = Notice(n.task)
  BY DEF QueueInv, Queued

PathInv == Inv /\ QueueInv /\ LedgerInv

(* What the proofs below use of the money path. *)
LEMMA PathInvariance == NewsSpec => []PathInv
  <1>1. NewsInit => QueueInv /\ LedgerInv
    BY DEF NewsInit, Init, QueueInv, LedgerInv
  <1>2. Inv /\ Inv' /\ QueueInv /\ LedgerInv /\ [NewsNext]_allVars => QueueInv' /\ LedgerInv'
    BY QueueStep, LedgerStep, StepIsTransfers
  <1> QED
    BY <1>1, <1>2, NewsInvariance, PTL DEF NewsSpec, PathInv

----------------------------------------------------------------------------
(* The task *)

(* How far the executions of p's task have come: sent counts those that got
   past the first publish, and the last one has a retry left for each. *)
WorkerInv(p) ==
    /\ task[p] = "none" => sent[p] = 0 /\ received[p] = 0 /\ retries[p] = 0
    /\ task[p] \in {"publish_sent", "waiting"} => sent[p] <= retries[p]
    /\ sent[p] <= retries[p] + 1
    /\ received[p] <= sent[p]
    /\ task[p] = "publish_received" => received[p] < sent[p]
    /\ received[p] > 0 => HasReceiver(Notice(p))
    /\ task[p] \in {"close", "done"} =>
         sent[p] > 0 /\ (HasReceiver(Notice(p)) => received[p] > 0)
    /\ task[p] # "none" => Queued(p)

WorkerType ==
    /\ task \in [Req -> {"none", "waiting"} \cup Executing \cup Ended]
    /\ retries \in [Req -> 0 .. MaxRetries]
    /\ sent \in [Req -> Nat] /\ received \in [Req -> Nat]

TaskInv == WorkerType /\ \A p \in Req : WorkerInv(p)

(* A step that is not p's task's, and after which p's notice is the same,
   leaves what is known of it. *)
LEMMA WorkerFrame ==
    ASSUME NEW p \in Req, WorkerInv(p), Queued(p) => Queued(p)' /\ Notice(p)' = Notice(p),
           task'[p] = task[p], retries'[p] = retries[p],
           sent'[p] = sent[p], received'[p] = received[p], WorkerType
    PROVE  WorkerInv(p)'
  <1>1. CASE task[p] = "none"
    BY <1>1 DEF WorkerInv, WorkerType
  <1>2. CASE task[p] # "none"
    BY <1>2 DEF WorkerInv
  <1> QED
    BY <1>1, <1>2

LEMMA PathKeepsTasks ==
    ASSUME PathInv, TaskInv, [Next]_vars, UNCHANGED workerVars
    PROVE  TaskInv'
  <1>1. \A p \in Req : Queued(p) => Queued(p)' /\ Notice(p)' = Notice(p)
    BY NoticeKept DEF PathInv, QueueInv, Queued
  <1>2. UNCHANGED <<task, retries, sent, received>>
    BY DEF workerVars
  <1> QED
    BY <1>1, <1>2, WorkerFrame DEF TaskInv, WorkerType

(* The steps of one task. *)
LEMMA TaskStep ==
    ASSUME PathInv, TaskInv, NEW p \in Req, Work(p) \/ TaskFails(p) \/ WorkerDies(p)
    PROVE  TaskInv'
  <1> USE NewsAssumption
  <1>1. UNCHANGED vars /\ UNCHANGED <<queue, body>>
    BY DEF Work, Take, PublishSent, PublishReceived, Close, TaskFails, WorkerDies, vars
  <1>2. \A q \in Req : (Queued(q)' <=> Queued(q)) /\ Notice(q)' = Notice(q)
    BY <1>1 DEF Queued, Notice
  <1>3. WorkerType /\ WorkerInv(p) /\ retries[p] \in 0 .. MaxRetries
        /\ sent[p] \in Nat /\ received[p] \in Nat
    BY DEF TaskInv, WorkerType
  <1>4. ASSUME WorkerType', WorkerInv(p)',
               \A q \in Req \ {p} : /\ task'[q] = task[q] /\ retries'[q] = retries[q]
                                    /\ sent'[q] = sent[q] /\ received'[q] = received[q]
        PROVE  TaskInv'
    BY <1>2, <1>4, WorkerFrame DEF TaskInv
  <1>5. CASE Take(p)
    <2>1. /\ task[p] \in {"none", "waiting"} /\ Queued(p)
          /\ task' = [task EXCEPT ![p] = "publish_sent"]
          /\ UNCHANGED <<retries, sent, received>>
      BY <1>3, <1>5 DEF Take, At, WorkerInv
    <2>2. WorkerType' /\ task'[p] = "publish_sent"
      BY <1>3, <2>1 DEF WorkerType, Executing
    <2>3. WorkerInv(p)'
      BY <1>2, <1>3, <2>1, <2>2 DEF WorkerInv
    <2> QED
      BY <1>3, <1>4, <2>1, <2>2, <2>3 DEF WorkerType
  <1>6. CASE PublishSent(p)
    <2>1. /\ task[p] = "publish_sent"
          /\ task' = [task EXCEPT ![p] = "publish_received"]
          /\ sent' = [sent EXCEPT ![p] = @ + 1]
          /\ UNCHANGED <<retries, received>>
      BY <1>6 DEF PublishSent, At
    <2>2. WorkerType' /\ task'[p] = "publish_received" /\ sent'[p] = sent[p] + 1
      BY <1>3, <2>1 DEF WorkerType, Executing
    <2>3. WorkerInv(p)'
      BY <1>2, <1>3, <2>1, <2>2 DEF WorkerInv
    <2> QED
      BY <1>3, <1>4, <2>1, <2>2, <2>3 DEF WorkerType
  <1>7. CASE PublishReceived(p)
    <2>1. PICK n \in queue :
            /\ n.task = p
            /\ IF HasReceiver(n) THEN received' = [received EXCEPT ![p] = @ + 1]
               ELSE UNCHANGED received
      BY <1>7 DEF PublishReceived
    <2>2. n = Notice(p)
      BY <2>1, QueuedNotice DEF PathInv
    <2>3. /\ task[p] = "publish_received"
          /\ task' = [task EXCEPT ![p] = "close"]
          /\ UNCHANGED <<retries, sent>>
      BY <1>7 DEF PublishReceived, At
    <2>4. CASE HasReceiver(Notice(p))
      <3>1. received' = [received EXCEPT ![p] = @ + 1]
        BY <2>1, <2>2, <2>4
      <3>2. WorkerType' /\ task'[p] = "close" /\ received'[p] = received[p] + 1
        BY <1>3, <2>3, <3>1 DEF WorkerType, Executing
      <3>3. HasReceiver(Notice(p)')
        BY <1>2, <2>4
      <3>4. WorkerInv(p)'
        BY <1>2, <1>3, <2>3, <3>2, <3>3 DEF WorkerInv
      <3> QED
        BY <1>3, <1>4, <2>3, <3>1, <3>2, <3>4 DEF WorkerType
    <2>5. CASE ~HasReceiver(Notice(p))
      <3>1. received' = received
        BY <2>1, <2>2, <2>5
      <3>2. WorkerType' /\ task'[p] = "close"
        BY <1>3, <2>3, <3>1 DEF WorkerType, Executing
      <3>3. ~HasReceiver(Notice(p)')
        BY <1>2, <2>5
      <3>4. WorkerInv(p)'
        BY <1>2, <1>3, <2>3, <2>5, <3>1, <3>2, <3>3 DEF WorkerInv
      <3> QED
        BY <1>3, <1>4, <2>3, <3>1, <3>2, <3>4 DEF WorkerType
    <2> QED
      BY <2>4, <2>5
  <1>8. CASE Close(p)
    <2>1. /\ task[p] = "close" /\ task' = [task EXCEPT ![p] = "done"]
          /\ UNCHANGED <<retries, sent, received>>
      BY <1>8 DEF Close, At
    <2>2. WorkerType' /\ task'[p] = "done"
      BY <1>3, <2>1 DEF WorkerType, Ended
    <2>3. WorkerInv(p)'
      BY <1>2, <1>3, <2>1, <2>2 DEF WorkerInv
    <2> QED
      BY <1>3, <1>4, <2>1, <2>2, <2>3 DEF WorkerType
  <1>9. CASE TaskFails(p)
    <2>1. /\ task[p] \in Executing /\ UNCHANGED <<sent, received>>
          /\ \/ /\ retries[p] < MaxRetries
                /\ retries' = [retries EXCEPT ![p] = @ + 1]
                /\ task' = [task EXCEPT ![p] = "waiting"]
             \/ /\ task' = [task EXCEPT ![p] = "failed"]
                /\ UNCHANGED retries
      BY <1>9 DEF TaskFails, At
    <2>2. WorkerType'
      BY <1>3, <2>1 DEF WorkerType, Ended
    <2>3. WorkerInv(p)'
      BY <1>2, <1>3, <2>1 DEF WorkerInv, WorkerType, Executing
    <2> QED
      BY <1>3, <1>4, <2>1, <2>2, <2>3 DEF WorkerType
  <1>10. CASE WorkerDies(p)
    <2>1. /\ task[p] \in Executing /\ task' = [task EXCEPT ![p] = "lost"]
          /\ UNCHANGED <<retries, sent, received>>
      BY <1>10 DEF WorkerDies, At
    <2>2. WorkerType' /\ task'[p] = "lost"
      BY <1>3, <2>1 DEF WorkerType, Ended
    <2>3. WorkerInv(p)'
      BY <1>2, <1>3, <2>1, <2>2 DEF WorkerInv, Executing
    <2> QED
      BY <1>3, <1>4, <2>1, <2>2, <2>3 DEF WorkerType
  <1> QED
    BY <1>5, <1>6, <1>7, <1>8, <1>9, <1>10 DEF Work

(* A step of a socket is no step of the money path or of a task. *)
LEMMA SocketStep ==
    ASSUME NewsStep, ~ \E p \in Req : Work(p) \/ TaskFails(p) \/ WorkerDies(p)
    PROVE  UNCHANGED vars /\ UNCHANGED workerVars
  <1>1. ASSUME NEW c \in Conn, Serve(c) \/ RejectToken(c) \/ SubscribeFails(c)
                 \/ ClientLeaves(c) \/ BadMessage(c) \/ ForwarderFails(c)
        PROVE  UNCHANGED vars /\ UNCHANGED workerVars
    BY <1>1 DEF Serve, Subscribe, NoticeLeft, Forward, ForwardToNobody, Finish, RejectToken,
       SubscribeFails, ClientLeaves, BadMessage, ForwarderFails, Return, ClientStops,
       ForwarderStops
  <1>2. ASSUME NEW c \in Conn, NEW u \in Online, Connect(c, u)
        PROVE  UNCHANGED vars /\ UNCHANGED workerVars
    BY <1>2 DEF Connect
  <1> QED
    BY <1>1, <1>2 DEF NewsStep

(* Any step keeps what is known of the tasks. *)
LEMMA TaskInvStep == PathInv /\ TaskInv /\ [NewsNext]_allVars => TaskInv'
  <1> SUFFICES ASSUME PathInv, TaskInv, [NewsNext]_allVars PROVE TaskInv'
    OBVIOUS
  <1>1. CASE (Next /\ UNCHANGED newsVars) \/ UNCHANGED allVars
    BY <1>1, PathKeepsTasks DEF newsVars, allVars, workerVars
  <1>2. CASE \E p \in Req : Work(p) \/ TaskFails(p) \/ WorkerDies(p)
    BY <1>2, TaskStep
  <1>3. CASE NewsStep /\ ~ \E p \in Req : Work(p) \/ TaskFails(p) \/ WorkerDies(p)
    BY <1>3, SocketStep, PathKeepsTasks
  <1> QED
    BY <1>1, <1>2, <1>3 DEF NewsNext

(* So it is known in every state. *)
LEMMA TaskInvariance == NewsSpec => [](PathInv /\ TaskInv)
  <1>1. NewsInit => TaskInv
    <2> SUFFICES ASSUME NewsInit PROVE TaskInv
      OBVIOUS
    <2>1. WorkerType
      BY NewsAssumption DEF NewsInit, WorkerType
    <2> QED
      BY <2>1 DEF NewsInit, TaskInv, WorkerInv
  <1> QED
    BY <1>1, TaskInvStep, PathInvariance, PTL DEF NewsSpec

(* However often a task is retried, it sends transfer_sent no more often
   than it was executed, and the receiver never hears more than the sender. *)
THEOREM RepeatsAreBounded == NewsSpec => []RepeatsBounded
  <1>1. TaskInv => RepeatsBounded
    BY DEF TaskInv, WorkerInv, RepeatsBounded
  <1> QED
    BY <1>1, TaskInvariance, PTL

----------------------------------------------------------------------------
(* The sockets *)

NewsEvent == [type : {"transfer_sent", "transfer_received"}, tx : Key, amount : Nat]

SocketType ==
    /\ ws \in [Conn -> {"absent", "accepted", "open", "closed"}]
    /\ userOf \in [Conn -> User \cup {NoUser}]
    /\ running \in [Conn -> SUBSET Both]
    /\ left \subseteq Conn
    /\ published \in [Conn -> Seq(NewsEvent)]
    /\ inbox \in [Conn -> Seq(NewsEvent)]
    /\ got \in [Conn -> Seq(NewsEvent)]

(* Only an open socket is subscribed, for a user who has shown a token; what
   is published but not forwarded waits in order, and nothing is kept for a
   socket that does not listen. *)
SocketInv ==
    /\ SocketType
    /\ \A c \in Conn :
         /\ running[c] # {} => ws[c] = "open"
         /\ ws[c] \in {"accepted", "open"} => userOf[c] \in User
         /\ ~Listens(c) => published[c] = <<>>
    /\ NoGaps

(* What a queued task says is an event. *)
LEMMA NoticeIsEvent ==
    ASSUME PathInv, NEW n \in queue, NEW k \in {"transfer_sent", "transfer_received"}
    PROVE  Event(k, n) \in NewsEvent
  <1>1. body[n.task] \in TransferBody /\ n = Notice(n.task)
    BY DEF PathInv, QueueInv
  <1>2. body[n.task].key \in Key /\ body[n.task].amount \in Nat
    BY <1>1, BodyAssumption
  <1>3. n.tx = body[n.task].key /\ n.amount = body[n.task].amount
    BY <1>1 DEF Notice
  <1> QED
    BY <1>2, <1>3 DEF Event, NewsEvent

(* A message forwarded moves from the head of what waits to the end of what
   the client has. *)
LEMMA MoveHead ==
    ASSUME NEW T, NEW s \in Seq(T), NEW t \in Seq(T), t # <<>>
    PROVE  Append(s, Head(t)) \o Tail(t) = s \o t
  <1>1. /\ Head(t) \in T /\ Tail(t) \in Seq(T) /\ Len(Tail(t)) = Len(t) - 1
        /\ \A i \in 1 .. Len(Tail(t)) : Tail(t)[i] = t[i + 1]
        /\ Head(t) = t[1] /\ Len(t) \in Nat /\ Len(s) \in Nat
    BY HeadTailProperties
  <1>2. <<Head(t)>> \in Seq(T) /\ Len(<<Head(t)>>) = 1 /\ <<Head(t)>>[1] = Head(t)
    BY <1>1
  <1>3. <<Head(t)>> \o Tail(t) = t
    <2>1. /\ <<Head(t)>> \o Tail(t) \in Seq(T)
          /\ Len(<<Head(t)>> \o Tail(t)) = Len(t)
          /\ \A i \in 1 .. Len(t) : (<<Head(t)>> \o Tail(t))[i] =
                IF i <= 1 THEN <<Head(t)>>[i] ELSE Tail(t)[i - 1]
      BY <1>1, <1>2, ConcatProperties
    <2>2. \A i \in 1 .. Len(t) : (<<Head(t)>> \o Tail(t))[i] = t[i]
      BY <1>1, <1>2, <2>1
    <2> QED
      BY <2>1, <2>2, SeqEqual
  <1>4. Append(s, Head(t)) = s \o <<Head(t)>>
    BY <1>1, AppendIsConcat
  <1> QED
    BY <1>1, <1>2, <1>3, <1>4, ConcatAssociative

(* A message published appends to what its subscribers have and wait for. *)
LEMMA EmitStep ==
    ASSUME SocketInv, NEW u, NEW e \in NewsEvent, Emit(u, e)
    PROVE  SocketInv'
  <1>1. /\ UNCHANGED <<ws, userOf, running, left, got>>
        /\ \A c \in Conn : /\ published[c] \in Seq(NewsEvent) /\ inbox[c] \in Seq(NewsEvent)
                           /\ got[c] \in Seq(NewsEvent)
    BY DEF Emit, SocketInv, SocketType
  <1>2. /\ published' = [c \in Conn |-> IF Listens(c) /\ userOf[c] = u
                                        THEN Append(published[c], e) ELSE published[c]]
        /\ inbox' = [c \in Conn |-> IF Listens(c) /\ userOf[c] = u
                                    THEN Append(inbox[c], e) ELSE inbox[c]]
    BY DEF Emit
  <1>3. SocketType'
    BY <1>1, <1>2 DEF SocketInv, SocketType
  <1>4. ASSUME NEW c \in Conn PROVE published'[c] = got'[c] \o inbox'[c]
    <2>1. published[c] = got[c] \o inbox[c]
      BY DEF SocketInv, NoGaps
    <2>2. CASE Listens(c) /\ userOf[c] = u
      <3>1. published'[c] = Append(published[c], e) /\ inbox'[c] = Append(inbox[c], e)
        BY <1>2, <2>2
      <3>2. PICK s, t \in Seq(NewsEvent) : s = got[c] /\ t = inbox[c]
        BY <1>1
      <3>3. Append(s \o t, e) = s \o Append(t, e)
        <4>1. s \o t \in Seq(NewsEvent) /\ <<e>> \in Seq(NewsEvent)
          BY ConcatProperties
        <4>2. Append(s \o t, e) = (s \o t) \o <<e>> /\ Append(t, e) = t \o <<e>>
          BY <4>1, AppendIsConcat
        <4> QED
          BY <4>1, <4>2, ConcatAssociative
      <3>4. Append(got[c] \o inbox[c], e) = got[c] \o Append(inbox[c], e)
        BY <3>2, <3>3
      <3> QED
        BY <1>1, <2>1, <3>1, <3>4
    <2>3. CASE ~(Listens(c) /\ userOf[c] = u)
      BY <1>1, <1>2, <2>1, <2>3
    <2> QED
      BY <2>2, <2>3
  <1>5. \A c \in Conn : ~Listens(c)' => published'[c] = <<>>
    BY <1>1, <1>2 DEF SocketInv, Listens
  <1> QED
    BY <1>1, <1>3, <1>4, <1>5 DEF SocketInv, NoGaps

(* A forwarder that ends forgets what its subscription had. *)
LEMMA ForwarderStopsStep ==
    ASSUME SocketInv, NEW c \in Conn, ForwarderStops(c)
    PROVE  SocketInv'
  <1>1. SocketType'
    BY DEF SocketInv, SocketType, ForwarderStops
  <1>2. /\ published'[c] = <<>> /\ inbox'[c] = <<>> /\ got'[c] = <<>>
        /\ running'[c] \subseteq running[c]
        /\ UNCHANGED <<ws, userOf>>
        /\ \A d \in Conn \ {c} : /\ published'[d] = published[d] /\ inbox'[d] = inbox[d]
                                 /\ got'[d] = got[d] /\ running'[d] = running[d]
    BY DEF SocketInv, SocketType, ForwarderStops
  <1>3. <<>> \o <<>> = <<>>
    OBVIOUS
  <1> QED
    BY <1>1, <1>2, <1>3 DEF SocketInv, NoGaps, Listens

(* A socket returns when it is not subscribed. *)
LEMMA ReturnStep ==
    ASSUME SocketInv, NEW c \in Conn, Return(c), running[c] = {}
    PROVE  SocketInv'
  <1>1. SocketType'
    BY DEF SocketInv, SocketType, Return, feedVars
  <1>2. /\ UNCHANGED <<running, published, inbox, got>>
        /\ ws'[c] = "closed"
        /\ \A d \in Conn \ {c} : ws'[d] = ws[d] /\ userOf'[d] = userOf[d]
    BY DEF SocketInv, SocketType, Return, feedVars
  <1> QED
    BY <1>1, <1>2 DEF SocketInv, NoGaps, Listens

(* Forwarding keeps what a subscription has and waits for. *)
LEMMA ForwardStep ==
    ASSUME SocketInv, NEW c \in Conn, Forward(c)
    PROVE  SocketInv'
  <1>1. /\ inbox[c] # <<>> /\ inbox[c] \in Seq(NewsEvent) /\ got[c] \in Seq(NewsEvent)
        /\ published[c] = got[c] \o inbox[c]
        /\ UNCHANGED <<ws, userOf, running, left, published>>
        /\ got' = [got EXCEPT ![c] = Append(@, Head(inbox[c]))]
        /\ inbox' = [inbox EXCEPT ![c] = Tail(@)]
    BY DEF SocketInv, SocketType, NoGaps, Forward
  <1>2. /\ Head(inbox[c]) \in NewsEvent /\ Tail(inbox[c]) \in Seq(NewsEvent)
    BY <1>1
  <1>3. Append(got[c], Head(inbox[c])) \o Tail(inbox[c]) = got[c] \o inbox[c]
    BY <1>1, MoveHead
  <1>4. SocketType'
    BY <1>1, <1>2 DEF SocketInv, SocketType
  <1>5. /\ got'[c] = Append(got[c], Head(inbox[c])) /\ inbox'[c] = Tail(inbox[c])
        /\ \A d \in Conn \ {c} : got'[d] = got[d] /\ inbox'[d] = inbox[d]
    BY <1>1 DEF SocketInv, SocketType
  <1> QED
    BY <1>1, <1>3, <1>4, <1>5 DEF SocketInv, NoGaps, Listens

(* The other steps change the socket's state alone. *)
LEMMA PhaseStep ==
    ASSUME SocketInv, NEW c \in Conn,
           \/ \E u \in Online : Connect(c, u)
           \/ Subscribe(c) \/ ClientLeaves(c) \/ NoticeLeft(c) \/ BadMessage(c)
    PROVE  SocketInv'
  <1>1. UNCHANGED <<published, inbox, got>>
    BY DEF Connect, Subscribe, ClientLeaves, NoticeLeft, BadMessage, ClientStops, feedVars
  <1>2. CASE \E u \in Online : Connect(c, u)
    <2>1. PICK u \in Online : Connect(c, u)
      BY <1>2
    <2>2. /\ u \in User /\ ws[c] = "absent" /\ UNCHANGED <<running, left>>
          /\ ws' = [ws EXCEPT ![c] = "accepted"] /\ userOf' = [userOf EXCEPT ![c] = u]
      BY <2>1, NewsAssumption DEF Connect
    <2> QED
      BY <1>1, <2>2 DEF SocketInv, SocketType, NoGaps, Listens
  <1>3. CASE Subscribe(c)
    BY <1>1, <1>3 DEF Subscribe, SocketInv, SocketType, NoGaps, Listens, Both
  <1>4. CASE ClientLeaves(c)
    BY <1>1, <1>4 DEF ClientLeaves, SocketInv, SocketType, NoGaps, Listens
  <1>5. CASE NoticeLeft(c) \/ BadMessage(c)
    <2>1. /\ running' = [running EXCEPT ![c] = @ \ {"client"}]
          /\ UNCHANGED <<ws, userOf, left>>
      BY <1>5 DEF NoticeLeft, BadMessage, ClientStops
    <2>2. \A d \in Conn : running'[d] \subseteq running[d] /\ (Listens(d)' <=> Listens(d))
      BY <2>1 DEF SocketInv, SocketType, Listens
    <2>3. SocketType'
      BY <1>1, <2>1 DEF SocketInv, SocketType
    <2> QED
      BY <1>1, <2>1, <2>2, <2>3 DEF SocketInv, NoGaps
  <1> QED
    BY <1>2, <1>3, <1>4, <1>5

(* Only the two publishing steps of a task reach the sockets. *)
LEMMA TaskOnSockets ==
    ASSUME PathInv, NEW p \in Req, Work(p) \/ TaskFails(p) \/ WorkerDies(p)
    PROVE  \/ UNCHANGED socketVars
           \/ \E n \in queue : Emit(n.sender, Event("transfer_sent", n))
           \/ \E n \in queue : HasReceiver(n)
                               /\ Emit(Owner[n.receiver], Event("transfer_received", n))
  <1>1. CASE PublishSent(p)
    BY <1>1 DEF PublishSent
  <1>2. CASE PublishReceived(p)
    BY <1>2 DEF PublishReceived
  <1>3. CASE ~PublishSent(p) /\ ~PublishReceived(p)
    BY <1>3 DEF Work, Take, Close, TaskFails, WorkerDies
  <1> QED
    BY <1>1, <1>2, <1>3

(* Any step keeps what is known of the sockets. *)
LEMMA SocketInvStep == PathInv /\ SocketInv /\ [NewsNext]_allVars => SocketInv'
  <1> SUFFICES ASSUME PathInv, SocketInv, [NewsNext]_allVars PROVE SocketInv'
    OBVIOUS
  <1>0. ASSUME UNCHANGED socketVars PROVE SocketInv'
    BY <1>0 DEF socketVars, feedVars, SocketInv, SocketType, NoGaps, Listens
  <1>1. CASE (Next /\ UNCHANGED newsVars) \/ UNCHANGED allVars
    BY <1>0, <1>1 DEF newsVars, allVars, socketVars, feedVars
  <1>2. ASSUME NEW p \in Req, Work(p) \/ TaskFails(p) \/ WorkerDies(p) PROVE SocketInv'
    BY <1>0, <1>2, TaskOnSockets, NoticeIsEvent, EmitStep
  <1>3. ASSUME NEW c \in Conn, ForwardToNobody(c) \/ ForwarderFails(c) PROVE SocketInv'
    BY <1>3, ForwarderStopsStep DEF ForwardToNobody, ForwarderFails
  <1>4. ASSUME NEW c \in Conn, RejectToken(c) \/ SubscribeFails(c) \/ Finish(c) PROVE SocketInv'
    BY <1>4, ReturnStep DEF RejectToken, SubscribeFails, Finish, SocketInv
  <1> QED
    BY <1>1, <1>2, <1>3, <1>4, ForwardStep, PhaseStep DEF NewsNext, NewsStep, Serve

(* So it is known in every state. *)
LEMMA SocketInvariance == NewsSpec => []SocketInv
  <1>1. NewsInit => SocketInv
    <2> SUFFICES ASSUME NewsInit PROVE SocketInv
      OBVIOUS
    <2>1. SocketType
      BY DEF NewsInit, SocketType
    <2>2. <<>> = <<>> \o <<>>
      OBVIOUS
    <2> QED
      BY <2>1, <2>2 DEF NewsInit, SocketInv, NoGaps
  <1> QED
    BY <1>1, SocketInvStep, PathInvariance, PTL DEF NewsSpec

(* The types of worker and sockets, whose numbers of retries and of messages
   have no bound here. *)
THEOREM NewsTypeCorrect == NewsSpec => []NewsTypeOK
  <1>1. TaskInv /\ SocketInv => NewsTypeOK
    BY DEF TaskInv, WorkerType, WorkerInv, SocketInv, SocketType, NewsTypeOK
  <1> QED
    BY <1>1, TaskInvariance, SocketInvariance, PTL

(* A live subscription forwards all that is published on its channel, in
   order: nothing is dropped between Redis and the client. *)
THEOREM SubscriptionHasNoGaps == NewsSpec => []NoGaps
  BY SocketInvariance, PTL DEF SocketInv

----------------------------------------------------------------------------
(* The promise *)

(* Announce's variables, as Notifications reads them. *)
Parties == [p \in Req |-> MustHear(p)]
Told == [p \in Req |-> HasHeard(p)]
Over == [p \in Req |-> Outcome(p)]

(* Whom a task must tell, by its notice alone. *)
LEMMA Unfold ==
    ASSUME PathInv, NEW p \in Req
    PROVE  /\ ~Queued(p) => MustHear(p) = {}
           /\ Queued(p) => MustHear(p) = IF HasReceiver(Notice(p)) THEN {"sender", "receiver"}
                                         ELSE {"sender"}
  <1>1. \A n \in queue : n.task = p => n = Notice(p)
    BY QueuedNotice DEF PathInv
  <1> QED
    BY <1>1 DEF MustHear, Queued

(* Handing a task to the broker is HandOver; no other step of the money path
   is seen by the promise. *)
LEMMA EnqueueIsHandOver ==
    ASSUME PathInv, PathInv', TaskInv, [Next]_vars, UNCHANGED workerVars
    PROVE  [Promise!Next]_Promise!vars
  <1>1. Told' = Told /\ Over' = Over
    BY DEF Told, Over, HasHeard, Outcome, workerVars
  <1>2. ASSUME NEW p \in Req, Queued(p) PROVE Queued(p)' /\ MustHear(p)' = MustHear(p)
    <2>1. Queued(p)' /\ Notice(p)' = Notice(p)
      BY <1>2, NoticeKept DEF PathInv, QueueInv, Queued
    <2>2. HasReceiver(Notice(p)') <=> HasReceiver(Notice(p))
      BY <2>1
    <2>3. \A n \in queue' : n.task = p => n = Notice(p)'
      BY DEF PathInv, QueueInv
    <2>4. MustHear(p)' = IF HasReceiver(Notice(p)') THEN {"sender", "receiver"} ELSE {"sender"}
      BY <2>1, <2>3 DEF MustHear, Queued
    <2> QED
      BY <1>2, <2>1, <2>2, <2>4, Unfold
  <1>3. CASE queue' = queue
    <2>1. \A p \in Req : Queued(p)' <=> Queued(p)
      BY <1>3 DEF Queued
    <2>2. \A p \in Req : MustHear(p)' = MustHear(p)
      BY <1>2, <2>1 DEF MustHear
    <2>3. Parties' = Parties
      BY <2>2 DEF Parties
    <2> QED
      BY <1>1, <2>3 DEF Promise!vars, Parties, Told, Over
  <1>4. CASE \E p \in Req : /\ pc[p] = "notify" /\ pc'[p] = "done"
                            /\ queue' = queue \cup {Notice(p)}
    <2>1. PICK p \in Req : /\ pc[p] = "notify" /\ pc'[p] = "done"
                           /\ queue' = queue \cup {Notice(p)}
      BY <1>4
    <2>a. \A n \in queue : pc[n.task] = "done"
      BY DEF PathInv, QueueInv
    <2>b. Notice(p).task = p
      BY DEF Notice
    <2>2. ~Queued(p) /\ Queued(p)'
      BY <2>1, <2>a, <2>b DEF Queued
    <2>3. MustHear(p) = {} /\ MustHear(p)' \in {{"sender"}, {"sender", "receiver"}}
      BY <2>2, Unfold DEF MustHear
    <2>4. \A q \in Req \ {p} : Queued(q)' <=> Queued(q)
      BY <2>1 DEF Queued, Notice
    <2>5. \A q \in Req \ {p} : MustHear(q)' = MustHear(q)
      BY <1>2, <2>4 DEF MustHear
    <2>6. Parties' = [Parties EXCEPT ![p] = MustHear(p)'] /\ Parties[p] = {}
      BY <2>3, <2>5 DEF Parties
    <2>7. Promise!HandOver(p)
      BY <1>1, <2>3, <2>6 DEF Promise!HandOver, Parties, Told, Over
    <2> QED
      BY <2>7 DEF Promise!Next
  <1> QED
    BY <1>3, <1>4, PathStep DEF PathInv

(* What a task's step tells, and its end, is allowed by the promise. *)
LEMMA TaskKeepsPromise ==
    ASSUME PathInv, TaskInv, TaskInv', NEW p \in Req, Work(p) \/ TaskFails(p) \/ WorkerDies(p)
    PROVE  [Promise!Next]_Promise!vars
  <1>1. UNCHANGED <<queue, body>>
    BY DEF Work, Take, PublishSent, PublishReceived, Close, TaskFails, WorkerDies, vars
  <1>2. Parties' = Parties
    BY <1>1 DEF Parties, MustHear, Queued
  <1>3. /\ WorkerType /\ WorkerInv(p) /\ sent[p] \in Nat /\ received[p] \in Nat
        /\ WorkerInv(p)' /\ WorkerType'
    BY DEF TaskInv, WorkerType
  <1>4. Queued(p) => Parties[p] = IF HasReceiver(Notice(p)) THEN {"sender", "receiver"}
                                  ELSE {"sender"}
    BY Unfold DEF Parties
  <1>5. ASSUME UNCHANGED <<sent, received>>, task[p] \notin {"done", "failed", "lost"},
               NEW l \in {"publish_sent", "publish_received", "close", "waiting"},
               task' = [task EXCEPT ![p] = l]
        PROVE  UNCHANGED Promise!vars
    <2>1. \A q \in Req : task'[q] = task[q] \/ (q = p /\ task'[q] = l)
      BY <1>3, <1>5 DEF WorkerType
    <2>2. Over' = Over
      BY <1>5, <2>1 DEF Over, Outcome
    <2>3. Told' = Told
      BY <1>5 DEF Told, HasHeard
    <2> QED
      BY <1>2, <2>2, <2>3 DEF Promise!vars, Parties, Told, Over
  <1>6. ASSUME UNCHANGED <<sent, received>>, task[p] \in Executing,
               NEW o \in {"done", "dropped"}, o = "done" => Told[p] = Parties[p],
               NEW l \in {"done", "failed", "lost"}, o = "done" <=> l = "done",
               task' = [task EXCEPT ![p] = l]
        PROVE  Promise!Settle(p)
    <2>1. Over[p] = "no" /\ Over' = [Over EXCEPT ![p] = o]
      BY <1>3, <1>6 DEF Over, Outcome, WorkerType, Executing
    <2>2. Told' = Told
      BY <1>6 DEF Told, HasHeard
    <2>3. Parties[p] # {}
      BY <1>3, <1>4, <1>6 DEF WorkerInv, Executing
    <2> QED
      BY <1>2, <1>6, <2>1, <2>2, <2>3 DEF Promise!Settle, Parties, Told, Over
  <1>7. CASE Take(p)
    BY <1>5, <1>7 DEF Take, At
  <1>8. CASE PublishSent(p)
    <2>1. /\ task[p] = "publish_sent" /\ task' = [task EXCEPT ![p] = "publish_received"]
          /\ sent' = [sent EXCEPT ![p] = @ + 1] /\ UNCHANGED received
      BY <1>8 DEF PublishSent, At
    <2>2. Over[p] = "no" /\ Over' = Over
      BY <1>3, <2>1 DEF Over, Outcome, WorkerType
    <2>3. Told' = [Told EXCEPT ![p] = @ \cup {"sender"}]
      <3>1. HasHeard(p)' = HasHeard(p) \cup {"sender"}
        BY <1>3, <2>1 DEF HasHeard, WorkerType
      <3>2. \A q \in Req \ {p} : HasHeard(q)' = HasHeard(q)
        BY <1>3, <2>1 DEF HasHeard, WorkerType
      <3> QED
        BY <3>1, <3>2 DEF Told
    <2>4. "sender" \in Parties[p]
      BY <1>3, <1>4, <2>1 DEF WorkerInv
    <2>5. CASE "sender" \in Told[p]
      <3>1. Told' = Told
        BY <2>3, <2>5 DEF Told
      <3> QED
        BY <1>2, <2>2, <3>1 DEF Promise!vars, Parties, Told, Over
    <2>6. CASE "sender" \notin Told[p]
      <3>1. Promise!Tell(p, "sender")
        BY <1>2, <2>2, <2>3, <2>4, <2>6 DEF Promise!Tell, Parties, Told, Over
      <3> QED
        BY <3>1 DEF Promise!Next
    <2> QED
      BY <2>5, <2>6
  <1>9. CASE PublishReceived(p)
    <2>1. PICK n \in queue :
            /\ n.task = p
            /\ IF HasReceiver(n) THEN received' = [received EXCEPT ![p] = @ + 1]
               ELSE UNCHANGED received
      BY <1>9 DEF PublishReceived
    <2>2. n = Notice(p)
      BY <2>1, QueuedNotice DEF PathInv
    <2>3. /\ task[p] = "publish_received" /\ task' = [task EXCEPT ![p] = "close"]
          /\ UNCHANGED sent
      BY <1>9 DEF PublishReceived, At
    <2>4. CASE ~HasReceiver(Notice(p))
      BY <1>5, <2>1, <2>2, <2>3, <2>4
    <2>5. CASE HasReceiver(Notice(p))
      <3>1. received' = [received EXCEPT ![p] = @ + 1]
        BY <2>1, <2>2, <2>5
      <3>2. Over[p] = "no" /\ Over' = Over
        BY <1>3, <2>3 DEF Over, Outcome, WorkerType
      <3>3. Told' = [Told EXCEPT ![p] = @ \cup {"receiver"}]
        <4>1. HasHeard(p)' = HasHeard(p) \cup {"receiver"}
          BY <1>3, <2>3, <3>1 DEF HasHeard, WorkerType
        <4>2. \A q \in Req \ {p} : HasHeard(q)' = HasHeard(q)
          BY <1>3, <2>3, <3>1 DEF HasHeard, WorkerType
        <4> QED
          BY <4>1, <4>2 DEF Told
      <3>4. "receiver" \in Parties[p]
        BY <1>3, <1>4, <2>3, <2>5 DEF WorkerInv
      <3>5. "sender" \in Told[p]
        BY <1>3, <2>3 DEF Told, HasHeard, WorkerInv
      <3>6. CASE "receiver" \in Told[p]
        <4>1. Told' = Told
          BY <3>3, <3>6 DEF Told
        <4> QED
          BY <1>2, <3>2, <4>1 DEF Promise!vars, Parties, Told, Over
      <3>7. CASE "receiver" \notin Told[p]
        <4>1. Promise!Tell(p, "receiver")
          BY <1>2, <3>2, <3>3, <3>4, <3>5, <3>7 DEF Promise!Tell, Parties, Told, Over
        <4> QED
          BY <4>1 DEF Promise!Next
      <3> QED
        BY <3>6, <3>7
    <2> QED
      BY <2>4, <2>5
  <1>10. CASE Close(p)
    <2>1. /\ task[p] = "close" /\ task' = [task EXCEPT ![p] = "done"]
          /\ UNCHANGED <<sent, received>>
      BY <1>10 DEF Close, At
    <2>2. Told[p] = Parties[p]
      <3>1. sent[p] > 0 /\ (received[p] > 0 <=> HasReceiver(Notice(p))) /\ Queued(p)
        BY <1>3, <2>1 DEF WorkerInv
      <3>2. Told[p] = IF received[p] > 0 THEN {"sender", "receiver"} ELSE {"sender"}
        BY <3>1 DEF Told, HasHeard
      <3> QED
        BY <1>4, <3>1, <3>2
    <2>3. Promise!Settle(p)
      BY <1>6, <2>1, <2>2 DEF Executing
    <2> QED
      BY <2>3 DEF Promise!Next
  <1>11. CASE TaskFails(p)
    <2>1. /\ task[p] \in Executing /\ UNCHANGED <<sent, received>>
          /\ task' = [task EXCEPT ![p] = "waiting"] \/ task' = [task EXCEPT ![p] = "failed"]
      BY <1>11 DEF TaskFails, At
    <2>2. CASE task' = [task EXCEPT ![p] = "waiting"]
      BY <1>5, <2>1, <2>2 DEF Executing
    <2>3. CASE task' = [task EXCEPT ![p] = "failed"]
      <3>1. Promise!Settle(p)
        BY <1>6, <2>1, <2>3
      <3> QED
        BY <3>1 DEF Promise!Next
    <2> QED
      BY <2>1, <2>2, <2>3
  <1>12. CASE WorkerDies(p)
    <2>1. Promise!Settle(p)
      BY <1>6, <1>12 DEF WorkerDies, At
    <2> QED
      BY <2>1 DEF Promise!Next
  <1> QED
    BY <1>7, <1>8, <1>9, <1>10, <1>11, <1>12 DEF Work

(* The worker, its retries and its crashes implement Announce: the parties
   of a transfer are told, the sender first, or the task is dropped. *)
THEOREM TaskKeepsItsPromise == NewsSpec => PromiseKept
  <1>1. NewsInit => Promise!Init
    BY DEF NewsInit, Init, Promise!Init, MustHear, Queued, HasHeard, Outcome
  <1>2. ASSUME PathInv, PathInv', TaskInv, TaskInv', [NewsNext]_allVars
        PROVE  [Promise!Next]_Promise!vars
    <2>1. CASE (Next /\ UNCHANGED newsVars) \/ UNCHANGED allVars
      BY <1>2, <2>1, EnqueueIsHandOver DEF newsVars, allVars, workerVars
    <2>2. CASE \E p \in Req : Work(p) \/ TaskFails(p) \/ WorkerDies(p)
      BY <1>2, <2>2, TaskKeepsPromise
    <2>3. CASE NewsStep /\ ~ \E p \in Req : Work(p) \/ TaskFails(p) \/ WorkerDies(p)
      BY <1>2, <2>3, SocketStep, EnqueueIsHandOver
    <2> QED
      BY <1>2, <2>1, <2>2, <2>3 DEF NewsNext
  <1> QED
    BY <1>1, <1>2, TaskInvariance, PTL DEF NewsSpec, PromiseKept, Promise!Spec

----------------------------------------------------------------------------
(* What clients are told *)

(* Clients send a key with one body only, and none that is another with the
   "_in" suffix; nothing in the code sees to it. *)
KeysNotReused ==
    \A b, c \in TransferBody : b.key # InKey(c.key) /\ (b.key = c.key => b = c)

(* The two rows of the transfer that a queued task speaks of. *)
LEMMA RowsOfNotice ==
    ASSUME KeysNotReused, PathInv, NEW n \in queue
    PROVE  \E r, s \in ledger :
             /\ r.type = "transfer_out" /\ r.key = n.tx /\ r.amount = n.amount
             /\ r.counterparty = n.receiver
             /\ r.account \in Accounts /\ Owner[r.account] = n.sender
             /\ s.type = "transfer_in" /\ s.key = InKey(n.tx) /\ s.amount = n.amount
             /\ s.account = n.receiver
  <1> DEFINE b == body[n.task]
  <1>1. /\ b \in TransferBody /\ n = Notice(n.task)
        /\ KeyTaken(ledger, n.tx) /\ KeyTaken(ledger, InKey(n.tx))
    BY DEF PathInv, QueueInv
  <1>2. /\ n.tx = b.key /\ n.amount = b.amount /\ n.sender = b.user /\ n.receiver = b.to
    BY <1>1 DEF Notice
  <1>3. b.key \in Key
    BY <1>1, BodyAssumption
  <1>4. PICK r \in ledger : r.key = b.key
    BY <1>1, <1>2 DEF KeyTaken
  <1>5. PICK s \in ledger : s.key = InKey(b.key)
    BY <1>1, <1>2 DEF KeyTaken
  <1>6. r = OutRow(r.req, b) /\ Owner[b.from] = b.user
    <2>1. r.key # NoKey
      BY <1>3, <1>4, KeyFacts
    <2>2. /\ body[r.req] \in TransferBody /\ Owner[body[r.req].from] = body[r.req].user
          /\ r = OutRow(r.req, body[r.req]) \/ r = InRow(r.req, body[r.req])
      BY <2>1 DEF PathInv, LedgerInv
    <2>3. r.key = body[r.req].key \/ r.key = InKey(body[r.req].key)
      BY <2>2 DEF OutRow, InRow
    <2>4. body[r.req] = b
      BY <1>1, <1>4, <2>2, <2>3 DEF KeysNotReused
    <2>5. InRow(r.req, b).key = InKey(b.key)
      BY DEF InRow
    <2> QED
      BY <1>3, <1>4, <2>2, <2>4, <2>5, KeyFacts
  <1>7. s = InRow(s.req, b)
    <2>1. s.key # NoKey
      BY <1>3, <1>5, KeyFacts
    <2>2. /\ body[s.req] \in TransferBody
          /\ s = OutRow(s.req, body[s.req]) \/ s = InRow(s.req, body[s.req])
      BY <2>1 DEF PathInv, LedgerInv
    <2>3. s = OutRow(s.req, body[s.req]) => s.key = body[s.req].key
      BY DEF OutRow
    <2>4. s = InRow(s.req, body[s.req])
      BY <1>1, <1>5, <2>2, <2>3 DEF KeysNotReused
    <2>5. s.key = InKey(body[s.req].key)
      BY <2>4 DEF InRow
    <2>6. body[s.req].key \in Key
      BY <2>2, BodyAssumption
    <2>7. body[s.req].key = b.key
      BY <1>3, <1>5, <2>5, <2>6, KeyFacts
    <2>8. body[s.req] = b
      BY <1>1, <2>2, <2>7 DEF KeysNotReused
    <2> QED
      BY <2>4, <2>8
  <1>8. /\ r.type = "transfer_out" /\ r.key = b.key /\ r.amount = b.amount
        /\ r.counterparty = b.to /\ r.account = b.from
    BY <1>6 DEF OutRow
  <1>9. /\ s.type = "transfer_in" /\ s.key = InKey(b.key) /\ s.amount = b.amount
        /\ s.account = b.to
    BY <1>7 DEF InRow
  <1>10. r.account \in Accounts
    BY <1>4 DEF PathInv, Inv, TypeOK, TransactionRow
  <1> HIDE DEF b
  <1> QED
    BY <1>2, <1>4, <1>5, <1>6, <1>8, <1>9, <1>10

(* The same invariant without worker and sockets. *)
LEMMA PathInvarianceOfTransfers == Spec => []PathInv
  <1>1. Init => QueueInv /\ LedgerInv
    BY DEF Init, QueueInv, LedgerInv
  <1>2. Inv /\ Inv' /\ QueueInv /\ LedgerInv /\ [Next]_vars => QueueInv' /\ LedgerInv'
    BY QueueStep, LedgerStep
  <1> QED
    BY <1>1, <1>2, Invariance, PTL DEF Spec, PathInv

(* Every notification handed to the broker speaks of a committed transfer
   and says what it did, if clients do not reuse keys. *)
THEOREM NotifiedAfterCommit ==
    ASSUME KeysNotReused
    PROVE  Spec => []QueuedIsCommitted
  <1>1. PathInv => QueuedIsCommitted
    BY RowsOfNotice DEF QueuedIsCommitted
  <1> QED
    BY <1>1, PathInvarianceOfTransfers, PTL

(* There is a committed row behind the event, of an account of the user. *)
TrueNews(u, e) ==
    \E r \in ledger :
        /\ Owner[r.account] = u
        /\ r.amount = e.amount
        /\ \/ e.type = "transfer_sent" /\ r.type = "transfer_out" /\ r.key = e.tx
           \/ e.type = "transfer_received" /\ r.type = "transfer_in" /\ r.key = InKey(e.tx)

(* What a task publishes is true of the account it is published to. *)
LEMMA EmittedIsTrue ==
    ASSUME KeysNotReused, PathInv, NEW n \in queue
    PROVE  /\ TrueNews(n.sender, Event("transfer_sent", n))
           /\ HasReceiver(n) => TrueNews(Owner[n.receiver], Event("transfer_received", n))
  <1>1. PICK r, s \in ledger :
             /\ r.type = "transfer_out" /\ r.key = n.tx /\ r.amount = n.amount
             /\ r.account \in Accounts /\ Owner[r.account] = n.sender
             /\ s.type = "transfer_in" /\ s.key = InKey(n.tx) /\ s.amount = n.amount
             /\ s.account = n.receiver
    BY RowsOfNotice
  <1>2. \A k : /\ Event(k, n).type = k /\ Event(k, n).tx = n.tx
               /\ Event(k, n).amount = n.amount
    BY DEF Event
  <1> QED
    BY <1>1, <1>2 DEF TrueNews

(* The entries of what was published, after one more. *)
LEMMA EntriesOfAppend ==
    ASSUME NEW s \in Seq(NewsEvent), NEW e \in NewsEvent, NEW x \in Entries(Append(s, e))
    PROVE  x \in Entries(s) \/ x = e
  BY AppendProperties DEF Entries

(* Publishing a true event keeps all that was published true. *)
LEMMA EmitKeepsTrue ==
    ASSUME SocketInv, NewsIsTrue, UNCHANGED ledger,
           NEW u, NEW e \in NewsEvent, TrueNews(u, e), Emit(u, e)
    PROVE  NewsIsTrue'
  <1>1. /\ userOf' = userOf /\ published \in [Conn -> Seq(NewsEvent)]
        /\ published' = [c \in Conn |-> IF Listens(c) /\ userOf[c] = u
                                        THEN Append(published[c], e) ELSE published[c]]
    BY DEF Emit, SocketInv, SocketType
  <1>2. ASSUME NEW c \in Conn, NEW x \in Entries(published'[c]) PROVE TrueNews(userOf[c], x)
    <2>1. x \in Entries(published[c]) => TrueNews(userOf[c], x)
      BY DEF NewsIsTrue, TrueNews
    <2>2. CASE Listens(c) /\ userOf[c] = u
      <3>1. published'[c] = Append(published[c], e) /\ published[c] \in Seq(NewsEvent)
        BY <1>1, <2>2
      <3> QED
        BY <1>2, <2>1, <2>2, <3>1, EntriesOfAppend
    <2>3. CASE ~(Listens(c) /\ userOf[c] = u)
      <3>1. published'[c] = published[c]
        BY <1>1, <2>3
      <3> QED
        BY <1>2, <2>1, <3>1
    <2> QED
      BY <2>2, <2>3
  <1> QED
    BY <1>1, <1>2 DEF NewsIsTrue, TrueNews

(* A step that publishes nothing leaves true what was published: a socket
   changes its user only while nothing is kept for it. *)
LEMMA QuietKeepsTrue ==
    ASSUME NewsIsTrue, ledger \subseteq ledger',
           \A c \in Conn : \/ published'[c] = published[c] /\ userOf'[c] = userOf[c]
                           \/ published'[c] = <<>>
    PROVE  NewsIsTrue'
  <1>1. Entries(<<>>) = {}
    BY DEF Entries
  <1>2. ASSUME NEW c \in Conn, NEW e \in Entries(published'[c]) PROVE TrueNews(userOf[c], e)'
    <2>1. published'[c] = published[c] /\ userOf'[c] = userOf[c]
      BY <1>1, <1>2
    <2>2. TrueNews(userOf[c], e)
      BY <1>2, <2>1 DEF NewsIsTrue, TrueNews
    <2> QED
      BY <2>1, <2>2 DEF TrueNews
  <1> QED
    BY <1>2 DEF NewsIsTrue, TrueNews

(* No step of a socket publishes. *)
LEMMA SocketPublishesNothing ==
    ASSUME SocketInv, SocketInv', NewsStep, ~ \E p \in Req : Work(p) \/ TaskFails(p) \/ WorkerDies(p)
    PROVE  \A c \in Conn : \/ published'[c] = published[c] /\ userOf'[c] = userOf[c]
                           \/ published'[c] = <<>>
  <1> USE DEF SocketInv, SocketType
  <1>1. ASSUME NEW c \in Conn, ForwardToNobody(c) \/ ForwarderFails(c)
        PROVE  /\ userOf' = userOf /\ published'[c] = <<>>
               /\ \A d \in Conn \ {c} : published'[d] = published[d]
    BY <1>1 DEF ForwardToNobody, ForwarderFails, ForwarderStops
  <1>2. ASSUME NEW c \in Conn, RejectToken(c) \/ SubscribeFails(c) \/ Finish(c)
        PROVE  /\ published' = published /\ published[c] = <<>>
               /\ \A d \in Conn \ {c} : userOf'[d] = userOf[d]
    BY <1>2 DEF RejectToken, SubscribeFails, Finish, Return, feedVars, Listens
  <1>3. ASSUME NEW c \in Conn, NEW u \in Online, Connect(c, u)
        PROVE  /\ published' = published /\ published[c] = <<>>
               /\ \A d \in Conn \ {c} : userOf'[d] = userOf[d]
    BY <1>3 DEF Connect, feedVars, Listens
  <1>4. ASSUME NEW c \in Conn,
               Subscribe(c) \/ NoticeLeft(c) \/ BadMessage(c) \/ ClientLeaves(c) \/ Forward(c)
        PROVE  published' = published /\ userOf' = userOf
    BY <1>4 DEF Subscribe, NoticeLeft, BadMessage, ClientLeaves, Forward, ClientStops, feedVars
  <1> QED
    BY <1>1, <1>2, <1>3, <1>4 DEF NewsStep, Serve

(* Any step keeps what was published true. *)
LEMMA NewsIsTrueStep ==
    ASSUME KeysNotReused, PathInv, SocketInv, SocketInv', NewsIsTrue, [NewsNext]_allVars
    PROVE  NewsIsTrue'
  <1>1. CASE (Next /\ UNCHANGED newsVars) \/ UNCHANGED allVars
    <2>1. [Next]_vars /\ userOf' = userOf /\ published' = published
      BY <1>1 DEF newsVars, allVars
    <2>2. ledger \subseteq ledger'
      BY <2>1, LedgerGrows DEF PathInv
    <2> QED
      BY <2>1, <2>2, QuietKeepsTrue
  <1>2. ASSUME NEW p \in Req, Work(p) \/ TaskFails(p) \/ WorkerDies(p) PROVE NewsIsTrue'
    <2>1. UNCHANGED ledger
      BY <1>2 DEF Work, Take, PublishSent, PublishReceived, Close, TaskFails, WorkerDies, vars
    <2>2. CASE UNCHANGED socketVars
      BY <2>1, <2>2, QuietKeepsTrue DEF socketVars, feedVars
    <2>3. CASE ~ UNCHANGED socketVars
      BY <1>2, <2>1, <2>3, TaskOnSockets, NoticeIsEvent, EmittedIsTrue, EmitKeepsTrue
    <2> QED
      BY <2>2, <2>3
  <1>3. CASE NewsStep /\ ~ \E p \in Req : Work(p) \/ TaskFails(p) \/ WorkerDies(p)
    <2>1. ledger' = ledger
      BY <1>3, SocketStep DEF vars
    <2> QED
      BY <1>3, <2>1, SocketPublishesNothing, QuietKeepsTrue
  <1> QED
    BY <1>1, <1>2, <1>3 DEF NewsNext

(* A client is told only of transfers that are in the ledger, on an account
   of the user whose token it showed, and of their amount. *)
THEOREM ToldIsTrue ==
    ASSUME KeysNotReused
    PROVE  NewsSpec => []NewsIsTrue
  <1>1. NewsInit => NewsIsTrue
    BY DEF NewsInit, NewsIsTrue, Entries
  <1>2. PathInv /\ SocketInv /\ SocketInv' /\ NewsIsTrue /\ [NewsNext]_allVars => NewsIsTrue'
    BY NewsIsTrueStep
  <1> QED
    BY <1>1, <1>2, PathInvariance, SocketInvariance, PTL DEF NewsSpec
====
