---- MODULE Notifications ----
(***************************************************************************)
(* From the committed transfer to the phone: the Celery worker takes the   *)
(* tasks that Transfers queues, publishes on one Redis channel per user,   *)
(* and the WebSocket endpoint forwards what is published while it is       *)
(* subscribed.  The steps of Transfers go on in between.                   *)
(***************************************************************************)
EXTENDS Transfers, Sequences, SequencesExt

CONSTANTS
    Conn,           \* WebSocket connections
    Online,         \* the users who connect
    NoUser,         \* the user of a connection that was not accepted
    MaxRetries      \* max_retries of the task

ASSUME NewsAssumption == MaxRetries \in Nat /\ Online \subseteq User

VARIABLES
    task,           \* the next step of the task each request has queued
    retries,        \* its request.retries
    sent,           \* how often it has published transfer_sent
    received,       \* and transfer_received
    ws,             \* the state of each connection
    userOf,         \* the subject of its token
    running,        \* which of its two coroutines gather still waits for
    left,           \* the connections whose client has gone
    published,      \* all on its channel since it subscribed
    inbox,          \* what Redis has sent it of that, not yet forwarded
    got             \* what was forwarded to the client

newsVars == <<task, retries, sent, received, ws, userOf, running, left, published,
             inbox, got>>
allVars == <<vars, newsVars>>

workerVars == <<task, retries, sent, received>>
feedVars == <<published, inbox, got>>
socketVars == <<ws, userOf, running, left, feedVars>>

Executing == {"publish_sent", "publish_received", "close"}
Ended == {"done", "failed", "lost"}
Both == {"forwarder", "client"}

NewsInit ==
    /\ Init
    /\ task = [p \in Req |-> "none"]
    /\ retries = [p \in Req |-> 0]
    /\ sent = [p \in Req |-> 0]
    /\ received = [p \in Req |-> 0]
    /\ ws = [c \in Conn |-> "absent"]
    /\ userOf = [c \in Conn |-> NoUser]
    /\ running = [c \in Conn |-> {}]
    /\ left = {}
    /\ published = [c \in Conn |-> <<>>]
    /\ inbox = [c \in Conn |-> <<>>]
    /\ got = [c \in Conn |-> <<>>]

----------------------------------------------------------------------------
(* The worker *)

At(p, l) == task' = [task EXCEPT ![p] = l]

Queued(p) == \E n \in queue : n.task = p

Listens(c) == "forwarder" \in running[c]

(* An event says which transfer, and how much; its other fields follow. *)
Event(kind, n) == [type |-> kind, tx |-> n.tx, amount |-> n.amount]

(* PUBLISH reaches whoever is subscribed now, in the order published. *)
Emit(u, e) ==
    LET To(c) == Listens(c) /\ userOf[c] = u
    IN  /\ published' = [c \in Conn |-> IF To(c) THEN Append(published[c], e) ELSE published[c]]
        /\ inbox' = [c \in Conn |-> IF To(c) THEN Append(inbox[c], e) ELSE inbox[c]]
        /\ UNCHANGED <<ws, userOf, running, left, got>>

(* Mutant: a retry is sent to a queue no worker consumes. *)
TakeOnce(p) ==
    /\ task[p] = "none" /\ Queued(p)
    /\ At(p, "publish_sent")
    /\ UNCHANGED <<vars, retries, sent, received, socketVars>>

(* A worker receives the message, or the retry whose countdown is over. *)
Take(p) ==
    /\ \/ task[p] = "none" /\ Queued(p)
       \/ task[p] = "waiting"
    /\ At(p, "publish_sent")
    /\ UNCHANGED <<vars, retries, sent, received, socketVars>>

PublishSent(p) ==
    /\ task[p] = "publish_sent"
    /\ \E n \in queue : n.task = p /\ Emit(n.sender, Event("transfer_sent", n))
    /\ sent' = [sent EXCEPT ![p] = @ + 1]
    /\ At(p, "publish_received")
    /\ UNCHANGED <<vars, retries, received>>

(* The receiver is the owner of the account, which nothing changes: there is
   no second event for a user who paid himself, or for an unknown account. *)
HasReceiver(n) == n.receiver \in Accounts /\ Owner[n.receiver] # n.sender

(* Mutant: what goes wrong with the second publish is swallowed. *)
PublishReceivedOrNot(p) ==
    /\ task[p] = "publish_received"
    /\ At(p, "close")
    /\ UNCHANGED <<vars, retries, sent, received, socketVars>>

PublishReceived(p) ==
    /\ task[p] = "publish_received"
    /\ \E n \in queue :
         /\ n.task = p
         /\ IF HasReceiver(n)
            THEN /\ Emit(Owner[n.receiver], Event("transfer_received", n))
                 /\ received' = [received EXCEPT ![p] = @ + 1]
            ELSE UNCHANGED <<received, socketVars>>
    /\ At(p, "close")
    /\ UNCHANGED <<vars, retries, sent>>

Close(p) ==
    /\ task[p] = "close"
    /\ At(p, "done")
    /\ UNCHANGED <<vars, retries, sent, received, socketVars>>

(* Mutant: the retry is another task, which counts from nought. *)
TaskSentAgain(p) ==
    /\ task[p] \in Executing
    /\ At(p, "waiting")
    /\ UNCHANGED <<vars, retries, sent, received, socketVars>>

(* Redis or PostgreSQL fails, possibly after a publish had its effect: the
   task is sent again from its start.  It fails for good after max_retries,
   or when the broker, which is the same Redis, takes no retry either. *)
TaskFails(p) ==
    /\ task[p] \in Executing
    /\ \/ /\ retries[p] < MaxRetries
          /\ retries' = [retries EXCEPT ![p] = @ + 1]
          /\ At(p, "waiting")
       \/ /\ retries[p] = MaxRetries \/ BrokerMayFail
          /\ At(p, "failed")
          /\ UNCHANGED retries
    /\ UNCHANGED <<vars, sent, received, socketVars>>

(* The message was acknowledged when it was received, so a task dies with
   its worker; the hard time limit kills the worker's process as well. *)
WorkerDies(p) ==
    /\ task[p] \in Executing
    /\ At(p, "lost")
    /\ UNCHANGED <<vars, retries, sent, received, socketVars>>

Work(p) ==
    Take(p) \/ PublishSent(p) \/ PublishReceived(p) \/ Close(p)

----------------------------------------------------------------------------
(* The WebSocket endpoint *)

(* Mutant: the two coroutines start before the subscription that may fail,
   outside the try whose finally stops them. *)
ConnectAndStart(c, u) ==
    /\ ws[c] = "absent"
    /\ ws' = [ws EXCEPT ![c] = "accepted"]
    /\ userOf' = [userOf EXCEPT ![c] = u]
    /\ running' = [running EXCEPT ![c] = Both]
    /\ UNCHANGED <<vars, workerVars, left, feedVars>>

(* The token decodes; the socket is accepted and told "connected". *)
Connect(c, u) ==
    /\ ws[c] = "absent"
    /\ ws' = [ws EXCEPT ![c] = "accepted"]
    /\ userOf' = [userOf EXCEPT ![c] = u]
    /\ UNCHANGED <<vars, workerVars, running, left, feedVars>>

(* The endpoint returns, and with it all the server knows of the socket. *)
Return(c) ==
    /\ ws' = [ws EXCEPT ![c] = "closed"]
    /\ userOf' = [userOf EXCEPT ![c] = NoUser]
    /\ left' = left \ {c}
    /\ UNCHANGED <<vars, workerVars, running, feedVars>>

RejectToken(c) == ws[c] = "absent" /\ Return(c)

Subscribe(c) ==
    /\ ws[c] = "accepted"
    /\ ws' = [ws EXCEPT ![c] = "open"]
    /\ running' = [running EXCEPT ![c] = Both]
    /\ UNCHANGED <<vars, workerVars, userOf, left, feedVars>>

(* Redis cannot be reached: the exception leaves the endpoint. *)
SubscribeFails(c) == ws[c] = "accepted" /\ Return(c)

ClientLeaves(c) ==
    /\ ws[c] \in {"accepted", "open"}
    /\ c \notin left
    /\ left' = left \cup {c}
    /\ UNCHANGED <<vars, workerVars, ws, userOf, running, feedVars>>

(* What is sent to a forwarder that has ended is read by nobody. *)
ClientStops(c) ==
    /\ running' = [running EXCEPT ![c] = @ \ {"client"}]
    /\ UNCHANGED <<vars, workerVars, ws, userOf, left, feedVars>>

ForwarderStops(c) ==
    /\ running' = [running EXCEPT ![c] = @ \ {"forwarder"}]
    /\ published' = [published EXCEPT ![c] = <<>>]
    /\ inbox' = [inbox EXCEPT ![c] = <<>>]
    /\ got' = [got EXCEPT ![c] = <<>>]
    /\ UNCHANGED <<vars, workerVars, ws, userOf, left>>

(* receive_json raises: the client has gone. *)
NoticeLeft(c) ==
    /\ "client" \in running[c]
    /\ c \in left
    /\ ClientStops(c)

(* receive_json raises on what is not JSON, .get() on what is no object:
   pings are answered no more, and the socket stays open. *)
BadMessage(c) ==
    /\ "client" \in running[c]
    /\ c \notin left
    /\ ClientStops(c)

(* Mutant: only the latest message is of interest. *)
ForwardLatest(c) ==
    /\ Listens(c)
    /\ inbox[c] # <<>>
    /\ c \notin left
    /\ got' = [got EXCEPT ![c] = Append(@, Last(inbox[c]))]
    /\ inbox' = [inbox EXCEPT ![c] = <<>>]
    /\ UNCHANGED <<vars, workerVars, ws, userOf, running, left, published>>

Forward(c) ==
    /\ Listens(c)
    /\ inbox[c] # <<>>
    /\ c \notin left
    /\ got' = [got EXCEPT ![c] = Append(@, Head(inbox[c]))]
    /\ inbox' = [inbox EXCEPT ![c] = Tail(@)]
    /\ UNCHANGED <<vars, workerVars, ws, userOf, running, left, published>>

(* Mutant: the exception is caught inside the loop. *)
ForwardAnyway(c) ==
    /\ Listens(c)
    /\ inbox[c] # <<>>
    /\ c \in left
    /\ published' = [published EXCEPT ![c] = Tail(@)]
    /\ inbox' = [inbox EXCEPT ![c] = Tail(@)]
    /\ UNCHANGED <<vars, workerVars, ws, userOf, running, left, got>>

(* send_text raises once the client has gone, which ends the forwarder. *)
ForwardToNobody(c) ==
    /\ Listens(c)
    /\ inbox[c] # <<>>
    /\ c \in left
    /\ ForwarderStops(c)

(* The connection to Redis breaks, which ends listen(). *)
ForwarderFails(c) ==
    /\ Listens(c)
    /\ ForwarderStops(c)

(* gather returns once both have ended; the subscription is given up. *)
Finish(c) == ws[c] = "open" /\ running[c] = {} /\ Return(c)

Serve(c) ==
    Subscribe(c) \/ NoticeLeft(c) \/ Forward(c) \/ ForwardToNobody(c) \/ Finish(c)

NewsStep ==
    \/ \E p \in Req : Work(p) \/ TaskFails(p) \/ WorkerDies(p)
    \/ \E c \in Conn : \/ Serve(c) \/ RejectToken(c) \/ SubscribeFails(c)
                       \/ ClientLeaves(c) \/ BadMessage(c) \/ ForwarderFails(c)
                       \/ \E u \in Online : Connect(c, u)

NewsNext ==
    \/ Next /\ UNCHANGED newsVars
    \/ NewsStep

NewsSpec == NewsInit /\ [][NewsNext]_allVars

(* Workers take and run what is queued, and the event loop serves the
   sockets.  Nothing need fail, and no request need arrive or be answered. *)
NewsFairSpec ==
    /\ NewsSpec
    /\ \A p \in Req : WF_allVars(Work(p))
    /\ \A c \in Conn : WF_allVars(Serve(c))

----------------------------------------------------------------------------
(* Types *)

NewsTypeOK ==
    /\ task \in [Req -> {"none", "waiting"} \cup Executing \cup Ended]
    /\ \A p \in Req : task[p] # "none" => Queued(p)
    /\ retries \in [Req -> 0 .. MaxRetries]
    /\ sent \in [Req -> Nat] /\ received \in [Req -> Nat]
    /\ ws \in [Conn -> {"absent", "accepted", "open", "closed"}]
    /\ userOf \in [Conn -> User \cup {NoUser}]
    /\ running \in [Conn -> SUBSET Both]
    /\ \A c \in Conn : running[c] # {} => ws[c] = "open" /\ userOf[c] \in User
    /\ left \subseteq Conn

----------------------------------------------------------------------------
(* Safety *)

Entries(s) == {s[i] : i \in DOMAIN s}

(* What a client is told has happened, to an account of the token's user:
   its row is committed before the task is queued, and outlives every retry. *)
NewsIsTrue ==
    \A c \in Conn : \A e \in Entries(published[c]) : \E r \in ledger :
        /\ Owner[r.account] = userOf[c]
        /\ r.amount = e.amount
        /\ \/ e.type = "transfer_sent" /\ r.type = "transfer_out" /\ r.key = e.tx
           \/ e.type = "transfer_received" /\ r.type = "transfer_in" /\ r.key = InKey(e.tx)

(* A subscription has no gaps and no disorder: what was forwarded and what
   still waits is what was published since it began. *)
NoGaps == \A c \in Conn : published[c] = got[c] \o inbox[c]

(* The retry repeats the whole task and so its events, but no more often
   than the task is executed; and the receiver never hears more of it, or
   earlier, than the sender. *)
RepeatsBounded ==
    \A p \in Req :
        /\ sent[p] <= retries[p] + 1
        /\ received[p] <= sent[p]

MustHear(p) ==
    IF ~Queued(p) THEN {}
    ELSE IF \E n \in queue : n.task = p /\ HasReceiver(n) THEN {"sender", "receiver"}
    ELSE {"sender"}

HasHeard(p) ==
    {x \in {"sender", "receiver"} : IF x = "sender" THEN sent[p] > 0 ELSE received[p] > 0}

Outcome(p) ==
    IF task[p] = "done" THEN "done"
    ELSE IF task[p] \in {"failed", "lost"} THEN "dropped"
    ELSE "no"

Promise == INSTANCE Announce WITH
    Task <- Req,
    parties <- [p \in Req |-> MustHear(p)],
    told <- [p \in Req |-> HasHeard(p)],
    over <- [p \in Req |-> Outcome(p)]

(* Repeated executions and dying workers included, a task does no more than
   tell its parties, the sender first, and is done only when both are told
   (notification_tasks.py:31-35). *)
PromiseKept == Promise!Spec

----------------------------------------------------------------------------
(* Liveness *)

(* A transfer answered 201 has a task, and the task comes to an end. *)
AnsweredIsAnnounced ==
    \A p \in Req :
        (reply[p] = "created" /\ body[p] \in TransferBody) ~> task[p] \in Ended

(* A socket whose client has gone is given up with the next message to its
   user, although gather waits for the forwarder. *)
NextMessageFrees ==
    \A c \in Conn : (c \in left /\ inbox[c] # <<>>) ~> ws[c] = "closed"
====
