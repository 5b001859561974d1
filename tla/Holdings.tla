---- MODULE Holdings ----
(***************************************************************************)
(* What a user holds besides money: accounts as they are opened, cards and *)
(* device tokens (services/account_service.py create_account,              *)
(* services/card_service.py, services/device_token_service.py).            *)
(*                                                                         *)
(* All of them read rows without a lock, decide, and write what the        *)
(* decision needs; an UPDATE has only the columns that differ from the     *)
(* row as it was read.  Steps, commits and locks are as in AuthTokens.     *)
(* Every route loads an active user first, which changes nothing here.     *)
(***************************************************************************)
EXTENDS Integers, Sequences

CONSTANTS
    Req,            \* requests; a request also names the row it inserts
    User,
    Number,         \* account numbers that may be drawn
    MaxDraws,       \* draws before opening an account gives up
    OldAccount,     \* accounts that exist at the start
    OldCard,        \* cards that exist at the start
    Device,         \* push tokens
    Platform,
    OpeningAccount, \* the accounts table at the start
    OpeningCard,    \* the cards table at the start
    OpeningDevice,  \* the device_tokens table at the start
    StatusChange,   \* the <<account, status>> pairs an operator may set
    NoRow,          \* a row that does not exist
    NoCall,         \* what a request that has not arrived carries
    Call            \* the requests clients may send

VARIABLES
    account, card, device,  \* committed rows
    audit,                  \* committed audit_logs, oldest first
    pc, call,
    seen,                   \* the row, or the number, the request goes by
    draws,                  \* numbers it has drawn
    held,                   \* the rows it has updated or inserted
    reply,
    since,                  \* history: the length of the audit log when it arrived
    wasActive               \* history: the accounts active at some time since then

tables == <<account, card, device>>
vars == <<tables, audit, pc, call, seen, draws, held, reply, since, wasActive>>

AccountId == OldAccount \cup Req
Card == OldCard \cup Req

AccountRow == [owner : User, number : Number, status : {"active", "frozen", "closed"}]
CardRow == [account : AccountId, status : {"active", "frozen", "cancelled"}]
DeviceRow == [owner : User, platform : Platform, active : BOOLEAN]

ASSUME HoldingsAssumption ==
    /\ Req \cap (OldAccount \cup OldCard) = {}
    /\ MaxDraws \in Nat \ {0}
    /\ OpeningAccount \in [OldAccount -> AccountRow]
    /\ OpeningCard \in [OldCard -> CardRow]
    /\ OpeningDevice \in [Device -> DeviceRow \cup {NoRow}]
    /\ NoRow \notin AccountRow \cup CardRow \cup DeviceRow
    /\ \A a, b \in OldAccount : OpeningAccount[a].number = OpeningAccount[b].number => a = b

(* The user is the one of the access token; the rest Pydantic sees to. *)
ASSUME CallAssumption ==
    \A c \in Call :
        /\ c.user \in User
        /\ c.op = "issue" => c.account \in AccountId
        /\ c.op = "freeze" => c.card \in Card /\ c.frozen \in BOOLEAN
        /\ c.op \in {"register", "remove"} => c.device \in Device
        /\ c.op = "register" => c.platform \in Platform

Init ==
    /\ account = [a \in AccountId |-> IF a \in OldAccount THEN OpeningAccount[a] ELSE NoRow]
    /\ card = [c \in Card |-> IF c \in OldCard THEN OpeningCard[c] ELSE NoRow]
    /\ device = OpeningDevice
    /\ audit = <<>>
    /\ pc = [p \in Req |-> "idle"]
    /\ call = [p \in Req |-> NoCall]
    /\ seen = [p \in Req |-> NoRow]
    /\ draws = [p \in Req |-> 0]
    /\ held = [p \in Req |-> {}]
    /\ reply = [p \in Req |-> "none"]
    /\ since = [p \in Req |-> 0]
    /\ wasActive = [p \in Req |-> {}]

----------------------------------------------------------------------------
(* Helpers *)

Goto(p, l) == pc' = [pc EXCEPT ![p] = l]

At(p, op, l) == pc[p] = l /\ call[p].op = op

Active == {a \in AccountId : account[a] # NoRow /\ account[a].status = "active"}

Read(p, row, l) ==
    /\ seen' = [seen EXCEPT ![p] = row]
    /\ Goto(p, l)
    /\ UNCHANGED <<tables, audit, call, draws, held, reply, since, wasActive>>

Refuse(p, code) ==
    /\ reply' = [reply EXCEPT ![p] = code]
    /\ held' = [held EXCEPT ![p] = {}]
    /\ Goto(p, "done")
    /\ UNCHANGED <<tables, audit, call, seen, draws, since, wasActive>>

Free(row) == \A q \in Req : row \notin held[q]

Hold(p, row) ==
    /\ Free(row)
    /\ held' = [held EXCEPT ![p] = {row}]
    /\ Goto(p, "commit")
    /\ UNCHANGED <<tables, audit, call, seen, draws, reply, since, wasActive>>

(* The audit entry and the COMMIT, which the router or the service issues. *)
Commit(p, action, row) ==
    /\ audit' = Append(audit, [action |-> action, user |-> call[p].user, row |-> row, req |-> p])
    /\ reply' = [reply EXCEPT ![p] = "ok"]
    /\ held' = [held EXCEPT ![p] = {}]
    /\ wasActive' = [q \in Req |-> wasActive[q] \cup Active']
    /\ Goto(p, "done")
    /\ UNCHANGED <<call, seen, draws, since>>

Arrive(p) ==
    /\ pc[p] = "idle"
    /\ \E c \in Call : call' = [call EXCEPT ![p] = c]
    /\ Goto(p, "read")
    /\ since' = [since EXCEPT ![p] = Len(audit)]
    /\ wasActive' = [wasActive EXCEPT ![p] = Active]
    /\ UNCHANGED <<tables, audit, seen, draws, held, reply>>

----------------------------------------------------------------------------
(* POST /accounts; AccountCreate admits supported currencies only. *)

Taken(n) == \E a \in AccountId : account[a] # NoRow /\ account[a].number = n

(* Mutant: draws until a number is free. *)
DrawOnAndOn(p) ==
    /\ At(p, "open", "read")
    /\ \E n \in Number :
         /\ draws' = [draws EXCEPT ![p] = @ + 1]
         /\ IF ~Taken(n)
            THEN Goto(p, "insert") /\ seen' = [seen EXCEPT ![p] = n]
            ELSE draws[p] <= MaxDraws /\ UNCHANGED <<pc, seen>>
         /\ UNCHANGED <<tables, audit, call, held, reply, since, wasActive>>

(* One turn of the loop: a random number, and whether an account has it. *)
Draw(p) ==
    /\ At(p, "open", "read")
    /\ \E n \in Number :
         /\ draws' = [draws EXCEPT ![p] = @ + 1]
         /\ \/ ~Taken(n) /\ Goto(p, "insert") /\ seen' = [seen EXCEPT ![p] = n]
               /\ UNCHANGED reply
            \/ Taken(n) /\ draws[p] + 1 < MaxDraws /\ UNCHANGED <<pc, seen, reply>>
            \/ Taken(n) /\ draws[p] + 1 = MaxDraws /\ UNCHANGED seen
               /\ Goto(p, "done") /\ reply' = [reply EXCEPT ![p] = "internal_error"]
         /\ UNCHANGED <<tables, audit, call, held, since, wasActive>>

(* Mutant: accounts.account_number is not unique. *)
InsertAccountAnyway(p) == At(p, "open", "insert") /\ Hold(p, <<"account", p>>)

(* The unique index has the last word on the number. *)
InsertAccount(p) ==
    /\ At(p, "open", "insert")
    /\ Free(<<"number", seen[p]>>)
    /\ IF Taken(seen[p]) THEN Refuse(p, "internal_error") ELSE Hold(p, <<"number", seen[p]>>)

CommitAccount(p) ==
    /\ At(p, "open", "commit")
    /\ account' = [account EXCEPT ![p] =
                     [owner |-> call[p].user, number |-> seen[p], status |-> "active"]]
    /\ UNCHANGED <<card, device>>
    /\ Commit(p, "ACCOUNT_CREATED", p)

----------------------------------------------------------------------------
(* POST /accounts/{id}/cards *)

(* Mutant: the status is not looked at. *)
IssueReadAnyStatus(p) ==
    LET row == account[call[p].account]
    IN  /\ At(p, "issue", "read")
        /\ IF row = NoRow THEN Refuse(p, "not_found")
           ELSE IF row.owner # call[p].user THEN Refuse(p, "unauthorized")
           ELSE Read(p, row, "commit")

IssueRead(p) ==
    LET row == account[call[p].account]
    IN  /\ At(p, "issue", "read")
        /\ IF row = NoRow THEN Refuse(p, "not_found")
           ELSE IF row.owner # call[p].user THEN Refuse(p, "unauthorized")
           ELSE IF row.status # "active" THEN Refuse(p, "frozen")
           ELSE Read(p, row, "commit")

(* The INSERT finds nothing to wait for; its foreign key does not mind a
   change of the account's status. *)
CommitIssue(p) ==
    /\ At(p, "issue", "commit")
    /\ card' = [card EXCEPT ![p] = [account |-> call[p].account, status |-> "active"]]
    /\ UNCHANGED <<account, device>>
    /\ Commit(p, "CARD_CREATED", p)

----------------------------------------------------------------------------
(* PATCH /cards/{id}/freeze *)

Wanted(p) == IF call[p].frozen THEN "frozen" ELSE "active"

(* Mutant: the card is kept from an earlier request. *)
FreezeReadCached(p) ==
    LET c == call[p].card
    IN  /\ At(p, "freeze", "read")
        /\ IF c \notin OldCard THEN Refuse(p, "not_found")
           ELSE IF account[OpeningCard[c].account].owner # call[p].user
           THEN Refuse(p, "unauthorized")
           ELSE Read(p, OpeningCard[c], "update")

(* The card, then its account, whose owner never changes. *)
FreezeRead(p) ==
    LET row == card[call[p].card]
    IN  /\ At(p, "freeze", "read")
        /\ IF row = NoRow THEN Refuse(p, "not_found")
           ELSE IF account[row.account].owner # call[p].user THEN Refuse(p, "unauthorized")
           ELSE Read(p, row, "update")

(* The status that was read already is no UPDATE, whatever it is by now. *)
FreezeWrite(p) ==
    /\ At(p, "freeze", "update")
    /\ IF seen[p].status = Wanted(p) THEN Read(p, seen[p], "commit")
       ELSE Hold(p, <<"card", call[p].card>>)

CommitFreeze(p) ==
    LET c == call[p].card
    IN  /\ At(p, "freeze", "commit")
        /\ card' = IF held[p] = {} THEN card
                   ELSE [card EXCEPT ![c] = [account |-> @.account, status |-> Wanted(p)]]
        /\ UNCHANGED <<account, device>>
        /\ Commit(p, IF call[p].frozen THEN "CARD_FROZEN" ELSE "CARD_UNFROZEN", c)

----------------------------------------------------------------------------
(* POST /users/me/device-tokens *)

RegisterRead(p) ==
    LET row == device[call[p].device]
    IN  /\ At(p, "register", "read")
        /\ Read(p, row, IF row = NoRow THEN "insert" ELSE "update")

RegisterInsert(p) ==
    LET d == call[p].device
    IN  /\ At(p, "register", "insert")
        /\ Free(<<"device", d>>)
        /\ IF device[d] # NoRow THEN Refuse(p, "internal_error") ELSE Hold(p, <<"device", d>>)

Registration(p) == [owner |-> call[p].user, platform |-> call[p].platform, active |-> TRUE]

RegisterWrite(p) ==
    /\ At(p, "register", "update")
    /\ IF seen[p] = Registration(p) THEN Read(p, seen[p], "commit")
       ELSE Hold(p, <<"device", call[p].device>>)

(* Mutant: a token that exists is handed over and not reactivated. *)
CommitRegisterAsIs(p) ==
    LET d == call[p].device
    IN  /\ At(p, "register", "commit")
        /\ device' = IF held[p] = {} THEN device
                     ELSE IF seen[p] = NoRow THEN [device EXCEPT ![d] = Registration(p)]
                     ELSE [device EXCEPT ![d] = [Registration(p) EXCEPT !.active = device[d].active]]
        /\ UNCHANGED <<account, card>>
        /\ Commit(p, "DEVICE_TOKEN_REGISTERED", d)

(* The columns that differ from the row as it was read are written, the
   others stay as they are by now. *)
Merged(read, row, new) ==
    LET Column(was, is, value) == IF value = was THEN is ELSE value
    IN  [owner |-> Column(read.owner, row.owner, new.owner),
         platform |-> Column(read.platform, row.platform, new.platform),
         active |-> Column(read.active, row.active, new.active)]

CommitRegister(p) ==
    LET d == call[p].device
    IN  /\ At(p, "register", "commit")
        /\ device' = IF held[p] = {} THEN device
                     ELSE IF seen[p] = NoRow THEN [device EXCEPT ![d] = Registration(p)]
                     ELSE [device EXCEPT ![d] = Merged(seen[p], @, Registration(p))]
        /\ UNCHANGED <<account, card>>
        /\ Commit(p, "DEVICE_TOKEN_REGISTERED", d)

----------------------------------------------------------------------------
(* DELETE /users/me/device-tokens/{id} *)

(* Mutant: anybody's token may be removed. *)
RemoveReadAnyones(p) ==
    LET row == device[call[p].device]
    IN  /\ At(p, "remove", "read")
        /\ IF row = NoRow THEN Refuse(p, "unauthorized") ELSE Read(p, row, "update")

RemoveRead(p) ==
    LET row == device[call[p].device]
    IN  /\ At(p, "remove", "read")
        /\ IF row = NoRow THEN Refuse(p, "unauthorized")
           ELSE IF row.owner # call[p].user THEN Refuse(p, "unauthorized")
           ELSE Read(p, row, "update")

RemoveWrite(p) ==
    /\ At(p, "remove", "update")
    /\ IF ~seen[p].active THEN Read(p, seen[p], "commit")
       ELSE Hold(p, <<"device", call[p].device>>)

CommitRemove(p) ==
    LET d == call[p].device
    IN  /\ At(p, "remove", "commit")
        /\ device' = IF held[p] = {} THEN device
                     ELSE [device EXCEPT ![d] =
                             [owner |-> @.owner, platform |-> @.platform, active |-> FALSE]]
        /\ UNCHANGED <<account, card>>
        /\ Commit(p, "DEVICE_TOKEN_REMOVED", d)

----------------------------------------------------------------------------
(* The environment and the next-state relation *)

(* An operator changes an account's status. *)
SetStatus(a, s) ==
    /\ <<a, s>> \in StatusChange
    /\ account[a] # NoRow /\ account[a].status # s
    /\ account' = [account EXCEPT ![a] = [owner |-> @.owner, number |-> @.number, status |-> s]]
    /\ wasActive' = [p \in Req |-> wasActive[p] \cup Active']
    /\ UNCHANGED <<card, device, audit, pc, call, seen, draws, held, reply, since>>

Crash(p) ==
    /\ pc[p] \in {"read", "insert", "update", "commit"}
    /\ held' = [held EXCEPT ![p] = {}]
    /\ Goto(p, "crashed")
    /\ UNCHANGED <<tables, audit, call, seen, draws, reply, since, wasActive>>

Handle(p) ==
    \/ Draw(p)
    \/ InsertAccount(p)
    \/ CommitAccount(p)
    \/ IssueRead(p)
    \/ CommitIssue(p)
    \/ FreezeRead(p)
    \/ FreezeWrite(p)
    \/ CommitFreeze(p)
    \/ RegisterRead(p)
    \/ RegisterInsert(p)
    \/ RegisterWrite(p)
    \/ CommitRegister(p)
    \/ RemoveRead(p)
    \/ RemoveWrite(p)
    \/ CommitRemove(p)

Next ==
    \/ \E p \in Req : Arrive(p) \/ Handle(p) \/ Crash(p)
    \/ \E a \in OldAccount, s \in {"active", "frozen", "closed"} : SetStatus(a, s)

Spec == Init /\ [][Next]_vars

----------------------------------------------------------------------------
(* Types *)

TypeOK ==
    /\ account \in [AccountId -> AccountRow \cup {NoRow}]
    /\ card \in [Card -> CardRow \cup {NoRow}]
    /\ device \in [Device -> DeviceRow \cup {NoRow}]
    /\ pc \in [Req -> {"idle", "read", "insert", "update", "commit", "done", "crashed"}]
    /\ draws \in [Req -> 0 .. MaxDraws]
    /\ \A p \in Req :
         /\ call[p] \in Call \cup {NoCall}
         /\ At(p, "freeze", "update") => seen[p] \in CardRow
         /\ At(p, "remove", "update") => seen[p] \in DeviceRow

----------------------------------------------------------------------------
(* Safety *)

(* No two accounts have one number, although openings that run at once may
   draw the same one and both find it free. *)
NumbersUnique ==
    \A a, b \in AccountId :
        /\ account[a] # NoRow /\ account[b] # NoRow
        /\ account[a].number = account[b].number
        => a = b

(* A card is only issued for an account that was active at some moment of
   the request.  (Not at its commit: nothing keeps the status still.) *)
IssuedWhileActive == \A p \in Req : card[p] # NoRow => card[p].account \in wasActive[p]

(* Entry j is no older than the request of entry i: i was under way, or had
   not begun, when j was committed. *)
NotBefore(j, i) == since[audit[i].req] < j

Did(i, action, row) == audit[i].action = action /\ audit[i].row = row

(* A card's status can differ from what an audited freeze or unfreeze set
   only because the opposite was done later or at the same time. *)
CardStatusExplained ==
    \A c \in Card, i \in DOMAIN audit :
        /\ Did(i, "CARD_FROZEN", c) /\ card[c].status # "frozen" =>
             \E j \in DOMAIN audit : Did(j, "CARD_UNFROZEN", c) /\ NotBefore(j, i)
        /\ Did(i, "CARD_UNFROZEN", c) /\ card[c].status # "active" =>
             \E j \in DOMAIN audit : Did(j, "CARD_FROZEN", c) /\ NotBefore(j, i)

(* Likewise a device: a registration it does not show, or a removal, is
   explained by another request on it, later or at the same time. *)
DeviceExplained ==
    \A d \in Device, i \in DOMAIN audit :
        /\ Did(i, "DEVICE_TOKEN_REGISTERED", d) /\ ~device[d].active =>
             \E j \in DOMAIN audit : Did(j, "DEVICE_TOKEN_REMOVED", d) /\ NotBefore(j, i)
        /\ Did(i, "DEVICE_TOKEN_REGISTERED", d) /\ device[d].owner # audit[i].user =>
             \E j \in DOMAIN audit : /\ Did(j, "DEVICE_TOKEN_REGISTERED", d)
                                     /\ audit[j].user = device[d].owner
                                     /\ NotBefore(j, i)
        /\ Did(i, "DEVICE_TOKEN_REMOVED", d) /\ device[d].active =>
             \E j \in DOMAIN audit : Did(j, "DEVICE_TOKEN_REGISTERED", d) /\ NotBefore(j, i)

(* Who removes a device had it: it was registered to them at the start or
   by an entry before their own.  (It may be another's when the removal
   commits.) *)
RemoversHadIt ==
    \A i \in DOMAIN audit : audit[i].action = "DEVICE_TOKEN_REMOVED" =>
        LET d == audit[i].row
        IN  \/ OpeningDevice[d] # NoRow /\ OpeningDevice[d].owner = audit[i].user
            \/ \E j \in 1 .. i - 1 :
                 Did(j, "DEVICE_TOKEN_REGISTERED", d) /\ audit[j].user = audit[i].user

----------------------------------------------------------------------------
(* What the documentation says and the code does not do. *)

(* services/device_token_service.py:28-29: a token that exists is reactivated
   and associated with the user.  The columns that looked right when the row
   was read are not written, and may be wrong by the commit. *)
RegistrationTakesEffect ==
    [][\A i \in DOMAIN audit' \ DOMAIN audit :
          audit'[i].action = "DEVICE_TOKEN_REGISTERED" =>
              /\ device'[audit'[i].row].owner = audit'[i].user
              /\ device'[audit'[i].row].active]_vars
====
