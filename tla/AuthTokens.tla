---- MODULE AuthTokens ----
(***************************************************************************)
(* Registration, login, refresh-token rotation, logout, password reset and *)
(* profile updates, with the daily cleanup: services/auth_service.py.      *)
(*                                                                         *)
(* Nothing here takes FOR UPDATE.  A request reads a row, decides, and     *)
(* writes later; only the UPDATE or INSERT itself locks the row, until the *)
(* commit.  As in Transfers, one statement is one step and uncommitted     *)
(* work is the locks held and the program counter.                         *)
(***************************************************************************)
EXTENDS Integers, Sequences

CONSTANTS
    Req,            \* requests; a request also names the token it issues
    Email,          \* e-mail addresses, which also name their users
    Password,       \* passwords (a hash and what it is the hash of)
    Name,           \* values of the profile
    NoName,         \* a PATCH that gives no new value
    OldToken,       \* refresh tokens that clients may hold at the start
    OldTicket,      \* password reset tokens likewise
    OpeningUser,    \* the users table at the start
    OpeningToken,   \* the refresh_tokens table at the start
    OpeningTicket,  \* the password_reset_tokens table at the start
    NoRow,          \* a row that does not exist
    NoCall,         \* what a request that has not arrived carries
    Call            \* the requests clients may send

VARIABLES
    user,           \* committed users, by e-mail
    refreshToken,   \* committed refresh tokens
    ticket,         \* committed password reset tokens
    audit,          \* committed audit_logs, oldest first
    lapsed,         \* tokens and tickets whose expires_at has passed
    pc, call,
    seen,           \* the row the request read, as it was then
    held,           \* the rows it has updated or inserted and not committed
    reply,          \* its answer, which its client gets when pc is "done"
    since           \* history: the length of the audit log when it arrived

vars == <<user, refreshToken, ticket, audit, lapsed, pc, call, seen, held, reply, since>>
tables == <<user, refreshToken, ticket, audit>>

Token == OldToken \cup Req
Ticket == OldTicket \cup Req

UserRow == [password : Password, name : Name, status : {"active", "suspended"}]
TokenRow == [owner : Email, revoked : BOOLEAN]
TicketRow == [owner : Email, used : BOOLEAN]

ASSUME AuthAssumption ==
    /\ Req \cap (OldToken \cup OldTicket) = {}
    /\ OpeningUser \in [Email -> UserRow \cup {NoRow}]
    /\ OpeningToken \in [OldToken -> TokenRow]
    /\ OpeningTicket \in [OldTicket -> TicketRow]
    /\ NoRow \notin UserRow \cup TokenRow \cup TicketRow

(* Pydantic sees to the fields of a body; any string may be a token. *)
ASSUME CallAssumption ==
    \A c \in Call :
        /\ c.op \in {"register", "login", "forgot", "logout", "profile"} => c.email \in Email
        /\ c.op \in {"register", "login", "reset"} => c.password \in Password
        /\ c.op = "register" => c.name \in Name
        /\ c.op = "profile" => c.name \in Name \cup {NoName}
        /\ c.op \in {"refresh", "logout"} => c.token \in Token
        /\ c.op = "reset" => c.token \in Ticket

Init ==
    /\ user = OpeningUser
    /\ refreshToken = [t \in Token |-> IF t \in OldToken THEN OpeningToken[t] ELSE NoRow]
    /\ ticket = [t \in Ticket |-> IF t \in OldTicket THEN OpeningTicket[t] ELSE NoRow]
    /\ audit = <<>>
    /\ lapsed = {}
    /\ pc = [p \in Req |-> "idle"]
    /\ call = [p \in Req |-> NoCall]
    /\ seen = [p \in Req |-> NoRow]
    /\ held = [p \in Req |-> {}]
    /\ reply = [p \in Req |-> "none"]
    /\ since = [p \in Req |-> 0]

----------------------------------------------------------------------------
(* Helpers *)

Goto(p, l) == pc' = [pc EXCEPT ![p] = l]

At(p, op, l) == pc[p] = l /\ call[p].op = op

(* The request moves on and changes no table. *)
Read(p, row, l) ==
    /\ seen' = [seen EXCEPT ![p] = row]
    /\ Goto(p, l)
    /\ UNCHANGED <<tables, lapsed, call, held, reply, since>>

(* Answered without a commit: get_db ends the session. *)
Refuse(p, code) ==
    /\ reply' = [reply EXCEPT ![p] = code]
    /\ held' = [held EXCEPT ![p] = {}]
    /\ Goto(p, "reply")
    /\ UNCHANGED <<tables, lapsed, call, seen, since>>

(* Mutant: the transaction stays open after its commit. *)
CommitOpen(p, action, u, code) ==
    /\ audit' = Append(audit, [action |-> action, user |-> u, req |-> p])
    /\ reply' = [reply EXCEPT ![p] = code]
    /\ Goto(p, "reply")
    /\ UNCHANGED <<lapsed, call, seen, held, since>>

(* AuditLogRepository.log and the COMMIT: all the request wrote appears. *)
Commit(p, action, u, code) ==
    /\ audit' = Append(audit, [action |-> action, user |-> u, req |-> p])
    /\ reply' = [reply EXCEPT ![p] = code]
    /\ held' = [held EXCEPT ![p] = {}]
    /\ Goto(p, "reply")
    /\ UNCHANGED <<lapsed, call, seen, since>>

Free(row) == \A q \in Req : row \notin held[q]

(* An UPDATE or INSERT reaches its row and keeps it until the commit. *)
Write(p, row, l) ==
    /\ held' = [held EXCEPT ![p] = @ \cup {row}]
    /\ Goto(p, l)
    /\ UNCHANGED <<tables, lapsed, call, seen, reply, since>>

NewToken(p, u) == [refreshToken EXCEPT ![p] = [owner |-> u, revoked |-> FALSE]]

(* Clients present what they were given: an old token, or that of a request
   whose answer arrived, also where it is of the wrong kind. *)
Known(t) == t \in Req => pc[t] = "done" /\ reply[t] \in {"tokens", "accepted"}

Arrive(p) ==
    /\ pc[p] = "idle"
    /\ \E c \in Call :
         /\ c.op \in {"refresh", "logout", "reset"} => Known(c.token)
         /\ call' = [call EXCEPT ![p] = c]
         /\ Goto(p, IF c.op \in {"logout", "profile"} THEN "authenticate" ELSE "read")
    /\ since' = [since EXCEPT ![p] = Len(audit)]
    /\ UNCHANGED <<tables, lapsed, seen, held, reply>>

(* The dependencies of the routes that need an access token: the user is
   loaded into the request's session and must be active. *)
Authenticate(p) ==
    /\ pc[p] = "authenticate"
    /\ LET u == user[call[p].email]
       IN  IF u = NoRow THEN Refuse(p, "unauthorized")
           ELSE IF u.status # "active" THEN Refuse(p, "forbidden")
           ELSE Read(p, u, IF call[p].op = "logout" THEN "read" ELSE "update")

----------------------------------------------------------------------------
(* POST /auth/register *)

RegisterRead(p) ==
    /\ At(p, "register", "read")
    /\ IF user[call[p].email] # NoRow THEN Refuse(p, "unauthorized")
       ELSE Read(p, NoRow, "insert")

(* Mutant: e-mail addresses are not unique in the table. *)
RegisterInsertAnyway(p) ==
    /\ At(p, "register", "insert")
    /\ Write(p, <<"user", call[p].email>>, "commit")

(* The unique index waits for an uncommitted user with that address; one
   that is committed makes it an IntegrityError, which nothing translates. *)
RegisterInsert(p) ==
    LET e == call[p].email
    IN  /\ At(p, "register", "insert")
        /\ Free(<<"user", e>>)
        /\ IF user[e] # NoRow THEN Refuse(p, "internal_error")
           ELSE Write(p, <<"user", e>>, "commit")

RegisterCommit(p) ==
    LET c == call[p]
    IN  /\ At(p, "register", "commit")
        /\ user' = [user EXCEPT ![c.email] =
                      [password |-> c.password, name |-> c.name, status |-> "active"]]
        /\ refreshToken' = NewToken(p, c.email)
        /\ UNCHANGED ticket
        /\ Commit(p, "USER_REGISTERED", c.email, "tokens")

----------------------------------------------------------------------------
(* POST /auth/login *)

(* Mutant: the audit entry is committed on its own, before the token. *)
LoginReadAndLog(p) ==
    LET u == user[call[p].email]
    IN  /\ At(p, "login", "read")
        /\ seen' = [seen EXCEPT ![p] = u]
        /\ Goto(p, "commit")
        /\ audit' = IF u # NoRow /\ u.password = call[p].password
                    THEN Append(audit, [action |-> "LOGIN_SUCCESS", user |-> call[p].email, req |-> p])
                    ELSE audit
        /\ UNCHANGED <<user, refreshToken, ticket, lapsed, call, held, reply, since>>

LoginRead(p) ==
    LET u == user[call[p].email]
    IN  /\ At(p, "login", "read")
        /\ IF u # NoRow /\ u.password = call[p].password /\ u.status # "active"
           THEN Refuse(p, "unauthorized")
           ELSE Read(p, u, "commit")

(* Whether the password matched is decided on the row that was read. *)
LoginCommit(p) ==
    LET c == call[p]
    IN  /\ At(p, "login", "commit")
        /\ UNCHANGED <<user, ticket>>
        /\ IF seen[p] # NoRow /\ seen[p].password = c.password
           THEN /\ refreshToken' = NewToken(p, c.email)
                /\ Commit(p, "LOGIN_SUCCESS", c.email, "tokens")
           ELSE /\ UNCHANGED refreshToken
                /\ Commit(p, "LOGIN_FAILED", IF seen[p] = NoRow THEN NoRow ELSE c.email, "unauthorized")

----------------------------------------------------------------------------
(* POST /auth/refresh *)

(* Mutants: a token that is not found, or is revoked, is not refused. *)
RefreshReadMissing(p) ==
    LET t == call[p].token
        row == refreshToken[t]
    IN  /\ At(p, "refresh", "read")
        /\ IF (row # NoRow /\ row.revoked) \/ t \in lapsed THEN Refuse(p, "unauthorized")
           ELSE Read(p, row, "update")

RefreshReadRevoked(p) ==
    LET t == call[p].token
        row == refreshToken[t]
    IN  /\ At(p, "refresh", "read")
        /\ IF row = NoRow \/ t \in lapsed THEN Refuse(p, "unauthorized")
           ELSE Read(p, row, "update")

(* The token is read without a lock and checked as it was then. *)
RefreshRead(p) ==
    LET t == call[p].token
        row == refreshToken[t]
    IN  /\ At(p, "refresh", "read")
        /\ IF row = NoRow THEN Refuse(p, "unauthorized")
           ELSE IF row.revoked \/ t \in lapsed THEN Refuse(p, "unauthorized")
           ELSE Read(p, row, "update")

(* UPDATE ... SET revoked = true WHERE id = ..., of a refresh or a logout.
   It does not look at revoked again; a row the cleanup has deleted is a
   StaleDataError. *)
RevokeRow(p) ==
    LET t == call[p].token
    IN  /\ pc[p] = "update" /\ call[p].op \in {"refresh", "logout"}
        /\ Free(<<"refresh", t>>)
        /\ IF refreshToken[t] = NoRow THEN Refuse(p, "internal_error")
           ELSE Write(p, <<"refresh", t>>, "commit")

(* Mutant: the old token is left as it is. *)
RefreshCommitKeeps(p) ==
    /\ At(p, "refresh", "commit")
    /\ refreshToken' = NewToken(p, seen[p].owner)
    /\ UNCHANGED <<user, ticket>>
    /\ Commit(p, "TOKEN_REFRESHED", seen[p].owner, "tokens")

RefreshCommit(p) ==
    /\ At(p, "refresh", "commit")
    /\ refreshToken' = [NewToken(p, seen[p].owner) EXCEPT
                         ![call[p].token] = [owner |-> @.owner, revoked |-> TRUE]]
    /\ UNCHANGED <<user, ticket>>
    /\ Commit(p, "TOKEN_REFRESHED", seen[p].owner, "tokens")

----------------------------------------------------------------------------
(* POST /auth/logout: idempotent, and indifferent to whose token it is. *)

LogoutRead(p) ==
    LET row == refreshToken[call[p].token]
    IN  /\ At(p, "logout", "read")
        /\ IF row = NoRow THEN Read(p, row, "commit")
           ELSE Read(p, row, IF row.revoked THEN "commit" ELSE "update")

LogoutCommit(p) ==
    LET t == call[p].token
    IN  /\ At(p, "logout", "commit")
        /\ refreshToken' = IF <<"refresh", t>> \in held[p]
                           THEN [refreshToken EXCEPT ![t] = [owner |-> @.owner, revoked |-> TRUE]]
                           ELSE refreshToken
        /\ UNCHANGED <<user, ticket>>
        /\ Commit(p, "LOGOUT", call[p].email, "no_content")

----------------------------------------------------------------------------
(* POST /auth/forgot-password, /auth/reset-password *)

ForgotRead(p) ==
    LET u == user[call[p].email]
    IN  /\ At(p, "forgot", "read")
        /\ IF u = NoRow THEN Refuse(p, "accepted") ELSE Read(p, u, "commit")

ForgotCommit(p) ==
    LET e == call[p].email
    IN  /\ At(p, "forgot", "commit")
        /\ ticket' = [ticket EXCEPT ![p] = [owner |-> e, used |-> FALSE]]
        /\ UNCHANGED <<user, refreshToken>>
        /\ Commit(p, "PASSWORD_RESET_REQUESTED", e, "accepted")

ResetRead(p) ==
    LET t == call[p].token
        row == ticket[t]
    IN  /\ At(p, "reset", "read")
        /\ IF row = NoRow THEN Refuse(p, "unauthorized")
           ELSE IF row.used \/ t \in lapsed \/ user[row.owner] = NoRow
           THEN Refuse(p, "unauthorized")
           ELSE Read(p, row, "update")

ResetPassword(p) ==
    /\ At(p, "reset", "update")
    /\ Free(<<"user", seen[p].owner>>)
    /\ Write(p, <<"user", seen[p].owner>>, "mark")

ResetMark(p) ==
    /\ At(p, "reset", "mark")
    /\ Free(<<"reset", call[p].token>>)
    /\ Write(p, <<"reset", call[p].token>>, "commit")

(* Mutant: the ticket is marked and the reset logged, the hash is not set. *)
ResetCommitForgets(p) ==
    /\ At(p, "reset", "commit")
    /\ ticket' = [ticket EXCEPT ![call[p].token] = [owner |-> @.owner, used |-> TRUE]]
    /\ UNCHANGED <<user, refreshToken>>
    /\ Commit(p, "PASSWORD_RESET_COMPLETED", seen[p].owner, "no_content")

ResetCommit(p) ==
    /\ At(p, "reset", "commit")
    /\ user' = [user EXCEPT ![seen[p].owner] =
                 [password |-> call[p].password, name |-> @.name, status |-> @.status]]
    /\ ticket' = [ticket EXCEPT ![call[p].token] = [owner |-> @.owner, used |-> TRUE]]
    /\ UNCHANGED refreshToken
    /\ Commit(p, "PASSWORD_RESET_COMPLETED", seen[p].owner, "no_content")

----------------------------------------------------------------------------
(* PATCH /users/me *)

(* Only a value that differs from the one loaded is in the UPDATE. *)
ProfileWrite(p) ==
    LET c == call[p]
    IN  /\ At(p, "profile", "update")
        /\ IF c.name \in {NoName, seen[p].name} THEN Read(p, seen[p], "commit")
           ELSE /\ Free(<<"user", c.email>>)
                /\ Write(p, <<"user", c.email>>, "commit")

(* Mutant: the UPDATE writes every column of the loaded row. *)
ProfileCommitRow(p) ==
    LET c == call[p]
    IN  /\ At(p, "profile", "commit")
        /\ user' = IF <<"user", c.email>> \in held[p]
                   THEN [user EXCEPT ![c.email] = [seen[p] EXCEPT !.name = c.name]]
                   ELSE user
        /\ UNCHANGED <<refreshToken, ticket>>
        /\ Commit(p, "PROFILE_UPDATED", c.email, "ok")

ProfileCommit(p) ==
    LET c == call[p]
    IN  /\ At(p, "profile", "commit")
        /\ user' = IF <<"user", c.email>> \in held[p]
                   THEN [user EXCEPT ![c.email] = [password |-> @.password, name |-> c.name, status |-> @.status]]
                   ELSE user
        /\ UNCHANGED <<refreshToken, ticket>>
        /\ Commit(p, "PROFILE_UPDATED", c.email, "ok")

----------------------------------------------------------------------------
(* The answer, the environment and the next-state relation *)

Deliver(p) ==
    /\ pc[p] = "reply"
    /\ Goto(p, "done")
    /\ UNCHANGED <<tables, lapsed, call, seen, held, reply, since>>

InFlight == {"authenticate", "read", "insert", "update", "mark", "commit", "reply"}

(* The worker or its connection dies, perhaps after the commit. *)
Crash(p) ==
    /\ pc[p] \in InFlight
    /\ held' = [held EXCEPT ![p] = {}]
    /\ Goto(p, "crashed")
    /\ UNCHANGED <<tables, lapsed, call, seen, reply, since>>

(* expires_at of a token or ticket passes. *)
Lapse(t) ==
    /\ t \notin lapsed
    /\ (t \in Token /\ refreshToken[t] # NoRow) \/ (t \in Ticket /\ ticket[t] # NoRow)
    /\ lapsed' = lapsed \cup {t}
    /\ UNCHANGED <<tables, pc, call, seen, held, reply, since>>

(* The daily task: one DELETE, which waits for rows being updated.  The rows
   it deletes while it waits keep nobody else waiting for long: a request
   that holds a refresh token waits for no other row. *)
Cleanup ==
    LET expired == {t \in Token \cap lapsed : refreshToken[t] # NoRow}
    IN  /\ expired # {}
        /\ \A t \in expired : Free(<<"refresh", t>>)
        /\ refreshToken' = [t \in Token |-> IF t \in expired THEN NoRow ELSE refreshToken[t]]
        /\ UNCHANGED <<user, ticket, audit, lapsed, pc, call, seen, held, reply, since>>

(* An operator suspends or deactivates a user; no endpoint does. *)
Suspend(e) ==
    /\ user[e] # NoRow /\ Free(<<"user", e>>)
    /\ user[e].status = "active"
    /\ user' = [user EXCEPT ![e] = [password |-> @.password, name |-> @.name, status |-> "suspended"]]
    /\ UNCHANGED <<refreshToken, ticket, audit, lapsed, pc, call, seen, held, reply, since>>

Handle(p) ==
    \/ Authenticate(p)
    \/ RegisterRead(p)
    \/ RegisterInsert(p)
    \/ RegisterCommit(p)
    \/ LoginRead(p)
    \/ LoginCommit(p)
    \/ RefreshRead(p)
    \/ RevokeRow(p)
    \/ RefreshCommit(p)
    \/ LogoutRead(p)
    \/ LogoutCommit(p)
    \/ ForgotRead(p)
    \/ ForgotCommit(p)
    \/ ResetRead(p)
    \/ ResetPassword(p)
    \/ ResetMark(p)
    \/ ResetCommit(p)
    \/ ProfileWrite(p)
    \/ ProfileCommit(p)
    \/ Deliver(p)

Next ==
    \/ \E p \in Req : Arrive(p) \/ Handle(p) \/ Crash(p)
    \/ \E t \in Token \cup Ticket : Lapse(t)
    \/ Cleanup
    \/ \E e \in Email : Suspend(e)

Spec == Init /\ [][Next]_vars

(* As in Transfers: requests that are not blocked run; clients, clocks,
   operators and crashes are under no obligation. *)
FairSpec == Spec /\ \A p \in Req : WF_vars(Handle(p))

----------------------------------------------------------------------------
(* Types *)

TypeOK ==
    /\ user \in [Email -> UserRow \cup {NoRow}]
    /\ refreshToken \in [Token -> TokenRow \cup {NoRow}]
    /\ ticket \in [Ticket -> TicketRow \cup {NoRow}]
    /\ \A i \in DOMAIN audit : audit[i].req \in Req /\ audit[i].user \in Email \cup {NoRow}
    /\ lapsed \subseteq Token \cup Ticket
    /\ pc \in [Req -> InFlight \cup {"idle", "done", "crashed"}]
    /\ \A p \in Req :
         /\ call[p] \in Call \cup {NoCall}
         /\ At(p, "refresh", "update") => seen[p] \in TokenRow
         /\ At(p, "reset", "update") => seen[p] \in TicketRow
         /\ At(p, "profile", "update") => seen[p] \in UserRow

----------------------------------------------------------------------------
(* Safety *)

Issuing == {"USER_REGISTERED", "LOGIN_SUCCESS", "TOKEN_REFRESHED"}

(* Tokens and audit entries come in pairs, whoever crashes when: a token was
   issued by the entry that says so, and an entry that issued one left it in
   the table until it expired. *)
IssuedIsAudited ==
    \A p \in Req :
        LET entries == {i \in DOMAIN audit : audit[i].req = p /\ audit[i].action \in Issuing}
        IN  /\ refreshToken[p] # NoRow => \E i \in entries : audit[i].user = refreshToken[p].owner
            /\ entries # {} => refreshToken[p] # NoRow \/ p \in lapsed

Dead(t) == refreshToken[t] = NoRow \/ refreshToken[t].revoked

(* A token that was rotated or logged out is dead and stays so, although the
   requests that hold an older copy of its row write it again. *)
SpentTokensStayDead ==
    \A i \in DOMAIN audit :
        audit[i].action \in {"TOKEN_REFRESHED", "LOGOUT"} => Dead(call[audit[i].req].token)

(* A spent token can only be spent again by a refresh that was already under
   way when the first use of it committed (auth_service.py:189-190 without
   the races, tests/unit/test_auth_service.py). *)
ReuseOnlyIfOverlapping ==
    \A i, j \in DOMAIN audit :
        LET p == audit[i].req
            q == audit[j].req
        IN  /\ i < j
            /\ audit[i].action \in {"TOKEN_REFRESHED", "LOGOUT"}
            /\ audit[j].action = "TOKEN_REFRESHED"
            /\ call[p].token = call[q].token
            => since[q] < i

SetsPassword(i, e) ==
    /\ audit[i].user = e
    /\ audit[i].action \in {"USER_REGISTERED", "PASSWORD_RESET_COMPLETED"}

(* After the first n entries of the audit log, w is the password of e that
   was set last. *)
InForce(w, e, n) ==
    \/ /\ OpeningUser[e] # NoRow /\ w = OpeningUser[e].password
       /\ \A i \in 1..n : ~SetsPassword(i, e)
    \/ \E i \in 1..n :
         /\ SetsPassword(i, e)
         /\ w = call[audit[i].req].password
         /\ \A j \in (i + 1)..n : ~SetsPassword(j, e)

(* A user's password is the one set last, by registration or reset: a
   profile update that loaded the user before never brings the old one back
   and a reset that is in the audit log has taken effect. *)
PasswordIsLastSet ==
    \A e \in Email : user[e] # NoRow => InForce(user[e].password, e, Len(audit))

(* A login decides on the hash it read, which a reset may replace before the
   login commits; it still succeeds only with a password that was in force
   while it ran.  One replaced before the login arrived is refused. *)
ReplacedPasswordRefused ==
    \A j \in DOMAIN audit :
        LET p == audit[j].req
        IN  audit[j].action = "LOGIN_SUCCESS" =>
            \E n \in since[p]..(j - 1) : InForce(call[p].password, audit[j].user, n)

(* An address registers once, however many registrations pass the check. *)
OneRegistration ==
    \A i, j \in DOMAIN audit :
        /\ audit[i].action = "USER_REGISTERED" /\ audit[j].action = "USER_REGISTERED"
        /\ audit[i].user = audit[j].user
        => i = j

----------------------------------------------------------------------------
(* What the documentation says and the code does not do. *)

(* services/auth_service.py:189-190: each refresh token can only be used
   once.  Two refreshes that both read it before either commits both do. *)
RefreshTokenUsedOnce ==
    \A i, j \in DOMAIN audit :
        /\ audit[i].action = "TOKEN_REFRESHED" /\ audit[j].action = "TOKEN_REFRESHED"
        /\ call[audit[i].req].token = call[audit[j].req].token
        => i = j

(* models/password_reset_token.py:7: each reset token is consumed once. *)
ResetTicketUsedOnce ==
    \A i, j \in DOMAIN audit :
        /\ audit[i].action = "PASSWORD_RESET_COMPLETED"
        /\ audit[j].action = "PASSWORD_RESET_COMPLETED"
        /\ call[audit[i].req].token = call[audit[j].req].token
        => i = j

----------------------------------------------------------------------------
(* Liveness *)

(* Every request ends: no two requests wait for each other's rows, although
   a reset updates two of them. *)
EveryRequestEnds ==
    \A p \in Req : (pc[p] \in InFlight) ~> (pc[p] \in {"done", "crashed"})
====
