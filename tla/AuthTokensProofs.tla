---- MODULE AuthTokensProofs ----
(***************************************************************************)
(* Proofs about AuthTokens, for any number of requests, users and tokens.  *)
(* No row is locked between the read and the write of a request, so the    *)
(* argument is what a stale read still guarantees: rows of users and       *)
(* tickets do not vanish, and a token that is spent is never alive again.  *)
(***************************************************************************)
EXTENDS AuthTokens, TLAPS

Stage == InFlight \cup {"idle", "done", "crashed"}

Row == {"user", "refresh", "reset"} \X (Email \cup Token \cup Ticket)

Entry == [action : {"USER_REGISTERED", "LOGIN_SUCCESS", "LOGIN_FAILED", "TOKEN_REFRESHED",
                    "LOGOUT", "PASSWORD_RESET_REQUESTED", "PASSWORD_RESET_COMPLETED",
                    "PROFILE_UPDATED"},
          user : Email \cup {NoRow},
          req : Req]

Typed ==
    /\ user \in [Email -> UserRow \cup {NoRow}]
    /\ refreshToken \in [Token -> TokenRow \cup {NoRow}]
    /\ ticket \in [Ticket -> TicketRow \cup {NoRow}]
    /\ audit \in Seq(Entry)
    /\ lapsed \subseteq Token \cup Ticket
    /\ pc \in [Req -> Stage]
    /\ call \in [Req -> Call \cup {NoCall}]
    /\ seen \in [Req -> UserRow \cup TokenRow \cup TicketRow \cup {NoRow}]
    /\ held \in [Req -> SUBSET Row]
    /\ since \in [Req -> Nat]

(* A request was sent by a client, with a token that client had. *)
Sent(p) ==
    pc[p] # "idle" =>
        /\ call[p] \in Call
        /\ pc[p] = "authenticate" => call[p].op \in {"logout", "profile"}
        /\ call[p].op \in {"refresh", "logout", "reset"} /\ call[p].token \in Req
           => pc[call[p].token] = "done"
        /\ since[p] <= Len(audit)

(* What a request knows of the rows it is about to write: from its locks,
   and from reads that may be stale. *)
Knows(p) ==
    /\ pc[p] \notin {"mark", "commit"} => held[p] = {}
    /\ At(p, "register", "commit") =>
         <<"user", call[p].email>> \in held[p] /\ user[call[p].email] = NoRow
    /\ pc[p] \in {"update", "commit"} /\ call[p].op = "refresh" => seen[p] \in TokenRow
    /\ At(p, "refresh", "commit") =>
         <<"refresh", call[p].token>> \in held[p] /\ refreshToken[call[p].token] # NoRow
    /\ At(p, "logout", "commit") =>
         \/ <<"refresh", call[p].token>> \in held[p] /\ refreshToken[call[p].token] # NoRow
         \/ <<"refresh", call[p].token>> \notin held[p] /\ Dead(call[p].token)
    /\ pc[p] \in {"update", "mark", "commit"} /\ call[p].op = "reset" =>
         seen[p] \in TicketRow /\ user[seen[p].owner] # NoRow /\ ticket[call[p].token] # NoRow
    /\ pc[p] \in {"update", "commit"} /\ call[p].op = "profile" => user[call[p].email] # NoRow
    /\ At(p, "profile", "update") => seen[p] \in UserRow
    /\ At(p, "profile", "commit") /\ <<"user", call[p].email>> \in held[p] => call[p].name \in Name

(* No row is held by two requests. *)
Apart == \A p, q \in Req : p # q => held[p] \cap held[q] = {}

Inv ==
    /\ Typed
    /\ \A p \in Req : Sent(p) /\ Knows(p)
    /\ Apart

----------------------------------------------------------------------------
(* What a step leaves as it was. *)

DeadAfter(t) == refreshToken'[t] = NoRow \/ refreshToken'[t].revoked

(* No step takes a user or a ticket away, revives a token of a request that
   is done, or undoes an answer. *)
RowsStay ==
    /\ \A e \in Email : user[e] # NoRow => user'[e] # NoRow
    /\ \A t \in Ticket : ticket[t] # NoRow => ticket'[t] # NoRow
    /\ \A t \in Token : (t \in Req => pc[t] = "done") /\ Dead(t) => DeadAfter(t)
    /\ \A p \in Req : pc[p] = "done" => pc'[p] = "done"
    /\ Len(audit) <= Len(audit')

(* The step is another request's: this one and the rows it holds stay. *)
Stays(q) ==
    /\ pc'[q] = pc[q] /\ call'[q] = call[q] /\ seen'[q] = seen[q]
    /\ held'[q] = held[q] /\ since'[q] = since[q]
    /\ \A t \in Token : <<"refresh", t>> \in held[q] /\ refreshToken[t] # NoRow => refreshToken'[t] # NoRow
    /\ \A e \in Email : <<"user", e>> \in held[q] /\ user[e] = NoRow => user'[e] = NoRow

(* The fields of a request that has arrived. *)
LEMMA Fields ==
    ASSUME Typed, NEW p \in Req, Sent(p), pc[p] # "idle"
    PROVE  /\ call[p].op \in {"register", "login", "forgot", "logout", "profile"} => call[p].email \in Email
           /\ call[p].op = "register" => call[p].password \in Password /\ call[p].name \in Name
           /\ call[p].op = "reset" => call[p].password \in Password /\ call[p].token \in Ticket
           /\ call[p].op = "profile" => call[p].name \in Name \cup {NoName}
           /\ call[p].op \in {"refresh", "logout"} => call[p].token \in Token
  BY CallAssumption DEF Sent

(* A request that does not move keeps what it knows. *)
LEMMA Frame ==
    ASSUME Typed, NEW q \in Req, Sent(q), Knows(q), RowsStay, Stays(q)
    PROVE  Sent(q)' /\ Knows(q)'
  <1>1. Sent(q)'
    BY DEF Sent, Stays, RowsStay, Typed
  <1>2. CASE pc[q] = "idle"
    BY <1>1, <1>2 DEF Knows, Stays, At
  <1>3. CASE pc[q] # "idle"
    <2>1. /\ call[q].op = "register" => call[q].email \in Email
          /\ call[q].op = "profile" => call[q].email \in Email
          /\ call[q].op = "reset" => call[q].token \in Ticket
          /\ call[q].op \in {"refresh", "logout"} => call[q].token \in Token
      BY <1>3, Fields
    <2>2. call[q].op = "logout" /\ Dead(call[q].token) => DeadAfter(call[q].token)
      BY <1>3, <2>1 DEF Sent, RowsStay
    <2>3. \A t \in TicketRow : t.owner \in Email
      BY DEF TicketRow
    <2>4. /\ pc'[q] = pc[q] /\ call'[q] = call[q] /\ seen'[q] = seen[q] /\ held'[q] = held[q]
      BY DEF Stays
    <2> DEFINE K1 == pc[q] \notin {"mark", "commit"} => held[q] = {}
               K2 == At(q, "register", "commit") =>
                       <<"user", call[q].email>> \in held[q] /\ user[call[q].email] = NoRow
               K3 == pc[q] \in {"update", "commit"} /\ call[q].op = "refresh" => seen[q] \in TokenRow
               K4 == At(q, "refresh", "commit") =>
                       <<"refresh", call[q].token>> \in held[q] /\ refreshToken[call[q].token] # NoRow
               K5 == At(q, "logout", "commit") =>
                       \/ <<"refresh", call[q].token>> \in held[q] /\ refreshToken[call[q].token] # NoRow
                       \/ <<"refresh", call[q].token>> \notin held[q] /\ Dead(call[q].token)
               K6 == pc[q] \in {"update", "mark", "commit"} /\ call[q].op = "reset" =>
                       seen[q] \in TicketRow /\ user[seen[q].owner] # NoRow /\ ticket[call[q].token] # NoRow
               K7 == pc[q] \in {"update", "commit"} /\ call[q].op = "profile" => user[call[q].email] # NoRow
               K8 == At(q, "profile", "update") => seen[q] \in UserRow
               K9 == At(q, "profile", "commit") /\ <<"user", call[q].email>> \in held[q]
                       => call[q].name \in Name
    <2>5. K1 /\ K2 /\ K3 /\ K4 /\ K5 /\ K6 /\ K7 /\ K8 /\ K9
      BY DEF Knows
    <2>6. K1' /\ K3' /\ K8' /\ K9'
      BY <2>4, <2>5 DEF At
    <2>7. K2'
      BY <2>1, <2>4, <2>5 DEF At, Stays
    <2>8. K4'
      BY <2>1, <2>4, <2>5 DEF At, Stays
    <2>9. K5'
      BY <2>1, <2>2, <2>4, <2>5 DEF At, Stays, Dead, DeadAfter
    <2>10. K6'
      BY <2>1, <2>3, <2>4, <2>5 DEF RowsStay
    <2>11. K7'
      BY <2>1, <2>4, <2>5 DEF RowsStay
    <2> QED
      BY <1>1, <2>6, <2>7, <2>8, <2>9, <2>10, <2>11 DEF Knows
  <1> QED
    BY <1>1, <1>2, <1>3

(* What a step of p must show: the rest follows by Frame. *)
Good(p) ==
    /\ Typed'
    /\ RowsStay
    /\ \A q \in Req \ {p} : Stays(q)
    /\ Sent(p)' /\ Knows(p)'
    /\ \A q \in Req \ {p} : held'[p] \cap held[q] = {}

(* A good step of one request keeps the invariant for all. *)
LEMMA GoodIsEnough ==
    ASSUME Inv, NEW p \in Req, Good(p)
    PROVE  Inv'
  <1>1. \A q \in Req \ {p} : Sent(q)' /\ Knows(q)'
    BY Frame DEF Inv, Good
  <1>2. \A q \in Req \ {p} : held'[q] = held[q]
    BY DEF Good, Stays
  <1>3. Apart'
    BY <1>2 DEF Good, Inv, Apart
  <1> QED
    BY <1>1, <1>3 DEF Good, Inv

(* A request that goes on has still been sent. *)
LEMMA SentStays ==
    ASSUME NEW p \in Req, Typed, Sent(p), RowsStay, pc[p] # "idle",
           pc'[p] # "authenticate", call'[p] = call[p], since'[p] = since[p]
    PROVE  Sent(p)'
  BY DEF Sent, RowsStay, Typed

(* A step that leaves the tables alone leaves every row as it was. *)
LEMMA QuietStays ==
    ASSUME Inv, NEW p \in Req, UNCHANGED tables, pc[p] # "done",
           \A q \in Req \ {p} : /\ pc'[q] = pc[q] /\ call'[q] = call[q] /\ seen'[q] = seen[q]
                                /\ held'[q] = held[q] /\ since'[q] = since[q]
    PROVE  RowsStay /\ \A q \in Req \ {p} : Stays(q)
  BY DEF tables, RowsStay, Stays, Dead, DeadAfter, Inv, Typed

(* A request arrives with a token that its client was given. *)
LEMMA ArriveStep ==
    ASSUME Inv, NEW p \in Req, Arrive(p)
    PROVE  Good(p)
  <1> USE DEF Goto
  <1>1. Typed'
    BY DEF Arrive, Inv, Typed, tables, Stage, InFlight
  <1>2. RowsStay /\ \A q \in Req \ {p} : Stays(q)
    <2>1. pc[p] # "done" /\ UNCHANGED tables
      BY DEF Arrive
    <2>2. \A q \in Req \ {p} : /\ pc'[q] = pc[q] /\ call'[q] = call[q] /\ seen'[q] = seen[q]
                               /\ held'[q] = held[q] /\ since'[q] = since[q]
      BY DEF Arrive, Inv, Typed
    <2> QED
      BY <2>1, <2>2, QuietStays
  <1>3. PICK c \in Call : /\ c.op \in {"refresh", "logout", "reset"} => Known(c.token)
                          /\ call' = [call EXCEPT ![p] = c]
                          /\ pc' = [pc EXCEPT ![p] = IF c.op \in {"logout", "profile"}
                                                      THEN "authenticate" ELSE "read"]
    BY DEF Arrive
  <1>4. /\ call'[p] = c /\ pc'[p] = IF c.op \in {"logout", "profile"} THEN "authenticate" ELSE "read"
        /\ since'[p] = Len(audit) /\ audit' = audit /\ held'[p] = held[p]
        /\ Len(audit) \in Nat
    BY <1>3 DEF Arrive, Inv, Typed, tables
  <1>5. Sent(p)'
    <2>1. c.op \in {"refresh", "logout", "reset"} /\ c.token \in Req => pc[c.token] = "done"
      BY <1>3 DEF Known
    <2>2. c.op \in {"refresh", "logout", "reset"} /\ c.token \in Req => pc'[c.token] = "done"
      BY <1>2, <2>1 DEF RowsStay
    <2> QED
      BY <1>3, <1>4, <2>2 DEF Sent
  <1>6. held[p] = {}
    BY DEF Inv, Knows, Arrive
  <1>7. Knows(p)'
    BY <1>4, <1>6 DEF Knows, At
  <1> QED
    BY <1>1, <1>2, <1>4, <1>5, <1>6, <1>7 DEF Good

(* A crash, or the answer, ends a request and frees its rows. *)
LEMMA CrashStep ==
    ASSUME Inv, NEW p \in Req, Crash(p) \/ Deliver(p)
    PROVE  Good(p)
  <1> USE DEF Goto
  <1>1. Typed'
    BY DEF Crash, Deliver, Inv, Typed, tables, Stage, InFlight
  <1>2. RowsStay /\ \A q \in Req \ {p} : Stays(q)
    <2>1. pc[p] # "done" /\ UNCHANGED tables
      BY DEF Crash, Deliver, InFlight
    <2>2. \A q \in Req \ {p} : /\ pc'[q] = pc[q] /\ call'[q] = call[q] /\ seen'[q] = seen[q]
                               /\ held'[q] = held[q] /\ since'[q] = since[q]
      BY DEF Crash, Deliver, Inv, Typed
    <2> QED
      BY <2>1, <2>2, QuietStays
  <1>3. /\ pc[p] # "idle" /\ pc'[p] \in {"done", "crashed"}
        /\ call'[p] = call[p] /\ since'[p] = since[p] /\ held'[p] = {}
    BY DEF Crash, Deliver, Inv, Typed, InFlight, Knows
  <1>4. Sent(p)'
    BY <1>2, <1>3, SentStays DEF Inv
  <1>5. Knows(p)'
    BY <1>3 DEF Knows, At
  <1> QED
    BY <1>1, <1>2, <1>3, <1>4, <1>5 DEF Good

(* An early answer gives up what the request held. *)
LEMMA RefuseStep ==
    ASSUME Inv, NEW p \in Req, NEW code, Refuse(p, code), pc[p] \notin {"idle", "done"}
    PROVE  Good(p)
  <1> USE DEF Goto
  <1>1. Typed'
    BY DEF Refuse, Inv, Typed, tables, Stage, InFlight
  <1>2. RowsStay /\ \A q \in Req \ {p} : Stays(q)
    <2>1. UNCHANGED tables
      BY DEF Refuse
    <2>2. \A q \in Req \ {p} : /\ pc'[q] = pc[q] /\ call'[q] = call[q] /\ seen'[q] = seen[q]
                               /\ held'[q] = held[q] /\ since'[q] = since[q]
      BY DEF Refuse, Inv, Typed
    <2> QED
      BY <2>1, <2>2, QuietStays
  <1>3. /\ pc'[p] = "reply" /\ call'[p] = call[p] /\ since'[p] = since[p] /\ held'[p] = {}
    BY DEF Refuse, Inv, Typed
  <1>4. Sent(p)'
    BY <1>2, <1>3, SentStays DEF Inv
  <1>5. Knows(p)'
    BY <1>3 DEF Knows, At
  <1> QED
    BY <1>1, <1>2, <1>3, <1>4, <1>5 DEF Good

(* A read keeps a row as it is now, for the next step. *)
LEMMA ReadStep ==
    ASSUME Inv, NEW p \in Req, NEW row \in UserRow \cup TokenRow \cup TicketRow \cup {NoRow},
           NEW l \in Stage \ {"authenticate"}, Read(p, row, l), pc[p] \notin {"idle", "done", "mark", "commit"}
    PROVE  /\ Knows(p)' => Good(p)
           /\ pc'[p] = l /\ seen'[p] = row /\ call' = call /\ held'[p] = {} /\ UNCHANGED tables
  <1> USE DEF Goto
  <1>1. Typed'
    BY DEF Read, Inv, Typed, tables
  <1>2. RowsStay /\ \A q \in Req \ {p} : Stays(q)
    <2>1. UNCHANGED tables
      BY DEF Read
    <2>2. \A q \in Req \ {p} : /\ pc'[q] = pc[q] /\ call'[q] = call[q] /\ seen'[q] = seen[q]
                               /\ held'[q] = held[q] /\ since'[q] = since[q]
      BY DEF Read, Inv, Typed
    <2> QED
      BY <2>1, <2>2, QuietStays
  <1>3. /\ pc'[p] = l /\ call' = call /\ since'[p] = since[p] /\ seen'[p] = row
        /\ held'[p] = {} /\ UNCHANGED tables
    BY DEF Read, Inv, Typed, Knows
  <1>4. Sent(p)'
    BY <1>2, <1>3, SentStays DEF Inv
  <1> QED
    BY <1>1, <1>2, <1>3, <1>4 DEF Good

(* A row is written by one request at a time. *)
LEMMA WriteStep ==
    ASSUME Inv, NEW p \in Req, NEW row \in Row, NEW l \in {"mark", "commit"},
           Free(row), Write(p, row, l), pc[p] \notin {"idle", "done"}
    PROVE  /\ Knows(p)' => Good(p)
           /\ pc'[p] = l /\ seen'[p] = seen[p] /\ call' = call /\ held'[p] = held[p] \cup {row}
           /\ UNCHANGED tables
  <1> USE DEF Goto
  <1>1. Typed'
    BY DEF Write, Inv, Typed, tables, Stage, InFlight
  <1>2. RowsStay /\ \A q \in Req \ {p} : Stays(q)
    <2>1. UNCHANGED tables
      BY DEF Write
    <2>2. \A q \in Req \ {p} : /\ pc'[q] = pc[q] /\ call'[q] = call[q] /\ seen'[q] = seen[q]
                               /\ held'[q] = held[q] /\ since'[q] = since[q]
      BY DEF Write, Inv, Typed
    <2> QED
      BY <2>1, <2>2, QuietStays
  <1>3. /\ pc'[p] = l /\ call' = call /\ since'[p] = since[p] /\ seen'[p] = seen[p]
        /\ held'[p] = held[p] \cup {row} /\ UNCHANGED tables
    BY DEF Write, Inv, Typed
  <1>4. Sent(p)'
    BY <1>2, <1>3, SentStays DEF Inv
  <1>5. \A q \in Req \ {p} : held'[p] \cap held[q] = {}
    BY <1>3 DEF Free, Inv, Apart
  <1> QED
    BY <1>1, <1>2, <1>3, <1>4, <1>5 DEF Good

(* The dependencies of the routes let active users through. *)
LEMMA AuthenticateStep ==
    ASSUME Inv, NEW p \in Req, Authenticate(p)
    PROVE  Good(p)
  <1> DEFINE u == user[call[p].email]
             l == IF call[p].op = "logout" THEN "read" ELSE "update"
  <1>1. pc[p] = "authenticate" /\ Sent(p) /\ call[p].op \in {"logout", "profile"}
    BY DEF Authenticate, Inv, Sent
  <1>2. call[p].email \in Email
    BY <1>1, Fields DEF Inv
  <1>3. u \in UserRow \cup {NoRow}
    BY <1>2 DEF Inv, Typed
  <1>4. CASE u = NoRow \/ u.status # "active"
    BY <1>1, <1>4, RefuseStep DEF Authenticate
  <1>5. CASE u # NoRow /\ u.status = "active"
    <2>1. Read(p, u, l)
      BY <1>5 DEF Authenticate
    <2>2. /\ Knows(p)' => Good(p)
          /\ pc'[p] = l /\ seen'[p] = u /\ call' = call /\ held'[p] = {} /\ UNCHANGED tables
      BY <1>1, <1>3, <2>1, ReadStep DEF Stage, InFlight
    <2>3. Knows(p)'
      BY <1>1, <1>3, <1>5, <2>2 DEF Knows, At, tables
    <2> QED
      BY <2>2, <2>3
  <1> QED
    BY <1>3, <1>4, <1>5

(* POST /auth/register reads whether the address is taken. *)
LEMMA RegisterReadStep ==
    ASSUME Inv, NEW p \in Req, RegisterRead(p)
    PROVE  Good(p)
  <1>1. pc[p] = "read" /\ call[p].op = "register"
    BY DEF RegisterRead, At
  <1>2. CASE Read(p, NoRow, "insert")
    <2>1. /\ Knows(p)' => Good(p)
          /\ pc'[p] = "insert" /\ call' = call /\ held'[p] = {}
      BY <1>1, <1>2, ReadStep DEF Stage, InFlight
    <2>2. Knows(p)'
      BY <2>1 DEF Knows, At
    <2> QED
      BY <2>1, <2>2
  <1> QED
    BY <1>1, <1>2, RefuseStep DEF RegisterRead

(* POST /auth/login and /auth/forgot-password read the user. *)
LEMMA LoginReadStep ==
    ASSUME Inv, NEW p \in Req, LoginRead(p) \/ ForgotRead(p)
    PROVE  Good(p)
  <1> DEFINE u == user[call[p].email]
  <1>1. pc[p] = "read" /\ call[p].op \in {"login", "forgot"}
    BY DEF LoginRead, ForgotRead, At
  <1>2. u \in UserRow \cup {NoRow}
    BY <1>1, Fields DEF Inv, Typed
  <1>3. CASE Read(p, u, "commit")
    <2>1. /\ Knows(p)' => Good(p)
          /\ pc'[p] = "commit" /\ call' = call /\ held'[p] = {}
      BY <1>1, <1>2, <1>3, ReadStep DEF Stage, InFlight
    <2>2. Knows(p)'
      BY <1>1, <2>1 DEF Knows, At
    <2> QED
      BY <2>1, <2>2
  <1>4. Refuse(p, "unauthorized") \/ Refuse(p, "accepted") \/ Read(p, u, "commit")
    BY DEF LoginRead, ForgotRead
  <1> QED
    BY <1>1, <1>3, <1>4, RefuseStep

(* POST /auth/refresh reads a row that is there. *)
LEMMA RefreshReadStep ==
    ASSUME Inv, NEW p \in Req, RefreshRead(p)
    PROVE  Good(p)
  <1> DEFINE row == refreshToken[call[p].token]
  <1>1. pc[p] = "read" /\ call[p].op = "refresh"
    BY DEF RefreshRead, At
  <1>2. row \in TokenRow \cup {NoRow}
    BY <1>1, Fields DEF Inv, Typed
  <1>3. CASE Read(p, row, "update") /\ row # NoRow
    <2>1. /\ Knows(p)' => Good(p)
          /\ pc'[p] = "update" /\ call' = call /\ seen'[p] = row /\ held'[p] = {}
      BY <1>1, <1>2, <1>3, ReadStep DEF Stage, InFlight
    <2>2. Knows(p)'
      BY <1>1, <1>2, <1>3, <2>1 DEF Knows, At
    <2> QED
      BY <2>1, <2>2
  <1>4. Refuse(p, "unauthorized") \/ (Read(p, row, "update") /\ row # NoRow)
    BY DEF RefreshRead
  <1> QED
    BY <1>1, <1>3, <1>4, RefuseStep

(* POST /auth/logout goes straight to its commit for a dead token. *)
LEMMA LogoutReadStep ==
    ASSUME Inv, NEW p \in Req, LogoutRead(p)
    PROVE  Good(p)
  <1> DEFINE row == refreshToken[call[p].token]
  <1>1. pc[p] = "read" /\ call[p].op = "logout"
    BY DEF LogoutRead, At
  <1>2. row \in TokenRow \cup {NoRow}
    BY <1>1, Fields DEF Inv, Typed
  <1>3. PICK l \in {"commit", "update"} :
          Read(p, row, l) /\ (l = "commit" => row = NoRow \/ row.revoked)
    BY DEF LogoutRead
  <1>4. /\ Knows(p)' => Good(p)
        /\ pc'[p] = l /\ call' = call /\ seen'[p] = row /\ held'[p] = {} /\ UNCHANGED tables
    BY <1>1, <1>2, <1>3, ReadStep DEF Stage, InFlight
  <1>5. Knows(p)'
    BY <1>1, <1>3, <1>4 DEF Knows, At, Dead, tables
  <1> QED
    BY <1>4, <1>5

(* POST /auth/reset-password finds the ticket and its user. *)
LEMMA ResetReadStep ==
    ASSUME Inv, NEW p \in Req, ResetRead(p)
    PROVE  Good(p)
  <1> DEFINE row == ticket[call[p].token]
  <1>1. pc[p] = "read" /\ call[p].op = "reset"
    BY DEF ResetRead, At
  <1>2. row \in TicketRow \cup {NoRow}
    BY <1>1, Fields DEF Inv, Typed
  <1>3. CASE Read(p, row, "update") /\ row # NoRow /\ user[row.owner] # NoRow
    <2>1. /\ Knows(p)' => Good(p)
          /\ pc'[p] = "update" /\ call' = call /\ seen'[p] = row /\ held'[p] = {} /\ UNCHANGED tables
      BY <1>1, <1>2, <1>3, ReadStep DEF Stage, InFlight
    <2>2. Knows(p)'
      BY <1>1, <1>2, <1>3, <2>1 DEF Knows, At, tables
    <2> QED
      BY <2>1, <2>2
  <1>4. Refuse(p, "unauthorized") \/ (Read(p, row, "update") /\ row # NoRow /\ user[row.owner] # NoRow)
    BY DEF ResetRead
  <1> QED
    BY <1>1, <1>3, <1>4, RefuseStep

(* The INSERT of a user holds the index entry of its address. *)
LEMMA RegisterInsertStep ==
    ASSUME Inv, NEW p \in Req, RegisterInsert(p)
    PROVE  Good(p)
  <1> DEFINE e == call[p].email
  <1>1. pc[p] = "insert" /\ call[p].op = "register" /\ e \in Email
    BY Fields DEF RegisterInsert, At, Inv
  <1>2. CASE Write(p, <<"user", e>>, "commit") /\ user[e] = NoRow
    <2>1. Free(<<"user", e>>) /\ <<"user", e>> \in Row
      BY <1>1 DEF RegisterInsert, Row
    <2>2. /\ Knows(p)' => Good(p)
          /\ pc'[p] = "commit" /\ call' = call /\ held'[p] = held[p] \cup {<<"user", e>>} /\ UNCHANGED tables
      BY <1>1, <1>2, <2>1, WriteStep
    <2>3. Knows(p)'
      BY <1>1, <1>2, <2>2 DEF Knows, At, tables
    <2> QED
      BY <2>2, <2>3
  <1>3. Refuse(p, "internal_error") \/ (Write(p, <<"user", e>>, "commit") /\ user[e] = NoRow)
    BY DEF RegisterInsert
  <1> QED
    BY <1>1, <1>2, <1>3, RefuseStep

(* The UPDATE that revokes finds its row, and holds it. *)
LEMMA RevokeRowStep ==
    ASSUME Inv, NEW p \in Req, RevokeRow(p)
    PROVE  Good(p)
  <1> DEFINE t == call[p].token
  <1>1. pc[p] = "update" /\ call[p].op \in {"refresh", "logout"} /\ t \in Token
    BY Fields DEF RevokeRow, Inv
  <1>2. CASE Write(p, <<"refresh", t>>, "commit") /\ refreshToken[t] # NoRow
    <2>1. Free(<<"refresh", t>>) /\ <<"refresh", t>> \in Row
      BY <1>1 DEF RevokeRow, Row
    <2>2. /\ Knows(p)' => Good(p)
          /\ pc'[p] = "commit" /\ call' = call /\ seen'[p] = seen[p]
          /\ held'[p] = held[p] \cup {<<"refresh", t>>} /\ UNCHANGED tables
      BY <1>1, <1>2, <2>1, WriteStep
    <2>3. call[p].op = "refresh" => seen[p] \in TokenRow
      BY <1>1 DEF Inv, Knows
    <2>4. Knows(p)'
      BY <1>1, <1>2, <2>2, <2>3 DEF Knows, At, tables
    <2> QED
      BY <2>2, <2>4
  <1>3. Refuse(p, "internal_error") \/ (Write(p, <<"refresh", t>>, "commit") /\ refreshToken[t] # NoRow)
    BY DEF RevokeRow
  <1> QED
    BY <1>1, <1>2, <1>3, RefuseStep

(* The two UPDATEs of a reset. *)
LEMMA ResetWriteStep ==
    ASSUME Inv, NEW p \in Req, ResetPassword(p) \/ ResetMark(p)
    PROVE  Good(p)
  <1>1. pc[p] \in {"update", "mark"} /\ call[p].op = "reset" /\ call[p].token \in Ticket
    BY Fields DEF ResetPassword, ResetMark, At, Inv
  <1>2. seen[p] \in TicketRow /\ user[seen[p].owner] # NoRow /\ ticket[call[p].token] # NoRow
    BY <1>1 DEF Inv, Knows
  <1>3. seen[p].owner \in Email
    BY <1>2 DEF TicketRow
  <1>4. PICK row \in Row, l \in {"mark", "commit"} : Free(row) /\ Write(p, row, l)
    BY <1>1, <1>3 DEF ResetPassword, ResetMark, Row
  <1>5. /\ Knows(p)' => Good(p)
        /\ pc'[p] = l /\ call' = call /\ seen'[p] = seen[p] /\ UNCHANGED tables
    BY <1>1, <1>4, WriteStep
  <1>6. Knows(p)'
    BY <1>1, <1>2, <1>5 DEF Knows, At, tables
  <1> QED
    BY <1>5, <1>6

(* The UPDATE of a profile, if there is anything to write. *)
LEMMA ProfileWriteStep ==
    ASSUME Inv, NEW p \in Req, ProfileWrite(p)
    PROVE  Good(p)
  <1> DEFINE e == call[p].email
  <1>1. pc[p] = "update" /\ call[p].op = "profile" /\ e \in Email /\ call[p].name \in Name \cup {NoName}
    BY Fields DEF ProfileWrite, At, Inv
  <1>2. user[e] # NoRow /\ seen[p] \in UserRow
    BY <1>1 DEF Inv, Knows, At
  <1>3. CASE Read(p, seen[p], "commit")
    <2>1. /\ Knows(p)' => Good(p)
          /\ pc'[p] = "commit" /\ call' = call /\ held'[p] = {} /\ UNCHANGED tables
      BY <1>1, <1>2, <1>3, ReadStep DEF Stage, InFlight
    <2>2. Knows(p)'
      BY <1>1, <1>2, <2>1 DEF Knows, At, tables
    <2> QED
      BY <2>1, <2>2
  <1>4. CASE Free(<<"user", e>>) /\ Write(p, <<"user", e>>, "commit") /\ call[p].name # NoName
    <2>1. <<"user", e>> \in Row
      BY <1>1 DEF Row
    <2>2. /\ Knows(p)' => Good(p)
          /\ pc'[p] = "commit" /\ call' = call /\ UNCHANGED tables
      BY <1>1, <1>4, <2>1, WriteStep
    <2>3. Knows(p)'
      BY <1>1, <1>2, <1>4, <2>2 DEF Knows, At, tables
    <2> QED
      BY <2>2, <2>3
  <1> QED
    BY <1>3, <1>4 DEF ProfileWrite

(* The commit of a request: what it writes takes no row of another away. *)
LEMMA CommitIsGood ==
    ASSUME Inv, NEW p \in Req, pc[p] = "commit", NEW action, NEW u, NEW code,
           Commit(p, action, u, code),
           [action |-> action, user |-> u, req |-> p] \in Entry,
           user' \in [Email -> UserRow \cup {NoRow}],
           refreshToken' \in [Token -> TokenRow \cup {NoRow}],
           ticket' \in [Ticket -> TicketRow \cup {NoRow}],
           \A e \in Email : user[e] # NoRow => user'[e] # NoRow,
           \A t \in Ticket : ticket[t] # NoRow => ticket'[t] # NoRow,
           \A t \in Token : (t \in Req => pc[t] = "done") /\ Dead(t) => DeadAfter(t),
           \A t \in Token : refreshToken[t] # NoRow => refreshToken'[t] # NoRow,
           \A q \in Req \ {p}, e \in Email :
               <<"user", e>> \in held[q] /\ user[e] = NoRow => user'[e] = NoRow
    PROVE  Good(p)
  <1> USE DEF Goto
  <1>1. /\ audit \in Seq(Entry)
        /\ audit' = Append(audit, [action |-> action, user |-> u, req |-> p])
    BY DEF Commit, Inv, Typed
  <1>2. audit' \in Seq(Entry) /\ Len(audit') = Len(audit) + 1 /\ Len(audit) \in Nat
    BY <1>1
  <1>3. Typed'
    BY <1>2 DEF Commit, Inv, Typed, Stage, InFlight
  <1>4. /\ pc'[p] = "reply" /\ call' = call /\ since' = since /\ held'[p] = {}
        /\ \A q \in Req \ {p} : /\ pc'[q] = pc[q] /\ seen'[q] = seen[q] /\ held'[q] = held[q]
    BY DEF Commit, Inv, Typed
  <1>5. RowsStay
    BY <1>2, <1>4 DEF RowsStay
  <1>6. \A q \in Req \ {p} : Stays(q)
    BY <1>4 DEF Stays
  <1>7. Sent(p)'
    BY <1>4, <1>5, SentStays DEF Inv
  <1>8. Knows(p)'
    BY <1>4 DEF Knows, At
  <1> QED
    BY <1>3, <1>4, <1>5, <1>6, <1>7, <1>8 DEF Good

(* The token a request issues was in nobody's hands before. *)
LEMMA NewTokenStays ==
    ASSUME Inv, NEW p \in Req, pc[p] = "commit", NEW e \in Email, refreshToken' = NewToken(p, e)
    PROVE  /\ refreshToken' \in [Token -> TokenRow \cup {NoRow}]
           /\ \A t \in Token : (t \in Req => pc[t] = "done") /\ Dead(t) => DeadAfter(t)
           /\ \A t \in Token : refreshToken[t] # NoRow => refreshToken'[t] # NoRow
           /\ refreshToken'[p] = [owner |-> e, revoked |-> FALSE]
           /\ \A t \in Token \ {p} : refreshToken'[t] = refreshToken[t]
  <1>1. p \in Token /\ refreshToken \in [Token -> TokenRow \cup {NoRow}]
    BY DEF Token, Inv, Typed
  <1>2. [owner |-> e, revoked |-> FALSE] \in TokenRow
    BY DEF TokenRow
  <1>3. refreshToken'[p] = [owner |-> e, revoked |-> FALSE]
    BY <1>1 DEF NewToken
  <1>4. \A t \in Token \ {p} : refreshToken'[t] = refreshToken[t]
    BY <1>1 DEF NewToken
  <1>5. [owner |-> e, revoked |-> FALSE] # NoRow
    BY <1>2, AuthAssumption
  <1> QED
    BY <1>1, <1>2, <1>3, <1>4, <1>5 DEF NewToken, Dead, DeadAfter

(* A registration adds the user whose index entry it holds. *)
LEMMA RegisterCommitStep ==
    ASSUME Inv, NEW p \in Req, RegisterCommit(p)
    PROVE  Good(p)
  <1> DEFINE c == call[p]
             r == [password |-> c.password, name |-> c.name, status |-> "active"]
  <1>1. pc[p] = "commit" /\ c.op = "register" /\ Commit(p, "USER_REGISTERED", c.email, "tokens")
        /\ refreshToken' = NewToken(p, c.email) /\ ticket' = ticket
        /\ user' = [user EXCEPT ![c.email] = r]
    BY DEF RegisterCommit, At
  <1>2. c.email \in Email /\ c.password \in Password /\ c.name \in Name
    BY <1>1, Fields DEF Inv
  <1>3. r \in UserRow
    BY <1>2 DEF UserRow
  <1>4. r # NoRow
    BY <1>3, AuthAssumption
  <1>5. <<"user", c.email>> \in held[p]
    BY <1>1 DEF Inv, Knows, At
  <1>6. \A q \in Req \ {p} : <<"user", c.email>> \notin held[q]
    BY <1>5 DEF Inv, Apart
  <1>7. user \in [Email -> UserRow \cup {NoRow}] /\ ticket \in [Ticket -> TicketRow \cup {NoRow}]
    BY DEF Inv, Typed
  <1>8. user' \in [Email -> UserRow \cup {NoRow}]
    BY <1>1, <1>2, <1>3, <1>7
  <1>9. \A e \in Email : user'[e] = IF e = c.email THEN r ELSE user[e]
    BY <1>1, <1>2, <1>7
  <1>10. [action |-> "USER_REGISTERED", user |-> c.email, req |-> p] \in Entry
    BY <1>2 DEF Entry
  <1> HIDE DEF c, r
  <1> QED
    BY <1>1, <1>2, <1>4, <1>6, <1>7, <1>8, <1>9, <1>10, NewTokenStays, CommitIsGood

(* A login adds a token, or only an audit entry. *)
LEMMA LoginCommitStep ==
    ASSUME Inv, NEW p \in Req, LoginCommit(p)
    PROVE  Good(p)
  <1> DEFINE e == call[p].email
  <1>1. pc[p] = "commit" /\ call[p].op = "login" /\ user' = user /\ ticket' = ticket
    BY DEF LoginCommit, At
  <1>2. e \in Email
    BY <1>1, Fields DEF Inv
  <1>3. user \in [Email -> UserRow \cup {NoRow}] /\ ticket \in [Ticket -> TicketRow \cup {NoRow}]
        /\ refreshToken \in [Token -> TokenRow \cup {NoRow}]
    BY DEF Inv, Typed
  <1>4. CASE refreshToken' = NewToken(p, e) /\ Commit(p, "LOGIN_SUCCESS", e, "tokens")
    <2>1. [action |-> "LOGIN_SUCCESS", user |-> e, req |-> p] \in Entry
      BY <1>2 DEF Entry
    <2> QED
      BY <1>1, <1>2, <1>3, <1>4, <2>1, NewTokenStays, CommitIsGood
  <1>5. CASE /\ refreshToken' = refreshToken
             /\ \E u \in {NoRow, e} : Commit(p, "LOGIN_FAILED", u, "unauthorized")
    <2>1. PICK u \in {NoRow, e} : Commit(p, "LOGIN_FAILED", u, "unauthorized")
      BY <1>5
    <2>2. [action |-> "LOGIN_FAILED", user |-> u, req |-> p] \in Entry
      BY <1>2 DEF Entry
    <2>3. \A t \in Token : Dead(t) => DeadAfter(t)
      BY <1>5 DEF Dead, DeadAfter
    <2> QED
      BY <1>1, <1>3, <1>5, <2>1, <2>2, <2>3, CommitIsGood
  <1> QED
    BY <1>4, <1>5 DEF LoginCommit

(* A forgotten password adds a ticket. *)
LEMMA ForgotCommitStep ==
    ASSUME Inv, NEW p \in Req, ForgotCommit(p)
    PROVE  Good(p)
  <1> DEFINE e == call[p].email
             r == [owner |-> e, used |-> FALSE]
  <1>1. pc[p] = "commit" /\ call[p].op = "forgot" /\ user' = user /\ refreshToken' = refreshToken
        /\ ticket' = [ticket EXCEPT ![p] = r] /\ Commit(p, "PASSWORD_RESET_REQUESTED", e, "accepted")
    BY DEF ForgotCommit, At
  <1>2. e \in Email
    BY <1>1, Fields DEF Inv
  <1>3. user \in [Email -> UserRow \cup {NoRow}] /\ ticket \in [Ticket -> TicketRow \cup {NoRow}]
        /\ refreshToken \in [Token -> TokenRow \cup {NoRow}]
    BY DEF Inv, Typed
  <1>4. r \in TicketRow
    BY <1>2 DEF TicketRow
  <1>5. r # NoRow
    BY <1>4, AuthAssumption
  <1>6. ticket' \in [Ticket -> TicketRow \cup {NoRow}]
    BY <1>1, <1>3, <1>4
  <1>7. \A t \in Ticket : ticket[t] # NoRow => ticket'[t] # NoRow
    BY <1>1, <1>3, <1>5
  <1>8. \A t \in Token : Dead(t) => DeadAfter(t)
    BY <1>1 DEF Dead, DeadAfter
  <1>9. [action |-> "PASSWORD_RESET_REQUESTED", user |-> e, req |-> p] \in Entry
    BY <1>2 DEF Entry
  <1> HIDE DEF e, r
  <1> QED
    BY <1>1, <1>3, <1>6, <1>7, <1>8, <1>9, CommitIsGood

(* A revoked row is a row, with the owner it had. *)
LEMMA RevokedRow ==
    ASSUME NEW row \in TokenRow \cup {NoRow}, row # NoRow
    PROVE  /\ [owner |-> row.owner, revoked |-> TRUE] \in TokenRow
           /\ [owner |-> row.owner, revoked |-> TRUE] # NoRow
  <1>1. [owner |-> row.owner, revoked |-> TRUE] \in TokenRow
    BY DEF TokenRow
  <1> QED
    BY <1>1, AuthAssumption

(* A refresh kills the token it was given and issues another. *)
LEMMA RefreshTokens ==
    ASSUME Inv, NEW p \in Req, RefreshCommit(p)
    PROVE  /\ pc[p] = "commit" /\ call[p].op = "refresh" /\ call[p].token \in Token \ {p}
           /\ seen[p].owner \in Email
           /\ refreshToken' \in [Token -> TokenRow \cup {NoRow}]
           /\ refreshToken'[p] = [owner |-> seen[p].owner, revoked |-> FALSE]
           /\ refreshToken'[call[p].token] # NoRow /\ refreshToken'[call[p].token].revoked
           /\ refreshToken'[call[p].token].owner = refreshToken[call[p].token].owner
           /\ \A t \in Token \ {p, call[p].token} : refreshToken'[t] = refreshToken[t]
  <1> DEFINE t == call[p].token
             u == seen[p].owner
             f == NewToken(p, u)
  <1>1. pc[p] = "commit" /\ call[p].op = "refresh"
        /\ refreshToken' = [f EXCEPT ![t] = [owner |-> @.owner, revoked |-> TRUE]]
    BY DEF RefreshCommit, At
  <1>2. t \in Token
    BY <1>1, Fields DEF Inv
  <1>3. t # p
    BY <1>1 DEF Inv, Sent
  <1>4. seen[p] \in TokenRow /\ refreshToken[t] # NoRow
    BY <1>1 DEF Inv, Knows, At
  <1>5. u \in Email
    BY <1>4 DEF TokenRow
  <1>6. refreshToken \in [Token -> TokenRow \cup {NoRow}] /\ p \in Token
    BY DEF Inv, Typed, Token
  <1>7. [owner |-> u, revoked |-> FALSE] \in TokenRow
    BY <1>5 DEF TokenRow
  <1>8. /\ f \in [Token -> TokenRow \cup {NoRow}] /\ f[p] = [owner |-> u, revoked |-> FALSE]
        /\ \A x \in Token \ {p} : f[x] = refreshToken[x]
    BY <1>6, <1>7 DEF NewToken
  <1>9. f[t] # NoRow /\ f[t] = refreshToken[t]
    BY <1>2, <1>3, <1>4, <1>8
  <1> HIDE DEF f, t, u
  <1>10. /\ refreshToken' \in [Token -> TokenRow \cup {NoRow}]
         /\ refreshToken'[t] # NoRow /\ refreshToken'[t].revoked /\ refreshToken'[t].owner = f[t].owner
         /\ \A x \in Token \ {t} : refreshToken'[x] = f[x]
    <2> DEFINE dead == [owner |-> f[t].owner, revoked |-> TRUE]
    <2>1. dead \in TokenRow /\ dead # NoRow
      BY <1>2, <1>8, <1>9, RevokedRow
    <2>2. refreshToken' = [f EXCEPT ![t] = dead]
      BY <1>1
    <2>3. dead.revoked /\ dead.owner = f[t].owner
      OBVIOUS
    <2> HIDE DEF dead
    <2> QED
      BY <1>2, <1>8, <2>1, <2>2, <2>3
  <1>11. refreshToken'[p] = [owner |-> u, revoked |-> FALSE]
    BY <1>3, <1>6, <1>8, <1>10
  <1>12. \A x \in Token \ {p, t} : refreshToken'[x] = refreshToken[x]
    BY <1>8, <1>10
  <1> QED
    BY <1>1, <1>2, <1>3, <1>5, <1>9, <1>10, <1>11, <1>12 DEF t, u

(* A rotation, as RefreshTokens describes it. *)
LEMMA RefreshCommitStep ==
    ASSUME Inv, NEW p \in Req, RefreshCommit(p)
    PROVE  Good(p)
  <1> DEFINE t == call[p].token
             u == seen[p].owner
  <1>1. /\ pc[p] = "commit" /\ t \in Token \ {p} /\ u \in Email
        /\ refreshToken' \in [Token -> TokenRow \cup {NoRow}]
        /\ refreshToken'[p] = [owner |-> u, revoked |-> FALSE]
        /\ refreshToken'[t] # NoRow /\ refreshToken'[t].revoked
        /\ \A x \in Token \ {p, t} : refreshToken'[x] = refreshToken[x]
    BY RefreshTokens
  <1>2. user' = user /\ ticket' = ticket /\ Commit(p, "TOKEN_REFRESHED", u, "tokens")
    BY DEF RefreshCommit
  <1>3. user \in [Email -> UserRow \cup {NoRow}] /\ ticket \in [Ticket -> TicketRow \cup {NoRow}]
    BY DEF Inv, Typed
  <1>4. \A x \in Token : (x \in Req => pc[x] = "done") /\ Dead(x) => DeadAfter(x)
    BY <1>1 DEF Dead, DeadAfter
  <1>5. [owner |-> u, revoked |-> FALSE] \in TokenRow
    BY <1>1 DEF TokenRow
  <1>6. [owner |-> u, revoked |-> FALSE] # NoRow
    BY <1>5, AuthAssumption
  <1>7. \A x \in Token : refreshToken[x] # NoRow => refreshToken'[x] # NoRow
    BY <1>1, <1>6
  <1>8. [action |-> "TOKEN_REFRESHED", user |-> u, req |-> p] \in Entry
    BY <1>1 DEF Entry
  <1> HIDE DEF u, t
  <1> QED
    BY <1>1, <1>2, <1>3, <1>4, <1>7, <1>8, CommitIsGood

(* A logout kills its token, or finds it dead. *)
LEMMA LogoutTokens ==
    ASSUME Inv, NEW p \in Req, LogoutCommit(p)
    PROVE  /\ pc[p] = "commit" /\ call[p].op = "logout" /\ call[p].token \in Token
           /\ call[p].email \in Email
           /\ refreshToken' \in [Token -> TokenRow \cup {NoRow}]
           /\ DeadAfter(call[p].token)
           /\ refreshToken[call[p].token] # NoRow =>
                 /\ refreshToken'[call[p].token] # NoRow
                 /\ refreshToken'[call[p].token].owner = refreshToken[call[p].token].owner
           /\ \A t \in Token \ {call[p].token} : refreshToken'[t] = refreshToken[t]
  <1> DEFINE t == call[p].token
  <1>1. pc[p] = "commit" /\ call[p].op = "logout"
    BY DEF LogoutCommit, At
  <1>2. t \in Token /\ call[p].email \in Email
    BY <1>1, Fields DEF Inv
  <1>3. \/ <<"refresh", t>> \in held[p] /\ refreshToken[t] # NoRow
        \/ <<"refresh", t>> \notin held[p] /\ Dead(t)
    BY <1>1 DEF Inv, Knows, At
  <1>4. refreshToken \in [Token -> TokenRow \cup {NoRow}]
    BY DEF Inv, Typed
  <1>5. CASE <<"refresh", t>> \in held[p] /\ refreshToken[t] # NoRow
    <2> DEFINE dead == [owner |-> refreshToken[t].owner, revoked |-> TRUE]
    <2>1. dead \in TokenRow /\ dead # NoRow
      BY <1>2, <1>4, <1>5, RevokedRow
    <2>2. refreshToken' = [refreshToken EXCEPT ![t] = dead]
      BY <1>5 DEF LogoutCommit
    <2>3. dead.revoked /\ dead.owner = refreshToken[t].owner
      OBVIOUS
    <2> HIDE DEF dead
    <2> QED
      BY <1>1, <1>2, <1>4, <2>1, <2>2, <2>3 DEF DeadAfter
  <1>6. CASE <<"refresh", t>> \notin held[p] /\ Dead(t)
    <2>1. refreshToken' = refreshToken
      BY <1>6 DEF LogoutCommit
    <2> QED
      BY <1>1, <1>2, <1>4, <1>6, <2>1 DEF Dead, DeadAfter
  <1> QED
    BY <1>3, <1>5, <1>6

(* A logout, as LogoutTokens describes it. *)
LEMMA LogoutCommitStep ==
    ASSUME Inv, NEW p \in Req, LogoutCommit(p)
    PROVE  Good(p)
  <1> DEFINE t == call[p].token
             e == call[p].email
  <1>1. /\ pc[p] = "commit" /\ t \in Token /\ e \in Email
        /\ refreshToken' \in [Token -> TokenRow \cup {NoRow}]
        /\ DeadAfter(t)
        /\ refreshToken[t] # NoRow => refreshToken'[t] # NoRow
        /\ \A x \in Token \ {t} : refreshToken'[x] = refreshToken[x]
    BY LogoutTokens
  <1>2. user' = user /\ ticket' = ticket /\ Commit(p, "LOGOUT", e, "no_content")
    BY DEF LogoutCommit
  <1>3. user \in [Email -> UserRow \cup {NoRow}] /\ ticket \in [Ticket -> TicketRow \cup {NoRow}]
    BY DEF Inv, Typed
  <1>4. \A x \in Token : Dead(x) => DeadAfter(x)
    BY <1>1 DEF Dead, DeadAfter
  <1>5. [action |-> "LOGOUT", user |-> e, req |-> p] \in Entry
    BY <1>1 DEF Entry
  <1> HIDE DEF e, t
  <1> QED
    BY <1>1, <1>2, <1>3, <1>4, <1>5, CommitIsGood

(* A reset sets the password of the ticket's owner and uses the ticket up. *)
LEMMA ResetRows ==
    ASSUME Inv, NEW p \in Req, ResetCommit(p)
    PROVE  /\ pc[p] = "commit" /\ call[p].op = "reset" /\ seen[p].owner \in Email
           /\ user' \in [Email -> UserRow \cup {NoRow}]
           /\ user[seen[p].owner] # NoRow
           /\ user'[seen[p].owner] # NoRow /\ user'[seen[p].owner].password = call[p].password
           /\ \A e \in Email \ {seen[p].owner} : user'[e] = user[e]
           /\ ticket' \in [Ticket -> TicketRow \cup {NoRow}]
           /\ \A t \in Ticket : ticket[t] # NoRow => ticket'[t] # NoRow
  <1> DEFINE u == seen[p].owner
             t == call[p].token
             row == [password |-> call[p].password, name |-> user[u].name, status |-> user[u].status]
             used == [owner |-> ticket[t].owner, used |-> TRUE]
  <1>1. pc[p] = "commit" /\ call[p].op = "reset"
        /\ user' = [user EXCEPT ![u] = row] /\ ticket' = [ticket EXCEPT ![t] = used]
    BY DEF ResetCommit, At
  <1>2. t \in Ticket /\ call[p].password \in Password
    BY <1>1, Fields DEF Inv
  <1>3. seen[p] \in TicketRow /\ user[u] # NoRow /\ ticket[t] # NoRow
    BY <1>1 DEF Inv, Knows
  <1>4. u \in Email
    BY <1>3 DEF TicketRow
  <1>5. user \in [Email -> UserRow \cup {NoRow}] /\ ticket \in [Ticket -> TicketRow \cup {NoRow}]
    BY DEF Inv, Typed
  <1>6. user[u] \in UserRow /\ ticket[t] \in TicketRow
    BY <1>2, <1>3, <1>4, <1>5
  <1>7. row \in UserRow
    BY <1>2, <1>6 DEF UserRow
  <1>8. used \in TicketRow
    BY <1>6 DEF TicketRow
  <1>9. row # NoRow /\ used # NoRow
    BY <1>7, <1>8, AuthAssumption
  <1>10. row.password = call[p].password
    OBVIOUS
  <1> HIDE DEF row, used
  <1> QED
    BY <1>1, <1>2, <1>3, <1>4, <1>5, <1>7, <1>8, <1>9, <1>10

(* A reset, as ResetRows describes it. *)
LEMMA ResetCommitStep ==
    ASSUME Inv, NEW p \in Req, ResetCommit(p)
    PROVE  Good(p)
  <1> DEFINE u == seen[p].owner
  <1>1. /\ pc[p] = "commit" /\ u \in Email /\ user[u] # NoRow
        /\ user' \in [Email -> UserRow \cup {NoRow}] /\ user'[u] # NoRow
        /\ \A e \in Email \ {u} : user'[e] = user[e]
        /\ ticket' \in [Ticket -> TicketRow \cup {NoRow}]
        /\ \A t \in Ticket : ticket[t] # NoRow => ticket'[t] # NoRow
    BY ResetRows
  <1>2. refreshToken' = refreshToken /\ Commit(p, "PASSWORD_RESET_COMPLETED", u, "no_content")
    BY DEF ResetCommit
  <1>3. refreshToken \in [Token -> TokenRow \cup {NoRow}]
    BY DEF Inv, Typed
  <1>4. \A x \in Token : Dead(x) => DeadAfter(x)
    BY <1>2 DEF Dead, DeadAfter
  <1>5. [action |-> "PASSWORD_RESET_COMPLETED", user |-> u, req |-> p] \in Entry
    BY <1>1 DEF Entry
  <1> HIDE DEF u
  <1> QED
    BY <1>1, <1>2, <1>3, <1>4, <1>5, CommitIsGood

(* A profile update leaves the password that is there by then. *)
LEMMA ProfileRows ==
    ASSUME Inv, NEW p \in Req, ProfileCommit(p)
    PROVE  /\ pc[p] = "commit" /\ call[p].op = "profile" /\ call[p].email \in Email
           /\ user' \in [Email -> UserRow \cup {NoRow}]
           /\ \A e \in Email : /\ user[e] = NoRow <=> user'[e] = NoRow
                               /\ user[e] # NoRow => user'[e].password = user[e].password
  <1> DEFINE e == call[p].email
             row == [password |-> user[e].password, name |-> call[p].name, status |-> user[e].status]
  <1>1. pc[p] = "commit" /\ call[p].op = "profile"
    BY DEF ProfileCommit, At
  <1>2. e \in Email /\ call[p].name \in Name \cup {NoName}
    BY <1>1, Fields DEF Inv
  <1>3. user \in [Email -> UserRow \cup {NoRow}]
    BY DEF Inv, Typed
  <1>4. user[e] # NoRow
    BY <1>1 DEF Inv, Knows
  <1>5. CASE <<"user", e>> \in held[p]
    <2>1. call[p].name \in Name
      BY <1>1, <1>5 DEF Inv, Knows, At
    <2>2. row \in UserRow
      BY <1>2, <1>3, <1>4, <2>1 DEF UserRow
    <2>3. row # NoRow
      BY <2>2, AuthAssumption
    <2>4. row.password = user[e].password
      OBVIOUS
    <2>5. user' = [user EXCEPT ![e] = row]
      BY <1>5 DEF ProfileCommit
    <2> HIDE DEF row
    <2> QED
      BY <1>1, <1>2, <1>3, <1>4, <2>2, <2>3, <2>4, <2>5
  <1>6. CASE <<"user", e>> \notin held[p]
    <2>1. user' = user
      BY <1>6 DEF ProfileCommit
    <2> QED
      BY <1>1, <1>2, <1>3, <2>1
  <1> QED
    BY <1>5, <1>6

(* A profile update, as ProfileRows describes it. *)
LEMMA ProfileCommitStep ==
    ASSUME Inv, NEW p \in Req, ProfileCommit(p)
    PROVE  Good(p)
  <1> DEFINE e == call[p].email
  <1>1. /\ pc[p] = "commit" /\ e \in Email
        /\ user' \in [Email -> UserRow \cup {NoRow}]
        /\ \A x \in Email : user[x] = NoRow <=> user'[x] = NoRow
    BY ProfileRows
  <1>2. refreshToken' = refreshToken /\ ticket' = ticket /\ Commit(p, "PROFILE_UPDATED", e, "ok")
    BY DEF ProfileCommit
  <1>3. refreshToken \in [Token -> TokenRow \cup {NoRow}] /\ ticket \in [Ticket -> TicketRow \cup {NoRow}]
    BY DEF Inv, Typed
  <1>4. \A x \in Token : Dead(x) => DeadAfter(x)
    BY <1>2 DEF Dead, DeadAfter
  <1>5. [action |-> "PROFILE_UPDATED", user |-> e, req |-> p] \in Entry
    BY <1>1 DEF Entry
  <1> HIDE DEF e
  <1> QED
    BY <1>1, <1>2, <1>3, <1>4, <1>5, CommitIsGood

----------------------------------------------------------------------------
(* Steps of the environment: every request stands still. *)

(* A step that moves no request need only keep the rows. *)
LEMMA StandStill ==
    ASSUME Inv, Typed', RowsStay, \A q \in Req : Stays(q)
    PROVE  Inv'
  <1>1. \A q \in Req : Sent(q)' /\ Knows(q)'
    BY Frame DEF Inv
  <1>2. \A q \in Req : held'[q] = held[q]
    BY DEF Stays
  <1>3. Apart'
    BY <1>2 DEF Inv, Apart
  <1> QED
    BY <1>1, <1>3 DEF Inv

(* The cleanup only deletes tokens that have lapsed and that nobody holds. *)
LEMMA CleanupRows ==
    ASSUME Inv, Cleanup
    PROVE  /\ refreshToken' \in [Token -> TokenRow \cup {NoRow}]
           /\ \A t \in Token : \/ refreshToken'[t] = refreshToken[t]
                               \/ /\ refreshToken'[t] = NoRow /\ t \in lapsed
                                  /\ \A q \in Req : <<"refresh", t>> \notin held[q]
  <1> DEFINE expired == {t \in Token \cap lapsed : refreshToken[t] # NoRow}
  <1>1. /\ \A t \in expired : Free(<<"refresh", t>>)
        /\ refreshToken' = [t \in Token |-> IF t \in expired THEN NoRow ELSE refreshToken[t]]
    BY DEF Cleanup
  <1>2. refreshToken \in [Token -> TokenRow \cup {NoRow}]
    BY DEF Inv, Typed
  <1>3. \A t \in expired : t \in lapsed /\ \A q \in Req : <<"refresh", t>> \notin held[q]
    BY <1>1 DEF Free
  <1> HIDE DEF expired
  <1> QED
    BY <1>1, <1>2, <1>3

(* The cleanup keeps the invariant. *)
LEMMA CleanupStep == Inv /\ Cleanup => Inv'
  <1> SUFFICES ASSUME Inv, Cleanup PROVE Inv'
    OBVIOUS
  <1>1. UNCHANGED <<user, ticket, audit, lapsed, pc, call, seen, held, reply, since>>
    BY DEF Cleanup
  <1>2. Typed'
    BY <1>1, CleanupRows DEF Inv, Typed
  <1>3. \A t \in Token : Dead(t) => DeadAfter(t)
    BY CleanupRows DEF Dead, DeadAfter
  <1>4. RowsStay
    BY <1>1, <1>3 DEF RowsStay, Inv, Typed
  <1>5. \A q \in Req : Stays(q)
    BY <1>1, CleanupRows DEF Stays
  <1> QED
    BY <1>2, <1>4, <1>5, StandStill

(* A suspended user is still there, with the same password. *)
LEMMA SuspendRows ==
    ASSUME Inv, NEW e \in Email, Suspend(e)
    PROVE  /\ user' \in [Email -> UserRow \cup {NoRow}]
           /\ \A x \in Email : /\ user[x] = NoRow <=> user'[x] = NoRow
                               /\ user[x] # NoRow => user'[x].password = user[x].password
  <1> DEFINE row == [password |-> user[e].password, name |-> user[e].name, status |-> "suspended"]
  <1>1. user[e] # NoRow /\ user' = [user EXCEPT ![e] = row]
    BY DEF Suspend
  <1>2. user \in [Email -> UserRow \cup {NoRow}]
    BY DEF Inv, Typed
  <1>3. row \in UserRow
    BY <1>1, <1>2 DEF UserRow
  <1>4. row # NoRow
    BY <1>3, AuthAssumption
  <1>5. row.password = user[e].password
    OBVIOUS
  <1> HIDE DEF row
  <1> QED
    BY <1>1, <1>2, <1>3, <1>4, <1>5

(* So does a suspension. *)
LEMMA SuspendStep == \A e \in Email : Inv /\ Suspend(e) => Inv'
  <1> SUFFICES ASSUME NEW e \in Email, Inv, Suspend(e) PROVE Inv'
    OBVIOUS
  <1>1. UNCHANGED <<refreshToken, ticket, audit, lapsed, pc, call, seen, held, reply, since>>
    BY DEF Suspend
  <1>2. Typed'
    BY <1>1, SuspendRows DEF Inv, Typed
  <1>3. \A t \in Token : Dead(t) => DeadAfter(t)
    BY <1>1 DEF Dead, DeadAfter
  <1>4. RowsStay
    BY <1>1, <1>3, SuspendRows DEF RowsStay, Inv, Typed
  <1>5. \A q \in Req : Stays(q)
    BY <1>1, SuspendRows DEF Stays
  <1> QED
    BY <1>2, <1>4, <1>5, StandStill

(* Time passing, or nothing happening, changes no row. *)
LEMMA LapseStep == Inv /\ (UNCHANGED vars \/ \E t \in Token \cup Ticket : Lapse(t)) => Inv'
  <1> SUFFICES ASSUME Inv, UNCHANGED vars \/ \E t \in Token \cup Ticket : Lapse(t) PROVE Inv'
    OBVIOUS
  <1>1. /\ UNCHANGED <<user, refreshToken, ticket, audit, pc, call, seen, held, since>>
        /\ lapsed' = lapsed \/ \E t \in Token \cup Ticket : lapsed' = lapsed \cup {t}
    BY DEF vars, Lapse, tables
  <1>2. Typed'
    BY <1>1 DEF Inv, Typed
  <1>3. \A t \in Token : Dead(t) => DeadAfter(t)
    BY <1>1 DEF Dead, DeadAfter
  <1>4. RowsStay
    BY <1>1, <1>3 DEF RowsStay, Inv, Typed
  <1>5. \A q \in Req : Stays(q)
    BY <1>1 DEF Stays
  <1> QED
    BY <1>2, <1>4, <1>5, StandStill

(* Every step of a request is good. *)
LEMMA RequestStep ==
    ASSUME Inv, NEW p \in Req, Arrive(p) \/ Handle(p) \/ Crash(p)
    PROVE  Good(p)
  BY ArriveStep, CrashStep, AuthenticateStep, RegisterReadStep, RegisterInsertStep,
     RegisterCommitStep, LoginReadStep, LoginCommitStep, RefreshReadStep, RevokeRowStep,
     RefreshCommitStep, LogoutReadStep, LogoutCommitStep, ForgotCommitStep, ResetReadStep,
     ResetWriteStep, ResetCommitStep, ProfileWriteStep, ProfileCommitStep DEF Handle

(* Requests keep to the invariant, however they interleave. *)
THEOREM Invariance == Spec => []Inv
  <1>1. Init => Inv
    <2> SUFFICES ASSUME Init PROVE Inv
      OBVIOUS
    <2>1. Typed
      BY AuthAssumption DEF Init, Typed, Token, Ticket, Stage
    <2>2. \A p \in Req : Sent(p) /\ Knows(p)
      BY DEF Init, Sent, Knows, At
    <2>3. Apart
      BY DEF Init, Apart
    <2> QED
      BY <2>1, <2>2, <2>3 DEF Inv
  <1>2. Inv /\ [Next]_vars => Inv'
    BY RequestStep, GoodIsEnough, CleanupStep, SuspendStep, LapseStep DEF Next
  <1> QED
    BY <1>1, <1>2, PTL DEF Spec

(* The tables keep their types, whatever a refresh or a reset wrote to a row
   that it had read before others changed it. *)
THEOREM TypeCorrect == Spec => []TypeOK
  <1>1. Inv => TypeOK
    <2> SUFFICES ASSUME Inv PROVE TypeOK
      OBVIOUS
    <2>1. \A i \in DOMAIN audit : audit[i].req \in Req /\ audit[i].user \in Email \cup {NoRow}
      <3>1. \A i \in DOMAIN audit : audit[i] \in Entry
        BY DEF Inv, Typed
      <3> QED
        BY <3>1 DEF Entry
    <2>2. ASSUME NEW p \in Req
          PROVE  /\ call[p] \in Call \cup {NoCall}
                 /\ pc[p] = "update" /\ call[p].op = "refresh" => seen[p] \in TokenRow
                 /\ pc[p] = "update" /\ call[p].op = "reset" => seen[p] \in TicketRow
                 /\ pc[p] = "update" /\ call[p].op = "profile" => seen[p] \in UserRow
      BY DEF Inv, Typed, Knows, At
    <2>3. /\ user \in [Email -> UserRow \cup {NoRow}]
          /\ refreshToken \in [Token -> TokenRow \cup {NoRow}]
          /\ ticket \in [Ticket -> TicketRow \cup {NoRow}]
          /\ lapsed \subseteq Token \cup Ticket
          /\ pc \in [Req -> InFlight \cup {"idle", "done", "crashed"}]
      BY DEF Inv, Typed, Stage
    <2> QED
      BY <2>1, <2>2, <2>3 DEF TypeOK, At
  <1> QED
    BY <1>1, Invariance, PTL

----------------------------------------------------------------------------
(* What the steps are for the audit log: nothing, or one entry of one kind. *)

Logs(p, action, u) ==
    /\ pc[p] = "commit" /\ pc'[p] = "reply"
    /\ u \in Email \cup {NoRow}
    /\ audit' = Append(audit, [action |-> action, user |-> u, req |-> p])
    /\ \A q \in Req : pc[q] # "idle" => call'[q] = call[q] /\ since'[q] = since[q]
    /\ \A q \in Req \ {p} : pc'[q] = pc[q] /\ seen'[q] = seen[q] /\ call'[q] = call[q]
    /\ lapsed' = lapsed

SameUsers ==
    \A e \in Email : /\ user[e] = NoRow <=> user'[e] = NoRow
                     /\ user[e] # NoRow => user'[e].password = user[e].password

Issues(p, e) ==
    /\ refreshToken'[p] = [owner |-> e, revoked |-> FALSE]
    /\ refreshToken'[p] # NoRow
    /\ \A t \in Token \ {p} : refreshToken'[t] = refreshToken[t]

Silent ==
    /\ audit' = audit
    /\ SameUsers
    /\ \A t \in Token : refreshToken'[t] = refreshToken[t] \/ (refreshToken'[t] = NoRow /\ t \in lapsed)
    /\ lapsed \subseteq lapsed'

Registers(p) ==
    LET e == call[p].email
    IN  /\ Logs(p, "USER_REGISTERED", e)
        /\ e \in Email
        /\ user[e] = NoRow /\ user'[e] # NoRow /\ user'[e].password = call[p].password
        /\ \A x \in Email \ {e} : user'[x] = user[x]
        /\ Issues(p, e)

LogsIn(p) ==
    /\ Logs(p, "LOGIN_SUCCESS", call[p].email)
    /\ call[p].op = "login"
    /\ seen[p] # NoRow /\ seen[p].password = call[p].password
    /\ SameUsers
    /\ Issues(p, call[p].email)

Refreshes(p) ==
    LET t == call[p].token
    IN  /\ Logs(p, "TOKEN_REFRESHED", seen[p].owner)
        /\ call[p].op = "refresh" /\ t \in Token \ {p}
        /\ SameUsers
        /\ refreshToken'[p] = [owner |-> seen[p].owner, revoked |-> FALSE] /\ refreshToken'[p] # NoRow
        /\ refreshToken'[t] # NoRow /\ refreshToken'[t].revoked
        /\ refreshToken'[t].owner = refreshToken[t].owner /\ refreshToken[t] # NoRow
        /\ \A x \in Token \ {p, t} : refreshToken'[x] = refreshToken[x]

LogsOut(p) ==
    LET t == call[p].token
    IN  /\ Logs(p, "LOGOUT", call[p].email)
        /\ call[p].op = "logout" /\ t \in Token
        /\ SameUsers
        /\ DeadAfter(t)
        /\ refreshToken[t] # NoRow =>
              refreshToken'[t] # NoRow /\ refreshToken'[t].owner = refreshToken[t].owner
        /\ refreshToken[t] = NoRow => refreshToken'[t] = NoRow
        /\ \A x \in Token \ {t} : refreshToken'[x] = refreshToken[x]

Resets(p) ==
    LET e == seen[p].owner
    IN  /\ Logs(p, "PASSWORD_RESET_COMPLETED", e)
        /\ e \in Email
        /\ user[e] # NoRow /\ user'[e] # NoRow /\ user'[e].password = call[p].password
        /\ \A x \in Email \ {e} : user'[x] = user[x]
        /\ refreshToken' = refreshToken

Notes(p) ==
    /\ \E action \in {"LOGIN_FAILED", "PASSWORD_RESET_REQUESTED", "PROFILE_UPDATED"},
          u \in Email \cup {NoRow} : Logs(p, action, u)
    /\ SameUsers
    /\ refreshToken' = refreshToken

Committing(p) ==
    \/ RegisterCommit(p) \/ LoginCommit(p) \/ RefreshCommit(p) \/ LogoutCommit(p)
    \/ ForgotCommit(p) \/ ResetCommit(p) \/ ProfileCommit(p)

Kinds(p) ==
    Registers(p) \/ LogsIn(p) \/ Refreshes(p) \/ LogsOut(p) \/ Resets(p) \/ Notes(p)

(* A commit logs what it did. *)
LEMMA CommitLogs ==
    ASSUME Inv, NEW p \in Req, pc[p] = "commit", NEW action, NEW u \in Email \cup {NoRow}, NEW code,
           Commit(p, action, u, code)
    PROVE  Logs(p, action, u)
  BY DEF Commit, Goto, Logs, Inv, Typed

(* Every commit is of one of the kinds. *)
LEMMA CommitKinds ==
    ASSUME Inv, NEW p \in Req, Committing(p)
    PROVE  Kinds(p)
  <1>0. pc[p] = "commit" /\ Sent(p) /\ Knows(p)
    BY DEF Committing, RegisterCommit, LoginCommit, RefreshCommit, LogoutCommit, ForgotCommit,
           ResetCommit, ProfileCommit, At, Inv
  <1>f. /\ call[p].op \in {"register", "login", "forgot", "logout", "profile"} => call[p].email \in Email
        /\ call[p].op = "register" => call[p].password \in Password /\ call[p].name \in Name
    BY <1>0, Fields DEF Inv
  <1>u. user' = user => SameUsers
    BY DEF SameUsers
  <1>t. user \in [Email -> UserRow \cup {NoRow}] /\ refreshToken \in [Token -> TokenRow \cup {NoRow}]
    BY DEF Inv, Typed
  <1>i. \A e \in Email : [owner |-> e, revoked |-> FALSE] # NoRow
    <2>1. \A e \in Email : [owner |-> e, revoked |-> FALSE] \in TokenRow
      BY DEF TokenRow
    <2> QED
      BY <2>1, AuthAssumption
  <1>1. CASE RegisterCommit(p)
    <2> DEFINE c == call[p]
               row == [password |-> c.password, name |-> c.name, status |-> "active"]
    <2>1. c.op = "register" /\ Commit(p, "USER_REGISTERED", c.email, "tokens")
          /\ refreshToken' = NewToken(p, c.email) /\ user' = [user EXCEPT ![c.email] = row]
      BY <1>1 DEF RegisterCommit, At
    <2>2. c.email \in Email /\ row \in UserRow
      BY <1>f, <2>1 DEF UserRow
    <2>3. row # NoRow
      BY <2>2, AuthAssumption
    <2>4. row.password = c.password
      OBVIOUS
    <2>5. user[c.email] = NoRow
      BY <1>0, <2>1 DEF Knows, At
    <2>6. Issues(p, c.email)
      BY <1>0, <1>i, <2>1, <2>2, NewTokenStays DEF Issues
    <2>7. Logs(p, "USER_REGISTERED", c.email)
      BY <1>0, <2>1, <2>2, CommitLogs
    <2>8. user'[c.email] = row /\ \A x \in Email \ {c.email} : user'[x] = user[x]
      BY <1>t, <2>1, <2>2
    <2> HIDE DEF row
    <2> QED
      BY <2>2, <2>3, <2>4, <2>5, <2>6, <2>7, <2>8 DEF Registers, Kinds
  <1>2. CASE LoginCommit(p)
    <2>1. call[p].op = "login" /\ user' = user
      BY <1>2 DEF LoginCommit, At
    <2>2. CASE seen[p] # NoRow /\ seen[p].password = call[p].password
      <3>1. refreshToken' = NewToken(p, call[p].email) /\ Commit(p, "LOGIN_SUCCESS", call[p].email, "tokens")
        BY <1>2, <2>2 DEF LoginCommit
      <3>2. Issues(p, call[p].email)
        BY <1>0, <1>f, <1>i, <2>1, <3>1, NewTokenStays DEF Issues
      <3>3. Logs(p, "LOGIN_SUCCESS", call[p].email)
        BY <1>0, <1>f, <2>1, <3>1, CommitLogs
      <3> QED
        BY <1>u, <2>1, <2>2, <3>2, <3>3 DEF LogsIn, Kinds
    <2>3. CASE ~(seen[p] # NoRow /\ seen[p].password = call[p].password)
      <3>1. refreshToken' = refreshToken
            /\ \E u \in Email \cup {NoRow} : Commit(p, "LOGIN_FAILED", u, "unauthorized")
        BY <1>2, <1>f, <2>1, <2>3 DEF LoginCommit
      <3>2. \E u \in Email \cup {NoRow} : Logs(p, "LOGIN_FAILED", u)
        BY <1>0, <3>1, CommitLogs
      <3> QED
        BY <1>u, <2>1, <3>1, <3>2 DEF Notes, Kinds
    <2> QED
      BY <2>2, <2>3
  <1>3. CASE RefreshCommit(p)
    <2>1. Commit(p, "TOKEN_REFRESHED", seen[p].owner, "tokens") /\ user' = user
      BY <1>3 DEF RefreshCommit
    <2>2. Logs(p, "TOKEN_REFRESHED", seen[p].owner)
      BY <1>0, <1>3, <2>1, RefreshTokens, CommitLogs
    <2>3. refreshToken[call[p].token] # NoRow
      BY <1>0, <1>3, RefreshTokens DEF Knows, At
    <2> QED
      BY <1>3, <1>i, <1>u, <2>1, <2>2, <2>3, RefreshTokens DEF Refreshes, Kinds
  <1>4. CASE LogoutCommit(p)
    <2>1. Commit(p, "LOGOUT", call[p].email, "no_content") /\ user' = user
      BY <1>4 DEF LogoutCommit
    <2>2. Logs(p, "LOGOUT", call[p].email)
      BY <1>0, <1>4, <2>1, LogoutTokens, CommitLogs
    <2>3. refreshToken[call[p].token] = NoRow => refreshToken'[call[p].token] = NoRow
      BY <1>0, <1>4 DEF LogoutCommit, Knows, At
    <2> QED
      BY <1>4, <1>u, <2>1, <2>2, <2>3, LogoutTokens DEF LogsOut, Kinds
  <1>5. CASE ForgotCommit(p)
    <2>1. call[p].op = "forgot" /\ Commit(p, "PASSWORD_RESET_REQUESTED", call[p].email, "accepted")
          /\ user' = user /\ refreshToken' = refreshToken
      BY <1>5 DEF ForgotCommit, At
    <2>2. Logs(p, "PASSWORD_RESET_REQUESTED", call[p].email)
      BY <1>0, <1>f, <2>1, CommitLogs
    <2> QED
      BY <1>f, <1>u, <2>1, <2>2 DEF Notes, Kinds
  <1>6. CASE ResetCommit(p)
    <2>1. Commit(p, "PASSWORD_RESET_COMPLETED", seen[p].owner, "no_content") /\ refreshToken' = refreshToken
      BY <1>6 DEF ResetCommit
    <2>2. Logs(p, "PASSWORD_RESET_COMPLETED", seen[p].owner)
      BY <1>0, <1>6, <2>1, ResetRows, CommitLogs
    <2> QED
      BY <1>6, <2>1, <2>2, ResetRows DEF Resets, Kinds
  <1>7. CASE ProfileCommit(p)
    <2>1. Commit(p, "PROFILE_UPDATED", call[p].email, "ok") /\ refreshToken' = refreshToken
      BY <1>7 DEF ProfileCommit
    <2>2. call[p].email \in Email /\ SameUsers
      BY <1>7, ProfileRows DEF SameUsers
    <2>3. Logs(p, "PROFILE_UPDATED", call[p].email)
      BY <1>0, <2>1, <2>2, CommitLogs
    <2> QED
      BY <2>1, <2>2, <2>3 DEF Notes, Kinds
  <1> QED
    BY <1>1, <1>2, <1>3, <1>4, <1>5, <1>6, <1>7 DEF Committing

(* Every other step is silent. *)
LEMMA StepKinds ==
    ASSUME Inv, [Next]_vars
    PROVE  Silent \/ \E p \in Req : Kinds(p)
  <1>1. ASSUME NEW p \in Req, Arrive(p) \/ Crash(p) PROVE Silent
    BY <1>1 DEF Arrive, Crash, tables, Silent, SameUsers
  <1>2. ASSUME NEW p \in Req, Handle(p), ~Committing(p) PROVE Silent
    <2>1. UNCHANGED <<tables, lapsed>>
      BY <1>2 DEF Handle, Committing, Authenticate, RegisterRead, RegisterInsert, LoginRead,
             RefreshRead, RevokeRow, LogoutRead, ForgotRead, ResetRead, ResetPassword, ResetMark,
             ProfileWrite, Deliver, Read, Refuse, Write
    <2> QED
      BY <2>1 DEF tables, Silent, SameUsers
  <1>3. ASSUME Cleanup PROVE Silent
    BY <1>3, CleanupRows DEF Cleanup, Silent, SameUsers
  <1>4. ASSUME NEW e \in Email, Suspend(e) PROVE Silent
    <2>1. UNCHANGED <<refreshToken, audit, lapsed>>
      BY <1>4 DEF Suspend
    <2> QED
      BY <1>4, <2>1, SuspendRows DEF Silent, SameUsers
  <1>5. ASSUME NEW t \in Token \cup Ticket, Lapse(t) PROVE Silent
    BY <1>5 DEF Lapse, tables, Silent, SameUsers
  <1>6. UNCHANGED vars => Silent
    BY DEF vars, Silent, SameUsers
  <1> QED
    BY <1>1, <1>2, <1>3, <1>4, <1>5, <1>6, CommitKinds DEF Next

----------------------------------------------------------------------------
(* The audit log and the requests it names. *)

Past == {"reply", "done", "crashed"}

Spends == {"TOKEN_REFRESHED", "LOGOUT"}

(* A request is in the log once, after its commit, for what it asked. *)
LogInv ==
    /\ \A i \in DOMAIN audit :
         /\ pc[audit[i].req] \in Past
         /\ since[audit[i].req] < i
         /\ audit[i].action \in Spends => call[audit[i].req].op \in {"refresh", "logout"}
    /\ \A i, j \in DOMAIN audit : audit[i].req = audit[j].req => i = j

(* What a request was sent with stays, and so does that it is past its
   commit. *)
LEMMA PastStays ==
    ASSUME Inv, [Next]_vars, NEW q \in Req, pc[q] # "idle"
    PROVE  /\ call'[q] = call[q] /\ since'[q] = since[q] /\ pc'[q] # "idle"
           /\ pc[q] \in Past => pc'[q] \in Past
  <1> USE DEF Goto
  <1>0. /\ pc \in [Req -> Stage] /\ call \in [Req -> Call \cup {NoCall}] /\ since \in [Req -> Nat]
    BY DEF Inv, Typed
  <1>1. ASSUME NEW p \in Req, Arrive(p) \/ Crash(p)
        PROVE  /\ call'[q] = call[q] /\ since'[q] = since[q] /\ pc'[q] # "idle"
               /\ pc[q] \in Past => pc'[q] \in Past
    BY <1>0, <1>1 DEF Arrive, Crash, Past, InFlight
  <1>2. ASSUME NEW p \in Req, Handle(p)
        PROVE  /\ call'[q] = call[q] /\ since'[q] = since[q] /\ pc'[q] # "idle"
               /\ pc[q] \in Past => pc'[q] \in Past
    <2>1. CASE Authenticate(p) \/ RegisterRead(p) \/ RegisterInsert(p) \/ LoginRead(p) \/ RefreshRead(p)
      BY <1>0, <2>1 DEF Authenticate, RegisterRead, RegisterInsert, LoginRead, RefreshRead,
                        Read, Refuse, Write, At, Past
    <2>2. CASE RevokeRow(p) \/ LogoutRead(p) \/ ForgotRead(p) \/ ResetRead(p)
      BY <1>0, <2>2 DEF RevokeRow, LogoutRead, ForgotRead, ResetRead, Read, Refuse, Write, At, Past
    <2>3. CASE ResetPassword(p) \/ ResetMark(p) \/ ProfileWrite(p) \/ Deliver(p)
      BY <1>0, <2>3 DEF ResetPassword, ResetMark, ProfileWrite, Deliver, Read, Write, At, Past
    <2>4. CASE RegisterCommit(p) \/ LoginCommit(p) \/ RefreshCommit(p) \/ LogoutCommit(p)
      BY <1>0, <2>4 DEF RegisterCommit, LoginCommit, RefreshCommit, LogoutCommit, Commit, At, Past
    <2>5. CASE ForgotCommit(p) \/ ResetCommit(p) \/ ProfileCommit(p)
      BY <1>0, <2>5 DEF ForgotCommit, ResetCommit, ProfileCommit, Commit, At, Past
    <2> QED
      BY <1>2, <2>1, <2>2, <2>3, <2>4, <2>5 DEF Handle
  <1>3. ASSUME Cleanup \/ (\E e \in Email : Suspend(e)) \/ (\E t \in Token \cup Ticket : Lapse(t))
               \/ UNCHANGED vars
        PROVE  call' = call /\ since' = since /\ pc' = pc
    BY <1>3 DEF Cleanup, Suspend, Lapse, vars
  <1> QED
    BY <1>1, <1>2, <1>3 DEF Next

(* The entry a commit adds comes last. *)
LEMMA Logged ==
    ASSUME Typed, NEW p \in Req, NEW action, NEW u, Logs(p, action, u)
    PROVE  LET n == Len(audit)
           IN  /\ n \in Nat /\ DOMAIN audit = 1 .. n /\ DOMAIN audit' = 1 .. (n + 1)
               /\ Len(audit') = n + 1
               /\ \A i \in 1 .. n : audit'[i] = audit[i]
               /\ audit'[n + 1].action = action /\ audit'[n + 1].user = u /\ audit'[n + 1].req = p
  BY DEF Typed, Logs

(* The requests in the log are requests. *)
LEMMA Entries ==
    ASSUME Typed
    PROVE  /\ Len(audit) \in Nat /\ DOMAIN audit = 1 .. Len(audit)
           /\ \A i \in DOMAIN audit : audit[i].req \in Req /\ audit[i].user \in Email \cup {NoRow}
  <1>1. audit \in Seq(Entry)
    BY DEF Typed
  <1>2. \A i \in DOMAIN audit : audit[i] \in Entry
    BY <1>1
  <1> QED
    BY <1>1, <1>2 DEF Entry

(* Which requests a kind of step is logged for. *)
LEMMA KindLogs ==
    ASSUME Inv, NEW p \in Req, Kinds(p)
    PROVE  \E action, u : /\ Logs(p, action, u)
                          /\ action \in Spends => call[p].op \in {"refresh", "logout"}
  <1>1. CASE Notes(p)
    <2>1. PICK action \in {"LOGIN_FAILED", "PASSWORD_RESET_REQUESTED", "PROFILE_UPDATED"},
               u \in Email \cup {NoRow} : Logs(p, action, u)
      BY <1>1 DEF Notes
    <2>2. action \notin Spends
      BY DEF Spends
    <2> QED
      BY <2>1, <2>2
  <1>2. CASE Registers(p) \/ LogsIn(p) \/ Resets(p)
    <2>1. \E action, u : Logs(p, action, u) /\ action \notin Spends
      BY <1>2 DEF Registers, LogsIn, Resets, Spends
    <2> QED
      BY <2>1
  <1>3. CASE Refreshes(p) \/ LogsOut(p)
    BY <1>3 DEF Refreshes, LogsOut
  <1> QED
    BY <1>1, <1>2, <1>3 DEF Kinds

(* LogInv is inductive, given Inv. *)
LEMMA LogInvStep == Inv /\ LogInv /\ [Next]_vars => LogInv'
  <1> SUFFICES ASSUME Inv, LogInv, [Next]_vars PROVE LogInv'
    OBVIOUS
  <1>1. /\ DOMAIN audit = 1 .. Len(audit) /\ Len(audit) \in Nat
        /\ \A i \in DOMAIN audit : audit[i].req \in Req
    BY Entries DEF Inv
  <1>2. \A i \in DOMAIN audit : pc[audit[i].req] # "idle"
    BY DEF LogInv, Past
  <1>3. \A i \in DOMAIN audit : /\ call'[audit[i].req] = call[audit[i].req]
                               /\ since'[audit[i].req] = since[audit[i].req]
                               /\ pc'[audit[i].req] \in Past
    BY <1>1, <1>2, PastStays DEF LogInv
  <1>4. CASE Silent
    BY <1>3, <1>4 DEF Silent, LogInv
  <1>5. ASSUME NEW p \in Req, Kinds(p) PROVE LogInv'
    <2>1. PICK action, u : Logs(p, action, u) /\ (action \in Spends => call[p].op \in {"refresh", "logout"})
      BY <1>5, KindLogs
    <2> DEFINE n == Len(audit)
    <2>2. /\ DOMAIN audit' = 1 .. (n + 1)
          /\ \A i \in 1 .. n : audit'[i] = audit[i]
          /\ audit'[n + 1].action = action /\ audit'[n + 1].req = p
      BY <2>1, Logged DEF Inv
    <2>3. /\ pc[p] = "commit" /\ pc'[p] = "reply" /\ call'[p] = call[p] /\ since'[p] = since[p]
      BY <2>1 DEF Logs
    <2>4. since[p] <= n /\ since[p] \in Nat
      BY <2>3 DEF Inv, Sent, Typed
    <2>5. \A i \in 1 .. n : audit[i].req # p
      BY <1>1, <2>3 DEF LogInv, Past
    <2>6. \A i \in DOMAIN audit' :
            /\ pc'[audit'[i].req] \in Past
            /\ since'[audit'[i].req] < i
            /\ audit'[i].action \in Spends => call'[audit'[i].req].op \in {"refresh", "logout"}
      <3> SUFFICES ASSUME NEW i \in 1 .. (n + 1)
                   PROVE  /\ pc'[audit'[i].req] \in Past
                          /\ since'[audit'[i].req] < i
                          /\ audit'[i].action \in Spends => call'[audit'[i].req].op \in {"refresh", "logout"}
        BY <2>2
      <3>1. CASE i \in 1 .. n
        BY <1>1, <1>3, <2>2, <3>1 DEF LogInv
      <3>2. CASE i = n + 1
        <4>1. since'[p] < n + 1
          BY <1>1, <2>3, <2>4
        <4> QED
          BY <2>1, <2>2, <2>3, <3>2, <4>1 DEF Past
      <3> QED
        BY <1>1, <3>1, <3>2
    <2>7. \A i, j \in DOMAIN audit' : audit'[i].req = audit'[j].req => i = j
      BY <1>1, <2>2, <2>5 DEF LogInv
    <2> QED
      BY <2>6, <2>7 DEF LogInv
  <1> QED
    BY <1>4, <1>5, StepKinds

(* Both hold in every state. *)
LEMMA LogInvariance == Spec => [](Inv /\ LogInv)
  <1>1. Init => LogInv
    BY DEF Init, LogInv
  <1> QED
    BY <1>1, Invariance, LogInvStep, PTL DEF Spec

----------------------------------------------------------------------------
(* Tokens that were spent. *)

(* The step of one request that brought it to its UPDATE, if it was not
   there before: the row was alive then. *)
RefreshOrigin(q) ==
    pc'[q] \in {"update", "commit"} /\ call'[q].op = "refresh" =>
        /\ pc[q] # "idle"
        /\ pc[q] \in {"update", "commit"} \/ (~Dead(call[q].token) /\ audit' = audit)

(* The row a login decides on is the user's at the time it was read. *)
LoginOrigin(q) ==
    pc'[q] = "commit" /\ call'[q].op = "login" =>
        /\ pc[q] # "idle"
        /\ \/ pc[q] = "commit" /\ seen'[q] = seen[q]
           \/ seen'[q] = user[call[q].email] /\ audit' = audit

(* Where a request at its update or its commit came from. *)
LEMMA Origins ==
    ASSUME Inv, [Next]_vars, NEW q \in Req
    PROVE  RefreshOrigin(q) /\ LoginOrigin(q)
  <1> USE DEF Goto, RefreshOrigin, LoginOrigin
  <1>0. /\ pc \in [Req -> Stage] /\ call \in [Req -> Call \cup {NoCall}]
        /\ seen \in [Req -> UserRow \cup TokenRow \cup TicketRow \cup {NoRow}]
    BY DEF Inv, Typed
  <1>1. ASSUME NEW p \in Req, Arrive(p) \/ Crash(p) PROVE RefreshOrigin(q) /\ LoginOrigin(q)
    BY <1>0, <1>1 DEF Arrive, Crash, InFlight
  <1>2. ASSUME NEW p \in Req, Handle(p) PROVE RefreshOrigin(q) /\ LoginOrigin(q)
    <2>1. CASE RefreshRead(p)
      BY <1>0, <2>1 DEF RefreshRead, Read, Refuse, At, tables, Dead
    <2>2. CASE LoginRead(p)
      BY <1>0, <2>2 DEF LoginRead, Read, Refuse, At, tables
    <2>3. CASE Authenticate(p)
      <3>1. pc[p] = "authenticate" => call[p].op \in {"logout", "profile"}
        BY DEF Inv, Sent
      <3> QED
        BY <1>0, <2>3, <3>1 DEF Authenticate, Read, Refuse
    <2>4. CASE RegisterRead(p) \/ RegisterInsert(p) \/ LogoutRead(p) \/ ForgotRead(p) \/ ResetRead(p)
      BY <1>0, <2>4 DEF RegisterRead, RegisterInsert, LogoutRead, ForgotRead, ResetRead,
                        Read, Refuse, Write, At
    <2>5. CASE RevokeRow(p)
      BY <1>0, <2>5 DEF RevokeRow, Refuse, Write
    <2>6. CASE ResetPassword(p) \/ ResetMark(p) \/ ProfileWrite(p) \/ Deliver(p)
      BY <1>0, <2>6 DEF ResetPassword, ResetMark, ProfileWrite, Deliver, Read, Write, At
    <2>7. CASE RegisterCommit(p) \/ LoginCommit(p) \/ RefreshCommit(p) \/ LogoutCommit(p)
      BY <1>0, <2>7 DEF RegisterCommit, LoginCommit, RefreshCommit, LogoutCommit, Commit, At
    <2>8. CASE ForgotCommit(p) \/ ResetCommit(p) \/ ProfileCommit(p)
      BY <1>0, <2>8 DEF ForgotCommit, ResetCommit, ProfileCommit, Commit, At
    <2> QED
      BY <1>2, <2>1, <2>2, <2>3, <2>4, <2>5, <2>6, <2>7, <2>8 DEF Handle
  <1>3. ASSUME Cleanup \/ (\E e \in Email : Suspend(e)) \/ (\E t \in Token \cup Ticket : Lapse(t))
               \/ UNCHANGED vars
        PROVE  call' = call /\ seen' = seen /\ pc' = pc
    BY <1>3 DEF Cleanup, Suspend, Lapse, vars
  <1> QED
    BY <1>1, <1>2, <1>3 DEF Next

(* A dead token of a client stays dead in every step. *)
LEMMA DeadStays ==
    ASSUME Inv, [Next]_vars, NEW t \in Token, t \in Req => pc[t] = "done", Dead(t)
    PROVE  DeadAfter(t)
  <1>1. ASSUME NEW p \in Req, Arrive(p) \/ Handle(p) \/ Crash(p) PROVE DeadAfter(t)
    BY <1>1, RequestStep DEF Good, RowsStay
  <1>2. CASE Cleanup
    BY <1>2, CleanupRows DEF Dead, DeadAfter
  <1>3. CASE (\E e \in Email : Suspend(e)) \/ (\E x \in Token \cup Ticket : Lapse(x)) \/ UNCHANGED vars
    <2>1. refreshToken' = refreshToken
      BY <1>3 DEF Suspend, Lapse, tables, vars
    <2> QED
      BY <2>1 DEF Dead, DeadAfter
  <1> QED
    BY <1>1, <1>2, <1>3 DEF Next

(* A refresh under way has read its token before it was spent. *)
SpentInv ==
    /\ SpentTokensStayDead
    /\ ReuseOnlyIfOverlapping
    /\ \A q \in Req : pc[q] \in {"update", "commit"} /\ call[q].op = "refresh" =>
         \A i \in DOMAIN audit :
            audit[i].action \in Spends /\ call[audit[i].req].token = call[q].token => since[q] < i

(* The entries a step adds: none, or one by a request at its commit. *)
Grown(p, action, u) ==
    LET n == Len(audit)
    IN  /\ DOMAIN audit' = 1 .. (n + 1) /\ Len(audit') = n + 1
        /\ \A i \in 1 .. n : audit'[i] = audit[i]
        /\ audit'[n + 1].action = action /\ audit'[n + 1].user = u /\ audit'[n + 1].req = p

(* The entries that are there keep the requests they name. *)
LEMMA OldEntries ==
    ASSUME Inv, LogInv, [Next]_vars
    PROVE  /\ DOMAIN audit = 1 .. Len(audit) /\ Len(audit) \in Nat
           /\ \A i \in DOMAIN audit : /\ audit[i].req \in Req /\ audit[i].user \in Email \cup {NoRow}
                                      /\ call'[audit[i].req] = call[audit[i].req]
                                      /\ since'[audit[i].req] = since[audit[i].req]
  <1>1. /\ DOMAIN audit = 1 .. Len(audit) /\ Len(audit) \in Nat
        /\ \A i \in DOMAIN audit : audit[i].req \in Req /\ audit[i].user \in Email \cup {NoRow}
    BY Entries DEF Inv
  <1>2. \A i \in DOMAIN audit : pc[audit[i].req] # "idle"
    BY DEF LogInv, Past
  <1> QED
    BY <1>1, <1>2, PastStays

(* The kinds of steps by the action they are logged under. *)
LEMMA Growth ==
    ASSUME Inv, NEW p \in Req, Kinds(p)
    PROVE  \E action, u :
             /\ Grown(p, action, u) /\ pc[p] = "commit" /\ lapsed' = lapsed
             /\ action = "USER_REGISTERED" => Registers(p) /\ u = call[p].email
             /\ action = "LOGIN_SUCCESS" => LogsIn(p) /\ u = call[p].email
             /\ action = "TOKEN_REFRESHED" => Refreshes(p) /\ u = seen[p].owner
             /\ action = "LOGOUT" => LogsOut(p)
             /\ action = "PASSWORD_RESET_COMPLETED" => Resets(p) /\ u = seen[p].owner
             /\ action \notin Issuing \cup Spends \cup {"PASSWORD_RESET_COMPLETED"} => Notes(p)
  <1>1. ASSUME NEW action, NEW u, Logs(p, action, u)
        PROVE  Grown(p, action, u) /\ pc[p] = "commit" /\ lapsed' = lapsed
    BY <1>1, Logged DEF Grown, Logs, Inv
  <1>2. CASE Registers(p)
    BY <1>1, <1>2 DEF Registers, Issuing
  <1>3. CASE LogsIn(p)
    BY <1>1, <1>3 DEF LogsIn, Issuing
  <1>4. CASE Refreshes(p)
    BY <1>1, <1>4 DEF Refreshes, Issuing
  <1>5. CASE LogsOut(p)
    BY <1>1, <1>5 DEF LogsOut, Spends
  <1>6. CASE Resets(p)
    BY <1>1, <1>6 DEF Resets
  <1>7. CASE Notes(p)
    BY <1>1, <1>7 DEF Notes
  <1> QED
    BY <1>2, <1>3, <1>4, <1>5, <1>6, <1>7 DEF Kinds

(* SpentInv is inductive, given both. *)
LEMMA SpentInvStep == Inv /\ LogInv /\ SpentInv /\ [Next]_vars => SpentInv'
  <1> SUFFICES ASSUME Inv, LogInv, SpentInv, [Next]_vars PROVE SpentInv'
    OBVIOUS
  <1> DEFINE n == Len(audit)
             Same(i, t) == audit[i].action \in Spends /\ call[audit[i].req].token = t
  <1>1. /\ DOMAIN audit = 1 .. n /\ n \in Nat
        /\ \A i \in 1 .. n : /\ audit[i].req \in Req
                             /\ call'[audit[i].req] = call[audit[i].req]
                             /\ since'[audit[i].req] = since[audit[i].req]
    BY OldEntries
  <1>2. ASSUME NEW i \in 1 .. n, audit[i].action \in Spends
        PROVE  LET t == call[audit[i].req].token
               IN  t \in Token /\ (t \in Req => pc[t] = "done") /\ Dead(t)
    <2>1. /\ call[audit[i].req].op \in {"refresh", "logout"} /\ pc[audit[i].req] # "idle"
      BY <1>1, <1>2 DEF LogInv, Past
    <2>2. Sent(audit[i].req)
      BY <1>1 DEF Inv
    <2>3. call[audit[i].req].token \in Token
      BY <1>1, <2>1, <2>2, Fields DEF Inv
    <2>4. Dead(call[audit[i].req].token)
      BY <1>1, <1>2 DEF SpentInv, SpentTokensStayDead, Spends
    <2> QED
      BY <2>1, <2>2, <2>3, <2>4 DEF Sent
  <1>3. ASSUME NEW i \in 1 .. n, audit[i].action \in Spends
        PROVE  DeadAfter(call[audit[i].req].token)
    BY <1>2, <1>3, DeadStays
  (* Requests that were at their UPDATE, or have just got there. *)
  <1>4. ASSUME NEW q \in Req, pc'[q] \in {"update", "commit"}, call'[q].op = "refresh",
               NEW i \in 1 .. n, audit[i].action \in Spends, call[audit[i].req].token = call'[q].token
        PROVE  since'[q] < i
    <2>1. pc[q] # "idle" /\ (pc[q] \in {"update", "commit"} \/ ~Dead(call[q].token))
      BY <1>4, Origins DEF RefreshOrigin
    <2>2. call'[q] = call[q] /\ since'[q] = since[q]
      BY <2>1, PastStays
    <2>3. Dead(call[q].token)
      BY <1>2, <1>4, <2>2
    <2> QED
      BY <1>1, <1>4, <2>1, <2>2, <2>3 DEF SpentInv
  <1>5. CASE audit' = audit
    <2>1. SpentTokensStayDead'
      BY <1>1, <1>3, <1>5 DEF SpentTokensStayDead, Spends, Dead, DeadAfter
    <2>2. ReuseOnlyIfOverlapping'
      BY <1>1, <1>5 DEF SpentInv, ReuseOnlyIfOverlapping
    <2> QED
      BY <1>1, <1>4, <1>5, <2>1, <2>2 DEF SpentInv
  <1>6. ASSUME NEW p \in Req, Kinds(p) PROVE SpentInv'
    <2>1. PICK action, u :
            /\ Grown(p, action, u) /\ pc[p] = "commit"
            /\ action = "TOKEN_REFRESHED" => Refreshes(p)
            /\ action = "LOGOUT" => LogsOut(p)
      BY <1>6, Growth
    <2>2. /\ DOMAIN audit' = 1 .. (n + 1)
          /\ \A i \in 1 .. n : audit'[i] = audit[i]
          /\ audit'[n + 1].action = action /\ audit'[n + 1].req = p
      BY <2>1 DEF Grown
    <2>3. /\ call'[p] = call[p] /\ since'[p] = since[p]
      BY <2>1, PastStays
    <2>4. action \in Spends => DeadAfter(call[p].token)
      BY <2>1 DEF Refreshes, LogsOut, Spends, DeadAfter
    <2>5. SpentTokensStayDead'
      <3> SUFFICES ASSUME NEW i \in 1 .. (n + 1), audit'[i].action \in Spends
                   PROVE  DeadAfter(call'[audit'[i].req].token)
        BY <2>2 DEF SpentTokensStayDead, Dead, DeadAfter, Spends
      <3>1. CASE i \in 1 .. n
        BY <1>1, <1>3, <2>2, <3>1
      <3>2. CASE i = n + 1
        BY <2>2, <2>3, <2>4, <3>2
      <3> QED
        BY <1>1, <3>1, <3>2
    <2>6. ReuseOnlyIfOverlapping'
      <3> SUFFICES ASSUME NEW i \in 1 .. (n + 1), NEW j \in 1 .. (n + 1), i < j,
                          audit'[i].action \in Spends, audit'[j].action = "TOKEN_REFRESHED",
                          call'[audit'[i].req].token = call'[audit'[j].req].token
                   PROVE  since'[audit'[j].req] < i
        BY <2>2 DEF ReuseOnlyIfOverlapping, Spends
      <3>1. i \in 1 .. n
        BY <1>1
      <3>2. CASE j \in 1 .. n
        BY <1>1, <2>2, <3>1, <3>2 DEF SpentInv, ReuseOnlyIfOverlapping, Spends
      <3>3. CASE j = n + 1
        <4>1. call[p].op = "refresh"
          BY <2>1, <2>2, <3>3 DEF Refreshes
        <4>2. since[p] < i
          BY <1>1, <2>1, <2>2, <2>3, <3>1, <3>3, <4>1 DEF SpentInv
        <4> QED
          BY <2>2, <2>3, <3>3, <4>2
      <3> QED
        BY <1>1, <3>2, <3>3
    <2>7. \A q \in Req : pc'[q] \in {"update", "commit"} /\ call'[q].op = "refresh" =>
            \A i \in DOMAIN audit' :
               audit'[i].action \in Spends /\ call'[audit'[i].req].token = call'[q].token => since'[q] < i
      <3> SUFFICES ASSUME NEW q \in Req, pc'[q] \in {"update", "commit"}, call'[q].op = "refresh",
                          NEW i \in 1 .. (n + 1), audit'[i].action \in Spends,
                          call'[audit'[i].req].token = call'[q].token
                   PROVE  since'[q] < i
        BY <2>2
      <3>1. CASE i \in 1 .. n
        BY <1>1, <1>4, <2>2, <3>1
      <3>2. CASE i = n + 1
        <4>1. pc[q] # "idle"
          BY Origins DEF RefreshOrigin
        <4>2. since'[q] = since[q] /\ since[q] <= n /\ since[q] \in Nat
          BY <4>1, PastStays DEF Inv, Sent, Typed
        <4> QED
          BY <1>1, <3>2, <4>2
      <3> QED
        BY <1>1, <3>1, <3>2
    <2> QED
      BY <2>5, <2>6, <2>7 DEF SpentInv
  <1> QED
    BY <1>5, <1>6, StepKinds DEF Silent

(* What a refresh has read holds in every state. *)
LEMMA SpentInvariance == Spec => []SpentInv
  <1>1. Init => SpentInv
    BY DEF Init, SpentInv, SpentTokensStayDead, ReuseOnlyIfOverlapping
  <1> QED
    BY <1>1, LogInvariance, SpentInvStep, PTL DEF Spec

(* A rotated or logged out token is never alive again, for any number of
   requests that hold copies of its row from before. *)
THEOREM SpentStaysDead == Spec => []SpentTokensStayDead
  <1>1. SpentInv => SpentTokensStayDead
    BY DEF SpentInv
  <1> QED
    BY <1>1, SpentInvariance, PTL

(* A refresh token works twice only for refreshes that overlap its first use. *)
THEOREM ReuseOverlaps == Spec => []ReuseOnlyIfOverlapping
  <1>1. SpentInv => ReuseOnlyIfOverlapping
    BY DEF SpentInv
  <1> QED
    BY <1>1, SpentInvariance, PTL

----------------------------------------------------------------------------
(* Tokens and the entries that say they were issued. *)

(* What a step does to a token that it does not issue: nothing, or it
   revokes it, or it deletes it after its time. *)
Lives(t) ==
    \/ refreshToken'[t] = refreshToken[t]
    \/ refreshToken'[t] = NoRow /\ t \in lapsed
    \/ /\ refreshToken[t] # NoRow /\ refreshToken'[t] # NoRow
       /\ refreshToken'[t].owner = refreshToken[t].owner

(* A token that a step makes anew belongs to the user of the entry. *)
LEMMA TokenSteps ==
    ASSUME Inv, NEW p \in Req, Kinds(p)
    PROVE  \E action, u :
             /\ Grown(p, action, u) /\ lapsed' = lapsed
             /\ \A t \in Token \ {p} : Lives(t)
             /\ action \in Issuing => refreshToken'[p] # NoRow /\ refreshToken'[p].owner = u
             /\ action \notin Issuing => Lives(p)
  <1>0. p \in Token
    BY DEF Token
  <1>1. PICK action, u :
          /\ Grown(p, action, u) /\ pc[p] = "commit" /\ lapsed' = lapsed
          /\ action = "USER_REGISTERED" => Registers(p) /\ u = call[p].email
          /\ action = "LOGIN_SUCCESS" => LogsIn(p) /\ u = call[p].email
          /\ action = "TOKEN_REFRESHED" => Refreshes(p) /\ u = seen[p].owner
          /\ action = "LOGOUT" => LogsOut(p)
          /\ action = "PASSWORD_RESET_COMPLETED" => Resets(p) /\ u = seen[p].owner
          /\ action \notin Issuing \cup Spends \cup {"PASSWORD_RESET_COMPLETED"} => Notes(p)
    BY Growth
  <1>2. CASE action \in {"USER_REGISTERED", "LOGIN_SUCCESS"}
    <2>1. Issues(p, u)
      BY <1>1, <1>2 DEF Registers, LogsIn
    <2>2. refreshToken'[p].owner = u
      BY <2>1 DEF Issues
    <2>3. action \in Issuing
      BY <1>2 DEF Issuing
    <2> QED
      BY <1>1, <2>1, <2>2, <2>3 DEF Issues, Lives
  <1>3. CASE action = "TOKEN_REFRESHED"
    <2>1. Refreshes(p) /\ u = seen[p].owner /\ action \in Issuing
      BY <1>1, <1>3 DEF Issuing
    <2>2. refreshToken'[p] # NoRow /\ refreshToken'[p].owner = u
      BY <2>1 DEF Refreshes
    <2>3. \A t \in Token \ {p} : Lives(t)
      BY <2>1 DEF Refreshes, Lives
    <2> QED
      BY <1>1, <2>1, <2>2, <2>3
  <1>4. CASE action = "LOGOUT"
    <2>1. LogsOut(p) /\ action \notin Issuing
      BY <1>1, <1>4 DEF Issuing
    <2>2. \A t \in Token : Lives(t)
      BY <2>1 DEF LogsOut, Lives
    <2> QED
      BY <1>0, <1>1, <2>1, <2>2
  <1>5. CASE action \notin Issuing \cup Spends
    <2>1. refreshToken' = refreshToken
      BY <1>1, <1>5 DEF Resets, Notes
    <2> QED
      BY <1>1, <1>5, <2>1 DEF Lives
  <1> QED
    BY <1>1, <1>2, <1>3, <1>4, <1>5 DEF Issuing, Spends

(* The property for one request's token. *)
Audited(p) ==
    /\ refreshToken[p] # NoRow =>
         \E i \in DOMAIN audit : /\ audit[i].req = p /\ audit[i].action \in Issuing
                                 /\ audit[i].user = refreshToken[p].owner
    /\ (\E i \in DOMAIN audit : audit[i].req = p /\ audit[i].action \in Issuing)
         => refreshToken[p] # NoRow \/ p \in lapsed

(* A step of any request keeps it. *)
LEMMA AuditedStep ==
    ASSUME Inv, LogInv, [Next]_vars, NEW p \in Req, Audited(p)
    PROVE  Audited(p)'
  <1> DEFINE n == Len(audit)
             IsIssue(i) == audit[i].req = p /\ audit[i].action \in Issuing
  <1>0. p \in Token
    BY DEF Token
  <1>1. DOMAIN audit = 1 .. n /\ n \in Nat
    BY OldEntries
  <1>2. CASE Silent
    <2>1. /\ audit' = audit /\ lapsed \subseteq lapsed'
          /\ refreshToken'[p] = refreshToken[p] \/ (refreshToken'[p] = NoRow /\ p \in lapsed)
      BY <1>0, <1>2 DEF Silent
    <2> QED
      BY <2>1 DEF Audited
  <1>3. ASSUME NEW q \in Req, Kinds(q) PROVE Audited(p)'
    <2>1. PICK action, u :
             /\ Grown(q, action, u) /\ lapsed' = lapsed
             /\ \A t \in Token \ {q} : Lives(t)
             /\ action \in Issuing => refreshToken'[q] # NoRow /\ refreshToken'[q].owner = u
             /\ action \notin Issuing => Lives(q)
      BY <1>3, TokenSteps
    <2>2. /\ DOMAIN audit' = 1 .. (n + 1)
          /\ \A i \in 1 .. n : audit'[i] = audit[i]
          /\ audit'[n + 1].action = action /\ audit'[n + 1].user = u /\ audit'[n + 1].req = q
      BY <2>1 DEF Grown
    <2>3. CASE p = q /\ action \in Issuing
      BY <1>1, <2>1, <2>2, <2>3 DEF Audited
    <2>4. CASE ~(p = q /\ action \in Issuing)
      <3>1. Lives(p)
        BY <1>0, <2>1, <2>4
      <3>2. \A i \in 1 .. n : audit'[i] = audit[i] /\ i \in 1 .. (n + 1)
        BY <1>1, <2>2
      <3>3. \A i \in 1 .. (n + 1) :
              audit'[i].req = p /\ audit'[i].action \in Issuing => i \in 1 .. n
        BY <1>1, <2>2, <2>4
      <3>4. refreshToken'[p] # NoRow =>
              refreshToken[p] # NoRow /\ refreshToken'[p].owner = refreshToken[p].owner
        BY <3>1 DEF Lives
      <3>5. refreshToken'[p] = NoRow => refreshToken[p] = NoRow \/ p \in lapsed
        BY <3>1 DEF Lives
      <3> QED
        BY <1>1, <2>1, <2>2, <3>2, <3>3, <3>4, <3>5 DEF Audited
    <2> QED
      BY <2>3, <2>4
  <1> QED
    BY <1>2, <1>3, StepKinds

(* Whoever crashes when: a token was issued by an entry that says so, and an
   entry that issued one left it in the table until its time. *)
THEOREM TokensAudited == Spec => []IssuedIsAudited
  <1> DEFINE AllAudited == \A p \in Req : Audited(p)
  <1>1. Init => AllAudited
    <2> SUFFICES ASSUME Init, NEW p \in Req PROVE Audited(p)
      OBVIOUS
    <2>1. refreshToken[p] = NoRow /\ DOMAIN audit = {}
      BY AuthAssumption DEF Init, Token
    <2> QED
      BY <2>1 DEF Audited
  <1>2. Inv /\ LogInv /\ AllAudited /\ [Next]_vars => AllAudited'
    <2> SUFFICES ASSUME Inv, LogInv, AllAudited, [Next]_vars, NEW p \in Req PROVE Audited(p)'
      OBVIOUS
    <2> QED
      BY AuditedStep
  <1>3. AllAudited => IssuedIsAudited
    BY DEF Audited, IssuedIsAudited
  <1> HIDE DEF AllAudited
  <1> QED
    BY <1>1, <1>2, <1>3, LogInvariance, PTL DEF Spec

----------------------------------------------------------------------------
(* Registrations and passwords. *)

(* Who registered is there. *)
Registered ==
    \A i \in DOMAIN audit : audit[i].action = "USER_REGISTERED" =>
        audit[i].user \in Email /\ user[audit[i].user] # NoRow

(* No step takes a user away. *)
LEMMA UsersStay ==
    ASSUME Inv, [Next]_vars
    PROVE  \A e \in Email : user[e] # NoRow => user'[e] # NoRow
  <1>1. CASE Silent
    BY <1>1 DEF Silent, SameUsers
  <1>2. ASSUME NEW p \in Req, Kinds(p)
        PROVE  \A e \in Email : user[e] # NoRow => user'[e] # NoRow
    BY <1>2 DEF Kinds, Registers, LogsIn, Refreshes, LogsOut, Resets, Notes, SameUsers
  <1> QED
    BY <1>1, <1>2, StepKinds

(* An address that is taken is not registered again. *)
LEMMA RegisteredStep ==
    ASSUME Inv, LogInv, Registered, OneRegistration, [Next]_vars
    PROVE  Registered' /\ OneRegistration'
  <1> DEFINE n == Len(audit)
  <1>1. DOMAIN audit = 1 .. n /\ n \in Nat
    BY OldEntries
  <1>2. CASE Silent
    <2>1. audit' = audit
      BY <1>2 DEF Silent
    <2> QED
      BY <2>1, UsersStay DEF Registered, OneRegistration
  <1>3. ASSUME NEW p \in Req, Kinds(p) PROVE Registered' /\ OneRegistration'
    <2>1. PICK action, u :
            Grown(p, action, u) /\ (action = "USER_REGISTERED" => Registers(p) /\ u = call[p].email)
      BY <1>3, Growth
    <2>2. /\ DOMAIN audit' = 1 .. (n + 1)
          /\ \A i \in 1 .. n : audit'[i] = audit[i]
          /\ audit'[n + 1].action = action /\ audit'[n + 1].user = u
      BY <2>1 DEF Grown
    <2>3. action = "USER_REGISTERED" => u \in Email /\ user[u] = NoRow /\ user'[u] # NoRow
      BY <2>1 DEF Registers
    <2>4. \A i \in 1 .. n : audit[i].action = "USER_REGISTERED" =>
             audit[i].user \in Email /\ user[audit[i].user] # NoRow
      BY <1>1 DEF Registered
    <2>5. Registered'
      <3> SUFFICES ASSUME NEW i \in 1 .. (n + 1), audit'[i].action = "USER_REGISTERED"
                   PROVE  audit'[i].user \in Email /\ user'[audit'[i].user] # NoRow
        BY <2>2 DEF Registered
      <3>1. i \in 1 .. n \/ i = n + 1
        BY <1>1
      <3> QED
        BY <2>2, <2>3, <2>4, <3>1, UsersStay
    <2>6. OneRegistration'
      <3> SUFFICES ASSUME NEW i \in 1 .. (n + 1), NEW j \in 1 .. (n + 1),
                          audit'[i].action = "USER_REGISTERED", audit'[j].action = "USER_REGISTERED",
                          audit'[i].user = audit'[j].user
                   PROVE  i = j
        BY <2>2 DEF OneRegistration
      <3>1. (i \in 1 .. n \/ i = n + 1) /\ (j \in 1 .. n \/ j = n + 1)
        BY <1>1
      <3>2. CASE i \in 1 .. n /\ j \in 1 .. n
        BY <1>1, <2>2, <3>2 DEF OneRegistration
      <3> QED
        BY <2>2, <2>3, <2>4, <3>1, <3>2
    <2> QED
      BY <2>5, <2>6
  <1> QED
    BY <1>2, <1>3, StepKinds

(* An address is registered once, for any number of racing registrations. *)
THEOREM RegistersOnce == Spec => []OneRegistration
  <1>1. Init => Registered /\ OneRegistration
    BY DEF Init, Registered, OneRegistration
  <1>2. Inv /\ LogInv /\ Registered /\ OneRegistration /\ [Next]_vars => Registered' /\ OneRegistration'
    BY RegisteredStep
  <1> QED
    BY <1>1, <1>2, LogInvariance, PTL DEF Spec

(* SetsPassword and InForce after a step. *)
SetsAfter(i, e) ==
    /\ audit'[i].user = e
    /\ audit'[i].action \in {"USER_REGISTERED", "PASSWORD_RESET_COMPLETED"}

InForceAfter(w, e, n) ==
    \/ /\ OpeningUser[e] # NoRow /\ w = OpeningUser[e].password
       /\ \A i \in 1 .. n : ~SetsAfter(i, e)
    \/ \E i \in 1 .. n :
         /\ SetsAfter(i, e)
         /\ w = call'[audit'[i].req].password
         /\ \A j \in (i + 1) .. n : ~SetsAfter(j, e)

(* What was in force after an entry remains so: the log only grows. *)
LEMMA HistoryStays ==
    ASSUME Inv, LogInv, [Next]_vars, NEW w, NEW e, NEW n \in 0 .. Len(audit), InForce(w, e, n)
    PROVE  InForceAfter(w, e, n)
  <1>1. /\ Len(audit) \in Nat
        /\ \A i \in 1 .. n : call'[audit[i].req] = call[audit[i].req]
    BY OldEntries
  <1>2. \A i \in 1 .. n : audit'[i] = audit[i]
    <2>1. ASSUME NEW p \in Req, Kinds(p) PROVE \A i \in 1 .. n : audit'[i] = audit[i]
      <3>1. \E action, u : Grown(p, action, u)
        BY <2>1, Growth
      <3> QED
        BY <1>1, <3>1 DEF Grown
    <2> QED
      BY <2>1, StepKinds DEF Silent
  <1>3. \A i \in 1 .. n : SetsAfter(i, e) <=> SetsPassword(i, e)
    BY <1>2 DEF SetsAfter, SetsPassword
  <1>4. \A i \in 1 .. n : \A j \in (i + 1) .. n : j \in 1 .. n
    BY <1>1
  <1> QED
    BY <1>1, <1>2, <1>3, <1>4 DEF InForce, InForceAfter

(* An entry that sets no password of e leaves the one in force. *)
LEMMA StillInForce ==
    ASSUME NEW w, NEW e, NEW n \in Nat, InForceAfter(w, e, n), ~SetsAfter(n + 1, e)
    PROVE  InForceAfter(w, e, n + 1)
  <1>1. \A i \in 1 .. (n + 1) : i \in 1 .. n \/ i = n + 1
    OBVIOUS
  <1>2. CASE /\ OpeningUser[e] # NoRow /\ w = OpeningUser[e].password
             /\ \A i \in 1 .. n : ~SetsAfter(i, e)
    BY <1>1, <1>2 DEF InForceAfter
  <1>3. ASSUME NEW i \in 1 .. n, SetsAfter(i, e), w = call'[audit'[i].req].password,
               \A j \in (i + 1) .. n : ~SetsAfter(j, e)
        PROVE  InForceAfter(w, e, n + 1)
    <2>1. i \in 1 .. (n + 1) /\ \A j \in (i + 1) .. (n + 1) : j \in (i + 1) .. n \/ j = n + 1
      OBVIOUS
    <2> QED
      BY <1>3, <2>1 DEF InForceAfter
  <1> QED
    BY <1>2, <1>3 DEF InForceAfter

(* A login under way has read a password that was in force since it came. *)
LoginInv ==
    \A q \in Req :
        pc[q] = "commit" /\ call[q].op = "login" /\ seen[q] # NoRow /\ seen[q].password = call[q].password
        => \E n \in since[q] .. Len(audit) : InForce(call[q].password, call[q].email, n)

(* What a step does to the password of e: nothing, or it is one that sets it. *)
LEMMA PasswordKinds ==
    ASSUME Inv, NEW p \in Req, Kinds(p), NEW e \in Email
    PROVE  \E action, u :
             /\ Grown(p, action, u) /\ pc[p] = "commit"
             /\ action = "LOGIN_SUCCESS" => LogsIn(p) /\ u = call[p].email
             /\ \/ SetsAfter(Len(audit) + 1, e) /\ user'[e].password = call[p].password
                \/ /\ ~SetsAfter(Len(audit) + 1, e)
                   /\ user[e] = NoRow <=> user'[e] = NoRow
                   /\ user[e] # NoRow => user'[e].password = user[e].password
  <1>1. PICK action, u :
          /\ Grown(p, action, u) /\ pc[p] = "commit" /\ lapsed' = lapsed
          /\ action = "USER_REGISTERED" => Registers(p) /\ u = call[p].email
          /\ action = "LOGIN_SUCCESS" => LogsIn(p) /\ u = call[p].email
          /\ action = "TOKEN_REFRESHED" => Refreshes(p) /\ u = seen[p].owner
          /\ action = "LOGOUT" => LogsOut(p)
          /\ action = "PASSWORD_RESET_COMPLETED" => Resets(p) /\ u = seen[p].owner
          /\ action \notin Issuing \cup Spends \cup {"PASSWORD_RESET_COMPLETED"} => Notes(p)
    BY Growth
  <1>2. SetsAfter(Len(audit) + 1, e)
          <=> u = e /\ action \in {"USER_REGISTERED", "PASSWORD_RESET_COMPLETED"}
    BY <1>1 DEF Grown, SetsAfter
  <1>3. CASE action = "USER_REGISTERED"
    BY <1>1, <1>2, <1>3 DEF Registers
  <1>4. CASE action = "PASSWORD_RESET_COMPLETED"
    BY <1>1, <1>2, <1>4 DEF Resets
  <1>5. CASE action \notin {"USER_REGISTERED", "PASSWORD_RESET_COMPLETED"}
    <2>1. SameUsers
      BY <1>1, <1>5 DEF LogsIn, Refreshes, LogsOut, Notes, Issuing, Spends
    <2> QED
      BY <1>1, <1>2, <1>5, <2>1 DEF SameUsers
  <1> QED
    BY <1>3, <1>4, <1>5

(* A step sets a password and logs it, or does neither. *)
LEMMA PasswordStep ==
    ASSUME Inv, LogInv, PasswordIsLastSet, [Next]_vars
    PROVE  PasswordIsLastSet'
  <1> DEFINE n == Len(audit)
  <1> SUFFICES ASSUME NEW e \in Email, user'[e] # NoRow
               PROVE  InForceAfter(user'[e].password, e, Len(audit'))
    BY DEF PasswordIsLastSet, InForce, SetsPassword, InForceAfter, SetsAfter
  <1>1. n \in Nat
    BY OldEntries
  <1>2. ASSUME user[e] # NoRow PROVE InForceAfter(user[e].password, e, n)
    <2>1. PICK w : w = user[e].password
      OBVIOUS
    <2>2. InForce(w, e, n)
      BY <1>2, <2>1 DEF PasswordIsLastSet
    <2>3. InForceAfter(w, e, n)
      BY <1>1, <2>2, HistoryStays
    <2> QED
      BY <2>1, <2>3
  <1>3. CASE Silent
    <2>1. user[e] # NoRow /\ user'[e].password = user[e].password /\ audit' = audit
      BY <1>3 DEF Silent, SameUsers
    <2> QED
      BY <1>2, <2>1
  <1>4. ASSUME NEW p \in Req, Kinds(p)
        PROVE  InForceAfter(user'[e].password, e, Len(audit'))
    <2>1. PICK action, u :
             /\ Grown(p, action, u) /\ pc[p] = "commit"
             /\ \/ SetsAfter(n + 1, e) /\ user'[e].password = call[p].password
                \/ /\ ~SetsAfter(n + 1, e)
                   /\ user[e] = NoRow <=> user'[e] = NoRow
                   /\ user[e] # NoRow => user'[e].password = user[e].password
      BY <1>4, PasswordKinds
    <2>2. Len(audit') = n + 1 /\ audit'[n + 1].req = p /\ call'[p] = call[p]
      BY <2>1, PastStays DEF Grown
    <2>3. CASE SetsAfter(n + 1, e) /\ user'[e].password = call[p].password
      <3>1. n + 1 \in 1 .. (n + 1) /\ (n + 1 + 1) .. (n + 1) = {}
        BY <1>1
      <3> QED
        BY <2>2, <2>3, <3>1 DEF InForceAfter
    <2>4. CASE /\ ~SetsAfter(n + 1, e)
               /\ user[e] = NoRow <=> user'[e] = NoRow
               /\ user[e] # NoRow => user'[e].password = user[e].password
      <3>1. PICK w : w = user[e].password /\ w = user'[e].password
        BY <2>4
      <3>2. InForceAfter(w, e, n)
        BY <1>2, <2>4, <3>1
      <3>3. PICK m : m = n
        OBVIOUS
      <3>4. InForceAfter(w, e, m + 1)
        BY <1>1, <2>4, <3>2, <3>3, StillInForce
      <3> QED
        BY <2>2, <3>1, <3>3, <3>4
    <2> QED
      BY <2>1, <2>3, <2>4
  <1> QED
    BY <1>3, <1>4, StepKinds

(* The password that a login compares with was in force when it read it. *)
LEMMA LoginStep ==
    ASSUME Inv, LogInv, PasswordIsLastSet, LoginInv, ReplacedPasswordRefused, [Next]_vars
    PROVE  LoginInv' /\ ReplacedPasswordRefused'
  <1> DEFINE n == Len(audit)
  <1>1. /\ DOMAIN audit = 1 .. n /\ n \in Nat /\ since \in [Req -> Nat]
        /\ \A i \in 1 .. n : /\ audit[i].req \in Req
                             /\ call'[audit[i].req] = call[audit[i].req]
                             /\ since'[audit[i].req] = since[audit[i].req]
    BY OldEntries DEF Inv, Typed
  <1>2. audit' = audit \/ \E p \in Req : Kinds(p)
    BY StepKinds DEF Silent
  <1>3. ASSUME NEW p \in Req, Kinds(p) PROVE Len(audit') = n + 1
    <2>1. \E action, u : Grown(p, action, u)
      BY <1>3, Growth
    <2> QED
      BY <2>1 DEF Grown
  <1>4. Len(audit') \in Nat /\ n <= Len(audit')
    BY <1>1, <1>2, <1>3
  (* A login that has read its user, or reads it now. *)
  <1>5. ASSUME NEW q \in Req, pc'[q] = "commit", call'[q].op = "login",
               seen'[q] # NoRow, seen'[q].password = call'[q].password
        PROVE  \E k \in since'[q] .. Len(audit') : InForceAfter(call'[q].password, call'[q].email, k)
    <2>1. /\ pc[q] # "idle"
          /\ \/ pc[q] = "commit" /\ seen'[q] = seen[q]
             \/ seen'[q] = user[call[q].email] /\ audit' = audit
      BY <1>5, Origins DEF LoginOrigin
    <2>2. call'[q] = call[q] /\ since'[q] = since[q]
      BY <2>1, PastStays
    <2>3. call[q].email \in Email /\ since[q] <= n
      BY <1>5, <2>1, <2>2, Fields DEF Inv, Sent
    <2>4. \E k \in since[q] .. n : InForce(call[q].password, call[q].email, k)
      <3>1. CASE pc[q] = "commit" /\ seen'[q] = seen[q]
        BY <1>5, <2>2, <3>1 DEF LoginInv
      <3>2. CASE seen'[q] = user[call[q].email] /\ audit' = audit
        <4>1. InForce(user[call[q].email].password, call[q].email, n)
          BY <1>5, <2>3, <3>2 DEF PasswordIsLastSet
        <4>2. InForce(call[q].password, call[q].email, n)
          BY <1>5, <2>2, <3>2, <4>1
        <4>3. n \in since[q] .. n
          BY <1>1, <2>3
        <4> QED
          BY <4>2, <4>3
      <3> QED
        BY <2>1, <3>1, <3>2
    <2>5. PICK k \in since[q] .. n : InForce(call[q].password, call[q].email, k)
      BY <2>4
    <2>6. PICK w, e : w = call[q].password /\ e = call[q].email
      OBVIOUS
    <2>7. k \in 0 .. n /\ k \in since[q] .. Len(audit')
      BY <1>1, <1>4
    <2>8. InForceAfter(w, e, k)
      BY <2>5, <2>6, <2>7, HistoryStays
    <2> QED
      BY <2>2, <2>6, <2>7, <2>8
  <1>6. LoginInv'
    BY <1>5 DEF LoginInv, InForce, SetsPassword, InForceAfter, SetsAfter
  (* Logins that were logged before this step. *)
  <1>7. ASSUME NEW j \in 1 .. n, audit[j].action = "LOGIN_SUCCESS"
        PROVE  \E k \in since[audit[j].req] .. (j - 1) :
                  InForceAfter(call[audit[j].req].password, audit[j].user, k)
    <2>1. \E k \in since[audit[j].req] .. (j - 1) :
             InForce(call[audit[j].req].password, audit[j].user, k)
      BY <1>1, <1>7 DEF ReplacedPasswordRefused
    <2>2. PICK k \in since[audit[j].req] .. (j - 1) :
            InForce(call[audit[j].req].password, audit[j].user, k)
      BY <2>1
    <2>3. PICK w, e : w = call[audit[j].req].password /\ e = audit[j].user
      OBVIOUS
    <2>4. k \in 0 .. n
      BY <1>1
    <2>5. InForceAfter(w, e, k)
      BY <2>2, <2>3, <2>4, HistoryStays
    <2> QED
      BY <2>3, <2>5
  <1>8. ASSUME NEW j \in DOMAIN audit', audit'[j].action = "LOGIN_SUCCESS"
        PROVE  \E k \in since'[audit'[j].req] .. (j - 1) :
                  InForceAfter(call'[audit'[j].req].password, audit'[j].user, k)
    <2>1. CASE audit' = audit
      BY <1>1, <1>7, <1>8, <2>1
    <2>2. ASSUME NEW p \in Req, Kinds(p)
          PROVE  \E k \in since'[audit'[j].req] .. (j - 1) :
                    InForceAfter(call'[audit'[j].req].password, audit'[j].user, k)
      <3>1. PICK action, u :
              /\ Grown(p, action, u) /\ pc[p] = "commit"
              /\ action = "LOGIN_SUCCESS" => LogsIn(p) /\ u = call[p].email
        BY <2>2, Growth
      <3>2. /\ DOMAIN audit' = 1 .. (n + 1)
            /\ \A i \in 1 .. n : audit'[i] = audit[i]
            /\ audit'[n + 1].action = action /\ audit'[n + 1].user = u /\ audit'[n + 1].req = p
        BY <3>1 DEF Grown
      <3>3. CASE j \in 1 .. n
        BY <1>1, <1>7, <1>8, <3>2, <3>3
      <3>4. CASE j = n + 1
        <4>1. LogsIn(p) /\ u = call[p].email
          BY <1>8, <3>1, <3>2, <3>4
        <4>2. \E k \in since[p] .. n : InForce(call[p].password, call[p].email, k)
          BY <3>1, <4>1 DEF LogsIn, LoginInv
        <4>3. PICK k \in since[p] .. n : InForce(call[p].password, call[p].email, k)
          BY <4>2
        <4>4. PICK w, e : w = call[p].password /\ e = call[p].email
          OBVIOUS
        <4>5. k \in 0 .. n /\ j - 1 = n
          BY <1>1, <3>4
        <4>6. InForceAfter(w, e, k)
          BY <4>3, <4>4, <4>5, HistoryStays
        <4>7. call'[p] = call[p] /\ since'[p] = since[p]
          BY <3>1, PastStays
        <4> QED
          BY <3>2, <3>4, <4>1, <4>4, <4>5, <4>6, <4>7
      <3> QED
        BY <1>1, <1>8, <3>2, <3>3, <3>4
    <2> QED
      BY <1>2, <2>1, <2>2
  <1>9. ReplacedPasswordRefused'
    BY <1>8 DEF ReplacedPasswordRefused, InForce, SetsPassword, InForceAfter, SetsAfter
  <1> QED
    BY <1>6, <1>9

(* A profile update never brings an old password back, and a reset that was
   logged has taken effect, for any number of users and requests. *)
THEOREM PasswordLastSet == Spec => []PasswordIsLastSet
  <1>1. Init => PasswordIsLastSet
    BY AuthAssumption DEF Init, PasswordIsLastSet, InForce
  <1>2. Inv /\ LogInv /\ PasswordIsLastSet /\ [Next]_vars => PasswordIsLastSet'
    BY PasswordStep
  <1> QED
    BY <1>1, <1>2, LogInvariance, PTL DEF Spec

(* A login succeeds only with a password that was in force while it ran,
   whatever resets commit between its read and its own commit. *)
THEOREM OldPasswordRefused == Spec => []ReplacedPasswordRefused
  <1>1. Init => LoginInv /\ ReplacedPasswordRefused
    BY DEF Init, LoginInv, ReplacedPasswordRefused
  <1>2. /\ Inv /\ LogInv /\ PasswordIsLastSet /\ LoginInv /\ ReplacedPasswordRefused /\ [Next]_vars
        => LoginInv' /\ ReplacedPasswordRefused'
    BY LoginStep
  <1> QED
    BY <1>1, <1>2, LogInvariance, PasswordLastSet, PTL DEF Spec
----------------------------------------------------------------------------
(* Every handler comes to its end. *)

(* The rows that the next statement of a request waits for while others
   hold them: its UPDATE, or its INSERT into the unique index. *)
Needs(p) ==
    {row \in Row :
        \/ At(p, "register", "insert") /\ row = <<"user", call[p].email>>
        \/ pc[p] = "update" /\ call[p].op \in {"refresh", "logout"} /\ row = <<"refresh", call[p].token>>
        \/ At(p, "reset", "update") /\ row = <<"user", seen[p].owner>>
        \/ At(p, "reset", "mark") /\ row = <<"reset", call[p].token>>
        \/ /\ At(p, "profile", "update") /\ call[p].name \notin {NoName, seen[p].name}
           /\ row = <<"user", call[p].email>>}

WaitsFor(p) == {q \in Req : held[q] \cap Needs(p) # {}}

(* A request that waits takes no step of its own. *)
LEMMA WaitersStand ==
    ASSUME NEW p \in Req, Handle(p)
    PROVE  WaitsFor(p) = {}
  <1>1. \A row \in Needs(p) : Free(row)
    <2> SUFFICES ASSUME NEW row \in Needs(p) PROVE Free(row)
      OBVIOUS
    <2>1. CASE pc[p] = "insert"
      <3>1. At(p, "register", "insert") /\ row = <<"user", call[p].email>>
        BY <2>1 DEF Needs, At
      <3>2. RegisterInsert(p)
        BY <2>1 DEF Handle, Authenticate, RegisterRead, RegisterCommit, LoginRead, LoginCommit, RefreshRead,
           RevokeRow, RefreshCommit, LogoutRead, LogoutCommit, ForgotRead, ForgotCommit, ResetRead,
           ResetPassword, ResetMark, ResetCommit, ProfileWrite, ProfileCommit, Deliver, At
      <3> QED BY <3>1, <3>2 DEF RegisterInsert
    <2>2. CASE pc[p] \in {"update", "mark"}
      <3>1. RevokeRow(p) \/ ResetPassword(p) \/ ResetMark(p) \/ ProfileWrite(p)
        BY <2>2 DEF Handle, Authenticate, RegisterRead, RegisterInsert, RegisterCommit, LoginRead, LoginCommit,
           RefreshRead, RefreshCommit, LogoutRead, LogoutCommit, ForgotRead, ForgotCommit, ResetRead,
           ResetCommit, ProfileCommit, Deliver, At
      <3> QED BY <2>2, <3>1 DEF RevokeRow, ResetPassword, ResetMark, ProfileWrite, Needs, At
    <2> QED BY <2>1, <2>2 DEF Needs, At
  <1> QED BY <1>1 DEF WaitsFor, Free

(* A reset that has its user's row, and not yet its ticket, holds no other. *)
HoldsUser ==
    \A p \in Req : pc[p] = "mark" => call[p].op = "reset" /\ held[p] = {<<"user", seen[p].owner>>}

(* A request reaches its second UPDATE with its first row and no other. *)
LEMMA HoldsUserStep == Inv /\ HoldsUser /\ [Next]_vars => HoldsUser'
  <1> SUFFICES ASSUME Inv, HoldsUser, [Next]_vars, NEW q \in Req, pc'[q] = "mark"
               PROVE  call'[q].op = "reset" /\ held'[q] = {<<"user", seen'[q].owner>>}
    BY DEF HoldsUser
  <1>1. /\ pc \in [Req -> Stage] /\ call \in [Req -> Call \cup {NoCall}]
        /\ held \in [Req -> SUBSET Row]
        /\ seen \in [Req -> UserRow \cup TokenRow \cup TicketRow \cup {NoRow}]
    BY DEF Inv, Typed
  <1>2. CASE pc'[q] = pc[q] /\ call'[q] = call[q] /\ held'[q] = held[q] /\ seen'[q] = seen[q]
    BY <1>2 DEF HoldsUser
  <1>3. ASSUME Arrive(q) \/ Handle(q) \/ Crash(q)
        PROVE  ResetPassword(q)
    <2> USE <1>1, <1>3 DEF Goto
    <2>1. ~Arrive(q) /\ ~Crash(q) /\ ~Deliver(q)
      BY DEF Arrive, Crash, Deliver
    <2>2. ~Authenticate(q) /\ ~RegisterRead(q) /\ ~LoginRead(q) /\ ~RefreshRead(q)
      BY DEF Authenticate, RegisterRead, LoginRead, RefreshRead, Refuse, Read
    <2>3. ~LogoutRead(q) /\ ~ForgotRead(q) /\ ~ResetRead(q)
      BY DEF LogoutRead, ForgotRead, ResetRead, Refuse, Read
    <2>4. ~RegisterInsert(q) /\ ~RevokeRow(q) /\ ~ResetMark(q) /\ ~ProfileWrite(q)
      BY DEF RegisterInsert, RevokeRow, ResetMark, ProfileWrite, Refuse, Read, Write
    <2>5. ~RegisterCommit(q) /\ ~LoginCommit(q) /\ ~RefreshCommit(q) /\ ~LogoutCommit(q)
      BY DEF RegisterCommit, LoginCommit, RefreshCommit, LogoutCommit, Commit
    <2>6. ~ForgotCommit(q) /\ ~ResetCommit(q) /\ ~ProfileCommit(q)
      BY DEF ForgotCommit, ResetCommit, ProfileCommit, Commit
    <2> QED
      BY <2>1, <2>2, <2>3, <2>4, <2>5, <2>6 DEF Handle
  <1>4. CASE ResetPassword(q)
    <2>1. held[q] = {} /\ call[q].op = "reset"
      BY <1>4 DEF ResetPassword, At, Inv, Knows
    <2> QED BY <1>1, <1>4, <2>1 DEF ResetPassword, Write
  <1>5. CASE \E p \in Req \ {q} : Arrive(p) \/ Handle(p) \/ Crash(p)
    BY <1>2, <1>5, RequestStep DEF Good, Stays
  <1>6. CASE \/ UNCHANGED vars \/ Cleanup
             \/ \E t \in Token \cup Ticket : Lapse(t)
             \/ \E e \in Email : Suspend(e)
    BY <1>2, <1>6 DEF vars, Cleanup, Lapse, Suspend
  <1> QED BY <1>3, <1>4, <1>5, <1>6 DEF Next

(* Whoever holds a ticket is about to commit, so waiting for it ends. *)
LEMMA HoldersGoOn ==
    ASSUME Inv, HoldsUser, NEW S \in (SUBSET Req) \ {{}}
    PROVE  \E p \in S : WaitsFor(p) \cap S = {}
  <1>1. SUFFICES ASSUME \A p \in S : \E q \in S : q \in WaitsFor(p) PROVE FALSE
    OBVIOUS
  <1>2. ASSUME NEW p \in S, NEW q \in S, q \in WaitsFor(p)
        PROVE  pc[q] = "mark" /\ held[q] = {<<"user", seen[q].owner>>}
    <2>1. pc[q] \in {"mark", "commit"}
      BY <1>2 DEF WaitsFor, Inv, Knows
    <2>2. PICK r \in S : r \in WaitsFor(q)
      BY <1>1
    <2>3. pc[q] # "commit"
      BY <2>2 DEF WaitsFor, Needs, At
    <2> QED BY <2>1, <2>3 DEF HoldsUser
  <1>3. PICK p \in S, q \in S : q \in WaitsFor(p)
    BY <1>1
  <1>4. PICK r \in S : r \in WaitsFor(q)
    BY <1>1
  <1>5. Needs(q) \subseteq {<<"reset", call[q].token>>}
    BY <1>2, <1>3 DEF Needs, At
  <1>6. held[r] = {<<"user", seen[r].owner>>}
    BY <1>2, <1>4
  <1>7. <<"reset", call[q].token>> \in held[r]
    BY <1>4, <1>5 DEF WaitsFor
  <1> QED BY <1>6, <1>7

(* No circular wait among the rows that requests update and insert. *)
NoCircularWait ==
    \A S \in (SUBSET Req) \ {{}} : \E p \in S : WaitsFor(p) \cap S = {}

(* The UPDATE of a password and that of its ticket, of any number of resets
   and beside registrations, profile updates and refreshes, never wait for
   each other in a circle. *)
THEOREM DeadlockFree == Spec => []NoCircularWait
  <1>1. Init => HoldsUser
    BY DEF Init, HoldsUser
  <1>2. Inv /\ HoldsUser => NoCircularWait
    BY HoldersGoOn DEF NoCircularWait
  <1> QED
    BY <1>1, <1>2, HoldsUserStep, Invariance, PTL DEF Spec

(* The request that holds a refresh token waits for nothing: the daily
   DELETE, which collects its rows one by one, is never part of a circle. *)
TokenHoldersGoOn ==
    \A p \in Req, t \in Token : <<"refresh", t>> \in held[p] => Needs(p) = {}

(* So the daily task waits for commits only, never for a request that waits. *)
THEOREM CleanupWaitsForCommits == Spec => []TokenHoldersGoOn
  <1>1. Init => HoldsUser
    BY DEF Init, HoldsUser
  <1>2. Inv /\ HoldsUser => TokenHoldersGoOn
    <2> SUFFICES ASSUME Inv, HoldsUser, NEW p \in Req, NEW t \in Token, <<"refresh", t>> \in held[p]
                 PROVE  Needs(p) = {}
      BY DEF TokenHoldersGoOn
    <2>1. pc[p] \in {"mark", "commit"}
      BY DEF Inv, Knows
    <2>2. pc[p] # "mark"
      <3>1. <<"refresh", t>> # <<"user", seen[p].owner>>
        OBVIOUS
      <3> QED BY <3>1 DEF HoldsUser
    <2> QED BY <2>1, <2>2 DEF Needs, At
  <1> QED
    BY <1>1, <1>2, HoldsUserStep, Invariance, PTL DEF Spec

(* The steps a request has at most before it, its crash aside. *)
StepsLeft == [idle |-> 8, authenticate |-> 7, read |-> 6, insert |-> 5, update |-> 4,
              mark |-> 3, commit |-> 2, reply |-> 1, done |-> 0, crashed |-> 0]

toGo == [p \in Req |-> StepsLeft[pc[p]]]

(* No step takes a request back, and its own take it on. *)
Advance == \A p \in Req : /\ toGo'[p] <= toGo[p]
                          /\ Handle(p) => toGo'[p] < toGo[p]

ToGoOK == toGo \in [Req -> 0 .. 8]

LEMMA ToGoType == Inv => ToGoOK
  <1> SUFFICES ASSUME Inv PROVE ToGoOK
    OBVIOUS
  <1>1. pc \in [Req -> Stage]
    BY DEF Inv, Typed
  <1>2. \A l \in Stage : StepsLeft[l] \in 0 .. 8
    BY DEF Stage, StepsLeft, InFlight
  <1> QED BY <1>1, <1>2 DEF toGo, ToGoOK

LEMMA NextInv == Inv /\ [Next]_vars => Inv'
  BY RequestStep, GoodIsEnough, CleanupStep, SuspendStep, LapseStep DEF Next

LEMMA ToGoTypeNext ==
    ASSUME Inv, [Next]_vars
    PROVE  ToGoOK'
  <1>1. Inv'
    BY NextInv
  <1> QED BY <1>1, ToGoType, PTL

(* A handler has no loop: each step leads to a later one. *)
LEMMA HandleAdvances ==
    ASSUME Inv, NEW p \in Req, Handle(p)
    PROVE  toGo'[p] < toGo[p]
  <1>0. pc \in [Req -> Stage]
    BY DEF Inv, Typed
  <1>1. ASSUME NEW l, Goto(p, l), l \in DOMAIN StepsLeft, StepsLeft[l] < StepsLeft[pc[p]]
        PROVE  toGo'[p] < toGo[p]
    BY <1>0, <1>1 DEF toGo, Goto
  <1>2. CASE Authenticate(p)
    BY <1>1, <1>2 DEF Authenticate, Refuse, Read, StepsLeft
  <1>3. CASE RegisterRead(p) \/ LoginRead(p) \/ RefreshRead(p)
    BY <1>1, <1>3 DEF RegisterRead, LoginRead, RefreshRead, Refuse, Read, StepsLeft, At
  <1>4. CASE LogoutRead(p) \/ ForgotRead(p) \/ ResetRead(p)
    BY <1>1, <1>4 DEF LogoutRead, ForgotRead, ResetRead, Refuse, Read, StepsLeft, At
  <1>5. CASE RegisterInsert(p) \/ RevokeRow(p) \/ ResetPassword(p) \/ ResetMark(p)
    BY <1>1, <1>5 DEF RegisterInsert, RevokeRow, ResetPassword, ResetMark, Refuse, Write, StepsLeft, At
  <1>6. CASE ProfileWrite(p)
    BY <1>1, <1>6 DEF ProfileWrite, Read, Write, StepsLeft, At
  <1>7. CASE RegisterCommit(p) \/ LoginCommit(p) \/ RefreshCommit(p) \/ LogoutCommit(p)
    BY <1>1, <1>7 DEF RegisterCommit, LoginCommit, RefreshCommit, LogoutCommit, Commit, StepsLeft, At
  <1>8. CASE ForgotCommit(p) \/ ResetCommit(p) \/ ProfileCommit(p) \/ Deliver(p)
    BY <1>1, <1>8 DEF ForgotCommit, ResetCommit, ProfileCommit, Deliver, Commit, StepsLeft, At
  <1> QED
    BY <1>2, <1>3, <1>4, <1>5, <1>6, <1>7, <1>8 DEF Handle

LEMMA StepAdvances ==
    ASSUME Inv, [Next]_vars
    PROVE  Advance
  <1> SUFFICES ASSUME NEW q \in Req
               PROVE  toGo'[q] <= toGo[q] /\ (Handle(q) => toGo'[q] < toGo[q])
    BY DEF Advance
  <1>0. toGo[q] \in 0 .. 8
    BY ToGoType DEF ToGoOK
  <1>1. CASE Handle(q)
    <2>1. toGo'[q] < toGo[q] /\ toGo'[q] \in 0 .. 8
      BY <1>1, HandleAdvances, ToGoTypeNext DEF ToGoOK
    <2> QED BY <1>0, <2>1
  <1>2. ASSUME pc'[q] = pc[q], ~Handle(q)
        PROVE  toGo'[q] <= toGo[q] /\ (Handle(q) => toGo'[q] < toGo[q])
    BY <1>0, <1>2 DEF toGo
  <1>3. ASSUME NEW p \in Req \ {q}, Arrive(p) \/ Handle(p) \/ Crash(p), ~Handle(q)
        PROVE  toGo'[q] <= toGo[q] /\ (Handle(q) => toGo'[q] < toGo[q])
    BY <1>2, <1>3, RequestStep DEF Good, Stays
  <1>4. CASE (Arrive(q) \/ Crash(q)) /\ ~Handle(q)
    <2>1. pc \in [Req -> Stage]
      BY DEF Inv, Typed
    <2>2. \/ pc[q] = "idle" /\ pc'[q] \in {"authenticate", "read"}
          \/ pc'[q] = "crashed"
      BY <1>4, <2>1 DEF Arrive, Crash, Goto
    <2> QED BY <1>0, <1>4, <2>2 DEF toGo, StepsLeft
  <1>5. CASE /\ \/ UNCHANGED vars \/ Cleanup
                \/ \E t \in Token \cup Ticket : Lapse(t)
                \/ \E e \in Email : Suspend(e)
             /\ ~Handle(q)
    BY <1>2, <1>5 DEF vars, Cleanup, Lapse, Suspend
  <1> QED BY <1>1, <1>3, <1>4, <1>5 DEF Next

(* A request is never taken back to an earlier stage, and each of its steps
   takes it to a later one. *)
THEOREM HandlersAdvance == Spec => [][Advance]_vars
  <1>1. Inv /\ [Next]_vars => [Advance]_vars
    BY StepAdvances
  <1> QED BY <1>1, Invariance, PTL DEF Spec

(* So every request takes finitely many steps, whatever the others do: with
   DeadlockFree, what EveryRequestEnds rests on. *)
THEOREM HandlersStop ==
    ASSUME NEW p \in Req
    PROVE  Spec => <>[][~Handle(p)]_vars
  <1> DEFINE AtMost(n) == toGo[p] <= n
  <1>1. Inv => AtMost(8)
    BY ToGoType DEF ToGoOK
  <1>2. ASSUME Inv, [Next]_vars, NEW n \in 0 .. 8
        PROVE  /\ AtMost(n) => AtMost(n)'
               /\ Handle(p) /\ AtMost(n) => n > 0 /\ AtMost(n - 1)'
    <2>1. Advance /\ toGo[p] \in 0 .. 8 /\ toGo'[p] \in 0 .. 8
      BY <1>2, StepAdvances, ToGoType, ToGoTypeNext DEF ToGoOK
    <2>2. toGo'[p] <= toGo[p] /\ (Handle(p) => toGo'[p] < toGo[p])
      BY <2>1 DEF Advance
    <2> QED BY <2>1, <2>2
  <1> HIDE DEF AtMost
  <1>3. ASSUME Inv, [Next]_vars
        PROVE  /\ AtMost(0) => AtMost(0)' /\ [~Handle(p)]_vars
               /\ AtMost(1) => AtMost(1)' /\ ([~Handle(p)]_vars \/ AtMost(0)')
               /\ AtMost(2) => AtMost(2)' /\ ([~Handle(p)]_vars \/ AtMost(1)')
               /\ AtMost(3) => AtMost(3)' /\ ([~Handle(p)]_vars \/ AtMost(2)')
               /\ AtMost(4) => AtMost(4)' /\ ([~Handle(p)]_vars \/ AtMost(3)')
               /\ AtMost(5) => AtMost(5)' /\ ([~Handle(p)]_vars \/ AtMost(4)')
               /\ AtMost(6) => AtMost(6)' /\ ([~Handle(p)]_vars \/ AtMost(5)')
               /\ AtMost(7) => AtMost(7)' /\ ([~Handle(p)]_vars \/ AtMost(6)')
               /\ AtMost(8) => AtMost(8)' /\ ([~Handle(p)]_vars \/ AtMost(7)')
    BY <1>2, <1>3
  <1> QED BY <1>1, <1>3, Invariance, PTL DEF Spec
====
