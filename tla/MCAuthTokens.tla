---- MODULE MCAuthTokens ----
(***************************************************************************)
(* A small instance of AuthTokens: alice is registered and holds a refresh *)
(* token and a reset ticket, bob is not registered yet.                    *)
(***************************************************************************)
EXTENDS AuthTokens, TLC

CONSTANTS p1, p2, alice, bob, token, reset

MCOpeningUser ==
    alice :> [password |-> "old", name |-> "a", status |-> "active"] @@ bob :> NoRow
MCOpeningToken == token :> [owner |-> alice, revoked |-> FALSE]
MCOpeningTicket == reset :> [owner |-> alice, used |-> FALSE]

Refreshes == {[op |-> "refresh", token |-> t] : t \in {token} \cup Req}
Logouts == {[op |-> "logout", email |-> alice, token |-> t] : t \in {token} \cup Req}
Resets == {[op |-> "reset", token |-> t, password |-> "new"] : t \in {reset} \cup Req}
Logins == {[op |-> "login", email |-> alice, password |-> w] : w \in {"old", "new"}}

AllCalls ==
    Refreshes \cup Logouts \cup Resets \cup Logins \cup
    {[op |-> "register", email |-> bob, password |-> "old", name |-> "b"],
     [op |-> "register", email |-> alice, password |-> "new", name |-> "b"],
     [op |-> "login", email |-> bob, password |-> "old"],
     [op |-> "forgot", email |-> alice],
     [op |-> "forgot", email |-> bob],
     [op |-> "logout", email |-> bob, token |-> token],
     [op |-> "profile", email |-> alice, name |-> "b"],
     [op |-> "profile", email |-> alice, name |-> NoName]}

OneToken == {[op |-> "refresh", token |-> token]}
OneTicket == {[op |-> "reset", token |-> reset, password |-> "new"]}
====
