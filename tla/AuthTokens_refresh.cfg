SPECIFICATION Spec
CONSTANTS
    p1 = p1
    p2 = p2
    alice = alice
    bob = bob
    token = token
    reset = reset
    Req = {p1, p2}
    Email = {alice, bob}
    Password = {"old", "new"}
    Name = {"a", "b"}
    NoName = NoName
    OldToken = {token}
    OldTicket = {reset}
    OpeningUser <- MCOpeningUser
    OpeningToken <- MCOpeningToken
    OpeningTicket <- MCOpeningTicket
    NoRow = NoRow
    NoCall = NoCall
    Call <- OneToken
INVARIANTS
    RefreshTokenUsedOnce
CHECK_DEADLOCK FALSE
