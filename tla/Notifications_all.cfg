SPECIFICATION NewsFairSpec
CONSTANTS
    p1 = p1
    p2 = p2
    p3 = p3
    alice = alice
    bob = bob
    c1 = c1
    NoBody = NoBody
    NotLoaded = NotLoaded
    Req = {p1, p2}
    User <- MCUser
    AccountId = {1, 2, 3, 4, 5, 6}
    Accounts = {1, 2, 5}
    Owner <- MCOwner
    CurrencyOf <- MCCurrency
    Opening <- MCOpening
    MaxBalance = 60
    BaseKey = {"k", "m", "long"}
    BaseLength <- MCBaseLength
    KeyColumn = 64
    TransferBody <- NewsTransfers
    DepositBody <- NoDeposits
    StatusChange <- NoChange
    BrokerMayFail = TRUE
    NoUser = NoUser
    Online <- MCOnline
    Conn = {c1}
    MaxRetries = 1
INVARIANTS
    NewsTypeOK
    NewsIsTrue
    NoGaps
    RepeatsBounded
PROPERTIES
    PromiseKept
    AnsweredIsAnnounced
    NextMessageFrees
CHECK_DEADLOCK FALSE
