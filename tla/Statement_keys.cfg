SPECIFICATION StatementSpec
CONSTANTS
    p1 = p1
    p2 = p2
    p3 = p3
    alice = alice
    bob = bob
    NoBody = NoBody
    NotLoaded = NotLoaded
    Req = {p1, p2, p3}
    User <- MCUser
    AccountId = {1, 2, 3, 4, 5, 6}
    Accounts = {1, 2, 4, 5, 6}
    Owner <- MCOwner
    CurrencyOf <- MCCurrency
    Opening <- MCOpening
    MaxBalance = 60
    BaseKey = {"k", "m", "long"}
    BaseLength <- MCBaseLength
    KeyColumn = 64
    TransferBody <- KeyTransfers
    DepositBody <- StatementDeposits
    StatusChange <- None
    BrokerMayFail = TRUE
    Viewed = 6
    Id = {1, 2, 3}
    Time = {0, 1}
    Limit = 1
    Start = Start
    End = End
    NotFlushed = NotFlushed
SYMMETRY Symmetry
INVARIANTS
    KeysUnique
    LegsMirrored
    AnswersMatchLedger
    ContextConserved
    NothingSkipped
    InOrder
    LateOnlyByTie
    MoreIsMore
PROPERTIES
    BankSpec
    ListingSpec
CHECK_DEADLOCK FALSE
