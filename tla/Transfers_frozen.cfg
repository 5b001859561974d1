SPECIFICATION Spec
CONSTANTS
    p1 = p1
    p2 = p2
    p3 = p3
    alice = alice
    bob = bob
    NoBody = NoBody
    NotLoaded = NotLoaded
    Req = {p1, p2}
    User <- MCUser
    AccountId = {1, 2, 3, 4, 5, 6}
    Accounts = {1, 2}
    Owner <- MCOwner
    CurrencyOf <- MCCurrency
    Opening <- MCOpening
    MaxBalance = 60
    BaseKey = {"k", "m", "long"}
    BaseLength <- MCBaseLength
    KeyColumn = 64
    TransferBody <- None
    DepositBody <- OneDeposit
    StatusChange <- RaceStatus
    BrokerMayFail = FALSE
SYMMETRY Symmetry
PROPERTIES
    FrozenTakesNoDeposit
CHECK_DEADLOCK FALSE
