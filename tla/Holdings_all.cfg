SPECIFICATION Spec
CONSTANTS
    p1 = p1
    p2 = p2
    p3 = p3
    alice = alice
    bob = bob
    acc = acc
    debit = debit
    phone = phone
    tablet = tablet
    n1 = n1
    n2 = n2
    Req = {p1, p2, p3}
    User = {alice, bob}
    Number = {n1, n2}
    MaxDraws = 2
    OldAccount = {acc}
    OldCard = {debit}
    Device = {phone, tablet}
    Platform = {"ios", "android"}
    OpeningAccount <- MCOpeningAccount
    OpeningCard <- MCOpeningCard
    OpeningDevice <- MCOpeningDevice
    StatusChange <- Changes
    NoRow = NoRow
    NoCall = NoCall
    Call <- AllCalls
SYMMETRY Symmetry
INVARIANTS
    TypeOK
    NumbersUnique
    IssuedWhileActive
    CardStatusExplained
    DeviceExplained
    RemoversHadIt
CHECK_DEADLOCK FALSE
