SPECIFICATION ReadsSpec
CONSTANTS
    SKU = {1, 2, 3}
    Warehouse = {1, 2, 3}
    Active = {1, 2}
    r1 = r1
    r2 = r2
    ReservationId = {r1, r2}
    o1 = o1
    o2 = o2
    OrderId = {o1, o2}
    pair = pair
    most = most
    Payload = {pair, most}
    k1 = k1
    k2 = k2
    k3 = k3
    CommandId = {k1, k2, k3}
    alice = alice
    Actor = {alice}
    None = None
    MaxBigint = 6
    Items <- MCItems
    Seeded <- MCSeeded
    Calls <- MCCalls
    Asks <- MCAsks
INVARIANTS
    TypeOK
    ReservedIsHeld
    LedgerReplays
    HoldsCanSettle
    OnceEffect
    QuotesWereTrue
    UnknownHadNoRow
    CheckMatchedReserve
    ReservationWasReal
PROPERTIES
    HistoryIsKept
    HoldsLeaveSafetyStock
