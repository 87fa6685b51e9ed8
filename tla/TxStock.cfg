SPECIFICATION FairSpec
CONSTANTS
    SKU = {1, 2}
    Warehouse = {1, 2}
    Active = {1, 2}
    r1 = r1
    r2 = r2
    ReservationId = {r1, r2}
    o1 = o1
    o2 = o2
    OrderId = {o1, o2}
    pair = pair
    single = single
    Payload = {pair, single}
    k1 = k1
    k2 = k2
    CommandId = {k1, k2}
    alice = alice
    Actor = {alice}
    None = None
    MaxBigint = 2
    p1 = p1
    p2 = p2
    p3 = p3
    Proc = {p1, p2}
    Stalled = {p2}
    Items <- MCItems
    Seeded <- Sparse
    Calls <- StockCalls
PROPERTIES
    Refinement
    CallsAreAnswered
