\* Two workflows for one order, stock that is short for a while.
SPECIFICATION FairSagaSpec
CONSTANTS
    SKU = {1}
    Warehouse = {1}
    Active = {1}
    r1 = r1
    r2 = r2
    ReservationId = {r1, r2}
    o1 = o1
    OrderId = {o1}
    basket = basket
    Payload = {basket}
    c1 = c1
    c2 = c2
    CommandId = {c1, c2}
    alice = alice
    Actor = {alice}
    None = None
    MaxBigint = 5
    Items <- MCItems
    Seeded <- MCSeeded
    SagaCall <- MCSagaCall
    Calls <- MCCalls
INVARIANTS
    NeverRefused
    SoldIffConfirmed
    ReleaseIsFinal
PROPERTIES
    SagasSettle
    HoldsEnd
CHECK_DEADLOCK FALSE
