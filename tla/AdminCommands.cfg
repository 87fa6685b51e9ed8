SPECIFICATION FairAdminSpec
CONSTANTS
    SKU = {1}
    Warehouse = {1}
    Active = {1}
    ReservationId = {r1}
    OrderId = {o1}
    Payload = {basket}
    Items <- OneItem
    c1 = c1
    c2 = c2
    c3 = c3
    CommandId = {c1, c2, c3}
    ann = ann
    bob = bob
    padded = padded
    cut = cut
    essay = essay
    Actor = {ann, bob, essay, padded, cut}
    Column <- MCColumn
    Calls <- OtherCalls
    Seeded <- NoRows
    MaxBigint = 2
    None = None
    Posts <- MCPosts
PROPERTIES
    RefusalsAreTrue
    ScreensSettle
CHECK_DEADLOCK FALSE
