SPECIFICATION Spec
INVARIANTS ReplayIsSameRequest RetryIsReplay LinesNeverCollide
CONSTANTS
    Alnum <- MCAlnum
    SkuText <- MCSkuText
    IdText <- MCIdText
    RegionText <- MCRegionText
    CommandText <- MCCommandText
    SkuRank <- MCSkuRank
    Quantity = {0, 1, 10}
    MaxItems = 2
    MaxSku = 4
    MaxId = 3
    MaxRegion = 8
    MaxQuantity = 10
CHECK_DEADLOCK FALSE
