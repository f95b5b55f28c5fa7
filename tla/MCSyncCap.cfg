SPECIFICATION Spec
CONSTANTS
    addr = addr
    seg = seg
    Shards = {addr}
    Addresses = {addr}
    AddressesOf <- MCAddressesOf
    Keys = {1, 2, 3}
    Legacy <- MCLegacy
    Csvs <- MCOneCsv
    MaxVersion = 1
    IdBlock = 10
    MaxSafeId = 29
    CountChunk = 4
    MinKnown = 50
    AllowRebuild = {addr, seg}
    RowForecast = 1
    RowCost = 5
    MaxRows = 9
    MaxLate = 1
CHECK_DEADLOCK FALSE
INVARIANT HardCap
