CONSTANTS
    Files = {FileA, FileB, Banner}
    FileA = FileA
    FileB = FileB
    Banner = Banner
    LineNums = {0, 1, 2}
    Addrs = {16, 18, 20}
    None = None
    Listings <- MCListings
SPECIFICATION ParserSpec
INVARIANT AttributionCoherent
CHECK_DEADLOCK FALSE
