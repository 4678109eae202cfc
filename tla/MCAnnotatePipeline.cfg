CONSTANTS
    Files = {FileA, FileB, Banner}
    FileA = FileA
    FileB = FileB
    Banner = Banner
    LineNums = {0, 1, 2}
    Addrs = {16, 18, 20, 22, 116, 118, 120, 122}
    None = None
    Listings <- MCListings
    Dirs = {"d1", "d2", "d3", "d9"}
    Bases = {"x.c", "y.c"}
    Addr2Out <- MCAddr2Out
    SrcKeys <- MCSrcKeys
    HasSrcBase = TRUE
    EntryLists <- MCEntryListsLive
    RuntimeBase = 100
    TextBase = 100
    Context = 1
    MixContext = 1
    MaxOut = 3
    RomModes = {"unset", "bad_base", "ok"}
    RomListings <- MCRomListings
SPECIFICATION FairPipeSpec
INVARIANT PipeTypeOK
INVARIANT CacheSound
 
INVARIANT TranslateRecoversVMA
INVARIANT MixedRowsHeaded
INVARIANT ViewsMatchSource
PROPERTY CacheStable
CHECK_DEADLOCK FALSE
PROPERTY EveryEntrySliced
