CONSTANTS
    EntryLists <- MCEntryLists
    Blank = Blank
    None = None
SPECIFICATION FlameSpec
CHECK_DEADLOCK FALSE
INVARIANT FlameRollup
