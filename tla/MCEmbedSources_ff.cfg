CONSTANTS
    Tree <- MCTree
    Dirs <- MCDirs
    Matches <- MCMatches
    DiskChoices <- MCDisksFF
    EntryChoices <- MCEntryChoices
    Modes = {"full", "context"}
    Ctxs = {0, 1}
    None = None
SPECIFICATION EmbedSpec
INVARIANT EmbedFaithful
CHECK_DEADLOCK FALSE
