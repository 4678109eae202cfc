CONSTANTS
    Tree <- MCTree
    Dirs <- MCDirs
    Matches <- MCMatches
    DiskChoices <- MCDisks
    EntryChoices <- MCEntryChoices
    Modes = {"full", "context"}
    Ctxs = {0, 1}
    None = None
SPECIFICATION EmbedSpec
INVARIANT EmbedTypeOK
INVARIANT MergedRuns
INVARIANT EmbedFaithful
CHECK_DEADLOCK FALSE
