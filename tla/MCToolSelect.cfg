CONSTANTS
    Prefixes <- MCPrefixes
    PathChoices <- MCPaths
    None = None
SPECIFICATION ToolSpec
INVARIANT ToolTypeOK
INVARIANT ListingFromFirstPrinter
CHECK_DEADLOCK FALSE
PROPERTY ToolsRefineChoice
