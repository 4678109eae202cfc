CONSTANTS
    Documents <- MCDocuments
    SortKeys = {"cycles", "count"}
    NotArray = NotArray
    NotStr = NotStr
    None = None
    Blank = Blank
    FileName <- MCFileName
    FlameMetrics = {None}
SPECIFICATION ReportSpec
INVARIANT EntryTypeOK
INVARIANT FilesRollup
INVARIANT SharesSumToOne
INVARIANT OutputSorted
INVARIANT FlameTypeOK
INVARIANT RollupIsSubtreeSum
INVARIANT FlameLayoutTiles
INVARIANT FlameMatchesTotals
CHECK_DEADLOCK FALSE
