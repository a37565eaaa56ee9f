SPECIFICATION FairSpec
CONSTANTS
    Groups <- MCGroups
    ParamLists <- MCParamLists
    MaxParams = 2
    FetchSizes <- MCFetchSizes
    Period = 2
    MaxFaults = 2
INVARIANTS
    TypeOK RowsInOrder CompleteIsExact FetchedIsDelivered AffectedIsExact InBounds CompleteFreesStatement
PROPERTIES
    ShortOnlyAtEnd CallsReturn LoopEnds ImplementsRowCursor
