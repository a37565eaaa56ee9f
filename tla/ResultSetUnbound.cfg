SPECIFICATION Spec
CONSTANTS
    Groups <- MCGroups
    ParamLists <- MCParamLists
    MaxParams = 2
    FetchSizes <- MCFetchSizes
    Period = 2
    MaxFaults = 2
INVARIANT BoundBeforeFetching
