SPECIFICATION Spec
CONSTANTS
    Values <- MCValues
    Declarations <- MCDeclarations
    Numbers <- MCNumbers
    DeclTypes = {"BOOL", "INT", "REAL", "STRING", "BLOB", "DATE", "DATETIME", "TIME"}
    FetchSizes <- MCFetchSizes
    MinCapacity = 1
    MaxRows = 4
    Min32 <- MCMin32
    Max32 = 1
    Min64 <- MCMin64
    Doubles <- MCDoubles
INVARIANTS TypeOK CopyDefined NoSilentChange PriorityKept RoundTrip
PROPERTIES TypeOnlyWidens
