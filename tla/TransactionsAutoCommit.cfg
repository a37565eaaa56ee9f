SPECIFICATION Spec
CONSTANTS
    n1 = n1
    i1 = i1  i2 = i2  i3 = i3
    Names <- MCNames
    Ids <- MCIds
    MaxRows = 2
    MaxDepth = 2
INVARIANT AutoCommitByDefault
