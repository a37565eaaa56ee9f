SPECIFICATION Spec
CONSTANTS
    Tables <- MCTables
    Seps <- MCSeps
    Eols <- MCEols
    Leftovers <- MCLeftovers
    Skips = {0, 1}
    Columns = {1, 2}
INVARIANTS TypeOK ImportedAsWritten SuccessIsComplete ErrorNamesLine
\* An import ends.
CHECK_DEADLOCK FALSE
