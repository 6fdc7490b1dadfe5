\* Records built from containers that the caller shares and goes on to change.
SPECIFICATION Spec
CONSTANTS
    left = left
    right = right
    inner = inner
    Keys <- KeysDef
    Sorted <- SortedDef
    Scalars <- ScalarsDef
    Contents <- ContentsDef
    Edited <- EditedDef
    Nesting <- NestingDef
    Depth = 1
    MaxRecords = 2
    MaxEdits = 1
INVARIANT IdDescribesContent
INVARIANT SameIdSameContent
INVARIANT SameContentSameId
CHECK_DEADLOCK FALSE
