SPECIFICATION Spec
CONSTANTS
    Replies <- SomeReplies
    Size <- Sizes
    Depth <- Depths
    Decimal <- Written
    maxBulkLen = 3
    maxArrayLen = 4
    MaxInt64 = 127
    MaxInt32 = 7
    Float <- Floats
    Exact = 16
    Default = 5
    MaxNesting = 2
    Millisecond = 2
    Second = 6
    Durations <- SomeTtls
    Names = {"k", "l"}
    KeyLists <- SomeKeys
INVARIANTS
    TypeOK
    DecodesWhatWasSent
    PooledAtBoundary
    TtlKept
    FieldsWithTheirValues
    ItemsOnceInOrder
    NumbersNearest
