\* A dependency of a dependency that changes after cmake.
SPECIFICATION MCSpec
CHECK_DEADLOCK FALSE
CONSTANTS
    IllegalNames = {"2x"}
    RecursionLimit = 6
    LoadSteps = 40
    Targets = {"A", "S"}
    KindOf <- MCKindOf
    Jobs <- MCOneJob
    Path <- MCPath
    Variants <- MCDeepVariants
    Initial <- MCInitial
    Package = "app"
    MaxJobs = 2
    MaxEdits = 2
    DeletesOnError = TRUE
    Library <- MCLibrary
    Samples = {0, 1, 2, 3, 4, 5, 6, 7, 8, 9, 10, 11}
    Halves2 <- MCHalves
    Lines <- MCLines
    Texts <- MCTexts
    Patterns <- MCPatterns
    Numbers <- MCNumbers
    Pairs <- MCPairs
    Nodes <- MCNodes
    GraphNames <- MCGraphNames
    Second = 5
    NoTime = NoTime
    _max_chunk = 3
    ReservedNames = {"from", "class", "lambda", "in"}
    Undefined = Undefined
    RosDepends <- MCRosDepends
INVARIANTS VerifiedMeansCurrent
