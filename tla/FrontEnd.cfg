SPECIFICATION FrontSpec
CONSTANTS
    X = X
    Y = Y
    NULL = NULL
    AST_NODE_MAX_CHILDREN = 3
    MAX_INDENT_LEVELS = 3
    MaxLines = 10
    Width <- MCWidth
    Precedence <- MCPrecedence
    Sources <- MCSources
INVARIANTS
    FrontTypeOK
    OneOwner
    NothingLost
    AcceptsPrograms
    TreeIsReading
    ErrorsReported
    RecoveryOnlyDrops
    NodesComplete
    NamesAssigned
PROPERTY CompilerEnds
