SPECIFICATION Spec
CONSTANTS
    Width = {0, 1, 2, 3, 5}
    MAX_INDENT_LEVELS = 4
    MaxLines = 5
INVARIANTS
    TypeOK
    StackIsOpenLevels
    Balanced
    RefusesOnlyBadLevels
    StackInBounds
