SPECIFICATION Spec
CONSTANTS
    Width = {0, 1}
    MAX_INDENT_LEVELS = 4
    MaxLines = 2
INVARIANT ParserExists
