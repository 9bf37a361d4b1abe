SPECIFICATION Spec
CONSTANTS
    X = X
    Y = Y
    R = R
    NULL = NULL
    Zero = 0
    ReturnValue = R
    Var <- MCVar
    Val <- MCVal
    Op <- MCOp
    Apply <- MCApply
    Expr <- MCExpr
    Stmt <- MCStmt
    Programs <- EveryProgram
INVARIANT BreakFreeProgramsCompile
