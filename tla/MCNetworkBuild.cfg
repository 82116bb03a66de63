SPECIFICATION Spec
CONSTANTS
    X = X
    Y = Y
    Z = Z
    pa = pa
    pb = pb
    pc = pc
    pd = pd
    le = le
    ge = ge
    Term <- MCTerm
    Var <- MCVar
    Blank <- MCBlank
    BuiltinPreds <- MCBuiltinPreds
    RuleBase <- MCRuleBase
INVARIANTS
    TypeOK
    TerminalJoinsBody
    NoForeignConsequent
    MemoriesFedByParents
    OneAlphaPerPattern
PROPERTIES
    TerminalsStable
