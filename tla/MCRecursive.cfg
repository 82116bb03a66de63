SPECIFICATION Spec
CONSTANTS
    X = X
    Y = Y
    Z = Z
    E = E
    p = p
    q = q
    r = r
    lt = lt
    ann = ann
    bob = bob
    cal = cal
    n1 = n1
    n2 = n2
    NoTriple = NoTriple
    Term <- MCTerm
    Var <- MCVar
    Blank <- MCEmpty
    Program <- Recursive
    Facts <- RecursiveFacts
    Targets <- MCTargets
    Goal <- Entailed
    Registrations <- MCEmpty
    BuiltinPreds <- MCEmpty
    BuiltinFunc <- MCEmpty
    AlphaNodes <- MCAlphaNodes
    BetaNodes <- MCBetaNodes
    Registered <- MCRegistered
    PatternOf <- MCPatternOf
    AlphaOrder <- MCAlphaOrder
    Descendents <- MCDescendents
    PassThru <- MCPassThru
    Common <- MCCommon
    Filter <- MCFilter
    Consequent <- MCConsequent
    Existentials <- MCExistentials
    FilterNodes <- MCFilterNodes
    RuleHeads <- MCRuleHeads
    Rules <- MCRules
INVARIANTS
    Complete
    CountsAgree
PROPERTIES
    Sound
    FeedEnds
    GoalDecided
