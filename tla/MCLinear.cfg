SPECIFICATION Spec
CONSTANTS
    X = X
    Y = Y
    Z = Z
    E = E
    p = p
    q = q
    r = r
    lt = lt
    ann = ann
    bob = bob
    cal = cal
    n1 = n1
    n2 = n2
    NoTriple = NoTriple
    Term <- MCTerm
    Var <- MCVar
    Blank <- MCEmpty
    Program <- Shared
    Facts <- SharedFacts
    Targets <- MCTargets
    Goal = NoTriple
    Registrations <- MCEmpty
    BuiltinPreds <- LtOnly
    BuiltinFunc <- LtFunc
    AlphaNodes <- MCAlphaNodes
    BetaNodes <- MCBetaNodes
    Registered <- MCRegistered
    PatternOf <- MCPatternOf
    AlphaOrder <- MCAlphaOrder
    Descendents <- MCDescendents
    PassThru <- MCPassThru
    Common <- MCCommon
    Filter <- MCFilter
    Consequent <- MCConsequent
    Existentials <- MCExistentials
    FilterNodes <- MCFilterNodes
    RuleHeads <- MCRuleHeads
    Rules <- MCRules
    Leaves <- MCLeaves
    LeavesAt <- MCLeavesAt
    Tests <- MCTests
    TestsAt <- MCTestsAt
    Level <- MCLevel
INVARIANTS
    PartialSolutions
    NothingLost
    Complete
    TracersAreSolutions
