CONSTANTS
    X = X  Y = Y  Z = Z  W = W  V = V
    ann = ann  bob = bob  cal = cal  dee = dee
    anc = anc  par = par  sg = sg  up = up  down = down  rel = rel
    rel_derived = rel_derived  kin = kin  top = top  ok = ok  edge = edge  mark = mark
    Var = {X, Y, Z, W, V}
    Hybrid = {rel}
    DerivedName <- MCDerivedName
    BridgeVars <- MCBridgeVars
    Scenarios <- MCScenarios
    Rounds = 6
SPECIFICATION FairStore
INVARIANT TypeOK
INVARIANT Memoized
PROPERTY AnswersGoals
PROPERTY RequestAnswered
PROPERTY RequestEnds
