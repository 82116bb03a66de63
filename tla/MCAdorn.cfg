SPECIFICATION FairSpec
CONSTANTS
    X = X
    Y = Y
    Z = Z
    W = W
    ann = ann
    bob = bob
    cal = cal
    anc = anc
    par = par
    sg = sg
    up = up
    down = down
    old = old
    not_old = not_old
    rel = rel
    rel_derived = rel_derived
    kin = kin
    anc_magic = anc_magic
    sg_magic = sg_magic
    old_magic = old_magic
    not_old_magic = not_old_magic
    kin_magic = kin_magic
    rel_magic = rel_magic
    rel_derived_magic = rel_derived_magic
    Var = {X, Y, Z, W}
    Scenarios <- MCScenarios
    Hybrid = {rel}
    DerivedName <- MCDerivedName
    MagicName <- MCMagicName
    NoMagic = {}
    BridgeVars <- MCBridgeVars
    Rounds = 7
INVARIANTS
    AdornTypeOK
    NoneForgotten
    Closed
    BoundIsBound
    AnswersKept
    MagicAgrees
PROPERTY AdornmentEnds
