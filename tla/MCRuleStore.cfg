CONSTANTS
    X = X  Y = Y  M = M  N = N
    cls = cls  pred = pred  sel = sel  rel = rel  less = less  one = one  two = two
    f1 = f1  f2 = f2  f3 = f3  f4 = f4  l1 = l1  l2 = l2  l3 = l3  b1 = b1  b2 = b2
    first = first  rest = rest  nil = nil  implies = implies
    Root = Root  None = None
    Var = {X, Y, M, N}
    Names = {cls, pred, sel, rel, one, two}
    filters = {less}
    Documents <- MCDocuments
SPECIFICATION Spec
CHECK_DEADLOCK FALSE
INVARIANT ListsKept
INVARIANT RulesAssembled
