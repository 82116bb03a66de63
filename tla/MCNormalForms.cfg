SPECIFICATION FairSpec
CONSTANTS
    A = A
    B = B
    C = C
    D = D
    hasPart = hasPart
    ann = ann
    bob = bob
    n1 = n1
    n2 = n2
    n3 = n3
    n4 = n4
    n5 = n5
    n6 = n6
    n7 = n7
    f1 = f1
    f2 = f2
    f3 = f3
    f4 = f4
    f5 = f5
    f6 = f6
    f7 = f7
    f8 = f8
    Name = {A, B, C, D}
    Ind = {ann, bob}
    Dom = {1, 2}
    Pool <- MCPool
    Ontologies <- MCOntologies
    Worlds <- MCWorlds
INVARIANTS
    MeaningKept
PROPERTIES
    ReductionEnds
CHECK_DEADLOCK FALSE
