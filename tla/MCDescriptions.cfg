SPECIFICATION Spec
CONSTANTS
    A = A
    B = B
    C = C
    D = D
    E = E
    p = p
    q = q
    ann = ann
    n1 = n1
    n2 = n2
    n3 = n3
    n4 = n4
    n5 = n5
    Name = {A, B, C, D, E}
    Ind = {ann}
    Dom = {1, 2}
    Callers <- MCCallers
    Worlds <- MCWorlds
INVARIANTS
    TypeOK
    Sound
    
CHECK_DEADLOCK FALSE
