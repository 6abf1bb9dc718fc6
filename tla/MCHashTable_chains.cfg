\* Three keys in one bucket and one in the other.
SPECIFICATION Spec
CONSTANTS
    n1 = n1
    n2 = n2
    n3 = n3
    v1 = v1
    v2 = v2
    Keys = {1, 2, 4, 6}
    Vals = {v1, v2}
    Size = 2
    Nodes = {n1, n2, n3}
    Null = Null
    NotFound = NotFound
INVARIANT
    ChainsSound
PROPERTY
    ImplementsMap
SYMMETRY Symmetry
