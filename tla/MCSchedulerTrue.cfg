CONSTANTS
    ID = {i1}
    Addr = {a1, a2, a3, a4}
    Task <- MCTask
    Null = Null
    Loop = {l1}
    Client = {c1}
    Finite = {}
    Panicky = {}
    MaxActive = 1
    MaxHeld = 1
SPECIFICATION Spec
SYMMETRY MCSymmetry
PROPERTY TrueMeansRemoved
