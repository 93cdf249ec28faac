\* One ID that AddTask may accept twice, so that a batch may hold two tasks of
\* it, three clients, and two run loops should a second Start succeed.
CONSTANTS
    ID = {i1}
    Addr = {a1, a2, a3, a4}
    Task <- MCTask
    Null = Null
    Loop = {l1, l2}
    Client = {c1, c2, c3}
    Finite = {i1}
    Panicky = {i1}
    MaxActive = 2
    MaxHeld = 1
SPECIFICATION Spec
SYMMETRY MCSymmetry
INVARIANTS
    TypeOK
    StopQuiesces
    SingleOwner
    OneTaskPerID
PROPERTIES
    DismissalHolds
    FoundIsRemoved
    NothingVanishes
