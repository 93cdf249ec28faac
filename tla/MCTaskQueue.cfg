CONSTANTS
    ID <- MCID
    Task <- MCTask
    Null = Null
    Cap = 6
    Time <- MCTime
SPECIFICATION Spec
INVARIANTS
    HeapOrder
    EntryNamesTask
    NoOrphan
PROPERTIES
    TickIsExact
    Implements
