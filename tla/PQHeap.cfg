SPECIFICATION Spec
CONSTANTS
    Nodes = {n1, n2, n3, n4}
    Priorities = {0, 1}
    NULL = null
    INIT_SIZE = 2
SYMMETRY NodeSymmetry
INVARIANTS
    FitsAvail
    TypeOK
    NodesOnce
    HeapOrder
    MisledByPrint
    CheckAgrees
PROPERTIES
    IsPriorityQueue
    SiftsEnd
CHECK_DEADLOCK FALSE
