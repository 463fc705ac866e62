SPECIFICATION Spec
CONSTANTS
    Nodes = {n1, n2, n3}
    Priorities = {0, 1, 2}
    NULL = null
    INIT_SIZE = 2
PROPERTIES
    PopsInOrder
CHECK_DEADLOCK FALSE
