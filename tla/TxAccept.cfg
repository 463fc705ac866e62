SPECIFICATION Spec
CONSTANTS
    CONN_NUMBER = 2
    BLOCKSIZE = 2
    INITIAL_CAPACITY = 1
    PTR_SIZE = 1
    SEQ_MOD = 8
    StreamLen = 1
    NoOwner = free
    Getter = getter
    Faults = {}
    AssertAcceptFails = TRUE
INVARIANTS
    ExitsOnFailure
CHECK_DEADLOCK FALSE
