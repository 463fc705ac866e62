SPECIFICATION FairSpec
CONSTANTS
    CONN_NUMBER = 1
    BLOCKSIZE = 2
    INITIAL_CAPACITY = 1
    PTR_SIZE = 1
    SEQ_MOD = 2
    INIT_QUEUE_SIZE = 16
    StreamLen = 3
    NoOwner = free
    Getter = getter
    Forwarder = fwd
    Cuttable = {1}
    DestMayGo = TRUE
PROPERTIES
    IsPipe
    AllDelivered
    StopSpreads
CHECK_DEADLOCK FALSE
