SPECIFICATION Spec
CONSTANTS
    Conns = {c1}
    Forwarder = fwd
    NoOwner = free
    NBlocks = 7
    SEQ_MOD = 7
    BLOCKSIZE = 1
    PTR_SIZE = 5
    INIT_QUEUE_SIZE = 5
    ShortSends = FALSE
    CutConns = {}
INVARIANTS
    BufferInBounds
