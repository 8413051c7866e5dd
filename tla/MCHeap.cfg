CONSTANTS
    ReserveSize = 332
    Word = 4096
    Requests = {1, 40, 72}
SPECIFICATION Spec
INVARIANTS
    ChunksTile
    BlocksDisjoint
    HeldPointersValid
    Coalesced
PROPERTY
    ImplementsAllocator
