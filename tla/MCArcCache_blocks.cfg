SPECIFICATION Spec
CONSTANTS
    p1 = p1
    p2 = p2
    p3 = p3
    z1 = z1
    Block <- MCBlock
    Packed <- MCPacked
    DataSize <- MCDataSize
    EntrySize = 1
    Sizes = {2, 5}
    MaxHeld = 2
INVARIANTS
    TypeOK
    InUseIsKept
    OneEntryEach
    UnpackedIsRead
PROPERTIES
    MakesRoom
    KeepsPromise
SYMMETRY MCSymmetry
