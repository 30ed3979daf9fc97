SPECIFICATION CopySpec
CONSTANTS
    RangeSize = 8
    Layouts <- MCLayouts
    Codes <- MCCodes
    NewCodes <- MCNewCodes
    Procs = {p1, p2}
    kNaClFullStop = 244
    NoByte = 256
    kInstructionFetchSize = 4
    kTrustAligned = 4
    kTrustUnaligned = 1
    Store4 = 2
    Store8 = 4
SYMMETRY Symmetry
INVARIANTS
    NotTorn
