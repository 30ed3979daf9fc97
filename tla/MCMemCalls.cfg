CONSTANTS
    Thread = {t1, t2}
    Prot <- MCProt
    File = {f}
    NoFile = NoFile
    Pages = 14
    PagesPerMap = 2
    PageBytes = 2
    SizeT = 16
    StaticTextEnd = 2
    DynTextStart = 2
    TextEnd = 4
    RodataStart = 4
    DataStart = 6
    DataEnd = 13
    StackStart = 12
    BreakArgs <- MCBreakArgs
    MapArgs <- MCMapArgs
    UnmapArgs <- MCUnmapArgs
    FileSizes <- MCFileSizes
SYMMETRY Threads
VIEW OrderWhenSorted
SPECIFICATION Spec
CHECK_DEADLOCK FALSE
INVARIANTS
    EntriesApart
    HostConfined
    RefsExact
    HeapBacked
    DiesOnlyByUnmapping
    BreakHonest
    PlacementFresh
PROPERTIES
    MapImplementsPages
