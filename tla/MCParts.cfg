SPECIFICATION PartsSpec
CONSTANTS
    Heaps = {kglobalheap, kdebugheap}
    kglobalheap = kglobalheap
    NoHeap = NoHeap
    Base <- HeapBases
    Size <- HeapSizes
    AddrSpace = 4096
    Sizes = {0, 40, 90}
    MaxFrames = 2
    LinkSizes = {1, 2}
    SegmentSizes = {0, 2}
    MaxFiles = 2
    HeapCells = 11
    BufferCells = 8
    OBJ_V2_CLOSE_ENOUGH = 2
    OBJ_V2_MAX_TRANSFER = 1
    DiscFiles = {1, 2, 3}
    NoFile = 0
    STR_INDEX_CACHE_SIZE = 2
    Fresh = 20
    MaxCalls = 6
    RamdiskIds = {1, 2}
    FileLength <- FileLengths
    Align = 2
    RAMDISK_SIZE = 7
    CommandSize = 2
    Streams = {s1, s2}
    FixedNames <- Fixed1
    Names = {a, b, c}
    NoName = none
    Half = 4
    Reserved = 1
    TypeNames = {A, B, C}
    object = object
    NoType = none
    MethodIds = {1}
    MethodCounts = {2}
    Functions = {"f", "g"}
    FALLBACK_UNKNOWN_METHOD_COUNT = 4
    MaxDefinitions = 3
INVARIANTS
    HeapSound
    RoomOrZero
    LinkerSound
    ServedAsAsked
    SymbolsSound
PROPERTIES
    OnlyTemporariesReleased
    CachesServeLatest
    MethodsInherited
CHECK_DEADLOCK FALSE
