SPECIFICATION FairSpec
CONSTANTS
    Files <- SmallFiles
    Missing <- NotFound
    HEADER = 2
    PAGE = 3
    MayCancel = TRUE
    MaxHeap = 6
    NoFile = none
INVARIANTS
    LoaderSound
PROPERTIES
    ImplementsObjectStream
    HeapRespected
    LoadEnds
