SPECIFICATION Spec
CONSTANTS
    Paths = {1, 2}
    Sizes = {0, 1, 4, 5}
    ChunkSize = 2
    MaxQueue = 2
INVARIANTS
    CompletionCounts
    ProgressMatchesBytes
    ChunksRebuildFile
