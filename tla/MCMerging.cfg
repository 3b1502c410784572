SPECIFICATION MergeSpec
CONSTANTS
    Keys = {"a", "b"}
    Scalars <- MCScalars
    Elements = {"x", "y"}
    Documents <- MCDocuments
    Depth = 3
    MaxLayers = 3
INVARIANTS
    LayersOverlay
    GroupingDoesNotMatter
\* A merge that fails is the last, and so is that of MaxLayers files.
CHECK_DEADLOCK FALSE
