SPECIFICATION Spec
CONSTANTS
    SizeMax = 256
    Address = 16
    StaticSize = 2
    Hacked <- MCHacked
    Conns = {c1, c2}
    Strings <- MCStrings
    Blocks <- MCBlocks
    ReadSizes <- MCReadSizes
    FileBytes = {0, 171}
    FeatureLists <- MCFeatureLists
    Malformed <- MCMalformed
    UserReads <- MCUserReads
    PacketSize = 12
    Wild = {15, 20}
    MaxStorage = 8
INVARIANTS TypeOK ArgumentsArrive FilesArrive FeaturesAgree
PROPERTY MalformedIsRefused
SYMMETRY Symmetry
CHECK_DEADLOCK FALSE
