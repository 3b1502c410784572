\* Corrupted requests and rejected responses: both sides retransmit, unless
\* acknowledgements are off.
SPECIFICATION FairSpec
CONSTANTS
    PacketBufferSize = 3
    TransportBufferSize = 2
    Requests <- MCRequests
    Modes = {FALSE, TRUE}
    Silent = {}
    StopReply <- MCStop
    Respond <- MCRespond
    MaxRequests = 3
    MaxBreaks = 0
    MaxFaults = 3
    FaultKinds = {"corrupt", "nak"}
INVARIANT WireFrames
PROPERTY IsFairRequestReply
