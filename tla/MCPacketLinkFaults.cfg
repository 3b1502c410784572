\* Every kind of fault, and a peer that interrupts.
SPECIFICATION FairSpec
CONSTANTS
    PacketBufferSize = 3
    TransportBufferSize = 2
    Requests <- MCContRequests
    Modes = {FALSE}
    Silent <- MCCont
    StopReply <- MCStop
    Respond <- MCRespond
    MaxRequests = 2
    MaxBreaks = 2
    MaxFaults = 2
    FaultKinds = {"corrupt", "nak", "late", "lost", "resend", "short", "stuck"}
INVARIANTS
    NoBreakIsMadeUp
    OnlyRepeats
PROPERTIES SentIsAccepted SendEnds
\* The loop ends when a send fails, and the peer is left waiting.
CHECK_DEADLOCK FALSE
