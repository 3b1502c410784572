SPECIFICATION MCSpec
CONSTANTS
    PacketBufferSize = 3
    TransportBufferSize = 2
    Arrivals <- MCArrivals
    Payloads <- MCPayloads
    MaxStream = 6
INVARIANTS
    TypeOK
    ResponseFits
    DeliveredIsFramed
CHECK_DEADLOCK FALSE
