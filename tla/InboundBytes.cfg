\* Requests and frames, cut into segments of one, two, three or many bytes.
SPECIFICATION Spec
CONSTANTS
    Unit <- MCUnit
    Streams <- MCStreams
    Cuts = {1, 2, 3, 5, 8, 99}
    MaxHeaderSize = 12
    MaxHeaders = 3
    MaxBodySize = 3
    UpgradeProtocols = {"websocket"}
    MaxMessageSize = 4
    MaxControlPayload = 3
INVARIANTS
    DeliveredIsSent
    AllIsDelivered
    EofToldTruly
    BufferBounded
PROPERTIES
    ReadsWholeStream
