\* Two ends: an orderly restart takes both.
CONSTANTS
    Options <- MCOptions
    MqMaxMsg = 2
    MaxStops = 2
    None = None
SPECIFICATION FairSpec
INVARIANTS
    ChannelTypeOK
    BothReady
    FreshQueues
    NeverConfused
PROPERTIES
    HandshakeEnds
CHECK_DEADLOCK FALSE
