SPECIFICATION FairSpec
CONSTANTS
    Kinds = {"tcpServer", "tlsServer", "client", "serial", "udp"}
    MaxPeers = 3
    BlockSize = 3
    MaxPayload = 4
    RxCap = 2
    Reads = {1, 5}
    Streams <- MCStreams
    Datagrams <- MCDatagrams
INVARIANTS
    FramesAsSent
    NoneLeaked
    FreshDeadline
PROPERTY NothingBlocked
