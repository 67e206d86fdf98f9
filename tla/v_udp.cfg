SPECIFICATION IntakeSpec
CONSTANTS
    Kinds = {"udp"}
    MaxPeers = 2
    BlockSize = 3
    MaxPayload = 4
    RxCap = 1
    Reads = {1}
    Streams <- MCStreams
    Datagrams <- MCDatagrams
PROPERTY NoneStolen
