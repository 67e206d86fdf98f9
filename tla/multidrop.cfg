SPECIFICATION FairSpec
CONSTANTS
    Masters = {m1, m2}
    Outstations = {o1}
    Queue = 1
    Replies <- MCReplies
    MaxWrites = 2
    Disturbances = {"amid", "overtakes", "unsolicited", "silences", "late", "breaks", "leaves", "removals", "closes"}
    MaxDisturbed = 1
    Absent = {{m2}, {o1}}
INVARIANTS
    OneTurn
    DeadHolderWrites
    OwnLineOnly
PROPERTIES
    TurnComes
    ClosesDown
CHECK_DEADLOCK FALSE
