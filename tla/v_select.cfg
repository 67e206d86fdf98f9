SPECIFICATION Spec
CONSTANTS
    m1 = m1
    m2 = m2
    p1 = p1
    p2 = p2
    Masters = {m1, m2}
    Points <- MCPoints
    Commands <- MCCommands
    Refusing = {}
    MaxControls = 1
    Methods = {"SELECT"}
    Secure = {FALSE}
    SeqModulus = 16
    MasterMessages = 1
    MaxMessages = 2
    MaxCalls = 2
    Disturbances = {}
    MaxDisturbed = 0

INVARIANTS OperatesOwnSelect
CHECK_DEADLOCK FALSE
