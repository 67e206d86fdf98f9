SPECIFICATION Spec
CONSTANTS
    Masters = {m1, m2}
    Outstations = {o1}
    Queue = 1
    Replies <- OneFragment
    MaxWrites = 3
    Disturbances = {"overtakes"}
    MaxDisturbed = 1
    Absent = {{o1}}
INVARIANTS
    HalfDuplex
CHECK_DEADLOCK FALSE
