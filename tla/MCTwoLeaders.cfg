\* Three nodes, two of which stand for election in one term.
CONSTANTS
    Node = {n1, n2, n3}
    None = None
    Contender = {n1, n2}
    Stopping = {}
    MaxTerm = 1
    Command = {c1}
SPECIFICATION Spec
INVARIANT OneLeaderPerTerm
CHECK_DEADLOCK FALSE
