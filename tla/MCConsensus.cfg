\* Three nodes, together or each on its own, two of which stand for election in
\* up to two terms while one command is submitted and a node is shut down.
CONSTANTS
    Node = {n1, n2, n3}
    None = None
    Contender = {n1, n2}
    Stopping = {n3}
    MaxTerm = 2
    Command = {c1}
SPECIFICATION Spec
INVARIANTS OneVotePerTerm ClaimsAreBacked
PROPERTY TermNeverFalls
CHECK_DEADLOCK FALSE
