\* A voter is promoted, demoted and removed at once; no process stops and no attempt is late.
CONSTANTS
    a = a
    b = b
    op = op
    op2 = op2
    Nobody = Nobody
    NoAddr = NoAddr
    Machines = {a, b}
    Creator = a
    AsVoter = {b}
    Operators = {op, op2}
    Clients = {a, b, op, op2}
    Requests = {"demote", "remove"}
    MaxAsked = 2
    Attempts = 2
    MaxLate = 0
    MaxIndex = 1
    MaxTerm = 1
    MaxMs = 255
    Intervals = {5}
    MaxStops = 0
SPECIFICATION Spec
INVARIANTS RemovedMeansForgotten
CHECK_DEADLOCK FALSE
