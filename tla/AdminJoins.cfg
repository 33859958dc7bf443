CONSTANTS
    a = a
    b = b
    op = op
    c = c
    Nobody = Nobody
    NoAddr = NoAddr
    Machines = {a, b, c}
    Creator = a
    AsVoter = {b}
    Operators = {op}
    Clients = {a, b, c, op}
    Requests = {}
    MaxAsked = 0
    Attempts = 2
    MaxLate = 0
    MaxIndex = 2
    MaxTerm = 1
    MaxMs = 255
    Intervals = {5, 86, 150}
    MaxStops = 1
SPECIFICATION FairSpec
INVARIANTS IdsUnique QuorumIsReal ConfigExact
PROPERTIES ChangesSettle
CHECK_DEADLOCK FALSE
