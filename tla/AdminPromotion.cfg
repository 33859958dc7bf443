CONSTANTS
    a = a
    b = b
    op = op
    Nobody = Nobody
    NoAddr = NoAddr
    Machines = {a, b}
    Creator = a
    AsVoter = {b}
    Operators = {op}
    Clients = {a, b, op}
    Requests = {}
    MaxAsked = 0
    Attempts = 2
    MaxLate = 1
    MaxIndex = 1
    MaxTerm = 1
    MaxMs = 255
    Intervals = {5}
    MaxStops = 0
SPECIFICATION Spec
INVARIANTS FailedPromotionStaysFailed
CHECK_DEADLOCK FALSE
