CONSTANTS
    a = a
    b = b
    op = op
    Nobody = Nobody
    NoAddr = NoAddr
    Machines = {a, b}
    Creator = a
    AsVoter = {b}
    Operators = {op}
    Clients = {a, b, op}
    Requests = {"demote", "remove"}
    MaxAsked = 1
    Attempts = 2
    MaxLate = 1
    MaxIndex = 1
    MaxTerm = 2
    MaxMs = 255
    Intervals = {5}
    MaxStops = 1
SPECIFICATION Spec
INVARIANTS TypeOK AnsweredMeansDone RestartKeepsLearner
CHECK_DEADLOCK FALSE
