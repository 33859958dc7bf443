CONSTANTS
    a = a
    b = b
    c = c
    w1 = w1
    Machines = {a, b, c}
    Writes = {w1}
    Electorates = {{a, b}, {a, b, c}}
    Entrances = {a, c}
    MaxIndex = 0
    MaxTerm = 2
    MaxStops = 1
SPECIFICATION FairSpec
INVARIANTS TypeOK ForwardsClimb NeverTwiceInOneTerm AnsweredMeansApplied
PROPERTIES AnsweredUnlessStranded
CHECK_DEADLOCK FALSE
