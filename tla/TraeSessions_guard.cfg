SPECIFICATION Spec
CONSTANTS
    Accounts = {a1, a2}
    NoOne = NoOne
    NumInstances = 1
    Ops = {o1, o2}
    MaxCommands = 2
    MaxEvents = 1
CHECK_DEADLOCK FALSE
INVARIANTS GuardStaysOutOfTheWay
