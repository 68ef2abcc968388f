SPECIFICATION FairSpec
CONSTANTS
    p1 = p1
    p2 = p2
    c1 = c1
    c2 = c2
    w1 = w1
    w2 = w2
    Platforms <- MCPlatforms
    Callers <- MCCallers
    Workers <- MCWorkers
    MaxVersion <- MCMaxVersion
CHECK_DEADLOCK FALSE
INVARIANTS TypeOK OneRebuilder QuietMenuIsCurrent
PROPERTIES MenuNeverGoesBack RequestsAreServed
