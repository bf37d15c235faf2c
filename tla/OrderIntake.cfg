CONSTANTS
    order1 = order1
    order2 = order2
    create1 = create1
    create2 = create2
    pause = pause
    d1 = d1
    d2 = d2
    e1 = e1
    e2 = e2
    NoOne = NoOne
    None = None
    c1 = c1
    c2 = c2
    Orders = {order1, order2}
    CreateCommands = {create1, create2}
    Digests = {d1, d2}
    Commands = {pause}
    Creates <- MCCreates
    Edits = {e1, e2}
    MaxVersions = 2
    Calls = {c1, c2}
    MaxRuns = 2
    MaxSends = 4

SPECIFICATION Spec

INVARIANTS TypeOK OneIdentity NeverRaises StartsFresh AnswersTrue EditsKept StartsFrozen
PROPERTIES KeepsRegistry

CHECK_DEADLOCK FALSE
