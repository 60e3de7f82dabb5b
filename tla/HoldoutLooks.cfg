\* The second family may write the first's program again; the lineage has one look left.
SPECIFICATION FairSpec
CONSTANTS
    f1 = f1
    f2 = f2
    p1 = p1
    p2 = p2
    Families = {f1, f2}
    Lineage <- MCLineage
    Programs = {p1, p2}
    Writes <- MCWrites
    None = None
    Ration = 1
    MaxTries = 2
    MaxLooks = 2
    MaxVerdicts = 2
    MaxRolls = 1
    MaxStops = 1
INVARIANTS
    TypeOK
    Rationed
    NothingForgotten
PROPERTIES
    NoLookWasted
    LooksSettle
CHECK_DEADLOCK FALSE
