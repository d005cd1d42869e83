\* Orders, readings and selections of three accounts that interleave.
CONSTANTS
    default = default
    spare = spare
    third = third
    NoRow = NoRow
    Keep = Keep
    Idle = Idle
    e1 = e1
    e2 = e2
    r1 = r1
    r2 = r2
    Cycle = 3
    MonthDays <- MCMonths
    Ids = {default, spare, third}
    Rank <- MCRank
    Default = default
    Managed = {spare}
    Metered = {default}
    Heavy = {third}
    Resolvable = {default, spare, third}
    Editors = {e1, e2}
    Tables <- MCTables
    Patches <- MCPatches
    Routers = {r1, r2}
    Modes = {"round_robin", "weighted_round_robin", "most_remaining"}
    Estimates = {1}
    Limit = 1
    MaxEdits = 3
    MaxPicks = 4
    MaxReadings = 3
    MaxTime = 2
SPECIFICATION Spec
INVARIANTS
    OrdersStand
    ReservedExact
    RotationFair
PROPERTIES
    RestedAccounts
CONSTRAINT Bounded
SYMMETRY Alike
CHECK_DEADLOCK FALSE
