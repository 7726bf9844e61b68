\* A memory violation, which no program can mask, on gfx9.
SPECIFICATION Spec
CONSTANTS
    Configs <- ConfigsGfx9
    Code <- MCCode
    Raisable = {"xnack_error"}
    Enabled = {}
    TrapIds = {1}
    StatusHalts = {}
INVARIANTS
    ReportedAreCleared
