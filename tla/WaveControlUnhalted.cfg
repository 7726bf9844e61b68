\* A client that clears the halt bit of the status register.
SPECIFICATION Spec
CONSTANTS
    Configs <- ConfigsGfx9
    Code <- MCCode
    Raisable = {}
    Enabled = {}
    TrapIds = {1}
    StatusHalts = {FALSE}
INVARIANTS
    StoppedIsHalted
