\* A program with an instruction of each kind, on every architecture.
SPECIFICATION Spec
CONSTANTS
    Configs <- MCConfigs
    Code <- MCCode
    Raisable = {"overflow", "underflow", "inexact", "mem_viol", "xnack_error", "addr_watch0",
                "wave_end"}
    Enabled = {"overflow", "inexact", "addr_watch"}
    TrapIds = {1, 5}
    StatusHalts = {TRUE, FALSE}
INVARIANTS
  ProgramStateKept
  ReportedIsRaised
  StepsOnce
