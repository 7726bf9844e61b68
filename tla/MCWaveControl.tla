--------------------------- MODULE MCWaveControl ---------------------------
(* Small instances of WaveControl: a program with one instruction of each  *)
(* kind, on every architecture.                                            *)
EXTENDS WaveControl, TLC

MCCode == (0 :> "sequential") @@ (1 :> "branch_self") @@ (2 :> "sethalt")
          @@ (3 :> "trap") @@ (4 :> "invalid")

Config(a, v, s, h) == [arch |-> a, version |-> v, spi |-> s, halts |-> h]

MCConfigs == {Config("gfx9", 8, TRUE, TRUE), Config("gfx9", 10, FALSE, TRUE),
              Config("gfx940", 10, TRUE, TRUE), Config("gfx940", 10, FALSE, TRUE),
              Config("gfx10", 10, FALSE, TRUE), Config("gfx10_3", 10, FALSE, TRUE),
              Config("gfx11", 8, TRUE, TRUE), Config("gfx11", 10, FALSE, TRUE),
              Config("gfx12", 10, TRUE, FALSE)}

ConfigsGfx12 == {Config("gfx12", 10, TRUE, TRUE)}
ConfigsGfx9  == {Config("gfx9", 10, TRUE, FALSE)}
=============================================================================
