\* Two waves of one queue, which may be destroyed, every command.
CONSTANTS
  w1 = w1
  w2 = w2
  q1 = q1
  q2 = q2
  Queues = {q1}
  Waves = {w1, w2}
  QueueOf <- OneQueue
  Commands <- AllCommands
  MaxDestroys = 1
  MayExit = FALSE
SPECIFICATION Spec
INVARIANTS
  SuspensionAgrees
  WavesObey
  CountMatches
  NothingMissed
  FrozenIsFlushed
  NoWaveLeftAtLaunch
SYMMETRY WaveSymmetry
\* A failed assertion stops the library, and the environment may be exhausted.
CHECK_DEADLOCK FALSE
