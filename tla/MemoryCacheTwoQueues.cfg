\* A wave in each of two queues, one of which may be destroyed.
CONSTANTS
  w1 = w1
  w2 = w2
  q1 = q1
  q2 = q2
  Queues = {q1, q2}
  Waves = {w1, w2}
  QueueOf <- TwoQueues
  Index <- TwoBytes
  IdByte = "id"
  Control <- ControlBytes
  Registers <- ClientRegisters
  Values = {0, 1}
  Undefined = 0
  WaveId = 1
  NoValue = NoValue
  LastAddress = 7
  LineSize = 2
  AreaBase <- TwoBase
  AreaSize <- TwoSize
  Layouts <- TwoLayouts
  Destroyable = {q1}
SPECIFICATION Spec
PROPERTIES
  RegistersKept
