\* See the finding on StaleDataNotWritten.
CONSTANTS
  w1 = w1
  w2 = w2
  q1 = q1
  q2 = q2
  Queues = {q1}
  Waves = {w1}
  QueueOf <- OneQueue
  Index <- ThreeBytes
  IdByte = "id"
  Control <- ControlBytes
  Registers <- ClientRegisters
  Values = {0, 1}
  Undefined = 0
  WaveId = 1
  NoValue = NoValue
  LastAddress = 11
  LineSize = 6
  AreaBase <- OneBase
  AreaSize <- OneSize
  Layouts <- OneLayouts
  Destroyable = {q1}
SPECIFICATION Spec
PROPERTIES
  StaleDataNotWritten
