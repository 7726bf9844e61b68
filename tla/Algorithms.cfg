\* Words of three bits, six lanes; segments of sixteen bytes, rings of up to eight.
SPECIFICATION AlgorithmsSpec
CONSTANTS
    WordBits = 3
    NumSgprs = 24
    AddressBits = 8
    SegmentSize = 16
    ApertureSize = 32
    InterleaveSize = 2
    Cases <- AllCases
    Inputs <- AllInputs
INVARIANTS
  AddressesSound
  PacketsFound
  InstructionsAgree
  RecordsTile
  WritesExact
  WatchesTheRequest
PROPERTIES
  TransfersEnd
CHECK_DEADLOCK FALSE
