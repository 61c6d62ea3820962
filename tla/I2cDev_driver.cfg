SPECIFICATION FairSpec
CONSTANTS
  Devices = {d1}
  I2C_MAX_BUFFER_SIZE = 3
  MaxRetries = 2
INVARIANTS
  TypeOK
  StaysInBuffer
  ResultIsKnown
PROPERTIES
  SuccessIsReal
  InterruptsEnd
  WaitEnds
