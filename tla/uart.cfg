SPECIFICATION Spec
CONSTANTS
  RingSize = 3
  Bits = 2
  Byte = {1, 2}
  Greeting <- MCGreeting
  PerLoop = 2
  MaxLost = 1
INVARIANTS
  UartSound
PROPERTIES
  EchoesAll
  RingsAreQueues
