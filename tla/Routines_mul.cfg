CONSTANTS
  Long = 3
  ByteBits = 2
  ExpBits = 3
  FracBits = 4
  DivBits = 15
  Addr = 6
  Cells = 44
  Buffer = 6
  Block = 3
  Clobbered = {5}
  Code <- RoutineCode
SPECIFICATION RSpec
INVARIANT
  ProductsRounded
