SPECIFICATION Spec
CONSTANTS
  b1 = b1
  b2 = b2
  Zero = Zero
  Byte = {b1, b2, Zero}
  size = 4
  MaxLen = 2
PROPERTIES
  ImplementsFifo
