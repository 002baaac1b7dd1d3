CONSTANTS
  o1 = o1  o2 = o2  k1 = k1  k2 = k2
  x1 = x1  b1 = b1  b2 = b2
  Owners = {o1, o2}
  Strangers = {x1}
  Roots = {k1, k2}
  KeyOf <- OneKeyEach
  NumEpochs = 2
  SigningCapacity = 2
  Buffers = {b1}
  NumChunks = 2
  Amounts = {1, 2}
  RentMinimum = 2
  MaxSigned = 4
  MaxToppedUp = 4
SPECIFICATION Spec
INVARIANT TypeOK
PROPERTIES TransfersAsSigned ImplementsLedger
CHECK_DEADLOCK FALSE
