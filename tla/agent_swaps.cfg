CONSTANTS
  A = A  B = B  a1 = a1  k1 = k1  h1 = h1  b1 = b1
  Mints = {A, B}
  Pools <- TwoPools
  Holders = {a1, h1}
  Deposits = {12}
  Trades = {12}
  MaxMinted = 36
  Agents = {a1}
  Roots = {k1}
  KeyOf <- OneKey
  NumEpochs = 2
  SigningCapacity = 2
  Buffers = {b1}
  NumChunks = 1
  AmountsIn = {12}
  MinOuts = {4}
  Expiries = {0}
  MaxTime = 1
  MaxSigned = 3
SPECIFICATION Spec
INVARIANTS TokensConserved RoundTripNeverGains
PROPERTIES SwapsAsSigned ImplementsLedger ProductNeverFalls
CHECK_DEADLOCK FALSE
