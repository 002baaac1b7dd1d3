CONSTANTS
  A = A  B = B  a1 = a1  k1 = k1  h1 = h1  r1 = r1  r2 = r2
  Mints = {A, B}
  Pools <- OnePool
  Holders = {a1, h1}
  Deposits = {}
  Trades = {}
  MaxMinted = 0
  Agents = {a1}
  Roots = {k1}
  KeyOf <- OneKey
  NumEpochs = 2
  SigningCapacity = 2
  Buffers = {r1, r2}
  NumChunks = 1
  AmountsIn = {4}
  MinOuts <- Minimums
  Expiries = {0, 1, 2}
  MaxTime = 1
  MaxSigned = 4
  Self = a1
  Route <- TheRoute
  Liquidity = 18
  AgentFunds = 16
  Float = 0
  Requests = {r1, r2}
  Kinds = {"run"}
  Directions = {TRUE}
  MaxStarted = 4
  SlippageBps = 50
  RequestTTL = 1
  maxAmountInPerTx = 4
  maxAmountInDaily = 4
  maxSlippageBps = 200
  maxExpirySeconds = 2
SPECIFICATION ServerSpec
 
CHECK_DEADLOCK FALSE
PROPERTY AgentSteps
