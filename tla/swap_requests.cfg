CONSTANTS
  A = A  B = B  a1 = a1  k1 = k1  h1 = h1  r1 = r1  r2 = r2
  Mints = {A, B}
  Pools <- OnePool
  Holders = {a1, h1}
  Deposits = {}
  Trades = {6}
  MaxMinted = 0
  Agents = {a1}
  Roots = {k1}
  KeyOf <- OneKey
  NumEpochs = 2
  SigningCapacity = 1
  Buffers = {r1, r2}
  NumChunks = 1
  AmountsIn = {8, 9}
  MinOuts <- Minimums
  Expiries = {2, 3, 4}
  MaxTime = 2
  MaxSigned = 3
  Self = a1
  Route <- TheRoute
  Liquidity = 24
  AgentFunds = 24
  Float = 6
  Requests = {r1, r2}
  Kinds = {"interpret", "execute"}
  Directions = {TRUE, FALSE}
  MaxStarted = 3
  SlippageBps = 50
  RequestTTL = 2
  maxAmountInPerTx = 8
  maxAmountInDaily = 100
  maxSlippageBps = 200
  maxExpirySeconds = 1
SPECIFICATION ServerSpec
INVARIANTS ServerTypeOK SignedWithinLimits FilledWithinSlippage
CHECK_DEADLOCK FALSE
