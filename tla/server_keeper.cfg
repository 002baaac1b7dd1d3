CONSTANTS
  t1 = t1  m1 = m1  k1 = k1  r1 = r1  r2 = r2  r3 = r3
  Traders = {t1}
  Markets = {m1}
  Roots = {k1}
  KeyOf <- OneKey
  Self = t1
  Mkt = m1
  U64Max = 10000
  NumEpochs = 2
  SigningCapacity = 2
  MaxStaleness = 120
  MarketParams <- OneMarket
  OpenTerms <- AllTerms
  CloseSeqs = {0}
  Expiries <- RequestExpiries
  Prices = {97, 100}
  FeedTimes <- Times
  Deposits = {}
  TickSeconds = 180
  MaxTime = 180
  MaxSigned = 1
  MaxMinted = 1000
  Requests = {r1}
  TickSlots = {1, 2}
  Plans <- LongAndShort
  Seqs = {0}
  RequestTTL = 120
  Limits <- PolicyLimits
  TraderFunds = 400
  VaultFunds = 400
  FeedPrices = {97, 100}
  MaxFeedMoves = 2
  MaxKeeperErrors = 1
SPECIFICATION FairServerSpec
PROPERTIES StopsExecuted LiquidationsExecuted OracleConverges
CHECK_DEADLOCK FALSE
