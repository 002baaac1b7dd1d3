CONSTANTS
  t1 = t1  t2 = t2  m1 = m1  m2 = m2  k1 = k1  k2 = k2
  Traders = {t1, t2}
  Markets = {m1}
  Roots = {k1, k2}
  KeyOf <- OneKeyEach
  U64Max = 50
  NumEpochs = 2
  SigningCapacity = 2
  MaxStaleness = 120
  MarketParams <- AccountingMarket
  OpenTerms <- AccountingTerms
  CloseSeqs = {0, 1}
  Expiries = {90}
  Prices = {0, 4, 6, 9}
  FeedTimes = {0}
  Deposits = {10}
  TickSeconds = 90
  MaxTime = 180
  MaxSigned = 3
  MaxMinted = 20
SPECIFICATION Spec
INVARIANTS OneIntentPerSlot EpochCapacity OpenInterest UsdtConserved SettlementDefined SoundMarketsOpenAboveMaintenance
PROPERTIES ImplementsLedger PositionsChangeWithAuthority SettledInFull
CHECK_DEADLOCK FALSE
