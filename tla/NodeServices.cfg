SPECIFICATION FairSpec
CONSTANTS
  EUR = EUR
  USD = USD
  JPY = JPY
  XXX = XXX
  NanosMod = 20
  UnitsHalf = 128
  NanosHalf = 64
  Codes <- FourCodes
  RateScale = 100
  Listed <- ThreeListed
  Rate <- SomeRates
  Calls = {c1, c2}
  Conversions <- SomeConversions
  Cards <- SomeCards
  Profiling = TRUE
  FirstMonth = 36
  LastMonth = 37
INVARIANTS TypeOK ConvertedIsValid ConvertedIsClose OrderPreserved CardsJudgedByDate TracesPropagate
PROPERTIES CallsEndAndServerReturns
CHECK_DEADLOCK FALSE
