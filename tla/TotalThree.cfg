SPECIFICATION Spec
CONSTANTS
  USD = USD
  EUR = EUR
  NanosMod = 3
  UnitsHalf = 16
  NanosHalf = 6
  Codes <- TwoCodes
  Currency = USD
  Amounts <- SomeAmounts
  Quantities = {0, 1, 3}
  MaxItems = 2
INVARIANTS TotalIsExact OrdinaryNeverPanics
CHECK_DEADLOCK FALSE
