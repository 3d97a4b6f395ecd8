SPECIFICATION Spec
CONSTANTS
  EVENT_DAYS = {1, 2}
  TRADE_EXPIRATION = 4
  TERM_EXPIRATION = 11
  ENTRY_START = 890
  STOP_NEW_ORDERS = 940
  CANCEL_ALL_UNFILLED = 945
  CANARY_DATE = 3
  CANARY_START = 585
  CANARY_STOP = 645
  CANARY_CANCEL = 650
  CANARY_EXIT = 915
  ACCEPTED_OPEN_INTEREST_DATES = {0, 1, 2}
  Markets <- AllMarkets
  Moments = {570, 585, 593, 645, 646, 650, 890, 915, 925, 940, 941, 945}
  FirstDay = 2
  LastDay = 4
  Lags = {0, 3}
  MaxReprices = 2
  MAX_EXIT_ORDER_CHAINS = 3
INVARIANTS
  PricingTypeOK
  NothingIsRefusedLate
  LossWithinBudget
  UnchangedMarketPasses
  OrdersStartOnTick
  OverdueIsDue
PROPERTY
  PricesMoveTowardsFill
CHECK_DEADLOCK FALSE
