SPECIFICATION PromoSpec
CONSTANTS
  Products = {1}
  Categories = {shoes}
  PromotionIds = {1, 2, 3}
  Windows <- MCWindows
  Discounts <- MCDiscounts
  MaxTime = 3
  BasePrices = {333, 14999}
  MaxPriceCents = 100000
  Rejected = Rejected
INVARIANTS
  OneActivePerTarget
  WinnerIsDetermined
  CoreAgreesWithSql
CHECK_DEADLOCK FALSE
