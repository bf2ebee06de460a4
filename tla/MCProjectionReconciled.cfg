SPECIFICATION ReconciledSpec
CONSTANTS
  shoes = shoes
  bags = bags
  Products = {1, 2}
  Categories = {shoes}
  PromotionIds = {1}
  Windows <- LaterOnly
  Discounts <- Half
  MaxTime = 1
  Listings <- DearOnly
  Catalogue <- OneShoe
  Workers = {w1}
  Reconcilers = {r1}
  Ingestors = {i1}
  Creators = {c1}
  BatchSize = 1
  ScanWindow = 2
  SweepLimit = 1
  Horizon = 0
  Skew = 1
  MaxAttempts = 2
  MaxFaults = 1
  MaxUpserts = 1
INVARIANTS
  TypeOK
  EveryPriceExplained
PROPERTIES EventuallyCorrect
CHECK_DEADLOCK FALSE
