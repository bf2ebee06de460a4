SPECIFICATION WatchedSpec
CONSTANTS
  shoes = shoes
  bags = bags
  Products = {1, 2, 3, 4}
  Categories = {shoes, bags}
  PromotionIds = {1}
  Windows <- MuchLater
  Discounts <- Half
  MaxTime = 1
  Listings <- MovedOnly
  Catalogue <- ThreeShoes
  Workers = {w1, w2}
  Reconcilers = {}
  Ingestors = {i1}
  Creators = {c1}
  BatchSize = 2
  ScanWindow = 2
  SweepLimit = 1
  Horizon = 2
  Skew = 0
  MaxAttempts = 2
  MaxFaults = 0
  MaxUpserts = 1
INVARIANTS
  StaleRowsAhead
  EveryPriceExplained
CHECK_DEADLOCK FALSE
SYMMETRY AnyWorker
