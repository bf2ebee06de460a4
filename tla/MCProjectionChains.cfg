SPECIFICATION RunningSpec
CONSTANTS
  shoes = shoes
  bags = bags
  Products = {1, 2, 3}
  Categories = {shoes}
  PromotionIds = {1, 2}
  Windows <- MuchLater
  Discounts <- Half
  MaxTime = 1
  Listings <- NoListings
  Catalogue <- ThreeShoes
  Workers = {w1}
  Reconcilers = {}
  Ingestors = {}
  Creators = {}
  BatchSize = 2
  ScanWindow = 1
  SweepLimit = 1
  Horizon = 2
  Skew = 0
  MaxAttempts = 2
  MaxFaults = 0
  MaxUpserts = 1

  
PROPERTIES ChainsEnd
CHECK_DEADLOCK FALSE
