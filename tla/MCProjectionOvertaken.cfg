SPECIFICATION Spec
CONSTANTS
  shoes = shoes
  bags = bags
  Products = {1, 2}
  Categories = {shoes}
  PromotionIds = {1, 2}
  Windows <- Open
  Discounts <- Half
  MaxTime = 0
  Listings <- NoListings
  Catalogue <- TwoShoes
  Workers = {w1, w2}
  Reconcilers = {}
  Ingestors = {}
  Creators = {}
  BatchSize = 2
  ScanWindow = 1
  SweepLimit = 1
  Horizon = 0
  Skew = 1
  MaxAttempts = 2
  MaxFaults = 0
  MaxUpserts = 1
INVARIANTS
  DrainedMeansCorrect
CHECK_DEADLOCK FALSE
