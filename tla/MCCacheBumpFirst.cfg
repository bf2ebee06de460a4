SPECIFICATION Spec
CONSTANTS
  shirts = shirts
  bags = bags
  r1 = r1
  r2 = r2
  All = All
  Start = Start
  Malformed = Malformed
  End = End
  Category <- FourNames
  Shelf0 <- TwoPriced
  Prices = {1, 2}
  Newcomers = {3}
  Queries <- Cheapest
  Readers = {r1, r2}
  Crowds <- AnyCrowd
  Apis = {a1}
  Writers = {w1}
  Threshold = 1
  MaxStates = 2
  MaxFaults = 0
INVARIANTS
  BumpedMeansListed
