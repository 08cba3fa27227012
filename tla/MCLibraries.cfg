SPECIFICATION LibrariesSpec
CONSTANTS
  RefillIds = {"a", "b"}
  Counts <- TypedCounts
  Stocks = {1}
  MaxRefills = 2
  MaxPurchases = 1
  MaxSales = 2
  MaxFaults = 1
INVARIANTS StructuresSound StockAgrees
PROPERTIES KeepPromises
CHECK_DEADLOCK FALSE
