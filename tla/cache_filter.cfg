SPECIFICATION Spec
CONSTANTS
  Nil = Nil
  Garbage = Garbage
  Error = Error
  NotFound = NotFound
  detail = detail
  late = late
  late2 = late2
  list = list
  warm = warm
  rebuild = rebuild
  rebuild2 = rebuild2
  o1 = o1
  o2 = o2
  Skus = {1, 2}
  CacheEnabled = TRUE
  InvalidateOnOrder = "item"
  DoubleDelete = FALSE
  LocalCapacity = 1
  Spoilable = {}
  Reqs = {late, late2, rebuild, rebuild2}
  Orders = {}
  OnSale = {1}
  ListLimit = 2
  WarmLimit = 1
  BloomEnabled = TRUE
  Bits = 70
  Hashes = 3
  Word = 128
  Hash1 <- MCHash1
  Hash2 <- MCHash2
  Prompt = TRUE
  Kind <- MCKind
  Wants <- MCWants
  Buys <- MCBuys
SYMMETRY Alike
CHECK_DEADLOCK FALSE
INVARIANTS
  NotFoundIsHonest RebuildCounts
