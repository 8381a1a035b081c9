SPECIFICATION Spec
CONSTANTS
  Nil = Nil
  Garbage = Garbage
  Error = Error
  NotFound = NotFound
  detail = detail
  late = late
  late2 = late2
  list = list
  warm = warm
  rebuild = rebuild
  rebuild2 = rebuild2
  o1 = o1
  o2 = o2
  Skus = {1}
  CacheEnabled = TRUE
  InvalidateOnOrder = "all"
  DoubleDelete = TRUE
  LocalCapacity = 2
  Spoilable = {}
  Reqs = {detail, list}
  Orders = {o1, o2}
  OnSale = {1}
  ListLimit = 2
  WarmLimit = 2
  BloomEnabled = FALSE
  Bits = 70
  Hashes = 3
  Word = 128
  Hash1 <- MCHash1
  Hash2 <- MCHash2
  Prompt = TRUE
  Kind <- MCKind
  Wants <- MCWants
  Buys <- MCBuys
CHECK_DEADLOCK FALSE
INVARIANTS
  TypeOK FreshWhenQuiet
