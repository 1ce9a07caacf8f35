\* Three hashes compete for the two slots of bucket 0.
SPECIFICATION Spec
CONSTANTS
  f = f
  g = g
  h = h
  KeysPerBucket = 2
  Timeout = 1
  NumBuckets = 2
  Flows = {f, g, h}
  HashOf <- Hashing
  Links = {1, 2}
  AnyLink = 0
  CounterModulus = 2
  MaxTime = 3
INVARIANTS TypeOK UniqueKeys TimesAreExact
PROPERTIES DropsAreRecent ImplementsCache
