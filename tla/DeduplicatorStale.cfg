\* One flow, one slot.
SPECIFICATION Spec
CONSTANTS
  f = f
  g = g
  h = h
  KeysPerBucket = 2
  Timeout = 1
  NumBuckets = 1
  Flows = {f}
  HashOf <- OneFlow
  Links = {1, 2}
  AnyLink = 0
  CounterModulus = 2
  MaxTime = 3
PROPERTY KeptLinkIsOpeners
