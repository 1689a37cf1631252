SPECIFICATION Spec
CONSTANTS
  ORDER = 4
  Key <- Keys4
  MAX_FAILURES = 1
INVARIANTS
  SplitPreservesKeys
