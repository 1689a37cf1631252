SPECIFICATION Spec
CONSTANTS
  ORDER = 4
  Key <- Keys10
  MAX_FAILURES = 1
INVARIANTS
  LossOnlyByPromotion
  Balanced
  WellLinked
  ChainKeepsKeys
  FailedPromotionLosesARun
