CONSTANT Plans <- MCPlans
CONSTANT NoPlan <- End
CONSTANT MaxLayer = 3
SPECIFICATION DeliverySpec
CHECK_DEADLOCK FALSE
INVARIANTS
  ReadsBack
  SameWalks
