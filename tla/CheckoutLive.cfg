SPECIFICATION FairSpec
CONSTANTS
  o1 = o1
  Orders = {o1}
  NoOrder = NoOrder
  Payments = {"card", "decline", "bank"}
  Cancellers = {"reaper", "failed"}
INVARIANT CheckoutInv
PROPERTIES ImplementsPurchase PaidIsFulfilled PendingResolves
CHECK_DEADLOCK FALSE
