SPECIFICATION Spec
CONSTANTS
  o1 = o1
  o2 = o2
  Orders = {o1, o2}
  NoOrder = NoOrder
  Payments = {"card"}
  Cancellers = {"reaper", "sibling", "beacon"}
SYMMETRY Symmetry
INVARIANTS TypeOK CheckoutInv CancelledIsDead CreditNotStranded
PROPERTY ImplementsPurchase
CHECK_DEADLOCK FALSE
