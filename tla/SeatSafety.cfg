SPECIFICATION Spec
CONSTANTS
  o1 = o1
  o2 = o2
  o3 = o3
  s1 = s1
  s2 = s2
  Orders = {o1,o2,o3}
  Seats = {s1,s2}
  NoOrder = NoOrder
  NoSeat = NoSeat
  SeatTTL = 2
  CartTTL = 3
  Slack = 1
  Drift = 1
  Horizon = 4
  Gaps = {}
SYMMETRY Symmetry
INVARIANTS TypeOK OpenOrderKeepsSeat PaidIsMintable OwnSeatIsOffered
PROPERTY ReaperFreesUneditedCart
CHECK_DEADLOCK FALSE
