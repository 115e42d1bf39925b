SPECIFICATION Spec
CONSTANTS
  o1 = o1
  o2 = o2
  o3 = o3
  s1 = s1
  Orders = {o1,o2,o3}
  Seats = {s1}
  NoOrder = NoOrder
  NoSeat = NoSeat
  SeatTTL = 2
  CartTTL = 3
  Slack = 1
  Drift = 1
  Horizon = 5
  Gaps = {"sweep"}
SYMMETRY Symmetry
PROPERTY OpenSeatStaysHeld
CHECK_DEADLOCK FALSE
