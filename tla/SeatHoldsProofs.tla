--------------------------- MODULE SeatHoldsProofs ---------------------------
(***************************************************************************)
(* Theorems about SeatHolds for any orders, seats, times and fences.       *)
(***************************************************************************)
EXTENDS SeatHolds, TLAPS

\* The clock is past the drift of the stamps, and holds end with the horizon.
Clocked ==
  /\ Drift <= now
  /\ \A o \in Orders : occurredAt[o] <= Horizon /\ heldAt[o] <= Horizon

\* An order that exists names a seat; a ticket sits on a sold seat only.
Sold ==
  /\ \A o \in Orders : status[o] # "NONE" => seatOf[o] \in Seats
  /\ \A s \in Seats : ticket[s] # NoOrder => seat[s] = "SOLD"
  /\ TicketedSeatIsSold

\* What is read before it is used: only in the gaps that are open, and by
\* orders that do not exist yet.
Reading ==
  /\ \A o \in Orders : read[o] # NothingRead =>
       "retire" \in Gaps /\ status[o] = "NONE" /\ read[o].cart \in Orders \ {o}
  /\ swept # {} => "sweep" \in Gaps

\* Without gaps, the seat of an open order was last written by the order.
Kept ==
  Gaps = {} => \A o \in Orders : Open(o) =>
    /\ seat[seatOf[o]] = "HELD" /\ stamp[seatOf[o]] = heldAt[o]
    /\ \A p \in Orders \ {o} : Open(p) => seatOf[p] # seatOf[o]

SeatInv == TypeOK /\ Clocked /\ Sold /\ Reading /\ Kept

\* Releases and sweeps take held seats only, and the sweep none of an order
\* that stays open.
LEMMA Freed ==
  ASSUME SeatInv
  PROVE  /\ \A s, fence : Releasable(s, fence) \subseteq
                            {t \in Seats : t = s /\ seat[t] = "HELD"}
         /\ \A gone : Orphans(gone) \subseteq
              {t \in Seats : /\ seat[t] = "HELD"
                             /\ \A o \in Orders \ gone : Open(o) => seatOf[o] # t}
         /\ \A sel : Seizes(sel) \subseteq {t \in sel : seat[t] = "HELD"}
  BY DEF Releasable, Orphans, Expired, Seizes

\* What a transaction leaves that frees some held seats and takes a seat that
\* was free, or just freed.
LEMMA Held ==
  ASSUME SeatInv, NEW s \in Seats, NEW free, NEW gone, Holds(s, free, gone),
         \A t \in free : t \in Seats /\ seat[t] = "HELD"
  PROVE  /\ seat' \in [Seats -> {"AVAILABLE", "HELD", "SOLD"}]
         /\ stamp' \in [Seats -> 0..End] /\ ticket' = ticket
         /\ seat'[s] = "HELD" /\ stamp'[s] = now /\ ticket[s] = NoOrder
         /\ \A t \in Seats : stamp'[t] <= now
         /\ \A t \in Seats : seat[t] = "SOLD" <=> seat'[t] = "SOLD"
         /\ \A t \in Seats \ {s} :
              t \notin free \union Orphans(gone) =>
                seat'[t] = seat[t] /\ stamp'[t] = stamp[t]
         /\ s \in free \union Orphans(gone) \/ seat[s] = "AVAILABLE"
<1>1. Orphans(gone) \subseteq {t \in Seats : seat[t] = "HELD"}
  BY Freed
<1>2. now \in 0..End /\ \A t \in Seats : stamp[t] <= now
  BY DEF SeatInv, TypeOK
<1> QED BY <1>1, <1>2 DEF Holds, SeatInv, TypeOK

\* What a release leaves.
LEMMA FreeKeeps ==
  ASSUME SeatInv, NEW free, Free(free),
         \A t \in free : t \in Seats /\ seat[t] = "HELD"
  PROVE  /\ seat' \in [Seats -> {"AVAILABLE", "HELD", "SOLD"}]
         /\ stamp' \in [Seats -> 0..End] /\ ticket' = ticket
         /\ \A t \in Seats : stamp'[t] <= now
         /\ \A t \in Seats : seat[t] = "SOLD" <=> seat'[t] = "SOLD"
         /\ \A t \in Seats \ free : seat'[t] = seat[t] /\ stamp'[t] = stamp[t]
<1>1. now \in 0..End /\ \A t \in Seats : stamp[t] <= now
  BY DEF SeatInv, TypeOK
<1> QED BY <1>1 DEF Free, SeatInv, TypeOK

\* The order row of a hold taken now.
LEMMA Written ==
  ASSUME SeatInv, NEW o \in Orders, NEW s \in Seats, Writes(o, s),
         now <= Horizon
  PROVE  /\ occurredAt' \in [Orders -> 0..End] /\ heldAt' \in [Orders -> 0..End]
         /\ seatOf' \in [Orders -> Seats \union {NoSeat}]
         /\ seatOf'[o] = s /\ heldAt'[o] = now
         /\ \A p \in Orders : /\ occurredAt'[p] <= now /\ heldAt'[p] <= now
                              /\ occurredAt'[p] <= Horizon /\ heldAt'[p] <= Horizon
         /\ \A p \in Orders \ {o} :
              seatOf'[p] = seatOf[p] /\ heldAt'[p] = heldAt[p]
<1>1. /\ now \in 0..End /\ Drift <= now /\ Drift \in Nat /\ Horizon \in Nat
      /\ End \in Nat
      /\ \A p \in Orders : /\ occurredAt[p] <= now /\ heldAt[p] <= now
                           /\ occurredAt[p] <= Horizon /\ heldAt[p] <= Horizon
  BY SeatHoldsAssumptions DEF SeatInv, TypeOK, Clocked, End
<1>2. PICK d \in 0..Drift : occurredAt' = [occurredAt EXCEPT ![o] = now - d]
  BY DEF Writes
<1>3. now - d \in 0..End /\ now - d <= now
  BY <1>1
<1> QED BY <1>1, <1>2, <1>3 DEF Writes, SeatInv, TypeOK

\* The buyer's cart takes its first seat.
LEMMA HoldCartStep ==
  ASSUME SeatInv, NEW o \in Orders, NEW s \in Seats, HoldCart(o, s)
  PROVE  SeatInv'
<1>1. /\ Holds(s, {}, {}) /\ Writes(o, s) /\ now <= Horizon
      /\ status[o] = "NONE" /\ read[o] = NothingRead
      /\ status' = [status EXCEPT ![o] = "PENDING"]
      /\ now' = now /\ checkedOut' = checkedOut /\ paid' = paid
      /\ swept' = swept /\ read' = read
  BY DEF HoldCart, clock
<1> DEFINE freed == Orphans({})
<1>2. /\ \A t \in freed : t \in Seats /\ seat[t] = "HELD"
      /\ \A p \in Orders : Open(p) => seatOf[p] \notin freed
  BY Freed
<1>3. TypeOK'
  BY <1>1, Held, Written DEF SeatInv, TypeOK
<1>4. Clocked'
  BY <1>1, Written DEF SeatInv, Clocked
<1>5. Sold'
  BY <1>1, Held, Written DEF SeatInv, Sold, TicketedSeatIsSold, TypeOK
<1>6. Reading'
  BY <1>1 DEF SeatInv, Reading, TypeOK
<1>7. Kept'
  BY <1>1, <1>2, Held, Written DEF SeatInv, Kept, Open, TypeOK, Sold
<1> QED BY <1>3, <1>4, <1>5, <1>6, <1>7 DEF SeatInv

\* The cart moves to another seat, or takes its own again.
LEMMA EditCartStep ==
  ASSUME SeatInv, NEW o \in Orders, NEW s \in Seats, EditCart(o, s)
  PROVE  SeatInv'
<1> DEFINE own == Releasable(seatOf[o], HoldFence(o))
<1>1. /\ Holds(s, own, {}) /\ now <= Horizon
      /\ status[o] = "PENDING" /\ status' = status
      /\ heldAt' = [heldAt EXCEPT ![o] = now]
      /\ seatOf' = [seatOf EXCEPT ![o] = s]
      /\ now' = now /\ occurredAt' = occurredAt
      /\ checkedOut' = checkedOut /\ paid' = paid
      /\ swept' = swept /\ read' = read
  BY DEF EditCart, clock
<1>2. /\ \A t \in own : t \in Seats /\ seat[t] = "HELD" /\ t = seatOf[o]
      /\ \A t \in Orphans({}) : t \in Seats /\ seat[t] = "HELD"
      /\ \A p \in Orders : Open(p) => seatOf[p] \notin Orphans({})
  BY Freed
<1> HIDE DEF own
<1>3. TypeOK'
  BY <1>1, <1>2, Held DEF SeatInv, TypeOK
<1>4. Clocked'
  BY <1>1 DEF SeatInv, Clocked, TypeOK
<1>5. Sold'
  BY <1>1, <1>2, Held DEF SeatInv, Sold, TicketedSeatIsSold, TypeOK
<1>6. Reading'
  BY <1>1 DEF SeatInv, Reading, TypeOK
<1>7. Kept'
  BY <1>1, <1>2, Held DEF SeatInv, Kept, Open, TypeOK, Sold
<1> QED BY <1>3, <1>4, <1>5, <1>6, <1>7 DEF SeatInv

\* A checkout commits, with a cart it read now or, in the gap, before.
LEMMA CommitStep ==
  ASSUME SeatInv, NEW o \in Orders, NEW s \in Seats,
         NEW p \in Orders \union {NoOrder}, NEW readSeat, NEW fence,
         CommitsOver(o, p, readSeat, fence, s), status[o] = "NONE", p # o,
         Gaps = {} /\ p # NoOrder => readSeat = seatOf[p]
  PROVE  SeatInv'
<1> DEFINE retires == p # NoOrder /\ Open(p) /\ p \notin paid
           free == IF retires THEN Releasable(readSeat, fence) ELSE {}
           gone == IF retires THEN {p} ELSE {}
<1>1. /\ Holds(s, free, gone) /\ Writes(o, s) /\ now <= Horizon
      /\ status' = IF retires
                   THEN [status EXCEPT ![p] = "CANCELLED", ![o] = "PENDING"]
                   ELSE [status EXCEPT ![o] = "PENDING"]
      /\ checkedOut' = checkedOut \union {o}
      /\ read' = [read EXCEPT ![o] = NothingRead]
      /\ now' = now /\ paid' = paid /\ swept' = swept
  BY DEF CommitsOver, clock
<1>2. /\ \A t \in free : t \in Seats /\ seat[t] = "HELD" /\ t = readSeat
      /\ \A t \in Orphans(gone) : t \in Seats /\ seat[t] = "HELD"
      /\ \A q \in Orders \ gone : Open(q) => seatOf[q] \notin Orphans(gone)
  BY Freed
<1>3. retires => p \in Orders /\ status[p] = "PENDING"
  BY DEF Open
<1>4. \A q \in Orders : Open(q)' <=> q = o \/ (Open(q) /\ q \notin gone)
  BY <1>1, <1>3 DEF Open, SeatInv, TypeOK
<1>5. NothingRead \in [cart : Orders \union {NoOrder},
                       seat : Seats \union {NoSeat}, fence : 0..End]
  BY SeatHoldsAssumptions DEF NothingRead, End
<1>6. TypeOK'
  <2>1. /\ status' \in [Orders -> {"NONE", "PENDING", "SUCCEEDED", "CANCELLED"}]
        /\ checkedOut' \subseteq Orders /\ paid' \subseteq Orders
        /\ swept' \subseteq Seats /\ now' \in 0..End
        /\ read' \in [Orders -> [cart : Orders \union {NoOrder},
                                 seat : Seats \union {NoSeat}, fence : 0..End]]
    BY <1>1, <1>3, <1>5 DEF SeatInv, TypeOK
  <2> HIDE DEF free, gone, retires
  <2> QED BY <2>1, <1>1, <1>2, Held, Written DEF SeatInv, TypeOK
<1>7. Clocked'
  BY <1>1, Written DEF SeatInv, Clocked
<1>8. Sold'
  <2>1. \A q \in Orders : /\ status'[q] = "SUCCEEDED" => status[q] = "SUCCEEDED"
                          /\ status[q] = "SUCCEEDED" => q # o
                          /\ status'[q] # "NONE" => q = o \/ status[q] # "NONE"
    BY <1>1, <1>3 DEF SeatInv, TypeOK
  <2> HIDE DEF free, gone, retires
  <2> QED BY <2>1, <1>1, <1>2, Held, Written
          DEF SeatInv, Sold, TicketedSeatIsSold, TypeOK
<1>9. Reading'
  <2>1. \A q \in Orders \ {o} :
          /\ read'[q] = read[q]
          /\ status[q] = "NONE" => status'[q] = "NONE"
    BY <1>1, <1>3 DEF SeatInv, TypeOK
  <2>2. read'[o] = NothingRead
    BY <1>1 DEF SeatInv, TypeOK
  <2> QED BY <2>1, <2>2, <1>1 DEF SeatInv, Reading
<1>10. Kept'
  <2> SUFFICES ASSUME Gaps = {} PROVE Kept'
    BY DEF Kept
  <2>1. \A q \in Orders : Open(q) /\ q \notin gone =>
          seatOf[q] \in Seats /\ seatOf[q] \notin free \union Orphans(gone)
    BY <1>2, <1>3 DEF SeatInv, Kept, Sold, Open
  <2> HIDE DEF free, gone, retires
  <2> QED BY <2>1, <1>1, <1>2, <1>4, Held, Written DEF SeatInv, Kept
<1> QED BY <1>6, <1>7, <1>8, <1>9, <1>10 DEF SeatInv

\* A checkout, in one step or as the second half of a gap.
LEMMA CheckoutStep ==
  ASSUME SeatInv, NEW o \in Orders, NEW s \in Seats,
         \/ CheckoutWrites(o, s)
         \/ \E p \in Orders \union {NoOrder} : Checkout(o, p, s)
  PROVE  SeatInv'
<1>1. CASE CheckoutWrites(o, s)
  <2>1. /\ status[o] = "NONE" /\ read[o].cart \in Orders \ {o}
        /\ Gaps # {}
    BY <1>1 DEF CheckoutWrites, SeatInv, Reading
  <2> QED BY <1>1, <2>1, CommitStep DEF CheckoutWrites
<1>2. CASE \E p \in Orders \union {NoOrder} : Checkout(o, p, s)
  <2>1. PICK p \in Orders \union {NoOrder} : Checkout(o, p, s)
    BY <1>2
  <2>2. CASE p = NoOrder
    BY <2>1, <2>2, CommitStep DEF Checkout
  <2>3. CASE p # NoOrder
    BY <2>1, <2>3, CommitStep DEF Checkout
  <2> QED BY <2>2, <2>3
<1> QED BY <1>1, <1>2

\* The first half of the gap.
LEMMA ReadsStep ==
  ASSUME SeatInv, NEW o \in Orders,
         CheckoutRefused(o) \/ \E p \in Orders : CheckoutReads(o, p)
  PROVE  SeatInv'
<1>1. CASE CheckoutRefused(o)
  <2>1. NothingRead \in [cart : Orders \union {NoOrder},
                         seat : Seats \union {NoSeat}, fence : 0..End]
    BY SeatHoldsAssumptions DEF NothingRead, End
  <2> QED BY <1>1, <2>1 DEF CheckoutRefused, clock, orderVars, seatVars,
             SeatInv, TypeOK, Clocked, Sold, TicketedSeatIsSold, Reading, Kept,
             Open
<1>2. CASE \E p \in Orders : CheckoutReads(o, p)
  <2>1. PICK p \in Orders : CheckoutReads(o, p)
    BY <1>2
  <2> DEFINE r == [cart |-> p, seat |-> seatOf[p], fence |-> HoldFence(p)]
  <2>2. HoldFence(p) \in 0..End
    BY SeatHoldsAssumptions DEF HoldFence, Later, End, SeatInv, TypeOK, Clocked
  <2>3. r \in [cart : Orders \union {NoOrder}, seat : Seats \union {NoSeat},
               fence : 0..End]
    BY <2>2 DEF SeatInv, TypeOK
  <2>4. /\ read' = [read EXCEPT ![o] = r] /\ r.cart = p
        /\ "retire" \in Gaps /\ status[o] = "NONE" /\ p # o
        /\ UNCHANGED <<clock, orderVars, seatVars, swept>>
    BY <2>1 DEF CheckoutReads
  <2> HIDE DEF r
  <2> QED BY <2>3, <2>4 DEF clock, orderVars, seatVars, SeatInv, TypeOK,
             Clocked, Sold, TicketedSeatIsSold, Reading, Kept, Open
<1> QED BY <1>1, <1>2

\* The money, the ticket.
LEMMA PayStep ==
  ASSUME SeatInv, NEW o \in Orders, Pay(o)
  PROVE  SeatInv'
  BY DEF Pay, clock, seatVars, SeatInv, TypeOK, Clocked, Sold,
         TicketedSeatIsSold, Reading, Kept, Open

LEMMA FinalizeStep ==
  ASSUME SeatInv, NEW o \in Orders, Finalize(o)
  PROVE  SeatInv'
<1>1. /\ status[o] = "PENDING" /\ seatOf[o] \in Seats
      /\ seat[seatOf[o]] # "SOLD" /\ ticket[seatOf[o]] = NoOrder
  BY DEF Finalize, Open, Mintable, SeatInv, Sold
<1>2. /\ status' = [status EXCEPT ![o] = "SUCCEEDED"]
      /\ seat' = [seat EXCEPT ![seatOf[o]] = "SOLD"]
      /\ stamp' = [stamp EXCEPT ![seatOf[o]] = now]
      /\ ticket' = [ticket EXCEPT ![seatOf[o]] = o]
      /\ UNCHANGED <<now, occurredAt, seatOf, heldAt, checkedOut, paid, swept,
                     read>>
  BY DEF Finalize, clock
<1>3. TypeOK'
  BY <1>1, <1>2 DEF SeatInv, TypeOK
<1>4. Clocked' /\ Reading'
  BY <1>1, <1>2 DEF SeatInv, Clocked, Reading, TypeOK
<1>5. Sold'
  BY <1>1, <1>2 DEF SeatInv, Sold, TicketedSeatIsSold, TypeOK
<1>6. Kept'
  BY <1>1, <1>2 DEF SeatInv, Kept, Open, TypeOK, Sold
<1> QED BY <1>3, <1>4, <1>5, <1>6 DEF SeatInv

\* An order is cancelled, and its seat released or left to the sweep.
LEMMA CancelStep ==
  ASSUME SeatInv, NEW o \in Orders,
         ReapCart(o) \/ ReleaseCart(o) \/ CancelKeepingSeat(o)
  PROVE  SeatInv'
<1>1. PICK free : /\ Free(free) \/ (free = {} /\ UNCHANGED seatVars)
                  /\ \A t \in free : /\ t \in Seats /\ seat[t] = "HELD"
                                     /\ t = seatOf[o]
  <2>1. CASE ReapCart(o)
    BY <2>1, Freed DEF ReapCart
  <2>2. CASE ReleaseCart(o)
    BY <2>2, Freed DEF ReleaseCart
  <2>3. CASE CancelKeepingSeat(o)
    <3>1. UNCHANGED seatVars
      BY <2>3 DEF CancelKeepingSeat
    <3> WITNESS {}
    <3> QED BY <3>1
  <2> QED BY <2>1, <2>2, <2>3
<1>2. /\ status[o] = "PENDING" /\ status' = [status EXCEPT ![o] = "CANCELLED"]
      /\ UNCHANGED <<now, occurredAt, seatOf, heldAt, checkedOut, paid, swept,
                     read>>
  BY DEF ReapCart, ReleaseCart, CancelKeepingSeat, Cancels, Open, clock
<1>3. /\ seat' \in [Seats -> {"AVAILABLE", "HELD", "SOLD"}]
      /\ stamp' \in [Seats -> 0..End] /\ ticket' = ticket
      /\ \A t \in Seats : stamp'[t] <= now
      /\ \A t \in Seats : seat[t] = "SOLD" <=> seat'[t] = "SOLD"
      /\ \A t \in Seats \ free : seat'[t] = seat[t] /\ stamp'[t] = stamp[t]
  BY <1>1, FreeKeeps DEF seatVars, SeatInv, TypeOK
<1>4. TypeOK'
  BY <1>2, <1>3 DEF SeatInv, TypeOK
<1>5. Clocked' /\ Reading'
  BY <1>2 DEF SeatInv, Clocked, Reading, TypeOK
<1>6. Sold'
  BY <1>2, <1>3 DEF SeatInv, Sold, TicketedSeatIsSold, TypeOK
<1>7. Kept'
  BY <1>1, <1>2, <1>3 DEF SeatInv, Kept, Open, TypeOK, Sold
<1> QED BY <1>4, <1>5, <1>6, <1>7 DEF SeatInv

\* The seat reaper, as one step or in its gap.
LEMMA SweepStep ==
  ASSUME SeatInv, Sweep \/ SweepSelects \/ SweepUpdates
  PROVE  SeatInv'
<1>1. CASE SweepSelects
  BY <1>1, Freed DEF SweepSelects, clock, orderVars, seatVars, SeatInv, TypeOK,
     Clocked, Sold, TicketedSeatIsSold, Reading, Kept, Open
<1>2. CASE Sweep \/ SweepUpdates
  <2>1. PICK free :
          /\ Free(free) /\ \A t \in free : t \in Seats /\ seat[t] = "HELD"
          /\ Gaps = {} => \A o \in Orders : Open(o) => seatOf[o] \notin free
    <3>1. CASE Sweep
      BY <3>1, Freed DEF Sweep
    <3>2. CASE SweepUpdates
      BY <3>2, Freed DEF SweepUpdates, SeatInv, TypeOK, Reading
    <3> QED BY <1>2, <3>1, <3>2
  <2>2. /\ UNCHANGED <<now, status, occurredAt, seatOf, heldAt, checkedOut, paid,
                       read>>
        /\ swept' \in {swept, {}}
    BY <1>2 DEF Sweep, SweepUpdates, clock, orderVars
  <2>3. TypeOK'
    BY <2>1, <2>2, FreeKeeps DEF SeatInv, TypeOK
  <2>4. Clocked' /\ Reading'
    BY <2>2 DEF SeatInv, Clocked, Reading
  <2>5. Sold'
    BY <2>1, <2>2, FreeKeeps DEF SeatInv, Sold, TicketedSeatIsSold, TypeOK
  <2>6. Kept'
    BY <2>1, <2>2, FreeKeeps DEF SeatInv, Kept, Open, TypeOK, Sold
  <2> QED BY <2>3, <2>4, <2>5, <2>6 DEF SeatInv
<1> QED BY <1>1, <1>2

LEMMA TickStep ==
  ASSUME SeatInv, Tick \/ UNCHANGED vars
  PROVE  SeatInv'
<1>1. UNCHANGED <<orderVars, seatVars, swept, read>>
      /\ now' \in 0..End /\ now <= now'
  BY SeatHoldsAssumptions DEF Tick, vars, clock, SeatInv, TypeOK, End
<1>2. TypeOK'
  BY <1>1 DEF orderVars, seatVars, SeatInv, TypeOK
<1>3. Clocked' /\ Sold' /\ Reading' /\ Kept'
  BY <1>1, SeatHoldsAssumptions DEF orderVars, seatVars, SeatInv, Clocked, Sold,
     TicketedSeatIsSold, Reading, Kept, Open, TypeOK
<1> QED BY <1>2, <1>3 DEF SeatInv

\* Every step keeps the invariant.
LEMMA InvStep == SeatInv /\ [Next]_vars => SeatInv'
  BY HoldCartStep, EditCartStep, CheckoutStep, ReadsStep, PayStep, FinalizeStep,
     CancelStep, SweepStep, TickStep DEF Next

\* The inductive invariant: what the order rows, the seats and their stamps
\* say about each other in every transaction.
THEOREM SeatInvariance == Spec => []SeatInv
<1>1. Init => SeatInv
  <2> SUFFICES ASSUME Init PROVE SeatInv
    OBVIOUS
  <2>1. End \in Nat /\ Drift \in 0..End /\ Horizon \in Nat /\ 0 \in 0..End
    BY SeatHoldsAssumptions DEF End
  <2>2. NothingRead \in [cart : Orders \union {NoOrder},
                         seat : Seats \union {NoSeat}, fence : 0..End]
    BY <2>1 DEF NothingRead
  <2>3. TypeOK
    BY <2>1, <2>2 DEF Init, TypeOK
  <2>4. Clocked
    BY <2>1, SeatHoldsAssumptions DEF Init, Clocked
  <2>5. Sold /\ Reading /\ Kept
    BY DEF Init, Sold, TicketedSeatIsSold, Reading, Kept, Open
  <2> QED BY <2>3, <2>4, <2>5 DEF SeatInv
<1> QED BY <1>1, InvStep, PTL DEF Spec

\* Type correctness, with the times of every row behind the clock.
THEOREM SeatTypes == Spec => []TypeOK
  BY SeatInvariance, PTL DEF SeatInv

\* A ticket is final, whichever gaps are open: no sweep or release that
\* decided earlier puts a sold seat back on sale (releaseSeats and
\* releaseExpiredHolds ask for HELD in their UPDATE).
THEOREM TicketIsFinal == Spec => []TicketedSeatIsSold
<1>1. SeatInv => TicketedSeatIsSold
  BY DEF SeatInv, Sold
<1> QED BY <1>1, SeatInvariance, PTL

\* With transactions that nobody commits between, the seat of an open order
\* is held for that order alone, whatever its buyers, reapers and sweeps do:
\* the sweep's anti-join and the fences are enough.
THEOREM OpenOrderKeeps ==
  ASSUME Gaps = {}
  PROVE  Spec => []OpenOrderKeepsSeat
<1>1. SeatInv => OpenOrderKeepsSeat
  BY DEF SeatInv, Kept, OpenOrderKeepsSeat
<1> QED BY <1>1, SeatInvariance, PTL

\* And an order that is paid for can be fulfilled.
THEOREM PaidMints ==
  ASSUME Gaps = {}
  PROVE  Spec => []PaidIsMintable
<1>1. SeatInv => PaidIsMintable
  <2> SUFFICES ASSUME SeatInv, NEW o \in paid, Open(o) PROVE Mintable(o)
    BY DEF PaidIsMintable
  <2>1. o \in Orders /\ seat[seatOf[o]] = "HELD" /\ seatOf[o] \in Seats
    BY DEF SeatInv, TypeOK, Kept, Sold, Open
  <2>2. ticket[seatOf[o]] = NoOrder
    BY <2>1 DEF SeatInv, Sold
  <2> QED BY <2>1, <2>2 DEF Mintable
<1> QED BY <1>1, SeatInvariance, PTL

\* A release always finds the cart's own seat below its fence, however often
\* the cart was edited (resolveSeatHoldFence takes the last hold into account).
THEOREM OwnSeatOffered ==
  ASSUME Gaps = {}
  PROVE  Spec => []OwnSeatIsOffered
<1>1. SeatInv => OwnSeatIsOffered
  <2> SUFFICES ASSUME SeatInv, NEW o \in Orders, Open(o)
               PROVE  seatOf[o] \in Releasable(seatOf[o], HoldFence(o))
    BY DEF OwnSeatIsOffered
  <2>1. /\ seatOf[o] \in Seats /\ seat[seatOf[o]] = "HELD"
        /\ stamp[seatOf[o]] = heldAt[o]
    BY DEF SeatInv, Kept, Sold, Open
  <2>2. heldAt[o] <= HoldFence(o)
    BY SeatHoldsAssumptions DEF HoldFence, Later, SeatInv, TypeOK
  <2> QED BY <2>1, <2>2 DEF Releasable
<1> QED BY <1>1, SeatInvariance, PTL

\* The cart reaper frees the seat of a cart that was never edited, for any
\* drift of the two clocks below the slack (SEAT_FENCE_SLACK_SECONDS).
THEOREM ReaperFrees ==
  ASSUME Gaps = {}
  PROVE  Spec => ReaperFreesUneditedCart
<1> DEFINE Frees == \A o \in Orders :
      ReapCart(o) /\ heldAt[o] <= occurredAt[o] + Drift
        => seat'[seatOf[o]] = "AVAILABLE"
<1>1. SeatInv => Frees
  <2> SUFFICES ASSUME SeatInv, NEW o \in Orders, ReapCart(o),
                      heldAt[o] <= occurredAt[o] + Drift
               PROVE  seat'[seatOf[o]] = "AVAILABLE"
    OBVIOUS
  <2>1. /\ seatOf[o] \in Seats /\ seat[seatOf[o]] = "HELD"
        /\ stamp[seatOf[o]] = heldAt[o]
    BY DEF ReapCart, Cancels, SeatInv, Kept, Sold, Open
  <2>2. stamp[seatOf[o]] <= ReaperFence(o)
    BY <2>1, SeatHoldsAssumptions DEF ReaperFence, SeatInv, TypeOK
  <2>3. seatOf[o] \in Releasable(seatOf[o], ReaperFence(o))
    BY <2>1, <2>2 DEF Releasable
  <2> QED BY <2>1, <2>3 DEF ReapCart, Free
<1> QED BY <1>1, SeatInvariance, PTL DEF ReaperFreesUneditedCart
=============================================================================
