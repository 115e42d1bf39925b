----------------------------- MODULE SeatHolds -----------------------------
(***************************************************************************)
(* Who a reserved seat is held for.  A Seat row has a status and the time  *)
(* it was last written, and no holder: an order names its seat in its line *)
(* items, and every release must decide from the two whether the hold is   *)
(* still the releaser's.                                                   *)
(*                                                                         *)
(* A database transaction is one step, except where Gaps opens it:         *)
(*   "sweep"   the seat reaper selects orphaned holds in one statement and *)
(*             releases them in a second one;                              *)
(*   "retire"  a checkout reads the cart it supersedes some statements     *)
(*             before the CAS that locks that cart.                        *)
(* READ COMMITTED lets other transactions commit in both gaps.             *)
(***************************************************************************)
EXTENDS Naturals, FiniteSets

CONSTANTS Orders, Seats, NoOrder, NoSeat,
          SeatTTL,  \* a hold nobody references is swept after this long
          CartTTL,  \* an order not paid for is reaped after this long
          Slack,    \* SEAT_FENCE_SLACK_SECONDS
          Drift,    \* how far a seat's stamp may run ahead of occurredAt
          Horizon,  \* bound: no hold is taken after this time
          Gaps

End == Horizon + CartTTL + 1

ASSUME SeatHoldsAssumptions ==
  /\ NoOrder \notin Orders /\ NoSeat \notin Seats
  /\ {SeatTTL, CartTTL, Slack, Drift, Horizon} \subseteq Nat
  /\ Drift <= Slack /\ Slack < SeatTTL /\ SeatTTL < CartTTL
  /\ Gaps \subseteq {"sweep", "retire"}

VARIABLES
  now,
  status,      \* Order.status, "NONE" before the row exists
  occurredAt,  \* Order.occurredAt: the database's clock
  seatOf,      \* the seat the order's items name
  heldAt,      \* meta.holdExpiresAt minus the TTL: the cart's last hold
  checkedOut,  \* the order came from createCheckout: its items are fixed
  paid,        \* orders whose PaymentIntent succeeded
  seat,        \* Seat.status
  stamp,       \* Seat.updatedAt
  ticket,      \* the order whose live ticket sits on the seat
  swept,       \* the seats a seat reaper has selected and not yet released
  read         \* what a checkout read of the cart it supersedes

clock == <<now>>
orderVars == <<status, occurredAt, seatOf, heldAt, checkedOut, paid>>
seatVars == <<seat, stamp, ticket>>
vars == <<clock, orderVars, seatVars, swept, read>>

NothingRead == [cart |-> NoOrder, seat |-> NoSeat, fence |-> 0]

TypeOK ==
  /\ now \in 0..End
  /\ \A o \in Orders : occurredAt[o] <= now /\ heldAt[o] <= now
  /\ \A s \in Seats : stamp[s] <= now
  /\ status \in
       [Orders -> {"NONE", "PENDING", "SUCCEEDED", "CANCELLED"}]
  /\ occurredAt \in [Orders -> 0..End] /\ heldAt \in [Orders -> 0..End]
  /\ seatOf \in [Orders -> Seats \union {NoSeat}]
  /\ checkedOut \subseteq Orders /\ paid \subseteq Orders
  /\ seat \in [Seats -> {"AVAILABLE", "HELD", "SOLD"}]
  /\ stamp \in [Seats -> 0..End]
  /\ ticket \in [Seats -> Orders \union {NoOrder}]
  /\ swept \subseteq Seats
  /\ read \in [Orders -> [cart : Orders \union {NoOrder},
                          seat : Seats \union {NoSeat}, fence : 0..End]]

Init ==
  /\ now = Drift
  /\ status = [o \in Orders |-> "NONE"]
  /\ occurredAt = [o \in Orders |-> 0] /\ heldAt = [o \in Orders |-> 0]
  /\ seatOf = [o \in Orders |-> NoSeat]
  /\ checkedOut = {} /\ paid = {}
  /\ seat = [s \in Seats |-> "AVAILABLE"]
  /\ stamp = [s \in Seats |-> 0]
  /\ ticket = [s \in Seats |-> NoOrder]
  /\ swept = {}
  /\ read = [o \in Orders |-> NothingRead]

\* PENDING stands for PROCESSING too: neither is terminal, and a paid order is
\* not reaped in either.
Open(o) == status[o] = "PENDING"

-----------------------------------------------------------------------------
(* Releasing.                                                              *)

Expired(s) == seat[s] = "HELD" /\ stamp[s] + SeatTTL < now

\* A sweep that spares only the seats of orders already paid for.
UnpaidHolds(gone) ==
  {s \in Seats : Expired(s) /\ \A o \in paid : Open(o) => seatOf[o] # s}

\* A sweep that spares every seat an order ever named.
UnnamedHolds(gone) ==
  {s \in Seats : Expired(s) /\ \A o \in Orders : seatOf[o] # s}

\* releaseExpiredHolds' SELECT: held too long, no ticket, and no open order
\* names the seat.  `gone` are orders this transaction has cancelled.
Orphans(gone) ==
  {s \in Seats : /\ Expired(s)
                 /\ ticket[s] = NoOrder
                 /\ \A o \in Orders \ gone : Open(o) => seatOf[o] # s}

\* releaseSeats: still HELD, and stamped no later than the fence.
Releasable(s, fence) == {t \in {s} \cap Seats :
                           seat[t] = "HELD" /\ stamp[t] <= fence}

Later(a, b) == IF a < b THEN b ELSE a

\* A fence that forgets that an edit holds again without a new occurredAt.
FenceAtBirth(o) == occurredAt[o] + Slack

\* resolveSeatHoldFence: the cart's own last hold, plus slack.
HoldFence(o) == Later(occurredAt[o], heldAt[o]) + Slack

\* A fence with no slack for the two clocks.
TightReaperFence(o) == occurredAt[o]

\* releaseExpiredCarts fences at occurredAt alone.
ReaperFence(o) == occurredAt[o] + Slack

\* Writes back the seats that `free` lists as AVAILABLE.
Free(free) ==
  /\ seat' = [s \in Seats |-> IF s \in free THEN "AVAILABLE" ELSE seat[s]]
  /\ stamp' = [s \in Seats |-> IF s \in free THEN now ELSE stamp[s]]
  /\ UNCHANGED ticket

\* holdSeatsForCheckout, in a transaction that has freed some seats: it sweeps
\* the orphans, and then takes an available seat that no live ticket occupies.
Holds(s, free, gone) ==
  LET freed == free \union Orphans(gone) IN
  /\ s \in freed \/ seat[s] = "AVAILABLE"
  /\ ticket[s] = NoOrder
  /\ seat' = [t \in Seats |-> IF t = s THEN "HELD"
                              ELSE IF t \in freed THEN "AVAILABLE" ELSE seat[t]]
  /\ stamp' = [t \in Seats |-> IF t = s \/ t \in freed THEN now ELSE stamp[t]]
  /\ UNCHANGED ticket

-----------------------------------------------------------------------------
(* Carts and checkouts.                                                    *)

\* An order row that notes when its hold expires as the time it was taken.
WritesExpiry(o, s) ==
  /\ occurredAt' = [occurredAt EXCEPT ![o] = now]
  /\ heldAt' = [heldAt EXCEPT ![o] = now + SeatTTL]
  /\ seatOf' = [seatOf EXCEPT ![o] = s]

\* The order row of a hold taken now; its occurredAt may trail the seat.
Writes(o, s) ==
  /\ \E d \in 0..Drift : occurredAt' = [occurredAt EXCEPT ![o] = now - d]
  /\ heldAt' = [heldAt EXCEPT ![o] = now]
  /\ seatOf' = [seatOf EXCEPT ![o] = s]

\* updateOrderItems with no order yet: the buyer's cart takes a seat.
HoldCart(o, s) ==
  /\ status[o] = "NONE" /\ read[o] = NothingRead
  /\ now <= Horizon
  /\ Holds(s, {}, {})
  /\ Writes(o, s)
  /\ status' = [status EXCEPT ![o] = "PENDING"]
  /\ UNCHANGED <<clock, checkedOut, paid, swept, read>>

\* updateOrderItems on a cart that has not entered checkout: the old seat is
\* released, a seat is held, and occurredAt stays as it was.
EditCart(o, s) ==
  /\ status[o] = "PENDING" /\ o \notin checkedOut
  /\ now <= Horizon
  /\ Holds(s, Releasable(seatOf[o], HoldFence(o)), {})
  /\ heldAt' = [heldAt EXCEPT ![o] = now]
  /\ seatOf' = [seatOf EXCEPT ![o] = s]
  /\ UNCHANGED <<clock, status, occurredAt, checkedOut, paid, swept, read>>

\* A checkout that frees the cart's seat whether or not it retired the cart.
CommitsOverBlindly(o, p, readSeat, fence, s) ==
  /\ now <= Horizon
  /\ Holds(s, Releasable(readSeat, fence), {})
  /\ status' = [q \in Orders |-> IF q = o THEN "PENDING"
                  ELSE IF q = p /\ Open(p) /\ p \notin paid THEN "CANCELLED"
                  ELSE status[q]]
  /\ Writes(o, s)
  /\ checkedOut' = checkedOut \union {o}
  /\ read' = [read EXCEPT ![o] = NothingRead]
  /\ UNCHANGED <<clock, paid, swept>>

\* createCheckout's transaction: the cart p it carries over is retired if it is
\* still PENDING, the seat this transaction read from it is released, and the
\* new order holds its own.
CommitsOver(o, p, readSeat, fence, s) ==
  /\ now <= Horizon
  /\ IF p # NoOrder /\ Open(p) /\ p \notin paid
       THEN /\ Holds(s, Releasable(readSeat, fence), {p})
            /\ status' = [status EXCEPT ![p] = "CANCELLED", ![o] = "PENDING"]
       ELSE /\ Holds(s, {}, {})
            /\ status' = [status EXCEPT ![o] = "PENDING"]
  /\ Writes(o, s)
  /\ checkedOut' = checkedOut \union {o}
  /\ read' = [read EXCEPT ![o] = NothingRead]
  /\ UNCHANGED <<clock, paid, swept>>

\* A checkout with no cart, or one whose cart does not change under it.
Checkout(o, p, s) ==
  /\ status[o] = "NONE" /\ read[o] = NothingRead
  /\ p # o
  /\ IF p = NoOrder
     THEN CommitsOver(o, NoOrder, NoSeat, 0, s)
     ELSE Open(p) /\ CommitsOver(o, p, seatOf[p], HoldFence(p), s)

\* The same with the gap between its first read of the cart ...
CheckoutReads(o, p) ==
  /\ "retire" \in Gaps
  /\ status[o] = "NONE" /\ read[o] = NothingRead
  /\ p # o /\ Open(p)
  /\ read' = [read EXCEPT ![o] = [cart |-> p, seat |-> seatOf[p],
                                  fence |-> HoldFence(p)]]
  /\ UNCHANGED <<clock, orderVars, seatVars, swept>>

\* ... and the rest.
CheckoutWrites(o, s) ==
  /\ read[o] # NothingRead
  /\ CommitsOver(o, read[o].cart, read[o].seat, read[o].fence, s)

\* The seat is gone: the checkout is refused and rolls back.
CheckoutRefused(o) ==
  /\ read[o] # NothingRead
  /\ read' = [read EXCEPT ![o] = NothingRead]
  /\ UNCHANGED <<clock, orderVars, seatVars, swept>>

-----------------------------------------------------------------------------
(* How an order ends.  Checkout.tla says why a paid order is not cancelled. *)

Pay(o) ==
  /\ Open(o) /\ o \in checkedOut /\ o \notin paid
  /\ paid' = paid \union {o}
  /\ UNCHANGED <<clock, status, occurredAt, seatOf, heldAt, checkedOut,
                 seatVars, swept, read>>

\* Whether the mint finds the order's seat free to be sold to it.
Mintable(o) == seat[seatOf[o]] \in {"AVAILABLE", "HELD"}
                 /\ ticket[seatOf[o]] = NoOrder

\* finalizePaymentIntent mints the ticket on the order's seat.
Finalize(o) ==
  /\ Open(o) /\ o \in paid
  /\ Mintable(o)
  /\ status' = [status EXCEPT ![o] = "SUCCEEDED"]
  /\ seat' = [seat EXCEPT ![seatOf[o]] = "SOLD"]
  /\ stamp' = [stamp EXCEPT ![seatOf[o]] = now]
  /\ ticket' = [ticket EXCEPT ![seatOf[o]] = o]
  /\ UNCHANGED <<clock, occurredAt, seatOf, heldAt, checkedOut, paid, swept,
                 read>>

Cancels(o) ==
  /\ Open(o) /\ o \notin paid
  /\ status' = [status EXCEPT ![o] = "CANCELLED"]
  /\ UNCHANGED <<clock, occurredAt, seatOf, heldAt, checkedOut, paid, swept,
                 read>>

\* releaseExpiredCarts.
ReapCart(o) ==
  /\ occurredAt[o] + CartTTL < now
  /\ Cancels(o)
  /\ Free(Releasable(seatOf[o], ReaperFence(o)))

\* releaseCartHold, and a checkout unwinding its own order.
ReleaseCart(o) ==
  /\ Cancels(o)
  /\ Free(Releasable(seatOf[o], HoldFence(o)))

\* A retired sibling and a failed payment leave the seat to the seat reaper.
CancelKeepingSeat(o) ==
  /\ Cancels(o)
  /\ UNCHANGED seatVars

-----------------------------------------------------------------------------
(* The seat reaper.                                                        *)

\* One pass as one step.
Sweep ==
  /\ Orphans({}) # {}
  /\ Free(Orphans({}))
  /\ UNCHANGED <<clock, orderVars, swept, read>>

\* An UPDATE by id alone.
SeizesAll(selected) == selected

\* The UPDATE asks only whether the selected seats are HELD, not whether they
\* still are orphans.
Seizes(selected) == {s \in selected : seat[s] = "HELD"}

\* The pass as its two statements.
SweepSelects ==
  /\ "sweep" \in Gaps
  /\ swept = {} /\ Orphans({}) # {}
  /\ swept' = Orphans({})
  /\ UNCHANGED <<clock, orderVars, seatVars, read>>

SweepUpdates ==
  /\ swept # {}
  /\ Free(Seizes(swept))
  /\ swept' = {}
  /\ UNCHANGED <<clock, orderVars, read>>

Tick ==
  /\ now < End
  /\ now' = now + 1
  /\ UNCHANGED <<orderVars, seatVars, swept, read>>

Next ==
  \/ \E o \in Orders, s \in Seats :
       HoldCart(o, s) \/ EditCart(o, s) \/ CheckoutWrites(o, s)
         \/ \E p \in Orders \union {NoOrder} : Checkout(o, p, s)
  \/ \E o \in Orders :
       Pay(o) \/ Finalize(o) \/ ReapCart(o) \/ ReleaseCart(o)
         \/ CancelKeepingSeat(o) \/ CheckoutRefused(o)
         \/ \E p \in Orders : CheckoutReads(o, p)
  \/ Sweep \/ SweepSelects \/ SweepUpdates \/ Tick

Spec == Init /\ [][Next]_vars

\* The crons keep running and time passes; nothing makes a buyer act.
FairSpec == Spec /\ WF_vars(Tick) /\ WF_vars(Sweep)
                 /\ \A o \in Orders : WF_vars(ReapCart(o))

-----------------------------------------------------------------------------
(* Correctness.                                                            *)

\* A seat that an open order names is held, and for that order alone.  So what
\* a buyer pays for is never on sale, and is never being sold to another.
OpenOrderKeepsSeat ==
  \A o \in Orders : Open(o) =>
    /\ seat[seatOf[o]] = "HELD"
    /\ \A p \in Orders \ {o} : Open(p) => seatOf[p] # seatOf[o]

\* A charge is followed by a ticket: no refusal awaits the finalize.
PaidIsMintable == \A o \in paid : Open(o) => Mintable(o)

\* The reaper leaks no seat: a cart that was never edited frees its seat with
\* its cancel, though the two stamps come from two clocks.
ReaperFreesUneditedCart ==
  [][\A o \in Orders :
       ReapCart(o) /\ heldAt[o] <= occurredAt[o] + Drift
         => seat'[seatOf[o]] = "AVAILABLE"]_vars

\* A ticket is final: a sweep or a release that decided long ago never puts a
\* seat that was sold in between back on sale, whichever gaps are open.
TicketedSeatIsSold ==
  \A o \in Orders :
    status[o] = "SUCCEEDED" => seat[seatOf[o]] = "SOLD" /\ ticket[seatOf[o]] = o

\* A buyer who edits a cart gets the cart's own seat again.
OwnSeatIsOffered ==
  \A o \in Orders :
    Open(o) /\ o \notin checkedOut
      => seatOf[o] \in Releasable(seatOf[o], HoldFence(o))

\* The seat reaper's comment: a seat that an open order references has no time
\* bound, and leaves only with its order's end.
OpenSeatStaysHeld ==
  [][\A o \in Orders :
       Open(o) /\ seat[seatOf[o]] = "HELD"
         /\ Open(o)' /\ seatOf'[o] = seatOf[o]
         => seat'[seatOf[o]] = "HELD"]_vars

\* Whatever gave up its order, a held seat that no open order names goes back
\* on sale.
SeatsComeBack ==
  \A s \in Seats :
    (seat[s] = "HELD" /\ \A o \in Orders : Open(o) => seatOf[o] # s)
      ~> (seat[s] = "AVAILABLE" \/ \E o \in Orders : Open(o) /\ seatOf[o] = s)
=============================================================================
