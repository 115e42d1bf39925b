------------------------------- MODULE Refund -------------------------------
(***************************************************************************)
(* The refunds of one paid order.  Buyers and staff refund the whole order *)
(* or some of its items, and Stripe's refund events reconcile what it paid *)
(* back; each of them works under the order's refund mutex, a claim with a *)
(* TTL that an owner token guards.  A refund pays at Stripe first and is   *)
(* recorded afterwards, so a refund that dies in between leaves money out  *)
(* of the books: the same request finds it again, or Stripe's event does.  *)
(*                                                                         *)
(* Money is counted in units.  An item cost Price, the payee's credit is   *)
(* what the buyer paid, and the platform's refunds keep the processing fee *)
(* of each item.  The recording transaction is two steps, its reads and    *)
(* its writes: under READ COMMITTED others commit between them.            *)
(***************************************************************************)
EXTENDS Naturals, Sequences, FiniteSets, FiniteSetsExt

CONSTANTS
  Items,       \* the ticket items of the order
  Price,       \* what the buyer paid for each
  Charges,     \* the payments to consider, see ChargeType
  Procs,       \* request handlers, each busy with one operation at a time
  NoProc,
  MaxRefunds,  \* bound: refunds on the charge
  MaxFaults    \* bound: operations that throw, die or stall

\* fee: withheld per item; async: refunds are pending before they succeed or
\* fail; staff: the Stripe dashboard is used; exact: charge.refunded resolves
\* to the refund it is about and not to one created close to it; answers: Stripe
\* never fails to answer when it is asked what a refund was for.
ChargeType ==
  [fee : 0..(Price - 1), async : BOOLEAN, staff : BOOLEAN, exact : BOOLEAN,
   answers : BOOLEAN]

ASSUME RefundAssumptions ==
  /\ Items # {} /\ IsFiniteSet(Items)
  /\ Price \in Nat \ {0}
  /\ Charges \subseteq ChargeType
  /\ NoProc \notin Procs
  /\ MaxRefunds \in Nat /\ MaxFaults \in Nat

VARIABLES
  charge,
  status,   \* Order.status
  item,     \* OrderItem.status
  ledger,   \* the payee's REFUND_DEBIT rows: [key, cents]
  refunds,  \* Stripe's refunds of the charge, oldest first
  events,   \* webhook events Stripe still delivers: [ref, cum]
  parked,   \* events in the dead-letter queue
  lock,     \* the refund mutex's record
  proc,     \* what each handler is doing
  overran,  \* history: some operation ran on after its mutex lapsed
  faults    \* how many operations failed so far

books == <<status, item, ledger>>
stripe == <<refunds, events>>
vars == <<charge, books, stripe, parked, lock, proc, overran, faults>>

Total == Price * Cardinality(Items)
Key == (0..MaxRefunds) \X (0..Total)
Statuses == {"SUCCEEDED", "PART_REFUNDED", "REFUNDED"}
ItemStatuses == {"active", "refunded", "transferred"}
Event == [ref : 0..MaxRefunds, cum : 0..Total]
NoEvent == [ref |-> 0, cum |-> 0]
Asks == {"full", "items"}

Active == [i \in Items |-> "active"]
Free == [owner |-> NoProc, lapsed |-> FALSE]
Idle == [pc |-> "idle", op |-> "none", ask |-> {}, ref |-> 0, cum |-> 0,
         seen |-> Active, prior |-> 0, late |-> FALSE, ev |-> NoEvent]

RefundType == [names : SUBSET Items, cents : 0..Total,
               by : Asks \union {"staff"},
               state : {"pending", "succeeded", "failed"}]

TypeOK ==
  /\ charge \in Charges
  /\ status \in Statuses
  /\ item \in [Items -> ItemStatuses]
  /\ ledger \subseteq [key : Key, cents : 1..Total]
  /\ \A a, b \in ledger : a.key = b.key => a = b
  /\ refunds \in Seq(RefundType) /\ Len(refunds) <= MaxRefunds
  /\ events \subseteq Event /\ parked \subseteq Event
  /\ lock \in [owner : Procs \union {NoProc}, lapsed : BOOLEAN]
  /\ proc \in [Procs ->
       [pc : {"idle", "quote", "pay", "wait", "record", "write", "release"},
        op : Asks \union {"none", "whole", "part"},
        ask : SUBSET Items, ref : 0..MaxRefunds, cum : 0..Total,
        seen : [Items -> ItemStatuses], prior : Nat, late : BOOLEAN,
        ev : Event]]
  /\ overran \in BOOLEAN
  /\ faults \in 0..MaxFaults

Init ==
  /\ charge \in Charges
  /\ status = "SUCCEEDED"
  /\ item = Active
  /\ ledger = {}
  /\ refunds = <<>> /\ events = {} /\ parked = {}
  /\ lock = Free
  /\ proc = [p \in Procs |-> Idle]
  /\ overran = FALSE /\ faults = 0

-----------------------------------------------------------------------------
(* The mutex.                                                              *)

\* Inside withOrderRefundMutex.
Holding(p) == proc[p].pc \in {"quote", "pay", "record", "write", "release"}

\* begin succeeds on a missing record and on one past its TTL.
Available == lock.owner = NoProc \/ lock.lapsed

\* A bug to tell apart: a release that does not ask who owns the record.
ReleasesAny(p) == lock' = Free

\* release deletes the record only while it carries the caller's token.
ReleasesOwn(p) ==
  lock' = IF lock.owner = p THEN Free ELSE lock

\* The handler goes on to `pc`.
Goes(p, pc) == proc' = [proc EXCEPT ![p].pc = pc]

\* What is left of an operation is its `finally`.
Ended(h) == [Idle EXCEPT !.pc = "release", !.late = h.late, !.ev = h.ev]
Ends(p) == proc' = [proc EXCEPT ![p] = Ended(@)]

\* The mutex's `finally`, after success and failure alike.
Release(p) ==
  /\ proc[p].pc = "release"
  /\ ReleasesOwn(p)
  /\ proc' = [proc EXCEPT ![p] = Idle]
  /\ UNCHANGED <<charge, books, stripe, parked, overran, faults>>

-----------------------------------------------------------------------------
(* Stripe.                                                                 *)

Alive == {r \in DOMAIN refunds : refunds[r].state # "failed"}
CentsOf(r) == refunds[r].cents

\* The charge's amount_refunded, which counts a refund from its creation.
Refunded == MapThenSumSet(CentsOf, Alive)

\* Creates a refund, and the charge.refunded event that tells of it.
Creates(names, cents, by) ==
  /\ Len(refunds) < MaxRefunds
  /\ refunds' = Append(refunds, [names |-> names, cents |-> cents, by |-> by,
       state |-> IF charge.async THEN "pending" ELSE "succeeded"])
  /\ events' = events \union
                 {[ref |-> Len(refunds) + 1, cum |-> Refunded + cents]}

\* Staff refund in the Stripe dashboard, a unit or all that is left; it names
\* no items.
DashboardRefund ==
  /\ charge.staff
  /\ \E cents \in {1, Total - Refunded} \intersect 1..(Total - Refunded) :
       Creates({}, cents, "staff")
  /\ UNCHANGED <<charge, books, parked, lock, proc, overran, faults>>

\* An asynchronous refund ends.  A success reconciles once more, with the
\* charge as it is when the event is handled; a failure is only audited.
Settle(r) ==
  /\ refunds[r].state = "pending"
  /\ \/ /\ refunds' = [refunds EXCEPT ![r].state = "succeeded"]
        /\ events' = events \union {[ref |-> r, cum |-> 0]}
     \/ /\ refunds' = [refunds EXCEPT ![r].state = "failed"]
        /\ UNCHANGED events
  /\ UNCHANGED <<charge, books, parked, lock, proc, overran, faults>>

-----------------------------------------------------------------------------
(* The payee's debits.                                                     *)

CentsIn(row) == row.cents
Debited == MapThenSumSet(CentsIn, ledger)

\* The row a handler writes: an internal refund and the full arm key it by the
\* refund, the partial arm by the refund and the event's cumulative amount.
RowKey(p) == <<proc[p].ref, IF proc[p].op = "part" THEN proc[p].cum ELSE 0>>

\* What other keys debited: a replay recomputes its own row.
PriorDebits(p) ==
  MapThenSumSet(CentsIn, {row \in ledger : row.key # RowKey(p)})

Minus(a, b) == IF a > b THEN a - b ELSE 0
Least(a, b) == IF a < b THEN a ELSE b

\* writeRefundDebitsForOrder: everything left of the credit when the order is
\* refunded whole, else the items' share of it.
ItemDebit(p, asked, whole) ==
  LET left == Minus(Total, proc[p].prior) IN
  IF whole THEN left ELSE Least(Price * Cardinality(asked), left)

\* A bug to tell apart: this refund's amount in place of the cumulative one.
OwnAmountDebit(p) == Minus(refunds[proc[p].ref].cents, proc[p].prior)

\* writeExternalAmountRefundDebitsForOrder: up to the share of the credit that
\* the cumulative refund is of the payment, here the same amount.
AmountDebit(p) == Minus(proc[p].cum, proc[p].prior)

\* A bug to tell apart: a second row under a key that has one.
DebitsTwice(p, cents) ==
  ledger' = IF cents = 0 THEN ledger
            ELSE ledger \union {[key |-> RowKey(p), cents |-> cents]}

\* payeeLedger.refundDebit: an existing key wins, and nothing is written for 0.
Debits(p, cents) ==
  ledger' = IF cents = 0 \/ \E row \in ledger : row.key = RowKey(p)
            THEN ledger
            ELSE ledger \union {[key |-> RowKey(p), cents |-> cents]}

\* Items become refunded, whatever they were.
Flips(flipped) ==
  item' = [i \in Items |-> IF i \in flipped THEN "refunded" ELSE item[i]]

\* Every item is among `flipped` or was seen in one of `terminal`.
AllAre(p, flipped, terminal) ==
  \A i \in Items : i \in flipped \/ proc[p].seen[i] \in terminal

\* orders.markRefunded, an unconditional update.
Marks(closed) == status' = IF closed THEN "REFUNDED" ELSE "PART_REFUNDED"

-----------------------------------------------------------------------------
(* Refunds the platform makes: refundFullOrder for "full", and             *)
(* refundOrderItems for the buyer or the organiser's staff.                *)

\* The request takes the mutex; a held mutex refuses it.
Ask(p, op, asked) ==
  /\ proc[p].pc = "idle" /\ Available
  /\ lock' = [owner |-> p, lapsed |-> FALSE]
  /\ proc' = [proc EXCEPT ![p] =
                [Idle EXCEPT !.pc = "quote", !.op = op, !.ask = asked]]
  /\ UNCHANGED <<charge, books, stripe, parked, overran, faults>>

\* What refunding these items sends back.
Quoted(asked) == Cardinality(asked) * (Price - charge.fee)

\* A bug to tell apart: only a refund of the very same items counts.
SameItems(asked) == {r \in Alive : refunds[r].names = asked}

\* findPriorRefundForItems: the living refunds that name some of these items,
\* and those of them that are the very refund being asked for.
Overlaps(asked) == {r \in Alive : refunds[r].names \intersect asked # {}}
Reusable(asked) == {r \in Overlaps(asked) : /\ refunds[r].names = asked
                                            /\ refunds[r].cents = Quoted(asked)}

\* The items asked for can be refunded: the full path takes what is active.
Eligible(p, asked) ==
  IF proc[p].op = "full"
  THEN status = "SUCCEEDED" /\ asked # {}
  ELSE status # "REFUNDED" /\ \A i \in asked : item[i] = "active"

\* The full path keeps the items as it judged them.
Seen(p) == IF proc[p].op = "full" THEN item ELSE Active

\* The order is read under the mutex and judged, and Stripe is asked for an
\* earlier refund of these items: reuse it, pay, or refuse.
Quote(p) ==
  LET asked == IF proc[p].op = "full" THEN {i \in Items : item[i] = "active"}
               ELSE proc[p].ask IN
  /\ proc[p].pc = "quote"
  /\ proc' = [proc EXCEPT ![p] =
       IF ~Eligible(p, asked) \/ Overlaps(asked) # Reusable(asked)
       THEN Ended(@)
       ELSE IF Overlaps(asked) = {}
       THEN [@ EXCEPT !.pc = "pay", !.ask = asked, !.seen = Seen(p)]
       ELSE LET r == Max(Reusable(asked)) IN
            IF refunds[r].state = "succeeded"
            THEN [@ EXCEPT !.pc = "record", !.ask = asked, !.ref = r,
                           !.seen = Seen(p)]
            ELSE Ended(@)]
  /\ UNCHANGED <<charge, books, stripe, parked, lock, overran, faults>>

\* Refunds an earlier call made under this call's Stripe idempotency key.
Twins(p) == {r \in DOMAIN refunds : /\ refunds[r].by = proc[p].op
                                    /\ proc[p].op = "full" \/
                                         refunds[r].names = proc[p].ask}

\* A pending refund is not recorded: ensureSucceededRefund throws, and the
\* refund's own event finishes it.
Answered(p, r) ==
  proc' = [proc EXCEPT ![p] =
             IF charge.async THEN Ended(@)
             ELSE [@ EXCEPT !.pc = "record", !.ref = r]]

Pay(p) ==
  LET cents == Quoted(proc[p].ask) IN
  /\ proc[p].pc = "pay"
  /\ \/ /\ Refunded + cents <= Total
        /\ Creates(proc[p].ask, cents, proc[p].op)
        /\ Answered(p, Len(refunds) + 1)
     \/ /\ \E r \in Twins(p) :   \* the same actor's, within a day: repeated
             IF refunds[r].names = proc[p].ask THEN Answered(p, r)
             ELSE Ends(p)
        /\ UNCHANGED stripe
     \/ /\ Refunded + cents > Total   \* more than is left of the charge
        /\ Ends(p)
        /\ UNCHANGED stripe
  /\ UNCHANGED <<charge, books, parked, lock, overran, faults>>

-----------------------------------------------------------------------------
(* Stripe's events: reconcileStripeFullRefund, its whole and partial arms. *)

\* Which refund the event is taken to be about.
About(e) == IF charge.exact \/ e.cum = 0 THEN {e.ref} ELSE DOMAIN refunds

\* A bug to tell apart: a refund that is still pending names its items.
NamedEarly(r) == refunds[r].names

\* A bug to tell apart: an arm that writes debits and names no item.
NamedNone(r) == {}

\* Only a refund whose money has moved names the items it paid for.
Named(r) == IF refunds[r].state = "succeeded" THEN refunds[r].names ELSE {}

\* What an event's handler learns of the items.  Only the partial arm asks; a
\* getRefund that throws is swallowed and tells nothing, which leaves the ledger
\* to be written alone.
Learnt(op, r) ==
  IF op = "whole" THEN {{}}
  ELSE {Named(r)} \union (IF charge.answers THEN {} ELSE {{}})

\* An event arrives; Stripe may deliver it again.  An order that is closed
\* needs nothing.  The names are read before the mutex is asked for.
Receive(p, e) ==
  /\ proc[p].pc = "idle"
  /\ e \in events
  /\ events' \in {events, events \ {e}}
  /\ IF status = "REFUNDED" THEN UNCHANGED proc
     ELSE \E r \in About(e) :
            LET cum == IF e.cum = 0 THEN Refunded ELSE e.cum
                op == IF cum < Total THEN "part" ELSE "whole" IN
            \E named \in Learnt(op, r) :
              proc' = [proc EXCEPT ![p] =
                [Idle EXCEPT !.pc = "wait", !.op = op, !.ref = r, !.cum = cum,
                             !.ask = named, !.ev = e]]
  /\ UNCHANGED <<charge, books, refunds, parked, lock, overran, faults>>

\* A bug to tell apart: reconciling without the mutex.
EntersUnlocked(p) ==
  /\ proc[p].pc = "wait"
  /\ Goes(p, "record")
  /\ UNCHANGED <<charge, books, stripe, parked, lock, overran, faults>>

Enter(p) ==
  /\ proc[p].pc = "wait" /\ Available
  /\ lock' = [owner |-> p, lapsed |-> FALSE]
  /\ Goes(p, "record")
  /\ UNCHANGED <<charge, books, stripe, parked, overran, faults>>

\* The mutex stays taken through every retry: the event goes to the queue.
GiveUp(p) ==
  /\ proc[p].pc = "wait" /\ ~Available
  /\ parked' = parked \union {proc[p].ev}
  /\ proc' = [proc EXCEPT ![p] = Idle]
  /\ UNCHANGED <<charge, books, stripe, lock, overran, faults>>

\* An operator replays a parked event.
Replay(e) ==
  /\ e \in parked
  /\ parked' = parked \ {e}
  /\ events' = events \union {e}
  /\ UNCHANGED <<charge, books, refunds, lock, proc, overran, faults>>

-----------------------------------------------------------------------------
(* The recording transaction, of refunds and of reconciliations.           *)

\* The order no longer is in a state this transaction may record on.
Overtaken(p) == \/ proc[p].op = "full" /\ status # "SUCCEEDED"
                \/ proc[p].op \in {"whole", "part"} /\ status = "REFUNDED"

\* Its reads.  refundFullOrder goes on with the items it judged before it paid.
Record(p) ==
  /\ proc[p].pc = "record"
  /\ IF Overtaken(p) THEN Ends(p)
     ELSE proc' = [proc EXCEPT ![p].pc = "write",
                               ![p].seen = IF proc[p].op = "full" THEN @
                                           ELSE item,
                               ![p].prior = PriorDebits(p)]
  /\ UNCHANGED <<charge, books, stripe, parked, lock, overran, faults>>

\* Its writes.  The partial arm leaves a transferred item alone, and decides
\* the status by the rule of the path that named the items.
WritesRefund(p) ==
  LET asked == proc[p].ask IN
  /\ Flips(asked)
  /\ Marks(AllAre(p, asked, IF proc[p].op = "full"
                            THEN {"refunded", "transferred"} ELSE {"refunded"}))
  /\ Debits(p, ItemDebit(p, asked, AllAre(p, asked, {"refunded"})))

WritesWhole(p) ==
  LET flipped == {i \in Items : proc[p].seen[i] = "active"} IN
  /\ Flips(flipped)
  /\ Marks(TRUE)
  /\ Debits(p, ItemDebit(p, flipped, AllAre(p, flipped, {"refunded"})))

WritesPart(p) ==
  LET flipped == {i \in proc[p].ask : proc[p].seen[i] = "active"}
      terminal == IF refunds[proc[p].ref].by = "full"
                  THEN {"refunded", "transferred"} ELSE {"refunded"} IN
  /\ Debits(p, AmountDebit(p))
  /\ Flips(flipped)
  /\ IF flipped = {} THEN UNCHANGED status
     ELSE Marks(AllAre(p, flipped, terminal))

Write(p) ==
  /\ proc[p].pc = "write"
  /\ CASE proc[p].op = "whole" -> WritesWhole(p)
       [] proc[p].op = "part" -> WritesPart(p)
       [] OTHER -> WritesRefund(p)
  /\ Ends(p)
  /\ UNCHANGED <<charge, stripe, parked, lock, overran, faults>>

-----------------------------------------------------------------------------
(* Gifts, faults and time.                                                 *)

\* A bug to tell apart: giving a ticket away without asking for the mutex.
TransferUnlocked(i) ==
  /\ item[i] = "active"
  /\ item' = [item EXCEPT ![i] = "transferred"]
  /\ UNCHANGED <<charge, status, ledger, stripe, parked, lock, proc, overran,
                 faults>>

\* A ticket is given away under the same mutex, in one transaction.
Transfer(i) ==
  /\ Available
  /\ item[i] = "active"
  /\ item' = [item EXCEPT ![i] = "transferred"]
  /\ lock' = Free
  /\ UNCHANGED <<charge, status, ledger, stripe, parked, proc, overran, faults>>

\* An event that a handler could not apply is parked.
Parks(p) == parked' = IF proc[p].ev = NoEvent THEN parked
                      ELSE parked \union {proc[p].ev}

\* A step throws: the transaction rolls back and the mutex is released.
Throw(p) ==
  /\ proc[p].pc \in {"quote", "pay", "record", "write"}
  /\ faults < MaxFaults /\ faults' = faults + 1
  /\ Ends(p) /\ Parks(p)
  /\ UNCHANGED <<charge, books, stripe, lock, overran>>

\* The process dies with its work; Stripe gets no answer and sends again.
Crash(p) ==
  /\ proc[p].pc # "idle"
  /\ faults < MaxFaults /\ faults' = faults + 1
  /\ proc' = [proc EXCEPT ![p] = Idle]
  /\ events' = IF proc[p].ev = NoEvent THEN events
               ELSE events \union {proc[p].ev}
  /\ UNCHANGED <<charge, books, refunds, parked, lock, overran>>

\* The mutex of a process that died reaches its TTL.
Lapse ==
  /\ lock.owner # NoProc /\ ~lock.lapsed /\ ~Holding(lock.owner)
  /\ lock' = Free
  /\ UNCHANGED <<charge, books, stripe, parked, proc, overran, faults>>

\* The mutex reaches its TTL while the operation is still running.
Overrun(p) ==
  /\ lock.owner = p /\ ~lock.lapsed /\ Holding(p)
  /\ faults < MaxFaults /\ faults' = faults + 1
  /\ lock' = [lock EXCEPT !.lapsed = TRUE]
  /\ proc' = [proc EXCEPT ![p].late = TRUE]
  /\ overran' = TRUE
  /\ UNCHANGED <<charge, books, stripe, parked>>

Request(p) == \/ Ask(p, "full", {})
              \/ \E asked \in (SUBSET Items) \ {{}} : Ask(p, "items", asked)

\* One step of the operation that p has under way.
Work(p) == Quote(p) \/ Pay(p) \/ Enter(p) \/ GiveUp(p) \/ Record(p) \/ Write(p)
           \/ Release(p)

Handler(p) == \/ Request(p) \/ Work(p) \/ (\E e \in events : Receive(p, e))
              \/ Throw(p) \/ Crash(p) \/ Overrun(p)

Next == \/ \E p \in Procs : Handler(p)
        \/ DashboardRefund
        \/ \E r \in DOMAIN refunds : Settle(r)
        \/ \E e \in parked : Replay(e)
        \/ \E i \in Items : Transfer(i)
        \/ Lapse

Spec == Init /\ [][Next]_vars

\* A started operation goes on until it ends or fails; Stripe delivers every
\* event it sends about a refund, whatever else keeps the handlers busy; and a
\* dead holder's claim expires.
FairSpec ==
  /\ Spec
  /\ \A p \in Procs : WF_vars(Work(p))
  /\ \A r \in 1..MaxRefunds, updated \in BOOLEAN :
       SF_vars(\E p \in Procs, e \in events :
                 e.ref = r /\ (e.cum = 0) = updated /\ Receive(p, e))
  /\ WF_vars(Lapse)

-----------------------------------------------------------------------------
(* What must hold.                                                         *)

\* Of two operations inside the mutex, one outlived its TTL: a late release
\* (finally, owner-checked) never lets a third in beside its successor.
LeaseIsExclusive ==
  \A p, q \in Procs : p # q /\ Holding(p) /\ Holding(q) =>
    proc[p].late \/ proc[q].late

\* No item is paid back by two living refunds, whichever paths, retries and
\* crashes asked for them (findPriorRefundForItems under the mutex).
RefundedOnce ==
  ~overran => \A i \in Items :
    Cardinality({r \in Alive : i \in refunds[r].names}) <= 1

\* The payee is never debited more than the credit of the order, though
\* refunds and reconciliations compute their debits from earlier rows.
DebitsWithinCredit == ~overran => Debited <= Total

\* With no event outstanding and no operation under way, an order that is not
\* closed has debited the payee for everything Stripe has paid back.
LedgerCoversStripe ==
  events = {} /\ parked = {} /\ (\A p \in Procs : proc[p].pc = "idle")
  /\ status # "REFUNDED" /\ ~overran => Debited >= Refunded

\* A ticket is only voided for money that has moved: a succeeded refund names
\* its item, or the succeeded refunds return the whole payment.
RefundedItemHasMoney ==
  LET moved == {r \in DOMAIN refunds : refunds[r].state = "succeeded"} IN
  \A i \in Items : item[i] = "refunded" /\ ~overran =>
    (\E r \in moved : i \in refunds[r].names)
    \/ MapThenSumSet(CentsOf, moved) >= Total

\* A ticket that was given away is not voided under its new owner by a refund
\* that judged it before (withTicketRefundLock).
GiftIsKept ==
  [][\A i \in Items :
       item[i] = "transferred" /\ ~overran' => item'[i] = "transferred"]_vars

Paid(r, i) == /\ r \in DOMAIN refunds
              /\ refunds[r].state = "succeeded" /\ i \in refunds[r].names

\* Money that an interrupted refund sent back for an item is recorded in the
\* end, by its retry or by Stripe's event, or an event about it is parked for
\* an operator; given that events are matched to the right refund and that Stripe
\* says what it was for.  When it does not, the event is answered all the same
\* and only the ledger is written (resolveNamedOrderItemIds).
PaidIsRecorded ==
  \A r \in 1..MaxRefunds, i \in Items :
    charge.exact /\ charge.answers /\ Paid(r, i) ~>
      (item[i] # "active" \/ \E e \in parked : e.ref = r)
=============================================================================
