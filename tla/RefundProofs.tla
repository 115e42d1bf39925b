---------------------------- MODULE RefundProofs ----------------------------
(***************************************************************************)
(* Theorems about Refund for any items, prices, charges and handlers: what *)
(* the refund mutex still guarantees when an operation outlives its TTL,   *)
(* and that a ticket given away under it is not voided by a refund that    *)
(* judged it before.                                                       *)
(***************************************************************************)
EXTENDS Refund, TLAPS

\* The variables that the steps below read, in their shape.
Shaped ==
  /\ item \in [Items -> ItemStatuses]
  /\ lock \in [owner : Procs \union {NoProc}, lapsed : BOOLEAN]
  /\ DOMAIN proc = Procs
  /\ \A p \in Procs : DOMAIN proc[p] = DOMAIN Idle

\* Who is inside owns the live record, or is known to have outlived it.
InsideOwns ==
  /\ \A p \in Procs : Holding(p) =>
       proc[p].late \/ (lock.owner = p /\ ~lock.lapsed)
  /\ \A p \in Procs : proc[p].late => overran

\* Reconciliations enter by the wait for the mutex, and refunds never do.
ArmsWait == \A p \in Procs :
  proc[p].pc = "wait" => proc[p].op \in {"whole", "part"}

\* What a refund judged refundable, or a reconciliation read as active, has
\* not been given away since.
JudgedIsKept ==
  ~overran => \A p \in Procs, i \in Items :
    /\ /\ proc[p].pc \in {"pay", "record", "write"}
       /\ proc[p].op \notin {"whole", "part"}
       /\ i \in proc[p].ask
       => item[i] # "transferred"
    /\ /\ proc[p].pc = "write"
       /\ proc[p].op \in {"whole", "part"}
       /\ proc[p].seen[i] = "active"
       => item[i] # "transferred"

RefundInv == Shaped /\ InsideOwns /\ ArmsWait /\ JudgedIsKept

\* What the invariant asks of the record h of a handler p, in the next state.
Fits(p, h) ==
  /\ DOMAIN h = DOMAIN Idle
  /\ h.pc \in {"quote", "pay", "record", "write", "release"} =>
       h.late \/ (lock'.owner = p /\ ~lock'.lapsed)
  /\ h.late => overran'
  /\ h.pc = "wait" => h.op \in {"whole", "part"}
  /\ ~overran' => \A i \in Items :
       /\ /\ h.pc \in {"pay", "record", "write"}
          /\ h.op \notin {"whole", "part"} /\ i \in h.ask
          => item'[i] # "transferred"
       /\ /\ h.pc = "write" /\ h.op \in {"whole", "part"}
          /\ h.seen[i] = "active"
          => item'[i] # "transferred"

\* A step of one handler that takes the live mutex from nobody else, and gives
\* no ticket away, keeps the invariant if the handler's own record fits it.
LEMMA OneMoves ==
  ASSUME RefundInv, NEW p \in Procs, NEW h, Fits(p, h),
         proc' = [proc EXCEPT ![p] = h],
         item' \in [Items -> ItemStatuses],
         \A i \in Items : item'[i] = "transferred" => item[i] = "transferred",
         lock' \in [owner : Procs \union {NoProc}, lapsed : BOOLEAN],
         \A q \in Procs \ {p} : lock.owner = q /\ ~lock.lapsed =>
                                  lock'.owner = q /\ ~lock'.lapsed,
         overran => overran'
  PROVE  RefundInv'
<1>1. /\ DOMAIN proc' = Procs /\ proc'[p] = h
      /\ \A q \in Procs \ {p} : proc'[q] = proc[q]
  BY DEF RefundInv, Shaped
<1>2. Shaped'
  BY <1>1 DEF RefundInv, Shaped, Fits
<1>3. InsideOwns'
  BY <1>1 DEF RefundInv, InsideOwns, Holding, Fits
<1>4. ArmsWait'
  BY <1>1 DEF RefundInv, ArmsWait, Fits
<1>5. JudgedIsKept'
  <2> SUFFICES ASSUME ~overran', NEW q \in Procs, NEW i \in Items
               PROVE  /\ /\ proc'[q].pc \in {"pay", "record", "write"}
                         /\ proc'[q].op \notin {"whole", "part"}
                         /\ i \in proc'[q].ask
                         => item'[i] # "transferred"
                      /\ /\ proc'[q].pc = "write"
                         /\ proc'[q].op \in {"whole", "part"}
                         /\ proc'[q].seen[i] = "active"
                         => item'[i] # "transferred"
    BY DEF JudgedIsKept
  <2>1. CASE q = p
    BY <1>1, <2>1 DEF Fits
  <2>2. CASE q # p
    BY <1>1, <2>2 DEF RefundInv, JudgedIsKept
  <2> QED BY <2>1, <2>2
<1> QED BY <1>2, <1>3, <1>4, <1>5 DEF RefundInv

\* How an operation goes on, and how it ends.
LEMMA GoesOn ==
  ASSUME Shaped, NEW p \in Procs, NEW pc
  PROVE  LET h == [proc[p] EXCEPT !.pc = pc] IN
         /\ DOMAIN h = DOMAIN Idle /\ h.pc = pc
         /\ h.op = proc[p].op /\ h.ask = proc[p].ask
         /\ h.seen = proc[p].seen /\ h.late = proc[p].late
  BY SMT DEF Shaped, Idle

LEMMA EndsAll ==
  ASSUME Shaped, NEW p \in Procs
  PROVE  /\ DOMAIN Ended(proc[p]) = DOMAIN Idle
         /\ Ended(proc[p]).pc = "release"
         /\ Ended(proc[p]).late = proc[p].late
  BY SMT DEF Shaped, Ended, Idle

\* An operation that is inside may end at any step that leaves the lock alone.
LEMMA EndingFits ==
  ASSUME RefundInv, NEW p \in Procs, Holding(p),
         lock' = lock, overran' = overran
  PROVE  Fits(p, Ended(proc[p]))
  BY EndsAll DEF RefundInv, InsideOwns, Fits

\* No ticket is given away while an operation is inside in time.
LEMMA NoGiftInside ==
  ASSUME RefundInv, ~overran, NEW p \in Procs, Holding(p)
  PROVE  ~Available
  BY RefundAssumptions DEF RefundInv, InsideOwns, Available

\* A refund that is judged or prepared.
LEMMA QuoteStep ==
  ASSUME RefundInv, NEW p \in Procs, Quote(p)
  PROVE  RefundInv'
<1> DEFINE asked == IF proc[p].op = "full"
                    THEN {i \in Items : item[i] = "active"} ELSE proc[p].ask
           r == Max(Reusable(asked))
           paying == [proc[p] EXCEPT !.pc = "pay", !.ask = asked,
                                     !.seen = Seen(p)]
           found == [proc[p] EXCEPT !.pc = "record", !.ask = asked, !.ref = r,
                                    !.seen = Seen(p)]
<1>1. Holding(p) /\ item' = item /\ lock' = lock /\ overran' = overran
  BY DEF Quote, Holding, books
<1>2. \/ proc' = [proc EXCEPT ![p] = Ended(proc[p])]
      \/ /\ \/ proc' = [proc EXCEPT ![p] = paying]
            \/ proc' = [proc EXCEPT ![p] = found]
         /\ Eligible(p, asked)
  BY DEF Quote
<1>3. ASSUME NEW h \in {paying, found}, Eligible(p, asked)
      PROVE  Fits(p, h)
  <2>1. /\ DOMAIN h = DOMAIN Idle /\ h.pc \in {"pay", "record"}
        /\ h.late = proc[p].late /\ h.ask = asked
    BY <1>3 DEF RefundInv, Shaped, Idle
  <2>2. \A i \in asked : item[i] # "transferred"
    BY <1>3 DEF Eligible
  <2> QED BY <1>1, <2>1, <2>2 DEF Fits, RefundInv, InsideOwns, Holding
<1>4. CASE proc' = [proc EXCEPT ![p] = Ended(proc[p])]
  BY <1>1, <1>4, EndingFits, OneMoves DEF RefundInv, Shaped
<1>5. CASE proc' = [proc EXCEPT ![p] = paying] /\ Eligible(p, asked)
  <2>1. Fits(p, paying)
    BY <1>3, <1>5
  <2> HIDE DEF paying
  <2> QED BY <1>1, <1>5, <2>1, OneMoves DEF RefundInv, Shaped
<1>6. CASE proc' = [proc EXCEPT ![p] = found] /\ Eligible(p, asked)
  <2>1. Fits(p, found)
    BY <1>3, <1>6
  <2> HIDE DEF found
  <2> QED BY <1>1, <1>6, <2>1, OneMoves DEF RefundInv, Shaped
<1> QED BY <1>2, <1>4, <1>5, <1>6

\* A request that takes the mutex, for a refund or for a reconciliation.
LEMMA AskStep ==
  ASSUME RefundInv, NEW p \in Procs, Request(p)
  PROVE  RefundInv'
<1>1. PICK op, asked : Ask(p, op, asked)
  BY DEF Request
<1> DEFINE h == [Idle EXCEPT !.pc = "quote", !.op = op, !.ask = asked]
<1>2. /\ DOMAIN h = DOMAIN Idle /\ h.pc = "quote" /\ h.late = FALSE
  BY SMT DEF Idle
<1>3. /\ proc' = [proc EXCEPT ![p] = h] /\ Available
      /\ lock' = [owner |-> p, lapsed |-> FALSE]
      /\ item' = item /\ overran' = overran
  BY <1>1 DEF Ask, books
<1>4. Fits(p, h)
  BY <1>2, <1>3 DEF Fits
<1> HIDE DEF h
<1> QED
  BY <1>3, <1>4, OneMoves, RefundAssumptions DEF RefundInv, Shaped, Available

\* A reconciliation that waited for the mutex and gets it.
LEMMA EnterStep ==
  ASSUME RefundInv, NEW p \in Procs, Enter(p)
  PROVE  RefundInv'
<1> DEFINE h == [proc[p] EXCEPT !.pc = "record"]
<1>1. /\ proc' = [proc EXCEPT ![p] = h] /\ Available /\ proc[p].pc = "wait"
      /\ lock' = [owner |-> p, lapsed |-> FALSE]
      /\ item' = item /\ overran' = overran
  BY DEF Enter, Goes, books
<1>2. /\ DOMAIN h = DOMAIN Idle /\ h.pc = "record"
      /\ h.op = proc[p].op /\ h.late = proc[p].late
  BY GoesOn DEF RefundInv
<1>3. Fits(p, h)
  BY <1>1, <1>2 DEF Fits, RefundInv, ArmsWait, InsideOwns
<1> HIDE DEF h
<1> QED
  BY <1>1, <1>3, OneMoves, RefundAssumptions DEF RefundInv, Shaped, Available

\* An event that arrives, is refused the mutex, or goes with its process; and
\* a release, whoever owns the record by then.
LEMMA OutsideStep ==
  ASSUME RefundInv, NEW p \in Procs,
         \/ \E e \in events : Receive(p, e)
         \/ GiveUp(p) \/ Crash(p) \/ Release(p)
  PROVE  RefundInv'
<1>1. Idle.pc = "idle" /\ Idle.late = FALSE
  BY DEF Idle
<1>2. Fits(p, Idle)
  BY <1>1 DEF Fits
<1>3. CASE \E e \in events : Receive(p, e)
  <2>1. item' = item /\ lock' = lock /\ overran' = overran
    BY <1>3 DEF Receive, books
  <2>2. CASE status = "REFUNDED"
    <3>1. proc' = proc
      BY <1>3, <2>2 DEF Receive
    <3> QED BY <2>1, <3>1 DEF RefundInv, Shaped, InsideOwns, Holding, ArmsWait,
                              JudgedIsKept
  <2>3. CASE status # "REFUNDED"
    <3> DEFINE cum(e) == IF e.cum = 0 THEN Refunded ELSE e.cum
               op(e) == IF cum(e) < Total THEN "part" ELSE "whole"
               h(e, r, named) ==
                 [Idle EXCEPT !.pc = "wait", !.op = op(e), !.ref = r,
                              !.cum = cum(e), !.ask = named, !.ev = e]
    <3>1. PICK e \in events :
            \E r \in About(e) : \E named \in Learnt(op(e), r) :
              proc' = [proc EXCEPT ![p] = h(e, r, named)]
      BY <1>3, <2>3 DEF Receive
    <3>2. PICK r, named : proc' = [proc EXCEPT ![p] = h(e, r, named)]
      BY <3>1
    <3>3. /\ DOMAIN h(e, r, named) = DOMAIN Idle /\ h(e, r, named).pc = "wait"
          /\ h(e, r, named).op \in {"part", "whole"}
          /\ h(e, r, named).late = FALSE
      BY DEF Idle
    <3>4. Fits(p, h(e, r, named))
      BY <3>3 DEF Fits
    <3> HIDE DEF h
    <3> QED BY <2>1, <3>2, <3>4, OneMoves DEF RefundInv, Shaped
  <2> QED BY <2>2, <2>3
<1>4. CASE GiveUp(p) \/ Crash(p)
  <2>1. /\ proc' = [proc EXCEPT ![p] = Idle]
        /\ item' = item /\ lock' = lock /\ overran' = overran
    BY <1>4 DEF GiveUp, Crash, books
  <2> QED BY <1>2, <2>1, OneMoves DEF RefundInv, Shaped
<1>5. CASE Release(p)
  <2>1. /\ proc' = [proc EXCEPT ![p] = Idle]
        /\ lock' = IF lock.owner = p THEN Free ELSE lock
        /\ item' = item /\ overran' = overran
    BY <1>5 DEF Release, ReleasesOwn, books
  <2>2. lock' \in [owner : Procs \union {NoProc}, lapsed : BOOLEAN]
    BY <2>1 DEF RefundInv, Shaped, Free
  <2> QED BY <1>2, <2>1, <2>2, OneMoves DEF RefundInv, Shaped
<1> QED BY <1>3, <1>4, <1>5

\* The money: a refund that goes on to its record, or is not recorded here.
LEMMA PayStep ==
  ASSUME RefundInv, NEW p \in Procs, Pay(p)
  PROVE  RefundInv'
<1>1. /\ Holding(p) /\ proc[p].pc = "pay"
      /\ item' = item /\ lock' = lock /\ overran' = overran
  BY DEF Pay, Holding, books
<1>2. \/ proc' = [proc EXCEPT ![p] = Ended(proc[p])]
      \/ \E r : proc' =
           [proc EXCEPT ![p] = [proc[p] EXCEPT !.pc = "record", !.ref = r]]
  BY Zenon DEF Pay, Answered, Ends
<1>3. CASE proc' = [proc EXCEPT ![p] = Ended(proc[p])]
  BY <1>1, <1>3, EndingFits, OneMoves DEF RefundInv, Shaped
<1>4. ASSUME NEW r,
             proc' = [proc EXCEPT ![p] = [proc[p] EXCEPT !.pc = "record",
                                                         !.ref = r]]
      PROVE  RefundInv'
  <2> DEFINE h == [proc[p] EXCEPT !.pc = "record", !.ref = r]
  <2>1. /\ DOMAIN h = DOMAIN Idle /\ h.pc = "record" /\ h.op = proc[p].op
        /\ h.ask = proc[p].ask /\ h.late = proc[p].late
    BY DEF RefundInv, Shaped, Idle
  <2>2. Fits(p, h)
    BY <1>1, <2>1 DEF Fits, RefundInv, InsideOwns, JudgedIsKept
  <2> HIDE DEF h
  <2> QED BY <1>1, <1>4, <2>2, OneMoves DEF RefundInv, Shaped, h
<1> QED BY <1>2, <1>3, <1>4

\* The reads of the recording transaction.
LEMMA RecordStep ==
  ASSUME RefundInv, NEW p \in Procs, Record(p)
  PROVE  RefundInv'
<1> DEFINE seen == IF proc[p].op = "full" THEN proc[p].seen ELSE item
           h == [proc[p] EXCEPT !.pc = "write", !.seen = seen,
                                !.prior = PriorDebits(p)]
<1>1. /\ Holding(p) /\ proc[p].pc = "record"
      /\ item' = item /\ lock' = lock /\ overran' = overran
  BY DEF Record, Holding, books
<1>2. CASE Overtaken(p)
  <2>1. proc' = [proc EXCEPT ![p] = Ended(proc[p])]
    BY <1>2 DEF Record, Ends
  <2> QED BY <1>1, <2>1, EndingFits, OneMoves DEF RefundInv, Shaped
<1>3. CASE ~Overtaken(p)
  <2>1. proc' = [proc EXCEPT ![p] = h]
    BY <1>3 DEF Record, RefundInv, Shaped, Idle
  <2>2. /\ DOMAIN h = DOMAIN Idle /\ h.pc = "write" /\ h.op = proc[p].op
        /\ h.ask = proc[p].ask /\ h.late = proc[p].late /\ h.seen = seen
    BY DEF RefundInv, Shaped, Idle
  <2>3. Fits(p, h)
    BY <1>1, <2>2 DEF Fits, RefundInv, InsideOwns, JudgedIsKept
  <2> HIDE DEF h
  <2> QED BY <1>1, <2>1, <2>3, OneMoves DEF RefundInv, Shaped
<1> QED BY <1>2, <1>3

\* The only writes that void a ticket void none that was given away.
LEMMA WriteKeepsGifts ==
  ASSUME RefundInv, NEW p \in Procs, Write(p)
  PROVE  /\ item' \in [Items -> ItemStatuses]
         /\ \A i \in Items : item'[i] = "transferred" => item[i] = "transferred"
         /\ ~overran => \A i \in Items :
              item[i] = "transferred" => item'[i] = "transferred"
<1>1. PICK flipped : /\ Flips(flipped)
                     /\ ~overran => \A i \in Items \intersect flipped :
                                      item[i] # "transferred"
  <2>1. CASE proc[p].op = "whole"
    BY <2>1 DEF Write, WritesWhole, RefundInv, JudgedIsKept
  <2>2. CASE proc[p].op = "part"
    BY <2>2 DEF Write, WritesPart, RefundInv, JudgedIsKept
  <2>3. CASE proc[p].op \notin {"whole", "part"}
    BY <2>3 DEF Write, WritesRefund, RefundInv, JudgedIsKept
  <2> QED BY <2>1, <2>2, <2>3
<1> QED BY <1>1 DEF Flips, RefundInv, Shaped, ItemStatuses

\* What ends inside the mutex, with its writes or without.
LEMMA EndStep ==
  ASSUME RefundInv, NEW p \in Procs, Write(p) \/ Throw(p)
  PROVE  RefundInv'
<1>1. /\ Holding(p) /\ lock' = lock /\ overran' = overran
      /\ proc' = [proc EXCEPT ![p] = Ended(proc[p])]
  BY DEF Write, Throw, Holding, Ends
<1>2. /\ item' \in [Items -> ItemStatuses]
      /\ \A i \in Items : item'[i] = "transferred" => item[i] = "transferred"
  <2>1. CASE Write(p)
    BY <2>1, WriteKeepsGifts
  <2>2. CASE Throw(p)
    BY <2>2 DEF Throw, books, RefundInv, Shaped
  <2> QED BY <2>1, <2>2
<1> QED BY <1>1, <1>2, EndingFits, OneMoves DEF RefundInv, Shaped

\* An operation that outlives its TTL is known to have.
LEMMA OverrunStep ==
  ASSUME RefundInv, NEW p \in Procs, Overrun(p)
  PROVE  RefundInv'
<1> DEFINE h == [proc[p] EXCEPT !.late = TRUE]
<1>1. /\ proc' = [proc EXCEPT ![p] = h] /\ Holding(p)
      /\ lock' = [lock EXCEPT !.lapsed = TRUE] /\ lock.owner = p
      /\ item' = item /\ overran' = TRUE
  BY DEF Overrun, books
<1>2. DOMAIN h = DOMAIN Idle /\ h.late = TRUE /\ h.pc = proc[p].pc
  BY DEF RefundInv, Shaped, Idle
<1>3. Fits(p, h)
  BY <1>1, <1>2 DEF Fits, Holding
<1> HIDE DEF h
<1> QED BY <1>1, <1>3, OneMoves DEF RefundInv, Shaped

\* Steps of nobody in particular: Stripe's, an operator's, a gift, the clock.
LEMMA OtherStep ==
  ASSUME RefundInv,
         \/ DashboardRefund \/ Lapse \/ UNCHANGED vars
         \/ \E r \in DOMAIN refunds : Settle(r)
         \/ \E e \in parked : Replay(e)
         \/ \E i \in Items : Transfer(i)
  PROVE  RefundInv'
<1>1. CASE item' = item /\ lock' = lock /\ proc' = proc /\ overran' = overran
  BY <1>1 DEF RefundInv, Shaped, InsideOwns, Holding, ArmsWait, JudgedIsKept
<1>2. CASE Lapse
  BY <1>2 DEF Lapse, books, RefundInv, Shaped, InsideOwns, Holding, ArmsWait,
              JudgedIsKept, Free
<1>3. CASE \E i \in Items : Transfer(i)
  <2>1. PICK i \in Items : Transfer(i)
    BY <1>3
  <2>2. /\ Available /\ lock' = Free
        /\ item' = [item EXCEPT ![i] = "transferred"]
        /\ proc' = proc /\ overran' = overran
    BY <2>1 DEF Transfer
  <2>3. \A p \in Procs : Holding(p) => proc[p].late /\ overran
    BY <2>2, RefundAssumptions DEF RefundInv, InsideOwns, Available
  <2>4. Shaped'
    BY <2>2 DEF RefundInv, Shaped, ItemStatuses, Free
  <2>5. InsideOwns' /\ ArmsWait'
    BY <2>2, <2>3 DEF RefundInv, InsideOwns, Holding, ArmsWait
  <2>6. JudgedIsKept'
    BY <2>2, <2>3 DEF JudgedIsKept, Holding
  <2> QED BY <2>4, <2>5, <2>6 DEF RefundInv
<1> QED
  BY <1>1, <1>2, <1>3 DEF DashboardRefund, Settle, Replay, vars, books

\* Every step keeps the invariant.
LEMMA InvStep == RefundInv /\ [Next]_vars => RefundInv'
<1> SUFFICES ASSUME RefundInv, [Next]_vars PROVE RefundInv'
  OBVIOUS
<1>1. CASE \E p \in Procs : Handler(p)
  <2>1. PICK p \in Procs : Handler(p)
    BY <1>1
  <2>2. \/ Request(p) \/ Enter(p) \/ Quote(p) \/ Pay(p) \/ Record(p)
        \/ Overrun(p) \/ Write(p) \/ Throw(p)
        \/ GiveUp(p) \/ Crash(p) \/ Release(p)
        \/ \E e \in events : Receive(p, e)
    BY <2>1 DEF Handler, Work
  <2> QED BY <2>2, AskStep, EnterStep, QuoteStep, PayStep, RecordStep,
             OverrunStep, EndStep, OutsideStep
<1>2. CASE ~\E p \in Procs : Handler(p)
  BY <1>2, OtherStep DEF Next
<1> QED BY <1>1, <1>2

\* The inductive invariant: the mutex, and what the operations inside it know.
THEOREM RefundInvariance == Spec => []RefundInv
<1>1. Init => RefundInv
  <2> SUFFICES ASSUME Init PROVE RefundInv
    OBVIOUS
  <2>1. Shaped
    BY DEF Init, Shaped, Active, ItemStatuses, Free
  <2>2. \A p \in Procs : proc[p] = Idle
    BY DEF Init
  <2>3. Idle.pc = "idle" /\ Idle.late = FALSE
    BY DEF Idle
  <2> QED BY <2>1, <2>2, <2>3 DEF RefundInv, InsideOwns, Holding, ArmsWait,
                                  JudgedIsKept
<1> QED BY <1>1, InvStep, PTL DEF Spec

\* Of two operations inside the mutex one has outlived its TTL, for any number
\* of handlers: withOrderRefundMutex's release removes its own record only.
THEOREM LeaseExclusive == Spec => []LeaseIsExclusive
<1>1. RefundInv => LeaseIsExclusive
  BY DEF RefundInv, InsideOwns, LeaseIsExclusive
<1> QED BY <1>1, RefundInvariance, PTL

\* No refund or reconciliation voids a ticket that was given away, for any
\* items and prices, unless one outlived the mutex.
THEOREM GiftKept == Spec => GiftIsKept
<1> DEFINE Keeps == \A i \in Items :
      item[i] = "transferred" /\ ~overran' => item'[i] = "transferred"
<1>1. RefundInv /\ [Next]_vars => [Keeps]_vars
  <2> SUFFICES ASSUME RefundInv, Next PROVE Keeps
    BY DEF vars, books
  <2>1. CASE \E p \in Procs : Write(p)
    <3>1. PICK p \in Procs : Write(p)
      BY <2>1
    <3>2. overran' = overran
      BY <3>1 DEF Write
    <3> QED BY <3>1, <3>2, WriteKeepsGifts
  <2>2. CASE \E i \in Items : Transfer(i)
    BY <2>2 DEF Transfer, RefundInv, Shaped
  <2>3. CASE item' = item
    BY <2>3
  <2>4. \/ item' = item \/ (\E p \in Procs : Write(p))
        \/ \E i \in Items : Transfer(i)
    BY DEF Next, Handler, Work, Request, Ask, Quote, Pay, Enter, GiveUp, Record,
           Release, Receive, Throw, Crash, Overrun, DashboardRefund, Settle,
           Replay, Lapse, books
  <2> QED BY <2>1, <2>2, <2>3, <2>4
<1> QED BY <1>1, RefundInvariance, PTL DEF Spec, GiftIsKept
=============================================================================
