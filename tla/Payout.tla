------------------------------- MODULE Payout -------------------------------
(***************************************************************************)
(* The payout batch for one payee in one currency.  A run first repairs    *)
(* what earlier runs left half done, reads from the ledger what the payee  *)
(* is owed, freezes that as a PayoutItem and transfers it through Stripe;  *)
(* only then does the ledger record it.  The daily cron and manual runs    *)
(* may overlap, refunds and disputes change the ledger under them, and a   *)
(* run may die between any two steps.                                      *)
(*                                                                         *)
(* Every settlement credit is worth one unit.  The set of credits an item  *)
(* covers is its cell hash: the Stripe key, the transfer claim and the     *)
(* ledger key all derive from it.  Time is days.  Within a day the short   *)
(* claims of ended and dead runs lapse only while no run is under way.     *)
(* Withholding (reserve, Connect fee) and its items without a transfer are *)
(* left out.                                                               *)
(***************************************************************************)
EXTENDS Naturals, Integers, Sequences, FiniteSets, FiniteSetsExt

CONSTANTS
  Credits,     \* the payee's SETTLEMENT_CREDIT entries
  Runs,        \* executions of the batch, cron or manual
  KeepDays,    \* TRANSFER_CLAIM_KEEP_SECONDS
  FaultPlans,  \* what a behaviour may meet with, each of it once
  MaxDay,      \* bound: days
  MaxItems     \* bound: PayoutItems

FaultKinds == {"crash", "lost", "commit", "mark", "ledger", "consume", "stamp",
               "heal", "recover", "refund", "dispute"}

ASSUME PayoutAssumptions ==
  /\ IsFiniteSet(Credits)
  /\ KeepDays \in Nat /\ MaxDay \in Nat /\ MaxItems \in Nat
  /\ FaultPlans \subseteq SUBSET FaultKinds

VARIABLES
  day,       \* the UTC cycle date
  swept,     \* a run got through its sweep today
  matured,   \* credits whose availableAt has passed
  consumed,  \* credits stamped with the PAYOUT entry that paid them
  debited,   \* credits whose order was refunded, or charged back
  held,      \* credits whose order has an active DISPUTE_HOLD
  paidOut,   \* credits whose order item is stamped paidOutAt
  rows,      \* PAYOUT entries, by ledger key: the amount
  items,     \* PayoutItems in order of creation
  sent,      \* transfers Stripe accepted: [item, amount]
  keys,      \* idempotency keys Stripe still remembers
  claims,    \* payout-transfer:<hash> records: [by, day]
  cell,      \* the payout:<payee>:<currency>:<date> claim
  run,       \* what each run is doing
  faults,    \* faults still to come
  lost       \* history: a transfer was accepted and no one here knows

ledger == <<matured, consumed, debited, held, paidOut, rows>>
stripe == <<sent, keys>>
time == <<day, swept>>
vars == <<time, ledger, items, stripe, claims, cell, run, faults, lost>>

Hash == (SUBSET Credits) \ {{}}
Idle == [pc |-> "idle", asOf |-> {}, amount |-> 0, plan |-> {}, item |-> 0]
Cents == 0..Cardinality(Credits)

TypeOK ==
  /\ day \in 0..MaxDay /\ swept \in BOOLEAN
  /\ matured \subseteq Credits /\ consumed \subseteq matured
  /\ debited \subseteq Credits /\ held \subseteq Credits \ debited
  /\ paidOut \subseteq Credits
  /\ DOMAIN rows \subseteq Hash
  /\ \A h \in DOMAIN rows : rows[h] \in Cents \ {0}
  /\ Len(items) <= MaxItems
  /\ \A n \in DOMAIN items :
       items[n] \in [hash : Hash, amount : Cents \ {0},
                     status : {"pending", "transferred", "failed"}]
  /\ sent \subseteq [item : DOMAIN items, amount : Cents \ {0}]
  /\ keys \subseteq Hash
  /\ DOMAIN claims \subseteq Hash
  /\ \A h \in DOMAIN claims :
       claims[h] \in [by : {0} \union DOMAIN items, day : 0..MaxDay]
  /\ cell \in {"free", "busy", "failed", "done"}
  /\ run \in [Runs ->
       [pc : {"idle", "plan", "feed", "claim", "begin", "check",
              "send", "sent", "repair", "mark", "ledger", "consume", "stamp",
              "settle"},
        asOf : SUBSET Credits, amount : Cents, plan : SUBSET Credits,
        item : 0..MaxItems]]
  /\ faults \in SUBSET FaultKinds /\ lost \in BOOLEAN

Init ==
  /\ day = 0 /\ swept = FALSE
  /\ matured = {} /\ consumed = {} /\ debited = {} /\ held = {}
  /\ paidOut = {}
  /\ rows = <<>> /\ items = <<>> /\ claims = <<>>
  /\ sent = {} /\ keys = {}
  /\ cell = "free"
  /\ run = [r \in Runs |-> Idle]
  /\ faults \in FaultPlans
  /\ lost = FALSE

Sum(f) == MapThenSumSet(LAMBDA h : f[h], DOMAIN f)
SentTotal == MapThenSumSet(LAMBDA t : t.amount, sent)

\* listPayableBalances: matured credits, less debits, payouts and holds.
Payable(asOf) ==
  Cardinality(asOf) - Cardinality(debited) - Cardinality(held) - Sum(rows)

\* A bug to tell apart: the feed without the maturity filter of the sum.
ConsumableEarly(asOf) == Credits \ consumed

\* listConsumableCredits: a hold does not take its credit off the feed.
Consumable(asOf) == asOf \ consumed

Goes(r, pc) == run' = [run EXCEPT ![r].pc = pc]
Ends(r) == run' = [run EXCEPT ![r] = Idle]
Mine(r) == items[run[r].item]
Strikes(f) == f \in faults /\ faults' = faults \ {f}
With(h, by) == [k \in DOMAIN claims \union {h} |->
                  IF k = h THEN [by |-> by, day |-> day] ELSE claims[k]]

\* A claim can be had only when no unexpired record of any status is there.
Claimable(h) == h \notin DOMAIN claims

-----------------------------------------------------------------------------
(* The sweep.                                                              *)

\* A bug to tell apart: a stale pending item is taken for one that was sent.
ProvenByAge(n) == TRUE

\* get(): the committed record of the item's own hash names the item.
Proven(n) == LET h == items[n].hash IN h \in DOMAIN claims /\ claims[h].by = n

Pending == {n \in DOMAIN items : items[n].status = "pending"}

Stamped(done, status) ==
  [n \in DOMAIN items |->
     IF n \in done THEN [items[n] EXCEPT !.status = status] ELSE items[n]]

\* A bug to tell apart: the second probe without the first.
HealsStampsOnly(done) == {n \in DOMAIN items :
  /\ items[n].status = "transferred" \/ n \in done
  /\ items[n].hash \in DOMAIN rows /\ ~(items[n].hash \subseteq paidOut)}

\* listTransferredNeedingLedgerHeal: the credits' consumption is not looked at.
NeedsHeal(done) == {n \in DOMAIN items :
  /\ items[n].status = "transferred" \/ n \in done
  /\ items[n].hash \notin DOMAIN rows \/ ~(items[n].hash \subseteq paidOut)}

LedgerKey(n) == items[n].hash

\* payoutDebit: created once per key; a replay returns the row that is there.
PayoutDebits(ns) ==
  LET new == {LedgerKey(n) : n \in ns} \ DOMAIN rows
  IN  [h \in DOMAIN rows \union new |->
         IF h \in new
         THEN items[CHOOSE n \in ns :
                      /\ LedgerKey(n) = h
                      /\ \A k \in ns : LedgerKey(k) = h => n <= k].amount
         ELSE rows[h]]

\* Steps (b) and (c): the credits' consumption and the items' paidOutAt.
Covers(ns) == UNION {items[n].hash : n \in ns}
Consumes(ns) == consumed' = consumed \union Covers(ns)
Stamps(ns) == paidOut' = paidOut \union Covers(ns)

\* The heal of some items.  The writes of (b) and (c) fail each on its own.
Heals(ns) ==
  /\ rows' = PayoutDebits(ns)
  /\ \E fail \in SUBSET (faults \intersect {"consume", "stamp"}) :
       /\ faults' = faults \ fail
       /\ IF "consume" \in fail THEN \E n \in ns : Consumes(ns \ {n})
          ELSE Consumes(ns)
       /\ IF "stamp" \in fail THEN \E n \in ns : Stamps(ns \ {n})
          ELSE Stamps(ns)

\* Steps 0a and 0b.  An item of a run under way may be too young to be looked
\* at (15 minutes).  So may a dead run's, but its cell claim outlasts that, and
\* nothing is paid until it is looked at.  A ledger write that throws is
\* swallowed, and the run goes on.
Recovered(young) == {n \in Pending \ young : Proven(n)}

Sweep(r) ==
  /\ run[r].pc = "idle"
  /\ \E young \in SUBSET {run[q].item : q \in Runs} :
       LET done == Recovered(young)
           heal == NeedsHeal(done)
       IN  /\ items' = Stamped(done, "transferred")
           /\ \/ Heals(heal)
              \/ /\ heal # {} /\ Strikes("heal")
                 /\ UNCHANGED <<rows, consumed, paidOut>>
  /\ swept' = TRUE
  /\ run' = [run EXCEPT ![r].pc = "plan", ![r].asOf = matured]
  /\ UNCHANGED <<day, matured, debited, held, stripe, claims, cell, lost>>

\* A sweep that throws pays nothing: the run ends where it began.
SweepThrows(r) ==
  /\ run[r].pc = "idle" /\ Strikes("recover")
  /\ UNCHANGED <<time, ledger, items, stripe, claims, cell, run, lost>>

-----------------------------------------------------------------------------
(* The plan.                                                               *)

Plan(r) ==
  /\ run[r].pc = "plan"
  /\ IF Payable(run[r].asOf) <= 0 THEN Ends(r)
     ELSE run' = [run EXCEPT ![r].pc = "feed",
                             ![r].amount = Payable(run[r].asOf)]
  /\ UNCHANGED <<time, ledger, items, stripe, claims, cell, faults, lost>>

\* Nothing to attribute the money to: the cell is skipped.
Feed(r) ==
  /\ run[r].pc = "feed"
  /\ IF Consumable(run[r].asOf) = {} THEN Ends(r)
     ELSE run' = [run EXCEPT ![r].pc = "claim",
                             ![r].plan = Consumable(run[r].asOf)]
  /\ UNCHANGED <<time, ledger, items, stripe, claims, cell, faults, lost>>

\* A bug to tell apart: no claim of the payee's day.
CellIgnored == TRUE

\* One run pays the payee in a cycle, the others defer; the claim taken, the
\* plan is made durable.
CellOpen == cell = "free"

ClaimCell(r) ==
  /\ run[r].pc = "claim"
  /\ IF CellOpen /\ Len(items) < MaxItems
     THEN /\ cell' = "busy"
          /\ items' = Append(items,
               [hash |-> run[r].plan, amount |-> run[r].amount,
                status |-> "pending"])
          /\ run' = [run EXCEPT ![r] =
               [Idle EXCEPT !.pc = "begin", !.item = Len(items) + 1]]
     ELSE Ends(r) /\ UNCHANGED <<cell, items>>
  /\ UNCHANGED <<time, ledger, stripe, claims, faults, lost>>

-----------------------------------------------------------------------------
(* The transfer.                                                           *)

\* failItem: the item fails and the cell is released, with the transfer claim
\* if this run holds it; fail() leaves a marker in either.
FailItem(r) == Stamped({run[r].item}, "failed")

\* The probe of a lost claim: the item its record names is transferred.
Probed(r) ==
  LET h == Mine(r).hash IN
  {n \in DOMAIN items : n = claims[h].by /\ items[n].status # "transferred"}

LosesClaim(r) ==
  /\ items' = [n \in DOMAIN items |->
                 [items[n] EXCEPT !.status =
                    CASE n = run[r].item -> "failed"
                      [] n \in Probed(r) -> "transferred"
                      [] OTHER -> @]]
  /\ UNCHANGED claims

Begin(r) ==
  /\ run[r].pc = "begin"
  /\ \/ /\ Claimable(Mine(r).hash)
        /\ claims' = With(Mine(r).hash, 0)
        /\ Goes(r, "check")
        /\ UNCHANGED <<items, cell>>
     \/ /\ ~Claimable(Mine(r).hash)
        /\ LosesClaim(r)
        /\ cell' = "failed" /\ Ends(r)
  /\ UNCHANGED <<time, ledger, stripe, faults, lost>>

\* failItem by a run that holds the transfer claim.
Fails(r) ==
  /\ items' = FailItem(r)
  /\ claims' = With(Mine(r).hash, 0)
  /\ cell' = "failed" /\ Ends(r)

\* The race guard reads the payable again, with the clock of now.
Dropped(r) == Payable(matured) < Mine(r).amount

Check(r) ==
  /\ run[r].pc = "check"
  /\ IF Dropped(r) THEN Fails(r)
     ELSE Goes(r, "send") /\ UNCHANGED <<items, claims, cell>>
  /\ UNCHANGED <<time, ledger, stripe, faults, lost>>

\* Stripe refuses a known key that comes with other parameters, and every
\* item names itself in the transfer's metadata.
Accepts(r) == Mine(r).hash \notin keys

Moves(r) ==
  /\ sent' = sent \union {[item |-> run[r].item, amount |-> Mine(r).amount]}
  /\ keys' = keys \union {Mine(r).hash}

Send(r) ==
  /\ run[r].pc = "send" /\ Accepts(r)
  /\ Moves(r)
  /\ Goes(r, "sent")
  /\ UNCHANGED <<time, ledger, items, claims, cell, faults, lost>>

\* createTransfer throws: the float is dry, the account is closed, the key is
\* known; the pre-transfer arm fails the item.
SendRefused(r) ==
  /\ run[r].pc = "send"
  /\ Fails(r)
  /\ UNCHANGED <<time, ledger, stripe, faults, lost>>

\* It throws because the answer never came.
SendUnanswered(r) ==
  /\ run[r].pc = "send" /\ Accepts(r) /\ Strikes("lost")
  /\ Moves(r) /\ Fails(r)
  /\ lost' = TRUE
  /\ UNCHANGED <<time, ledger>>

Commit(r) ==
  /\ run[r].pc = "sent"
  /\ \/ /\ claims' = With(Mine(r).hash, run[r].item)
        /\ Goes(r, "mark") /\ UNCHANGED faults
     \/ Strikes("commit") /\ Goes(r, "repair") /\ UNCHANGED claims
  /\ UNCHANGED <<time, ledger, items, stripe, cell, lost>>

\* A bug to tell apart: one catch arm for every failure.
RepairFails(r) ==
  /\ run[r].pc = "repair"
  /\ Fails(r)
  /\ UNCHANGED <<time, ledger, stripe, faults, lost>>

\* The post-completion arm: commit again, mark, settle the cell; the ledger is
\* left to the next run's sweep.
Repair(r) ==
  /\ run[r].pc = "repair"
  /\ claims' = With(Mine(r).hash, run[r].item)
  /\ items' = Stamped({run[r].item}, "transferred")
  /\ cell' = "done" /\ Ends(r)
  /\ UNCHANGED <<time, ledger, stripe, faults, lost>>

\* If the mark throws, the arm marks again and may fail again.
Mark(r) ==
  /\ run[r].pc = "mark"
  /\ \/ /\ items' = Stamped({run[r].item}, "transferred")
        /\ Goes(r, "ledger") /\ UNCHANGED <<cell, faults>>
     \/ /\ Strikes("mark")
        /\ items' \in {items, Stamped({run[r].item}, "transferred")}
        /\ cell' = "done" /\ Ends(r)
  /\ UNCHANGED <<time, ledger, stripe, claims, lost>>

\* A ledger write that throws is swallowed; nothing after it is tried.
Debit(r) ==
  /\ run[r].pc = "ledger"
  /\ \/ /\ rows' = PayoutDebits({run[r].item})
        /\ Goes(r, "consume") /\ UNCHANGED faults
     \/ Strikes("ledger") /\ Goes(r, "settle") /\ UNCHANGED rows
  /\ UNCHANGED <<time, matured, consumed, debited, held, paidOut, items, stripe,
                 claims, cell, lost>>

\* markCreditsConsumed: if it throws, that is reported and the run goes on.
Consume(r) ==
  /\ run[r].pc = "consume"
  /\ \/ Consumes({run[r].item}) /\ UNCHANGED faults
     \/ Strikes("consume") /\ UNCHANGED consumed
  /\ Goes(r, "stamp")
  /\ UNCHANGED <<time, matured, debited, held, paidOut, rows, items, stripe,
                 claims, cell, lost>>

\* markItemsPaidOut, likewise.
Stamp(r) ==
  /\ run[r].pc = "stamp"
  /\ \/ Stamps({run[r].item}) /\ UNCHANGED faults
     \/ Strikes("stamp") /\ UNCHANGED paidOut
  /\ Goes(r, "settle")
  /\ UNCHANGED <<time, matured, consumed, debited, held, rows, items, stripe,
                 claims, cell, lost>>

Settle(r) ==
  /\ run[r].pc = "settle"
  /\ cell' = "done" /\ Ends(r)
  /\ UNCHANGED <<time, ledger, items, stripe, claims, faults, lost>>

\* The process dies.  After Stripe's answer and before the commit, no record
\* of the transfer is left on this side.
Crash(r) ==
  /\ run[r].pc # "idle" /\ Strikes("crash")
  /\ Ends(r)
  /\ lost' = (lost \/ run[r].pc \in {"sent", "repair"})
  /\ UNCHANGED <<time, ledger, items, stripe, claims, cell>>

-----------------------------------------------------------------------------
(* The rest of the system and time.                                        *)

Mature(c) ==
  /\ c \notin matured /\ matured' = matured \union {c}
  /\ UNCHANGED <<time, consumed, debited, held, paidOut, rows, items, stripe,
                 claims, cell, run, faults, lost>>

\* A REFUND_DEBIT, effective at once.
RefundOrder(c) ==
  /\ c \notin debited \union held /\ Strikes("refund")
  /\ debited' = debited \union {c}
  /\ UNCHANGED <<time, matured, consumed, held, paidOut, rows, items, stripe,
                 claims, cell, run, lost>>

Dispute(c) ==
  /\ c \notin debited \union held /\ Strikes("dispute")
  /\ held' = held \union {c}
  /\ UNCHANGED <<time, matured, consumed, debited, paidOut, rows, items, stripe,
                 claims, cell, run, lost>>

\* WON releases the hold; LOST turns it into a debit.
DisputeCloses(c) ==
  /\ c \in held
  /\ held' = held \ {c}
  /\ debited' \in {debited, debited \union {c}}
  /\ UNCHANGED <<time, matured, consumed, paidOut, rows, items, stripe, claims,
                 cell, run, faults, lost>>

Quiet == \A r \in Runs : run[r].pc = "idle"

Uncommitted == {h \in DOMAIN claims : claims[h].by = 0}
Expired == {h \in DOMAIN claims : claims[h].day + KeepDays <= day'}
Kept(gone) == [h \in DOMAIN claims \ gone |-> claims[h]]

\* An hour later: claims in progress and failed markers have run out.
Lapse ==
  /\ Quiet /\ (cell \in {"busy", "failed"} \/ Uncommitted # {})
  /\ cell' = IF cell = "done" THEN "done" ELSE "free"
  /\ claims' = Kept(Uncommitted)
  /\ UNCHANGED <<time, ledger, items, stripe, run, faults, lost>>

\* The marker of a run that failed in the last quarter of an hour of a day.
Markers == {h \in Uncommitted : cell = "failed" /\ claims[h].day = day}

\* A day passes in which a run got through its sweep: the cell's key is new.
\* Stripe forgets keys from its 24 hours on.
NextDay ==
  /\ Quiet /\ swept /\ day < MaxDay
  /\ day' = day + 1 /\ swept' = FALSE
  /\ cell' = "free"
  /\ \E fresh \in {{}, Markers} :
       claims' = Kept((Uncommitted \ fresh) \union Expired)
  /\ keys' \in {{}, keys}
  /\ UNCHANGED <<ledger, items, sent, run, faults, lost>>

Step(r) ==
  \/ Sweep(r) \/ Plan(r) \/ Feed(r) \/ ClaimCell(r) \/ Begin(r) \/ Check(r)
  \/ Send(r) \/ SendRefused(r) \/ Commit(r) \/ Repair(r) \/ Mark(r)
  \/ Debit(r) \/ Consume(r) \/ Stamp(r) \/ Settle(r)

Next ==
  \/ \E r \in Runs : Step(r) \/ SweepThrows(r) \/ SendUnanswered(r) \/ Crash(r)
  \/ \E c \in Credits :
       Mature(c) \/ RefundOrder(c) \/ Dispute(c) \/ DisputeCloses(c)
  \/ Lapse
  \/ NextDay

Spec == Init /\ [][Next]_vars

\* The cron keeps firing, and a run that is not stopped goes on.
FairSpec == Spec /\ \A r \in Runs : WF_vars(Step(r))

-----------------------------------------------------------------------------
(* What must hold.                                                         *)

\* The payee is never sent more than the credits that matured, whatever runs
\* overlap, die, or plan the same money under another hash (the claims and the
\* sweep); a transfer nobody here knows of is beyond them, and so is a lost
\* consumption in a behaviour that has a dispute too (FaultPlans).
SentWithinCredits == ~lost => SentTotal <= Cardinality(matured)

\* The payee is never debited for money it was not sent: every PAYOUT entry is
\* for a transfer of exactly its credits and its amount (the heal replays the
\* plan of an item only on proof).
DebitsWereSent ==
  \A h \in DOMAIN rows :
    \E t \in sent : items[t.item].hash = h /\ t.amount = rows[h]

\* "A failed item with a real transfer is a lie the sweep cannot see through"
\* (the post-completion arm).
FailedWasNotSent ==
  ~lost => \A t \in sent : items[t.item].status # "failed"

\* A transfer that Stripe accepted ends up in the ledger, by its run or by the
\* sweep of a later one.
SentIsRecorded ==
  \A h \in Hash :
    (\E t \in sent : items[t.item].hash = h) ~> (h \in DOMAIN rows \/ lost)
=============================================================================
