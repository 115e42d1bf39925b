# Verification of the ticket sale

TLA+ models of the parts of this repository where money, inventory and time
meet: the paid ticket checkout and everything that may finish or cancel an order
behind the buyer's back, the seats an order holds meanwhile, the refunds of a
paid order, the payout of its proceeds, and the admission of its tickets at the
door. Paths below are relative to the repository root; `orders/`, `tickets/` and
so on are under `packages/core/src/use-cases/`.

| Module | What it is |
| --- | --- |
| `Purchase` | what a checkout promises a buyer, with no database or processor |
| `Checkout` | orders, PaymentIntents, requests, webhook, cancellers; implements `Purchase` |
| `CheckoutProofs` | the theorems about `Checkout`, for any number of orders |
| `SeatHolds` | seats, the carts and orders that name them, the clocks and fences |
| `Refund` | a paid order's refunds: two platform paths, Stripe's events, the mutex, the payee's debits |
| `RefundProofs` | theorems about `Refund`, for any number of handlers and items: the mutex and gifts |
| `RefundMoneyProofs` | the same about its money: refunds, debits, voided tickets |
| `Payout` | the payout batch: runs, claims, transfers, the ledger and its repair |
| `Scan` | the scanner's admissions and queue, the server's claim and CAS, undo and sign-out |
| `SeatHoldsProofs`, `PayoutProofs`, `ScanProofs` | the theorems about these three, for any size and any bound |
| `Sums` | what a sum over a finite set does when the set or the summands change, with proofs |
| `MCCheckout`, `MCSeatHolds`, `MCRefund`, `MCPayout`, `MCScan` | small instances for TLC |

## Inventory

The repository is a monorepo: an API (`apps/api`, tRPC and Stripe webhooks), a
jobs service (`apps/jobs`, cron and outbox drains), web, mobile and scanner
clients, and packages. The business logic is in `packages/core` as use cases
that talk to a PostgreSQL database, the payment processor and queues through
ports; the conditional updates on which the races turn are in
`packages/adapters/src/db/prisma`. `PROJECT.json` lists every component and
its status. The ones with a concurrent protocol are these.

| Component | State | Operations | What is hard | What makes it correct |
| --- | --- | --- | --- | --- |
| Paid checkout (`orders/create-checkout.ts`) | the PENDING order, its PaymentIntent and link, spent credit | commit, create and link the PaymentIntent, answer, unwind | three systems and no common transaction; a crash at each step; two tabs | no secret for a cancelled order; nothing stranded |
| Cart retirement (`orders/_shared/*carried-over-cart*.ts`) | the PaymentIntent that was settled | settle outside the transaction, CAS inside, one retry | the cart changes between the two | only dead PaymentIntents are on cancelled orders |
| Cancellers (`release-expired-carts`, `release-cart-hold`, `cancelStalePendingCarts`, `payment_failed`) | what each one read | read, settle, CAS, release | all four race one another and the payment | a charge is never left on a cancelled order; everything ends |
| Finalize and confirm (`finalize-from-payment-intent`, `confirm-payment`, `webhook.ts`) | the order, tickets, the dead-letter queue | mark PROCESSING, succeed and mint, replay | duplicate, late, reordered events | money taken becomes tickets, once |
| Seats (`cart-seat-release.ts`, `seats.ts`, `release-expired-holds.ts`) | `Seat.status`, `updatedAt`; no holder | hold, fenced release, orphan sweep, sold | two TTLs, two clocks, READ COMMITTED | a seat serves one open order; abandoned seats come back |
| Capacity gate | counts under the ticket type's lock | assert | held window, PROCESSING orders | no oversell |
| Idempotency claims, refund mutex (`prisma-adapter.ts`, `refund-mutex.ts`) | TTL records, owner tokens | begin, get, commit, fail, release | a run that outlives its TTL; what a stored answer still means | one runner at a time; a late release harms nobody |
| Refunds (`refund-full-order`, `refund-order-items`, `reconcile-stripe-full-refund`) | items, order, the payee's debits, Stripe's refunds | pay, record, reconcile | Stripe first and the database after; the dashboard; late, cumulative, misattributed events | no item is paid back twice; the payee is debited for what was paid back |
| Payouts (`settlements/run-batch.ts`) | ledger, PayoutItems, cell and transfer claims | sweep, plan, transfer, commit, record | a run that dies after sending money; overlapping runs; a changed credit set | money is sent once and ends up in the ledger |
| Scanning (`scan-ticket.ts`, `apps/scanner`) | `Ticket.status`, stored answers, device queues | admit, queue, send, drop, undo, sign out | offline devices, late answers | one admission per ticket; nothing lost silently |
| Resale market | listing and hold rows | list, hold, commit, expire, unwind | the sweep against late payments | one buyer per listing |
| Booking holds | a ranked line per date | place, challenge, answer, lapse | deadlines against answers | one first hold per date |
| Disputes, POS | holds on credits; reader payments | open, close; start, complete | they repeat the protocols above | never more than was paid |

How they interact: a checkout request, the webhook, the browser's confirm and
the crons share the `Order`, `Seat` and ledger rows, and nothing else. A refund
starts from a fulfilled order and writes the debits that a payout subtracts; a
transfer takes the refund's mutex; a scan only sees `Ticket.status`. They do
not call one another; each reads, calls the processor with no transaction open
(so that a row lock is never held over the network), and then writes with a
conditional update. Correctness rests on what each conditional update compares.

## Checkout

**State.** `order`, `linked` and `credit` are rows (status, whether
`stripePaymentIntentId` holds this order's PaymentIntent, who spent the buyer's
one unit of credit). `pi` is the processor's truth. `inbox` and `dlq` are the
processor's events. `at` and `carry` are the local variables of a checkout
request: where it awaits, and which cart it supersedes with what it learnt of
it. `task` is the same for each canceller. `sawProcessing` is a confirm call
between its read and its write.

**Steps.** A database transaction is one step, because its first conditional
update locks the order's row. Each await of the processor and each gap between
a read and the transaction that uses it separates steps. A process may die at
each (`CheckoutDies`, `TaskDies`), a processor call may throw with or without
its effect (`Unreachable`), a commit may succeed and be reported as failed
(`LinkPaymentIntent` to `cancelPI`), an event may come twice (`again`), in any
order, or go through the dead-letter queue.

| Code | Actions |
| --- | --- |
| `createCheckout` up to the transaction, with `withSettledCarriedOverCart` | `StartCheckout`, `ReadCart`, `SettleCart`, `ResettleCart`, `RefuseCheckout` |
| its transaction | `CommitCheckout`, `CommitCovered` (credit covers the price) |
| `createAndLinkPaymentIntent`, `unwindUnlinkedCheckoutOrder` | `CreatePaymentIntent`, `LinkPaymentIntent`, `LinkLost`, `Respond`, `UnwindPaymentIntent`, `UnwindOrder` |
| the four cancellers | `ReaperScans`, `BeaconReads`, `SiblingScans`, `OnPaymentFailed`, then `TaskSettles`, `TaskRefused`, `TaskUnreachable`, `TaskCommits` |
| webhook and its queue | `OnProcessing`, `OnSucceeded`, `OnPaymentFailed`, `DeadLetter`, `ReplayDlq` |
| `confirmRetrievedPaymentIntent` | `ConfirmPaid`, `ConfirmReads`, `ConfirmMarks` |
| buyer and processor (external) | `PayByCard`, `DeclineCard`, `PayByBank`, `BankSettles`, `BankReturns` |

**Abstractions.** Platform credit stands for the three ledgers a checkout takes
from and a cancel gives back to (credit, promo holds, fee waivers): all three
are written in the same transactions. A cart that `updateOrderItems` built is an
order whose request went no further than `committed`. The two CASes of the
processing handler (link, then mark) are one step; a canceller between them
finds a linked PENDING order, which it can also find after `LinkPaymentIntent`.
A PaymentIntent belongs to the order that created it, so finalize's
reassignment branch is unreachable here. Each canceller handles one order at a
time; two passes of one cron are not run against each other.

## SeatHolds

**State.** A `Seat` row has a status and `updatedAt` (`stamp`), and no holder.
An order names a seat (`seatOf`) and knows when it was created (`occurredAt`,
the database's clock) and when it last took its seat (`heldAt`, which the code
recovers from `meta.holdExpiresAt`). `now` is the servers' clock; `occurredAt`
may trail it by `Drift`. PENDING stands for PROCESSING too. That a paid order
is not cancelled is `Checkout`'s result and a guard here.

**Steps.** Each transaction is one step. The constant `Gaps` opens the two
places where READ COMMITTED lets another transaction commit inside one: between
the seat reaper's SELECT and its UPDATE (`SweepSelects`, `SweepUpdates`), and
between a checkout's first read of the cart it supersedes and the CAS that
locks it (`CheckoutReads`, `CheckoutWrites`).

**Abstractions.** One seat per order: seats of one order are released and held
by the same statements, each by its own id. Buyers are not told apart, so any
checkout may supersede any cart, which allows more than the ownership check
does. A checkout whose cart could not be retired is a checkout with no cart.
Seats assigned to general admission (`reserveForHold`), seats freed by refunds,
and an edit's own unlocked first read are not modelled.

## Refund

**State.** One paid order: `status`, `item`, and `ledger`, the payee's
REFUND_DEBIT rows. `refunds` is Stripe's list for the charge, `events` what its
webhooks still deliver, `parked` the dead-letter queue. `lock` is the mutex's
idempotency record, whose `lapsed` says that its TTL has passed. `proc` holds the
local variables of each handler: where it is, which items it judged (`ask`,
`seen`), which refund it is about (`ref`), the event's cumulative amount (`cum`)
and the debits it read (`prior`).

| Code | Actions |
| --- | --- |
| `withOrderRefundMutex`, `releaseOwnedMutexBestEffort` | `Ask`, `Enter`, `Release`, `Lapse`, `Overrun` |
| `refundFullOrder`, `refundOrderItems` before the money | `Quote` (with `findPriorRefundForItems`) |
| `refundPaymentIntent` and its answer | `Pay` |
| `reconcileStripeFullRefund` (with `resolveNamedOrderItemIds`), `withMutexRetry` | `Receive`, `Enter`, `GiveUp` |
| the recording transactions | `Record` (reads), `Write` (`WritesRefund`, `WritesWhole`, `WritesPart`) |
| `transferTicket` under the same mutex | `Transfer` |
| webhook failure sink and replay | `Parks`, `Replay` |
| Stripe and its dashboard (external) | `DashboardRefund`, `Settle` |

A recording transaction is two steps, its reads and its writes, since READ
COMMITTED lets others commit in between. A step may throw (`Throw`), the process
may die (`Crash`), the claim may lapse under a running refund (`Overrun`): the
properties about money say `~overran`, and `LeaseIsExclusive` says what the owner
token still guarantees then. `charge.exact` is FALSE when `charge.refunded` is
resolved to the refund whose creation time is closest, which may be another one;
`charge.answers` is FALSE when Stripe may fail to say what a refund was for, and
the handler goes on as if it had named nothing (`Learnt`).
`PaidIsRecorded` is about charges with both: see *Also noticed* for the others.

Left out: resale purchases, refunds of nothing, transfer reversals, dispute
debits, promos and fee waivers given back, seats, and who may ask for what. An
item costs the same as any other and the processing fee is one number.

## Payout

**State.** One payee and currency; each settlement credit is worth one unit.
`matured`, `consumed`, `debited`, `held` and `rows` are the ledger, `paidOut` the
order items' `paidOutAt`, by credit, `items` the PayoutItems, `sent` and `keys`
Stripe, `claims` the `payout-transfer:<hash>` records and `cell` the claim of the
payee's day. A set of credits is its own hash. `run` holds where each run is and
what it planned.

| Code | Actions |
| --- | --- |
| steps 0a and 0b of `runPayoutBatch` | `Sweep`, `SweepThrows` |
| payable, attribution, cell claim, PayoutItem | `Plan`, `Feed`, `ClaimCell` |
| transfer claim and its probe, race guard | `Begin`, `Check` |
| `createTransfer` | `Send`, `SendRefused`, `SendUnanswered` |
| commit, `markTransferred`, `applyPayoutLedgerEffects`, `settleCellClaim` | `Commit`, `Mark`, `Debit`, `Consume`, `Stamp`, `Settle` |
| the catch arms | `Fails` (pre-transfer), `Repair` (post-completion) |
| refunds, disputes, maturity | `RefundOrder`, `Dispute`, `DisputeCloses`, `Mature` |
| TTLs, the cron, Stripe's memory of keys | `Lapse`, `NextDay` |

Assumed: a run neither straddles the UTC date nor outlives its cell claim (an
hour); no run *dies* in the last quarter of an hour of a day (it may fail then);
on every day some run gets through its sweep, which is the cron's purpose. When
Stripe accepted a transfer and no one here learnt of it (`lost`: the answer never
came, or the process died before the commit), nothing on this side can know, and
the two properties that would need it say so. Each of the three ledger writes fails
on its own, in a run and in the heal (`Heals`): without the PAYOUT row nothing more is
written and the next sweep finds the item; a lost `paidOutAt` is found too; a lost
consumption is not, for no probe looks at it (`NeedsHeal`). No fault plan of a run,
and none the theorems allow, has a lost consumption *and* a dispute: with both the
payee is paid twice (*Also noticed*). Stripe refuses, not replays, a known
key under another item, since the item's id is in the transfer's metadata.

Left out: the reserve, the Connect fee, items that send nothing, minimums,
account states, several payees, the Payout row of the batch.

## Scan

**State.** At the server `ticket`, `record` (the idempotency record of each event,
ticket and operator), `payload` (whose scan the stored answer is for) and the
histories `marks` and `reverts`; `calls` are the `scanTicket` requests in progress.
On a device `user`, `online`, `shown` (what its copy of the manifest lets in), `pass`
(the rows a pass has still to visit) and `retry` (the rows a retry of the failed-sync
list has still to send). An admission is one record in `admits`: its `place` is where
the row is (`live`, `scan_queue`, `dropped_scans`, or how it left them), its `mark`
what `recent_scans` shows, its `heard` the answer.

| Code | Actions |
| --- | --- |
| `scanTicket`, `markScanned` | `Begin`, `Finish`, `Throws`, `Lost`, `Lapse` |
| `handleAdmit` in `unified-scan-screen.tsx` | `Admit`, `LiveSettles`, `LiveRetries`, `LiveQueues` |
| `flush` in `use-scan-queue.ts` | `StartPass`, `PassOver`, `Send`, `Answered`, `TimesOut`, `PassThrows` |
| the failed-sync list | `RetryDropped`, `Resend`, `Retried`, `Dismiss` |
| `use-scan-undo`, `undoQueuedScanLocally`, `revertTicketScan` | `UndoLocally`, `UndoAtServer`, `Revert` |
| `runSignOutTeardown`, sign-in, manifest | `SignOut`, `SignIn`, `Sync` |
| the app, the connection, refunds | `AppDies`, `GoOffline`, `GoOnline`, `Void` |

A call is two steps, its read and its transaction, and an answer is heard only if
somebody still awaits it (`aw`). A call carries the operator who was signed in when
it was sent; an answer stored for another one is a conflict, which the queue drops as
permanent. Sign-out's purges and the end of the session are one step, which neither
live calls nor a retry of the drops notice.

The device's own database may fail at any write (`"disk"`). The code reports such a
failure and goes on, and the models follow it: a drop that cannot be recorded is
removed all the same, a failed call that cannot be queued is gone, and the admission is
then in no table (`unsaved`), which `StandingIsAccounted` allows and nothing else; an
answered row that cannot be removed is sent again; a pass that throws ends.

Two histories name what the properties excuse. `forgotten` has the keys whose claim
lapsed while a scan still ran under it, or after one that burnt the ticket and then
died or threw before its answer was stored; of those keys `MarkedOnce` says nothing,
and a second burn after an undo does happen (*Also noticed*). What holds of them all
is `AcceptedOnce`. A claim that lapses over a scan that changed nothing is not
excused. `late` excuses a live call that failed after its operator signed out, which
is queued in the next operator's database.

Left out: bulk, express and volunteer surfaces; event windows (doors are open);
backoff, which delays a row and never decides whether it is sent; one undo answers
as one step with its revert, whose answer may be lost. A device runs one retry of its
drops at a time, as the button allows; a settings screen that is left and opened
again could start a second one.

## Runs

| Run | Instance | Question and answer |
| --- | --- | --- |
| `checkout_supersede` | 2 orders, card, reaper, siblings and beacon; 1.2 million states | Can anything cancel an order that can still be charged, with carts superseded both ways? No, and the orders are `Purchase`s. |
| `checkout_live` | 1 order, all payments, reaper and failed payment; 12,248 states | The same with bank debits; does money become tickets, and does every PENDING order end? Yes. |
| `checkout_stuck` | 1 order, bank debit | Does every answered failure end? No: see below. |
| `seat_safety` | 3 orders, 2 seats, no gaps; 2.2 million states | Is an open order's seat its own, and can a paid order be minted? Yes. |
| `seat_gaps` | 3 orders, 1 seat, both gaps; 730,000 states | Can a gap free a sold seat? No. Does every abandoned seat come back? Yes. |
| `seat_sweep_gap` | 3 orders, 1 seat, sweep gap | Can a sweep free a seat an open order has just taken? Yes: see below. |
| `refund` | 2 items, 2 handlers, dashboard, 2 refunds, 1 fault; 3.9 million states | Is an item paid back twice, the payee debited too much or too little, a gift voided? No. |
| `refund_live` | 1 item, 2 handlers, card and bank debit, 1 fault; 395,000 states | Is what was paid back recorded, when Stripe says what it was for, and nothing voided without money? Yes. |
| `payout` | 2 credits, 2 runs, 3 days, seven fault plans; 825,000 states | Is money sent once, and does it end up in the ledger? Yes. |
| `payout_overpay` | 2 credits, 2 runs, a ledger write that fails twice | The same when the heal fails too. No: see below. |
| `scan` | 1 ticket, 1 device, 2 operators, 2 admissions, six fault plans; 1.4 million states | Is a ticket let in once, every admission accounted for that the device could write down, and what is gone gone? Yes. |
| `scan_readmit` | 1 ticket, 1 device, 1 operator, no fault | Does an ACCEPTED that stands mean a burnt ticket? No: see below. |

**Bounds.** *Checkout.* One order reaches every interleaving of its request with
its events, its confirm and its cancellers. Two are needed for supersession, where
each may name the other as its cart; a third would repeat the relation. The
proofs drop the bound. *Seats.* The times keep the order the code's have, slack
(60 s) < seat TTL (900 s) < cart TTL (1200 s), as 1 < 2 < 3, with a drift up to
the slack. `Horizon` bounds when a hold may still be taken: 4 (5 for the sweep
gap) leaves time for a hold to expire, be swept, held by another order and
reaped; after it time runs on until every cart can be reaped. Three orders are a
seat's former, present and next holder. *Refund.* Two items make a partial refund
differ from a whole one; two handlers are an operation and whatever it races, one
after another; two refunds are the second payment that must not happen, or a
dashboard refund beside a platform one; a price of 2 with a fee of 1 keeps what is
sent back apart from what is owed. *Payout.* Two credits give a hash and one that
contains it; three days outlast the claim's retention (`KeepDays` 2, the code's 3
nightly cycles against a shorter horizon); each fault plan is what one or two
things going wrong can do. *Scan.* One device with two operators after one
another, two admissions and one retry of a row reach an admission, its undo and
the next, by the same or another person. `MaxAttempts` 1 stands for 8. Two devices
differ for the server only in who calls, which two operators cover. A call must fail
twice before it is queued; that the queueing then fails too is in none of the plans of
the run, and is covered by the theorem `NothingForgotten`, which holds for any plans.

Symmetry is used where items, handlers, orders or seats are interchangeable and
only safety is checked; no run with a liveness property uses it. Deadlock is not
checked: a run ends when every order, refund or admission has.

**Fairness.** `Checkout`: the processor redelivers until it is answered, and
does not fail every time; an operator replays the dead-letter queue (nothing in
the code does that alone: without it a dead-lettered payment stays without
tickets, and the queue itself is assumed to lose nothing, though it trims at
500); the reaper runs as a cron over expired orders, and the processor and the
database answer it in the end, hence strong fairness for a step that a failure
may undo again and again; a bank debit settles or is returned; a request that
has started goes on or dies. Nothing makes a buyer pay, confirm or come back.
The reaper's quarantine only delays its next look. `SeatHolds`: time passes and
both crons run. `Refund`: an operation that started goes on; Stripe delivers each
event until it is answered, whatever else keeps the handlers busy (strong
fairness); a dead holder's claim expires. Nobody has to retry a refund or replay a
parked event. `Payout`: the cron keeps firing and a run that is not stopped goes
on. `Scan`: the app flushes every 15 s while it is in use, which reconnecting may
interrupt (strong), and goes through its pass; `QueueDrains` says what that gives
while somebody stays signed in and connected.

**Every property has a mutant.** `PROJECT.json` names, for each property of each
run that passes, a change to the modelled code (a dropped comparison, a fence from
the wrong stamp, a release without its owner, a row deleted without a trace) under
which the property fails.

### Disagreements between code and comments

1. *A failed payment may hold its order for ever* (`checkout_stuck`). A bank
   debit is returned while the order is still PENDING; the handler's cancel
   call reaches the processor but the answer is lost; the handler answers 200,
   leaving the order to the cart reaper. The late `processing` event then moves
   the order to PROCESSING, which the reaper does not read. The PaymentIntent is
   canceled, so no event follows.
2. *The seat reaper frees a seat that was just taken* (`seat_sweep_gap`). The
   UPDATE asks only for HELD. Between it and the SELECT, a checkout may sweep and
   hold the seat again. The comment above the query says that an open order's
   seat leaves only with the order. The window is two statements wide; the seat
   is then on sale while its order can be paid. A sold seat is safe
   (`TicketedSeatIsSold`).
3. *A heal that fails does not stop the batch* (`payout_overpay`). Reading what
   needs a heal may throw, and then the batch pays nothing, as its comment says.
   The write itself is swallowed by `applyPayoutLedgerEffects`, whose FALSE the
   loop only leaves uncounted. If the same row fails in the run that sent the money
   and in the next one's heal, and another credit has matured meanwhile, the money
   is planned again under a hash that nothing knows.
4. *A stored ACCEPTED outlives its undo* (`scan_readmit`). The server keeps the
   answer for three days under a key that names only the event and the operator.
   Admit, undo, admit again: the second admission is told ACCEPTED and the ticket
   stays VALID, so the ticket can be used once more. The comment on the key takes
   it to live for ten seconds.

Also noticed while modelling, and not a run:

- a lost consumption beside a dispute pays the payee twice. `markCreditsConsumed` may
  fail alone, is reported and swallowed (`settlements/run-batch.ts:768-820`), and the
  heal's probes do not ask for it; the comment there calls the stamp "pure attribution
  with no money consequence" (`payout-items.ts:236-239`). But attribution decides the
  hash. With `Credits = {c1, c2}`, one run, `KeepDays` 2, `MaxDay` 2, `MaxItems` 2 and
  `FaultPlans = {{"consume", "dispute"}}` TLC finds the same hash sent twice, in a trace
  that ends in state 29: one unit is sent under {c1, c2} while a dispute holds one of
  them, the consumption is lost, the dispute is won, and the unit now payable is planned
  under the same set again, after the claim and Stripe's key have expired. That
  transfer's PAYOUT row has the key of the first, so its write replays and debits
  nothing. With a third credit, `MaxDay` 3 and `MaxItems` 3 the balance that was sent
  and not debited is then sent once more under the third credit, and
  `SentWithinCredits` is violated (state 44). Without a dispute TLC finds no such trace
  with three credits either, and the theorem says that there is none;
- a bank debit's refund, or a card refund that was interrupted after it paid, is
  recorded by Stripe's event, unless somebody asks for it again. The event's handler asks Stripe which items it was for. A
  `getRefund` that throws there is swallowed (`reconcile-stripe-full-refund.ts:1338-1352`,
  as its comment at `:1318-1323` says), the event is answered and only the payee's ledger
  is written: the item stays active although its money went back, and no later event
  corrects it. `PaidIsRecorded` without `charge.answers` is violated so;
- a key may burn its ticket twice. A scan that committed and died, or threw, before its
  answer was stored leaves a claim (10 s) or a failed record (15 min); when that has
  lapsed and the ticket was undone meanwhile, a retry of the same admission burns it
  again (`scan-ticket.ts:264-279`). Likewise when the claim lapses under a scan that
  still runs: the device gives up on a send after 20 s and repeats it;
- an admission that the device's database fails to write down is only reported: a drop
  that cannot be recorded is deleted (`use-scan-queue.ts:108-118`, "a drop just became
  invisible again"), and a failed call that cannot be queued leaves nothing
  (`unified-scan-screen.tsx:1067-1074`);
- a pending refund of the whole payment voids the tickets. The partial arm of
  the reconciliation waits until the refund has succeeded, and says why: a bank
  refund that fails later would leave the buyer with neither ticket nor money
  (`reconcile-stripe-full-refund.ts:1381-1386`). The arm for a whole refund has no
  such check (`:497-516`), nor has the webhook before it, and Stripe reports a bank
  refund as made when it is created. With one item and
  `Charges = {[fee |-> 1, async |-> TRUE, staff |-> TRUE, exact |-> TRUE,
  answers |-> TRUE]}` TLC finds `RefundedItemHasMoney` violated in five steps:
  `DashboardRefund`, then `Receive` to `Write` of its event. `refund_live` therefore gives bank debits to the
  platform only, and the theorem says so (`PendingIsPartial`);
- a checkout reads its cart's seats and fence before the CAS that locks the cart
  (`create-checkout.ts:793`, `:865`); an edit in between lets the fence cover
  another buyer's hold, where `release-cart-hold.ts:199-204` reads again;
- `release-expired-carts.ts:432-438` says that seats are freed before the reaper
  comes, which the orphan sweep of an open order's seat no longer does;
- a refund may have been paid for an item that is given away before it is
  recorded by the event's partial arm, which leaves the item to manual review;
- paying part of a balance while a dispute holds the rest stamps every planned
  credit as consumed, so a hold that is released later may have no credit to name;
- a dismissal may come while a retry of the failed-sync list is sending the row
  (`dropped-scan-retry.ts:82-93` reads its rows once), which is then admitted after all;
- a live scan that meets a 5xx is sent again at once and is then answered that its
  key is locked, which shows NOT ADMITTED instead of queueing it;
- a queued scan that the server answers REJECTED is removed without a word;
- an admission made online is lost when the app dies before the answer, as the
  comment at `unified-scan-screen.tsx:840-851` says.

## Proofs

`CheckoutProofs` proves, for every set of orders, cancellers and payment
methods, from `CheckoutAssumptions` alone:

- `Invariance`: `Spec => []CheckoutInv`, and with it `TypeCorrect`;
- `NoChargeOnCancelledOrder`: `Spec => []CancelledIsDead`;
- `CreditNeverStranded`: `Spec => []CreditNotStranded`;
- `CheckoutImplementsPurchase`: `Spec => Abstract!PurchaseSpec`.

`CancelledIsDead` is not inductive: it speaks of orders whose secret is out,
and an order may be cancelled just before. `CheckoutInv` strengthens it.
Only an answered browser moves money (`PaymentNeedsSecret`); it is answered only
after the link (`SecretNeedsLink`); a linked order that is cancelled has a dead
PaymentIntent already (`LinkedIsDead`). For the last one, what a process learnt
before its CAS must still be true at it: a canceller that has settled knows
that the PaymentIntent it observed is canceled (`SettledStaysDead`, `CartStaysDead`),
and canceled is final; one that observed no PaymentIntent loses its CAS to the
link. `TicketsArePaid`, `EventsAreTrue` and `OrderBeforePayment` give what the
refinement needs: a step that fulfils follows a charge, and a step that
voids does not.

The step proof is cut by what it preserves (`TypeStep`, `PaymentStep`,
`DeadStep`, `CartStep`, `TaskStep`), each by action; `InvStep` joins
them. The refinement maps each concrete action to a `Purchase` action or a
stutter (`OpenMaps`, `GrantMaps`, `SupersedeMaps`, `CommitMaps`, `Refinement`).

`RefundProofs` proves, for every set of items, handlers and charges, from
`RefundAssumptions` alone:

- `LeaseExclusive`: `Spec => []LeaseIsExclusive`;
- `GiftKept`: `Spec => GiftIsKept`.

Both rest on `RefundInv`. An operation inside the mutex owns the live record or is
marked as late (`InsideOwns`), which entering, releasing and lapsing keep because
each asks for, or removes, one owner's record only. Hence nothing is given away
while an operation is inside in time, and what a refund judged refundable, or a
reconciliation read as active, still is so when it is written (`JudgedIsKept`; a
reconciliation's writes and a refund's differ in what they flip, so the invariant
keeps their `op` apart from the wait on, `ArmsWait`). `OneMoves` states once what a
step of one handler must show of its own record; each action's lemma shows it.

`RefundMoneyProofs` goes on from there, for any items, price, charges, handlers,
number of refunds and faults, and proves `Spec => []P` for

- `RefundTypes` (`TypeOK`) and `OncePaidBack` (`RefundedOnce`);
- `DebitedWithinCredit` (`DebitsWithinCredit`) and `StripeIsCovered`
  (`LedgerCoversStripe`), from `BooksInvariance`;
- `VoidedForMoney` (`RefundedItemHasMoney`), from `MoneyInvariance`.

`TypeInv` adds to the types what they leave out and every step uses: an event names a
refund that exists, and Stripe pays back no more than the payment. `RefundedOnce`
counts refunds of an item, and is inductive once a handler that is about to pay is
known to have found no living refund of its items (`Once`); the mutex keeps the
others from creating one meanwhile. The debits are written under two kinds of key.
A platform refund's row is an amount of its own; an event's row is the difference
between Stripe's cumulative total and what other rows hold. `Covered` is what makes
the two compatible: a row keyed by a cumulative amount has brought the debits up to
that amount, hence a late event with a smaller one finds nothing to add, and
whatever the debits still lack is told by an event that nobody has finished with.
`Judged` says that what a write read (`prior`) still stands, which again is
the mutex. `ItemsPaid` needs that those who may void a ticket know money that moved
(`Backed`), and that an event which calls for the whole payment comes of one that
is back in full (`Told`). The last of these is false of bank debits refunded
whole. `VoidedForMoney` therefore assumes `PendingIsPartial`: a charge whose
refunds stay pending is refunded by the platform only, which keeps its fee; the
counterexample without it is above. Like the properties, all of
this is said of states in which no operation has outlived the mutex (`~overran`).

`SeatHoldsProofs` proves, from `SeatHoldsAssumptions` alone, `SeatTypes` and
`TicketIsFinal` (`TicketedSeatIsSold`, whichever gaps are open), and where no
transaction commits inside another (`Gaps = {}`) `OpenOrderKeeps`, `PaidMints`,
`OwnSeatOffered` and `ReaperFrees`. `SeatInv` says that the clock is past the drift
and no hold is after the horizon (`Clocked`; `TypeOK` keeps each order's and seat's
times behind the clock), that a ticket's seat is SOLD (`Sold`), what a process may have read
(`Reading`), and that an open order's seat is HELD with the stamp of that order's
own last hold and is no other open order's (`Kept`). The fences of the releases and
the sweep's anti-join are then two reasons for the same thing: what they free
belongs to nobody who is open. The assumption `Gaps = {}` is not a convenience:
`seat_sweep_gap` is the counterexample without it.

`ScanProofs` proves all of `Scan`'s safety from `ScanAssumptions` alone: `ScanTypes`,
`OneIsIn` (`AcceptedOnce`), `KeyBurnsOnce` (`MarkedOnce`), `NothingForgotten`
(`StandingIsAccounted`), `NothingLeft` (`PurgeIsFinal`), and the action properties
`VoidForGood` (`VoidIsFinal`) and `GoneForGood` (`GoneStaysGone`). `AcceptedOnce` is
inductive by itself, since the CAS and the revert each move both sides of it.
`MarkedOnce` needs `Claims`: a key that has no record and is not `forgotten` has not
burnt its ticket, and a scan that works under a claim works there alone.
`StandingIsAccounted` is proved with every write of the device free to fail, and needs
that what a retry sends was dropped (`Retrying`). `GoneStaysGone` needs that a row
a pass is sending has attempts left (`Sending`).

`PayoutProofs` proves, from `PayoutAssumptions` alone and so under every fault plan,
`PayoutTypes`, `DebitsAreReal` (`DebitsWereSent`) and `FailedIsUnsent`
(`FailedWasNotSent`): a committed claim, a transferred item and a run past the
transfer each prove that Stripe has the money (`Truths`), because the cell's claim
lets one run at a time work (`Runners`). `SentIsCovered` (`SentWithinCredits`) and
`HashIsSentOnce` rest on `Books`: each transfer is in the ledger, or has a committed
claim no older than the last sweep, or is in the hands of a run (`Traced`); and a run
that can still get the cell counts every transfer (`Funding`). They assume three
things. `KeepDays >= 2`: the claim outlives the next night's sweep; the code keeps it
three days (`TRANSFER_CLAIM_KEEP_SECONDS`, `settlements/run-batch.ts:272`).
`HealsAlone`: in no fault plan does the sweep's heal fail together with the crash or
failed write it was to make good. `payout_overpay` is the counterexample without it.
`LostUndisputed`: no fault plan has a lost consumption together with a dispute; the
counterexample without it is above. What a lost consumption leaves is the reason for
the two grounds of `Books` (`Grounds`): where consumption is certain, what was booked is
consumed; where it is not, no hold ever comes off, and the sums alone tell apart what
was sent.

`Sums` defines the sum of a function over a finite set and proves how it changes. The
folds of the community modules are recursive functions over subsets. The provers
cannot use an induction theorem that takes an operator, but they can be given
the smallest counterexample: the least number in a set of naturals exists
(`HasLeast`), and each lemma about sums descends from the least size at which it
would fail. `FoldIsSum`, `DebitIsSum`, `AcceptedIsSum` and `MoneyIsSum` say in each
module that the model's fold is such a sum.

TLC finds every one of these inductive invariants to hold on the runs' instances, too.

Only model-checked: liveness (`PaidIsFulfilled`, `PendingResolves`, `SeatsComeBack`,
`PaidIsRecorded`, `SentIsRecorded`, `QueueDrains`), since the proof system does not
handle `ENABLED` and so no fairness. Every other property of a passing run is
a theorem, under the assumptions above.

## Plan

1. Refinements, for any constants: `Scan` of a door that lets each ticket in once
   between two reverts, `Payout` of a payee's balance.
2. Lemmas on what the assumptions leave: which part of `SentWithinCredits` and
   of `LedgerCoversStripe` is left with `HealsAlone` or `~overran` dropped.
3. `Capacity`: the gate's count under its lock, the 80-minute window against the
   reaper's backlog, and PROCESSING orders that do not count (a run that
   exhibits it, known to `packages/ports/src/repos/tickets.ts`).
4. `ResaleHold`: listing, hold rows, expiry and late payment, refining a
   single-buyer sale.
5. `HoldLine`: ranked holds, challenge deadlines and lapses.
6. POS on top of `Checkout`; a bounded dead-letter queue; pending transfers.

## Not modelled

Amounts, tax, prices and currencies; free orders; mail, push and analytics;
access control; content management, search, reviews, volunteering, memberships;
user interfaces, infrastructure and migrations. They are pure computation, I/O,
or edits of a single row in one transaction. The resale market, booking holds,
door sales and the capacity gate have protocols of their own and are in the plan.
