------------------------------ MODULE Checkout ------------------------------
(***************************************************************************)
(* One buyer's paid checkouts for one event: the order row, the            *)
(* PaymentIntent the processor keeps for it, and everyone who may finish   *)
(* or cancel the order at the same time.                                   *)
(*                                                                         *)
(*  - A checkout request commits a PENDING order, creates its              *)
(*    PaymentIntent with no transaction open, links it, and only then      *)
(*    hands the client secret to the browser.  On failure it unwinds.      *)
(*  - Four cancellers (the cart reaper, the browser's release beacon,      *)
(*    finalize's sibling clean-up, the payment_failed webhook) read an     *)
(*    order, settle its PaymentIntent with no transaction open, and        *)
(*    cancel it in a transaction.  A later checkout does the same to the   *)
(*    cart it supersedes.                                                  *)
(*  - The processor's events arrive at least once and in any order; an     *)
(*    event whose handler throws waits in the dead-letter queue.           *)
(*                                                                         *)
(* A database transaction is one step: its conditional updates (CAS) take  *)
(* the row lock, so they see the committed status.  Every await on the     *)
(* processor, and every gap between a read and the transaction that acts   *)
(* on it, is a boundary between steps.  The server can die at each.        *)
(***************************************************************************)
CONSTANTS Orders,      \* the orders this buyer's checkouts may create
          Cancellers,  \* which cancellers run
          Payments,    \* what the buyer's attempts to pay may come to
          NoOrder

CancellerNames == {"reaper", "beacon", "sibling", "failed"}
PaymentNames == {"card", "decline", "bank"}

ASSUME CheckoutAssumptions ==
  /\ NoOrder \notin Orders
  /\ Cancellers \subseteq CancellerNames
  /\ Payments \subseteq PaymentNames

VARIABLES
  order,    \* Order.status, "NONE" before the row exists
  linked,   \* the row's stripePaymentIntentId is this order's PaymentIntent
  credit,   \* the order that spent the buyer's platform credit, or NoOrder
  expired,  \* orders whose occurredAt is behind the reaper's cutoff
  pi,       \* status of each order's PaymentIntent at the processor
  inbox,    \* processor events still to be delivered
  dlq,      \* events in the webhook dead-letter queue
  at,       \* where each checkout request stands
  carry,    \* what each request knows of the cart it supersedes
  task,     \* what each canceller is doing
  sawProcessing  \* a client confirm that read a processing PaymentIntent

dbVars == <<order, linked, credit>>
requestVars == <<at, carry>>
eventVars == <<inbox, dlq>>
vars == <<order, linked, credit, expired, pi, inbox, dlq, at, carry, task,
          sawProcessing>>

OrderStatuses == {"NONE", "PENDING", "PROCESSING", "SUCCEEDED", "CANCELLED"}
\* "open" is every status the buyer can still confirm from.
PIStatuses == {"none", "open", "processing", "succeeded", "canceled"}
EventTypes == {"processing", "payment_failed", "succeeded"}
BeforeOrder == {"idle", "reading", "settling", "ready"}
InFlight == {"reading", "settling", "ready", "committed", "created",
             "linked", "cancelPI", "unwind"}
Steps == BeforeOrder \union InFlight \union {"responded", "covered", "failed"}
Carries == [cart : Orders \union {NoOrder}, observed : BOOLEAN,
            settled : BOOLEAN, mayRetry : BOOLEAN]
Tasks == [at : {"idle", "read", "settled"}, order : Orders \union {NoOrder},
          from : {"PENDING", "PROCESSING"}, observed : BOOLEAN]

NoCart == [cart |-> NoOrder, observed |-> FALSE, settled |-> FALSE,
           mayRetry |-> TRUE]
IdleTask == [at |-> "idle", order |-> NoOrder, from |-> "PENDING",
             observed |-> FALSE]

TypeOK ==
  /\ order \in [Orders -> OrderStatuses]
  /\ linked \in [Orders -> BOOLEAN]
  /\ credit \in Orders \union {NoOrder}
  /\ expired \subseteq Orders
  /\ pi \in [Orders -> PIStatuses]
  /\ inbox \in [Orders -> SUBSET EventTypes]
  /\ dlq \in [Orders -> SUBSET EventTypes]
  /\ at \in [Orders -> Steps]
  /\ carry \in [Orders -> Carries]
  /\ task \in [Cancellers -> Tasks]
  /\ sawProcessing \in [Orders -> BOOLEAN]

Init ==
  /\ order = [o \in Orders |-> "NONE"]
  /\ linked = [o \in Orders |-> FALSE]
  /\ credit = NoOrder
  /\ expired = {}
  /\ pi = [o \in Orders |-> "none"]
  /\ inbox = [o \in Orders |-> {}]
  /\ dlq = [o \in Orders |-> {}]
  /\ at = [o \in Orders |-> "idle"]
  /\ carry = [o \in Orders |-> NoCart]
  /\ task = [c \in Cancellers |-> IdleTask]
  /\ sawProcessing = [o \in Orders |-> FALSE]

\* The client secret left the server only with the checkout's response.
SecretOut(o) == at[o] = "responded"
IsOpen(o) == order[o] \in {"PENDING", "PROCESSING"}

-----------------------------------------------------------------------------
(* The processor, as the code asks it to settle a PaymentIntent.           *)

\* A settle that spells the processor's status the way the order table does.
MisspelledDead(o) ==
  /\ pi[o] \in {"open", "canceled"}
  /\ pi' = [pi EXCEPT ![o] = "cancelled"]

\* A settle that takes every terminal status for a dead PaymentIntent.
TerminalIsDead(o) ==
  /\ pi[o] # "processing"
  /\ pi' = [pi EXCEPT ![o] = IF @ = "succeeded" THEN @ ELSE "canceled"]

\* Cancelled by this call, or found canceled when its status is read back.
ProvenDead(o) ==
  /\ pi[o] \in {"open", "canceled"}
  /\ pi' = [pi EXCEPT ![o] = "canceled"]

\* The cancel is refused and the status read back is not "canceled".
StillAlive(o) == pi[o] \in {"processing", "succeeded"} /\ UNCHANGED pi

\* The call throws; the cancel may have reached the processor all the same.
Unreachable(o) ==
  \/ UNCHANGED pi
  \/ pi[o] = "open" /\ pi' = [pi EXCEPT ![o] = "canceled"]

-----------------------------------------------------------------------------
(* Database writes shared by every canceller.                              *)

\* A CAS on the status alone.
StatusOnlyCas(o, observed) == order[o] = "PENDING"

\* A CAS that compares with NULL, which matches no row without a PaymentIntent.
NullBlindCas(o, observed) == order[o] = "PENDING" /\ linked[o] /\ observed

\* cancelPendingOrder with the PaymentIntent the caller settled.
CanCancelPending(o, observed) ==
  order[o] = "PENDING" /\ linked[o] = observed

\* What is left of the credit once o's hold on it is given back.
CreditWithout(o) == IF credit = o THEN NoOrder ELSE credit

\* Cancels o and hands back what it held, in one transaction.
ReleaseRetiredCartHolds(o) ==
  /\ order' = [order EXCEPT ![o] = "CANCELLED"]
  /\ credit' = CreditWithout(o)
  /\ UNCHANGED linked

-----------------------------------------------------------------------------
(* The checkout request of order o.                                        *)

\* The buyer presses Pay, naming the cart p a previous attempt left, or none.
StartCheckout(o, p) ==
  /\ at[o] = "idle"
  /\ p # o
  /\ carry' = [carry EXCEPT ![o].cart = p]
  /\ at' = [at EXCEPT ![o] = IF p = NoOrder THEN "ready" ELSE "reading"]
  /\ UNCHANGED <<dbVars, expired, pi, eventVars, task, sawProcessing>>

\* Reads the carried-over cart; one that is not PENDING is not superseded.
ReadCart(o) ==
  LET p == carry[o].cart IN
  /\ at[o] = "reading"
  /\ IF order[p] = "PENDING"
       THEN /\ carry' = [carry EXCEPT ![o].observed = linked[p],
                                      ![o].settled = FALSE]
            /\ at' = [at EXCEPT ![o] = "settling"]
       ELSE /\ carry' = [carry EXCEPT ![o].cart = NoOrder]
            /\ at' = [at EXCEPT ![o] = "ready"]
  /\ UNCHANGED <<dbVars, expired, pi, eventVars, task, sawProcessing>>

\* Settles the cart's PaymentIntent before the transaction.
SettleCart(o) ==
  LET p == carry[o].cart IN
  /\ at[o] = "settling"
  /\ \/ /\ ~carry[o].observed
        /\ carry' = [carry EXCEPT ![o].settled = TRUE]
        /\ UNCHANGED pi
     \/ /\ carry[o].observed
        /\ ProvenDead(p)
        /\ carry' = [carry EXCEPT ![o].settled = TRUE]
     \/ /\ carry[o].observed
        /\ StillAlive(p) \/ Unreachable(p)
        /\ UNCHANGED carry
  /\ at' = [at EXCEPT ![o] = "ready"]
  /\ UNCHANGED <<dbVars, expired, eventVars, task, sawProcessing>>

\* A retirement that does not ask whether the cart was settled.
CartRetiredUnsettled(o) ==
  carry[o].cart # NoOrder /\ CanCancelPending(carry[o].cart, carry[o].observed)

\* The transaction's CAS on the cart: settled, and unchanged since.
CartRetired(o) ==
  /\ carry[o].cart # NoOrder
  /\ carry[o].settled
  /\ CanCancelPending(carry[o].cart, carry[o].observed)

\* The cart survives and carries another PaymentIntent than the one settled.
CartChanged(o) ==
  /\ carry[o].cart # NoOrder
  /\ ~CartRetired(o)
  /\ order[carry[o].cart] = "PENDING"
  /\ linked[carry[o].cart] # carry[o].observed

\* CarriedOverCartChangedError: rolled back, settled once more.
ResettleCart(o) ==
  /\ at[o] = "ready"
  /\ CartChanged(o)
  /\ carry[o].mayRetry
  /\ carry' = [carry EXCEPT ![o].mayRetry = FALSE]
  /\ at' = [at EXCEPT ![o] = "reading"]
  /\ UNCHANGED <<dbVars, expired, pi, eventVars, task, sawProcessing>>

\* A retirement that does not look at what its CAS returned.
OrdersAfterBlindRetire(o, status) ==
  [q \in Orders |->
     IF q = o THEN status
     ELSE IF q = carry[o].cart /\ carry[o].settled THEN "CANCELLED"
     ELSE order[q]]

\* The order table after o is written and its superseded cart is cancelled.
OrdersAfter(o, status) ==
  [q \in Orders |->
     IF q = o THEN status
     ELSE IF CartRetired(o) /\ q = carry[o].cart THEN "CANCELLED"
     ELSE order[q]]

\* A retirement that keeps the cart's credit.
CreditForgotten(o) == credit

\* The retired cart's credit is back before the new order may spend it.
CreditFor(o) == IF CartRetired(o) THEN CreditWithout(carry[o].cart) ELSE credit

\* The checkout transaction: the cart is retired, credit is spent when there
\* is some to spend, and the PENDING order is written with no PaymentIntent.
CommitCheckout(o) ==
  /\ at[o] = "ready"
  /\ CartChanged(o) => ~carry[o].mayRetry
  /\ order' = OrdersAfter(o, "PENDING")
  /\ \/ credit' = CreditFor(o)
     \/ CreditFor(o) = NoOrder /\ credit' = o
  /\ at' = [at EXCEPT ![o] = "committed"]
  /\ UNCHANGED <<linked, expired, pi, carry, eventVars, task, sawProcessing>>

\* The same transaction when credit covers the whole price: tickets at once.
CommitCovered(o) ==
  /\ at[o] = "ready"
  /\ CartChanged(o) => ~carry[o].mayRetry
  /\ CreditFor(o) = NoOrder
  /\ order' = OrdersAfter(o, "SUCCEEDED")
  /\ credit' = o
  /\ at' = [at EXCEPT ![o] = "covered"]
  /\ UNCHANGED <<linked, expired, pi, carry, eventVars, task, sawProcessing>>

\* A refusal before or inside the transaction.  It rolls back, so the cart
\* stays PENDING, though its PaymentIntent may be canceled by now.
RefuseCheckout(o) ==
  /\ at[o] \in {"reading", "ready"}
  /\ at' = [at EXCEPT ![o] = "failed"]
  /\ UNCHANGED <<dbVars, expired, pi, carry, eventVars, task, sawProcessing>>

\* createPaymentIntent: answered, failed, or created with the answer lost.
CreatePaymentIntent(o) ==
  /\ at[o] = "committed"
  /\ \/ /\ pi' = [pi EXCEPT ![o] = "open"]
        /\ at' = [at EXCEPT ![o] = "created"]
     \/ /\ pi' \in {pi, [pi EXCEPT ![o] = "open"]}
        /\ at' = [at EXCEPT ![o] = "unwind"]
  /\ UNCHANGED <<dbVars, expired, carry, eventVars, task, sawProcessing>>

\* An unconditional link.
LinkAnyway(o) ==
  /\ at[o] = "created"
  /\ linked' = [linked EXCEPT ![o] = TRUE]
  /\ at' = [at EXCEPT ![o] = "linked"]
  /\ UNCHANGED <<order, credit, expired, pi, carry, eventVars, task,
                 sawProcessing>>

\* linkPaymentIntentIfPending wins; the commit may still be reported failed.
LinkPaymentIntent(o) ==
  /\ at[o] = "created"
  /\ order[o] = "PENDING"
  /\ linked' = [linked EXCEPT ![o] = TRUE]
  /\ \E next \in {"linked", "cancelPI"} : at' = [at EXCEPT ![o] = next]
  /\ UNCHANGED <<order, credit, expired, pi, carry, eventVars, task,
                 sawProcessing>>

\* The link CAS is lost to a canceller, or its transaction fails.
LinkLost(o) ==
  /\ at[o] = "created"
  /\ at' = [at EXCEPT ![o] = "cancelPI"]
  /\ UNCHANGED <<dbVars, expired, pi, carry, eventVars, task, sawProcessing>>

\* Only now does the client secret reach the browser.
Respond(o) ==
  /\ at[o] = "linked"
  /\ at' = [at EXCEPT ![o] = "responded"]
  /\ UNCHANGED <<dbVars, expired, pi, carry, eventVars, task, sawProcessing>>

\* First half of the unwind: cancel the PaymentIntent, best effort.
UnwindPaymentIntent(o) ==
  /\ at[o] = "cancelPI"
  /\ ProvenDead(o) \/ StillAlive(o) \/ Unreachable(o)
  /\ at' = [at EXCEPT ![o] = "unwind"]
  /\ UNCHANGED <<dbVars, expired, carry, eventVars, task, sawProcessing>>

\* Second half: cancel the order on its status alone and return its holds.
UnwindOrder(o) ==
  /\ at[o] = "unwind"
  /\ IF order[o] = "PENDING" THEN ReleaseRetiredCartHolds(o)
                             ELSE UNCHANGED dbVars
  /\ at' = [at EXCEPT ![o] = "failed"]
  /\ UNCHANGED <<expired, pi, carry, eventVars, task, sawProcessing>>

\* The process dies, or the unwind's own transaction fails.
CheckoutDies(o) ==
  /\ at[o] \in InFlight
  /\ at' = [at EXCEPT ![o] = "failed"]
  /\ UNCHANGED <<dbVars, expired, pi, carry, eventVars, task, sawProcessing>>

-----------------------------------------------------------------------------
(* The buyer and the processor.                                            *)

Emit(o, e) == inbox' = [inbox EXCEPT ![o] = @ \union {e}]

\* A confirmed card: the PaymentIntent succeeds.
PayByCard(o) ==
  /\ "card" \in Payments
  /\ SecretOut(o)
  /\ pi[o] = "open"
  /\ pi' = [pi EXCEPT ![o] = "succeeded"]
  /\ Emit(o, "succeeded")
  /\ UNCHANGED <<dbVars, expired, dlq, requestVars, task, sawProcessing>>

\* A declined card leaves the PaymentIntent confirmable.
DeclineCard(o) ==
  /\ "decline" \in Payments
  /\ SecretOut(o)
  /\ pi[o] = "open"
  /\ Emit(o, "payment_failed")
  /\ UNCHANGED <<dbVars, expired, pi, dlq, requestVars, task, sawProcessing>>

\* A bank debit is accepted; the money has not moved.
PayByBank(o) ==
  /\ "bank" \in Payments
  /\ SecretOut(o)
  /\ pi[o] = "open"
  /\ pi' = [pi EXCEPT ![o] = "processing"]
  /\ Emit(o, "processing")
  /\ UNCHANGED <<dbVars, expired, dlq, requestVars, task, sawProcessing>>

BankSettles(o) ==
  /\ pi[o] = "processing"
  /\ pi' = [pi EXCEPT ![o] = "succeeded"]
  /\ Emit(o, "succeeded")
  /\ UNCHANGED <<dbVars, expired, dlq, requestVars, task, sawProcessing>>

\* A returned debit puts the PaymentIntent back where it can be confirmed.
BankReturns(o) ==
  /\ pi[o] = "processing"
  /\ pi' = [pi EXCEPT ![o] = "open"]
  /\ Emit(o, "payment_failed")
  /\ UNCHANGED <<dbVars, expired, dlq, requestVars, task, sawProcessing>>

-----------------------------------------------------------------------------
(* The webhook.  "again" leaves the event in flight: a duplicate delivery. *)

Taken(o, e, again) ==
  /\ e \in inbox[o]
  /\ inbox' = IF again THEN inbox ELSE [inbox EXCEPT ![o] = @ \ {e}]

\* payment_intent.processing: PENDING becomes PROCESSING, whatever the
\* PaymentIntent has become since the event was sent.
OnProcessing(o, again) ==
  /\ Taken(o, "processing", again)
  /\ IF order[o] = "PENDING"
       THEN /\ order' = [order EXCEPT ![o] = "PROCESSING"]
            /\ linked' = [linked EXCEPT ![o] = TRUE]
       ELSE UNCHANGED <<order, linked>>
  /\ UNCHANGED <<credit, expired, pi, dlq, requestVars, task, sawProcessing>>

\* A finalize that knows nothing of delayed payment methods.
FinalizePendingOnly(o) == order[o] = "PENDING"

\* finalizePaymentIntent may mark the order SUCCEEDED.
Finalizable(o) == IsOpen(o)

\* The finalize transaction: succeed and mint, or replay a finished order.
Finalize(o) ==
  /\ credit' = credit
  /\ \/ /\ Finalizable(o)
        /\ order' = [order EXCEPT ![o] = "SUCCEEDED"]
        /\ linked' = [linked EXCEPT ![o] = TRUE]
     \/ order[o] = "SUCCEEDED" /\ UNCHANGED <<order, linked>>

OnSucceeded(o, again) ==
  /\ Taken(o, "succeeded", again)
  /\ Finalize(o)
  /\ UNCHANGED <<expired, pi, dlq, requestVars, task, sawProcessing>>

\* A handler throws: an order that is no longer payable, or a failed write.
\* The webhook still answers 200 and keeps the event for an operator.
DeadLetter(o, e) ==
  /\ e \in inbox[o] \cap {"processing", "succeeded"}
  /\ inbox' = [inbox EXCEPT ![o] = @ \ {e}]
  /\ dlq' = [dlq EXCEPT ![o] = @ \union {e}]
  /\ UNCHANGED <<dbVars, expired, pi, requestVars, task, sawProcessing>>

\* An operator replays a dead-lettered event.
ReplayDlq(o, e) ==
  /\ e \in dlq[o]
  /\ dlq' = [dlq EXCEPT ![o] = @ \ {e}]
  /\ Emit(o, e)
  /\ UNCHANGED <<dbVars, expired, pi, requestVars, task, sawProcessing>>

-----------------------------------------------------------------------------
(* The browser's confirm call.                                             *)

\* It reads a succeeded PaymentIntent and finalizes at once.
ConfirmPaid(o) ==
  /\ SecretOut(o)
  /\ pi[o] = "succeeded"
  /\ Finalize(o)
  /\ UNCHANGED <<expired, pi, eventVars, requestVars, task, sawProcessing>>

\* It reads a processing PaymentIntent and a PENDING order ...
ConfirmReads(o) ==
  /\ SecretOut(o)
  /\ pi[o] = "processing"
  /\ order[o] = "PENDING"
  /\ sawProcessing' = [sawProcessing EXCEPT ![o] = TRUE]
  /\ UNCHANGED <<dbVars, expired, pi, eventVars, requestVars, task>>

\* ... and later marks the order PROCESSING, if it is still PENDING.
ConfirmMarks(o) ==
  /\ sawProcessing[o]
  /\ sawProcessing' = [sawProcessing EXCEPT ![o] = FALSE]
  /\ order' = IF order[o] = "PENDING"
                THEN [order EXCEPT ![o] = "PROCESSING"] ELSE order
  /\ UNCHANGED <<linked, credit, expired, pi, eventVars, requestVars, task>>

-----------------------------------------------------------------------------
(* The cancellers: read, settle with no transaction open, cancel by CAS.   *)

Begin(c, o) ==
  /\ c \in Cancellers
  /\ task[c].at = "idle"
  /\ order[o] \in {"PENDING", "PROCESSING"}
  /\ task' = [task EXCEPT ![c] = [at |-> "read", order |-> o,
                                  from |-> order[o], observed |-> linked[o]]]

\* The order passes the reaper's TTL.
Expire(o) ==
  /\ order[o] = "PENDING"
  /\ o \notin expired
  /\ expired' = expired \union {o}
  /\ UNCHANGED <<dbVars, pi, eventVars, requestVars, task, sawProcessing>>

\* releaseExpiredCarts takes an expired PENDING order.
ReaperScans(o) ==
  /\ order[o] = "PENDING"
  /\ o \in expired
  /\ Begin("reaper", o)
  /\ UNCHANGED <<dbVars, expired, pi, eventVars, requestVars, sawProcessing>>

\* releaseCartHold: the browser gives the cart up.
BeaconReads(o) ==
  /\ order[o] = "PENDING"
  /\ Begin("beacon", o)
  /\ UNCHANGED <<dbVars, expired, pi, eventVars, requestVars, sawProcessing>>

\* cancelStalePendingCarts, after another order of the buyer was finalized.
SiblingScans(o) ==
  /\ order[o] = "PENDING"
  /\ \E p \in Orders \ {o} : order[p] = "SUCCEEDED" /\ linked[p]
  /\ Begin("sibling", o)
  /\ UNCHANGED <<dbVars, expired, pi, eventVars, requestVars, sawProcessing>>

\* payment_intent.payment_failed: an order already closed needs nothing.
OnPaymentFailed(o, again) ==
  /\ Taken(o, "payment_failed", again)
  /\ IF IsOpen(o)
       THEN Begin("failed", o)
       ELSE UNCHANGED task
  /\ UNCHANGED <<dbVars, expired, pi, dlq, requestVars, sawProcessing>>

\* An order read with no PaymentIntent has nothing to settle, except that the
\* webhook settles the one its event names.
NeedsProcessor(c) == task[c].observed \/ c = "failed"

\* The order may be cancelled: its PaymentIntent is dead, or it had none.
TaskSettles(c) ==
  /\ task[c].at = "read"
  /\ IF NeedsProcessor(c) THEN ProvenDead(task[c].order) ELSE UNCHANGED pi
  /\ task' = [task EXCEPT ![c].at = "settled"]
  /\ UNCHANGED <<dbVars, expired, eventVars, requestVars, sawProcessing>>

\* The PaymentIntent is paid or being paid: the order is left alone.
TaskRefused(c) ==
  /\ task[c].at = "read"
  /\ NeedsProcessor(c)
  /\ StillAlive(task[c].order)
  /\ task' = [task EXCEPT ![c] = IdleTask]
  /\ UNCHANGED <<dbVars, expired, eventVars, requestVars, sawProcessing>>

\* The processor does not answer.  Only the webhook holding a PROCESSING
\* order keeps its event, because no reaper looks at such an order.
TaskUnreachable(c) ==
  /\ task[c].at = "read"
  /\ NeedsProcessor(c)
  /\ Unreachable(task[c].order)
  /\ dlq' = IF c = "failed" /\ task[c].from = "PROCESSING"
              THEN [dlq EXCEPT ![task[c].order] = @ \union {"payment_failed"}]
              ELSE dlq
  /\ task' = [task EXCEPT ![c] = IdleTask]
  /\ UNCHANGED <<dbVars, expired, inbox, requestVars, sawProcessing>>

CasWins(c) ==
  LET o == task[c].order IN
  IF task[c].from = "PROCESSING"
    THEN order[o] = "PROCESSING"
    ELSE CanCancelPending(o, task[c].observed)

\* The transaction: cancel and release, or find the order moved on.
TaskCommits(c) ==
  /\ task[c].at = "settled"
  /\ IF CasWins(c) THEN ReleaseRetiredCartHolds(task[c].order)
                   ELSE UNCHANGED dbVars
  /\ task' = [task EXCEPT ![c] = IdleTask]
  /\ UNCHANGED <<expired, pi, eventVars, requestVars, sawProcessing>>

\* The canceller throws or dies.  The webhook's event is dead-lettered, or
\* delivered again because it was never answered.
TaskDies(c) ==
  /\ task[c].at # "idle"
  /\ task' = [task EXCEPT ![c] = IdleTask]
  /\ IF c = "failed"
       THEN LET o == task[c].order IN
            \/ Emit(o, "payment_failed") /\ UNCHANGED dlq
            \/ /\ dlq' = [dlq EXCEPT ![o] = @ \union {"payment_failed"}]
               /\ UNCHANGED inbox
       ELSE UNCHANGED eventVars
  /\ UNCHANGED <<dbVars, expired, pi, requestVars, sawProcessing>>

-----------------------------------------------------------------------------
CheckoutStep(o) ==
  \/ \E p \in Orders \union {NoOrder} : StartCheckout(o, p)
  \/ ReadCart(o) \/ SettleCart(o) \/ ResettleCart(o)
  \/ CommitCheckout(o) \/ CommitCovered(o) \/ RefuseCheckout(o)
  \/ CreatePaymentIntent(o) \/ LinkPaymentIntent(o) \/ LinkLost(o)
  \/ Respond(o) \/ UnwindPaymentIntent(o) \/ UnwindOrder(o)
  \/ CheckoutDies(o)

ProcessorStep(o) ==
  \/ PayByCard(o) \/ DeclineCard(o) \/ PayByBank(o)
  \/ BankSettles(o) \/ BankReturns(o)

ServerStep(o) ==
  \/ \E again \in BOOLEAN :
       OnProcessing(o, again) \/ OnSucceeded(o, again)
         \/ OnPaymentFailed(o, again)
  \/ \E e \in EventTypes : DeadLetter(o, e) \/ ReplayDlq(o, e)
  \/ ConfirmPaid(o) \/ ConfirmReads(o) \/ ConfirmMarks(o)

CancelStep ==
  \/ \E o \in Orders : Expire(o) \/ ReaperScans(o) \/ BeaconReads(o)
                         \/ SiblingScans(o)
  \/ \E c \in Cancellers : TaskSettles(c) \/ TaskRefused(c)
                             \/ TaskUnreachable(c) \/ TaskCommits(c)
                             \/ TaskDies(c)

Next ==
  \/ \E o \in Orders : CheckoutStep(o) \/ ProcessorStep(o) \/ ServerStep(o)
  \/ CancelStep

Spec == Init /\ [][Next]_vars

(***************************************************************************)
(* Fairness.  A delivery attempted for ever is handled in the end, and an  *)
(* operator empties the dead-letter queue; the cron runs the reaper, and   *)
(* the processor and the database do not refuse every call for ever.  A    *)
(* bank debit settles or is returned.  Nothing makes a buyer pay, a tab    *)
(* send its beacon, or a crashed checkout come back.                       *)
(***************************************************************************)
Fairness ==
  /\ \A o \in Orders :
       /\ SF_vars(OnSucceeded(o, FALSE))
       /\ SF_vars(OnProcessing(o, FALSE))
       /\ SF_vars(OnPaymentFailed(o, FALSE))
       /\ \A e \in EventTypes : WF_vars(ReplayDlq(o, e))
       /\ WF_vars(BankSettles(o) \/ BankReturns(o))
       /\ WF_vars(ConfirmMarks(o))
       /\ WF_vars(Expire(o))
       /\ WF_vars(CheckoutStep(o) /\ at[o] # "idle")
       /\ SF_vars(ReaperScans(o))
  /\ \A c \in Cancellers :
       /\ WF_vars(TaskSettles(c) \/ TaskRefused(c) \/ TaskUnreachable(c))
       /\ SF_vars(TaskSettles(c))
       /\ SF_vars(TaskCommits(c))

FairSpec == Spec /\ Fairness

-----------------------------------------------------------------------------
(* Correctness.                                                            *)

\* A browser that was given a client secret can confirm the payment at any
\* later moment, so an order may be cancelled only once its PaymentIntent is
\* proven dead: a charge never lands on a cancelled order.
CancelledIsDead ==
  \A o \in Orders : order[o] = "CANCELLED" /\ SecretOut(o) => pi[o] = "canceled"

\* Platform credit is debited when the order is written.  Whoever cancels the
\* order gives it back in the same transaction, so no credit is ever pinned to
\* an order that nobody will revisit.
CreditNotStranded ==
  \A o \in Orders : credit = o => IsOpen(o) \/ order[o] = "SUCCEEDED"

PhaseOf(status) ==
  CASE status = "NONE" -> "none"
    [] status \in {"PENDING", "PROCESSING"} -> "open"
    [] status = "SUCCEEDED" -> "fulfilled"
    [] OTHER -> "void"

Abstract == INSTANCE Purchase WITH
  phase <- [o \in Orders |-> PhaseOf(order[o])],
  charged <- {o \in Orders : pi[o] = "succeeded"}

\* Whatever the request, the webhook, the confirm call and the cancellers do to
\* one another, the buyer sees a purchase: charged only while it is open,
\* fulfilled only when charged, never voided after the charge.
ImplementsPurchase == Abstract!PurchaseSpec

\* Money taken becomes tickets, through lost confirm calls, failed handlers and
\* events that arrive twice or in the wrong order.
PaidIsFulfilled ==
  \A o \in Orders : pi[o] = "succeeded" ~> order[o] = "SUCCEEDED"

\* No order stays PENDING, and so no inventory stays held, for ever: not even
\* when its checkout died between the transaction and the link.
PendingResolves ==
  \A o \in Orders : order[o] = "PENDING" ~> order[o] # "PENDING"

\* The webhook's payment_failed branch answers 200 for an order it leaves
\* PENDING, because the expired-cart reaper will look at that order again.  So
\* an order whose failed payment was answered, and is dead, must end.
AnsweredFailureEnds ==
  \A o \in Orders :
    ( /\ order[o] = "PENDING"
      /\ pi[o] = "canceled"
      /\ "payment_failed" \notin inbox[o] \union dlq[o]
      /\ task["failed"].at = "idle" ) ~> ~IsOpen(o)

-----------------------------------------------------------------------------
(***************************************************************************)
(* Why CancelledIsDead holds: the inductive invariant of CheckoutProofs.   *)
(***************************************************************************)

\* Only a browser that was answered can move money.
PaymentNeedsSecret ==
  \A o \in Orders : pi[o] \in {"processing", "succeeded"} => SecretOut(o)

\* The secret is answered after the link CAS, which only a live order wins.
SecretNeedsLink ==
  \A o \in Orders : at[o] \in {"linked", "responded"} => linked[o]

\* Cancelling an order whose link was won needs a dead PaymentIntent, even
\* before the secret is out.
LinkedIsDead ==
  \A o \in Orders :
    order[o] = "CANCELLED" /\ at[o] \in {"linked", "responded"}
      => pi[o] = "canceled"

\* Tickets were paid for by money, or by credit.
TicketsArePaid ==
  \A o \in Orders :
    order[o] = "SUCCEEDED" => at[o] = "covered" \/ pi[o] = "succeeded"

\* Events report what has happened, in whatever order they arrive.
EventsAreTrue ==
  \A o \in Orders :
    "succeeded" \in inbox[o] \union dlq[o] => pi[o] = "succeeded"

\* What a canceller learnt from the processor is still true when it commits.
SettledStaysDead ==
  \A c \in Cancellers :
    task[c].at # "idle" =>
      /\ task[c].order \in Orders
      /\ c # "failed" => task[c].from = "PENDING"
      /\ task[c].at = "settled" /\ NeedsProcessor(c)
           => pi[task[c].order] = "canceled"

\* The same for the cart that a checkout is about to supersede.
CartStaysDead ==
  \A o \in Orders :
    /\ carry[o].cart # o
    /\ at[o] \in {"reading", "settling"} => carry[o].cart \in Orders
    /\ at[o] = "settling" => ~carry[o].settled
    /\ at[o] = "ready" /\ carry[o].cart # NoOrder /\ carry[o].settled
         /\ carry[o].observed => pi[carry[o].cart] = "canceled"

\* An order row exists from the commit of its checkout on, and a PaymentIntent
\* only after that.
OrderBeforePayment ==
  \A o \in Orders :
    /\ at[o] \in BeforeOrder => order[o] = "NONE"
    /\ order[o] = "NONE" => at[o] \in BeforeOrder \union {"failed"}
    /\ at[o] \in BeforeOrder \union {"committed", "covered"} => pi[o] = "none"

\* What holds between an order, its request and its PaymentIntent.
PaymentInv ==
  /\ PaymentNeedsSecret
  /\ SecretNeedsLink
  /\ LinkedIsDead
  /\ TicketsArePaid
  /\ EventsAreTrue
  /\ OrderBeforePayment

\* What the processes that read before they write may still rely on.
KnowledgeInv == SettledStaysDead /\ CartStaysDead

CheckoutInv == TypeOK /\ PaymentInv /\ KnowledgeInv
=============================================================================
